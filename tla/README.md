# Verification of NimbusNet

TLA+ models, TLC runs and TLAPS proofs about NimbusNet: a data plane of eBPF
agents, an ML scoring service, a Go control plane that drains and restores
regions, an SRE service that runs runbooks, and the chaos tooling that tests
them. The models are written from the code; where a document says something else,
the code wins and the difference is noted under *Findings* or *Divergences*.

Contents: [inventory](#inventory), [modules](#modules), [runs](#runs),
[bounds](#bounds), [fairness](#fairness), [proofs](#proofs),
[findings](#findings), [divergences](#other-divergences-met-on-the-way),
[not modelled](#not-modelled), [plan](#plan).

## Inventory

### Control plane (phase 4, `control-plane-04/controlplane`, Go)

| part | state | operations | talks to |
|---|---|---|---|
| controller (`controller.go`) | one FSM per region, count of consecutive CRITICAL signals | `Run` (metric, FSM ticker), `Ingest`, `NotifyRunbook*`, `ManualOverride`, the enter actions of `wireActions` | everything below |
| state machine (`statemachine/fsm.go`) | current state, deadline, one mutex | `Send`, `CheckTimeouts`, `transition` | runs the controller's enter actions under its mutex |
| traffic shaper (`trafficshaper/shaper.go`) | current and target weight, rate and hard-fail flag of each region, one lock | `OnDegraded`, `OnFailed`, `OnRecovering`, `OnHealthy`, `UpdateBanditWeights`, `ForceWeight`, the tick loop | calls the route table back with normalised weights |
| route table (`routetable/manager.go`) | cached weights, EC2 routes | `FailoverRegion`, `UpdateWeights` | EC2 |
| Route 53 client (`route53/client.go`) | none; a DynamoDB lock item and DNS records outside | `DrainRegion`, `RestoreRegion`, `acquireLock`, `releaseLock` | Route 53, DynamoDB, agents of other regions |

Hard: three kinds of goroutine touch a region (main loop, callers of the
notification methods, tick loop); a metric is processed in three steps between
which the state moves on; AWS calls of several seconds are made under the state
machine's mutex; weights are handed to the route table from a snapshot; the
controllers of several regions meet in a lock that lapses.
Correct means: the weight policy follows the state machine, traffic comes back
only through recovery, the AWS calls of a region keep the order of its
transitions, no region stays in a timed state, the loops never hang, and two
agents change a region's record at once only if a lock lapsed.

### Agent (phase 2, `ebpf-detection-02`, C and Go)

| part | state | operations |
|---|---|---|
| hash ring (`agent/internal/ring/ring.go`) | virtual nodes, sorted hashes | `New`, `AddPeer`, `RemovePeer`, `Owner` |
| event bus (`telemetry/bus.go`) | three bounded channels | `TryPushFlow`, `TryPushTCP`, `Run` |
| aggregator (`telemetry/aggregator.go`) | table of flow accumulators with a limit | `ingestFlow`, `ingestTCP`, `flush` |
| healthz (`healthz/server.go`) | draining flag, set at the agent's shutdown | `SetDraining`, handlers |
| BPF probes (`bpf/*.c`) | per-flow maps in the kernel | packet and socket hooks |

Hard: agents never talk to each other, so that ownership of flows must come out
equal everywhere; buffers that drop, tables that evict. Correct means: every
flow has a live owner, the same at all agents that know the same peers, and a
change of membership moves only the flows it must.

### ML intelligence (phase 3, `ml-intelligence-03`, Python)

| part | state | operations |
|---|---|---|
| scoring pipeline | two models that retrains replace, an LSTM window per flow with a limit, the last RTT of a region | `score`, `reset_flow` |
| bandit | an arm per region | `recommend_weights`, `observe` |
| flywheel | buffer of 100 samples, JSONL store, counters | `ingest_*`, `load_training_arrays`, `should_retrain` |
| retrainer | lock, history, saved models | `retrain`, `maybe_retrain` |
| service | none | `/score`, `/flywheel/ingest`, `/models/retrain` |

Hard: a retrain runs on a worker thread and shares the sample buffer and the
models with the event loop, without a lock; samples live in memory until they
are flushed; two models are swapped and saved one after the other; any write may
fail and the process may die. Correct means: no sample is lost or stored twice
but by the race or the faults that explain it, the models that serve and the
files they restart from belong together, what the history says was done was
done, windows of flows do not mix, and the adjustments of an answer are safe.

### SRE operations (phase 5, `sre-operations-05`, Python)

| part | state | operations |
|---|---|---|
| incident manager | active incident of each region, all incidents, a JSON file each | `open`, `record_*`, `resolve`, `_persist`, `_load_active` |
| runbook executor | thread of each region, shared step objects | `execute_for_incident`, `_run`, `_finish` |
| server | none | `/fsm/degraded`, `/fsm/failed`, `/fsm/healthy`, ack, resolve, post-mortems |
| post-mortem generator | counter, files | `generate` |
| notifier, library, control plane client | none | messages, constants, POSTs |

Hard: the event loop and the threads of the runs share the incident manager;
reports between the services are HTTP calls; state survives in files.
Correct means: every region that fails has an escalated incident, incidents end
when their fault does, resolved ones stay resolved, nothing is forgotten by a
restart but for a failed save or an id that two incidents share, one runbook at a
time works on a region.

### Chaos and integration (phases 6 and 7, Python)

| part | state | operations |
|---|---|---|
| qdisc injector | the active session, a monitor thread per session, a kernel qdisc, a label file per session | `inject`, `clear`, `wait_for_healing` |
| chaos runner, game day | results, gate | suites, multi-phase sessions |
| flywheel bridge | processed ids, in memory and in a log | poll, POST, mark |
| budget enforcer | none | one threshold check |
| game day control | one signal file, one control file | abort, pause, resume, skip |

Hard: the monitor of a session and the thread of the suite clear the same
session, each at its own deadline; the bridge and the ML service meet over HTTP
with a crash or a lost answer in between. Correct means: no rule outlives its
session but one that `tc` did not remove, no session loses its fault to the clear of
another, a label is written once, a run comes to its end, no record is taken for
processed that was not accepted, and none that is logged is sent again.

### Interactions

Agents publish metrics to the ML service; scored metrics reach the controller's
`Ingest`; the controller drains through Route 53 and the route tables and is
meant to report its transitions to the SRE service; runbook threads POST their
progress back; chaos results flow to the flywheel. Two of these links have an
end that is missing in the repository: nothing in the control plane calls the SRE
endpoints, and `cmd/main.go` serves no `/api/fsm/*`. SREOperations models the
protocol as the two sides' code and comments fix it; with the control plane's
routes absent every POST is the failing case of the model.

## Modules

| module | models | from |
|---|---|---|
| `RegionFSM` | states, events, transition table | `statemachine/fsm.go` |
| `TrafficShaper` | the operations on one region's weight, as operators | `trafficshaper/shaper.go` |
| `ControlPlane` | the composition: main loop, callers, tick loop, AWS calls, restart | `controller.go`, `fsm.go`, `shaper.go`, `manager.go`, `client.go` |
| `MCControlPlane` | symmetry for TLC | |
| `TrafficShaperProofs`, `ControlPlaneProofs` | theorems | |
| `DrainLock` | `DrainRegion` and `RestoreRegion` of several agents around the DynamoDB lock | `route53/client.go` |
| `Lease` | the abstract specification of that lock | what `client.go:249` promises |
| `DrainLockProofs` | theorems | |
| `HashRing` | rings of several agents | `ring/ring.go` |
| `MCHashRing` | virtual nodes and peer lists for TLC | |
| `HashRingProofs` | theorems | |
| `Scoring` | windows, arms, and how four answers become a verdict | `scoring_pipeline.py`, `bandit.py`, `lstm.py`, `xgboost_classifier.py` |
| `Learning` | extends `Scoring`: the flywheel, the retrain and the scores beside it, failures and restart | `flywheel.py`, `retrainer.py`, `serving.py`, `isolation_forest.py` |
| `MCScoring`, `MCLearning` | RTTs, the models' answers, symmetry for TLC | |
| `ScoringProofs`, `LearningProofs` | theorems; the second extends the first as `Learning` extends `Scoring` | |
| `SREOperations` | incidents, runs, endpoints, files; its state machine is `RegionFSM` | `incident_manager.py`, `executor.py`, `server.py`, `phase4_client.py` |
| `IncidentBook` | the abstract specification of the incident manager | what `incident_manager.py` keeps, writes and reads back |
| `MCSREOperations` | instances for TLC | |
| `SREProofs` | theorems | |
| `ChaosInjection` | injector, monitors, suite or game day, bridge | `qdisc_injector.py`, `chaos_runner.py`, `gameday.py`, `bridge.py` |
| `MCChaosInjection` | suites for TLC | |
| `ChaosProofs` | theorems | |

Operators marked *Mutant of X* are plausible wrong versions of `X`; a check
replaces `X` by them and expects the property named for it to break. No
specification uses them.

### ControlPlane and the code

`state` is `RegionFSM.current`; `weight` the shaper's `RegionWeight`;
`criticalCounts` the controller's map; `mutex[r]` is the state machine's lock with
its holder and the AWS call made under it; `loop` and `tick` are the program
counters of the two loops. `upsert` and `hop` are what AWS holds.
`ReceiveMetric`, `Decide` and `LoopSend` are the three atomic parts of
`processScoredMetric` (bandit update; `fsm.Current()` and the decision;
`fsm.Send`). `CheckTimeouts` is one region of the FSM ticker: the model has no
clock, a timed state may time out at any tick. `CallerSend` is `NotifyRunbook*`
and `ManualOverride`, whose target state the code ignores. `Transition` is
`transition` with the enter action's shaper call; its AWS call follows as
`Upsert`, or `SelectNextHop` and `Reroute`, before the mutex is free again.
`ShaperTick`, `ReadWeights`, `UpdateWeights` are `tick`, `NormalisedWeights` and
the callback. `ForceRegion` is the shaper's `ForceWeight`, a public method no
code of the repository calls. Normalisation is left out of the cached weights:
it scales them alike, and the table is only compared and tested for zero.

Weights are integers `0 .. FullWeight` where the code has floats in [0, 1]; `Epsilon` is
the 0.001 of the code on that scale. Rates are differences per tick by truncating
division, which keeps their sign or makes them zero as a tiny float step does against
`Epsilon`: periods of at most `Epsilon` ticks make the distance that truncation loses
one the code ignores as well. The duration of a decay, ramp or bandit move is a number
of ticks.

### DrainLock, Lease and the code

`table[k]` is the owner of the lock item of key `k` and `valid[k]` whether its
`expires_at` is yet to come, for the clock of whoever looks: the model has no clock
and no skew, a lock may lapse at any step and stays lapsed. `call[<<a, r>>]` is the call
of agent `a` for region `r`; a controller has at most one (`CallMatchesState` of
ControlPlane). `Acquire` is the conditional put; its request
may fail for good, or be carried out and sent again by the SDK (`AcquireUnanswered`).
`Release` is the conditional delete: `client.go:304` names the attribute `owner`, a
reserved word of DynamoDB, without a placeholder, so that `MayDelete` is never true and
the item stays (finding 5). `MayDelete` keeps the condition the code means beside
`ReservedWords`, so that the model says what would pass without that word. A put
whose condition fails ends the call, with an error instead of the nil the code means
to return (see the divergences): for the lock both are the same. `Die` ends all
calls of an agent and leaves its items.

`Lease` says what the lock promises and no more: nobody takes a lease while another
runs, nobody's is given back while its holder is in the section, and every lease ends,
here by its lapse alone. `ImplementsLease` maps the items to leases and the calls
between put and release (`Changing`) to the section. It does not promise exclusion, and
the lock does not give it: `ExclusiveUntilLapse` says when it does.

### HashRing and the code

One ring for each agent. A virtual node's hash is abstracted to `Points[p]`, the
positions a peer hashes to, among which two peers may share some: `addPeer` then
overwrites the entry, and `RemovePeer` deletes entries by their owner.
`sortedHashes` is rebuilt from the map by every method. `member` remembers what
the agent was told. The ring of the repository's agent is built once from its
configuration; `AddPeer` and `RemovePeer` are its public methods ("safe to call at
runtime") without a caller yet.

### Scoring, Learning and the code

`flows` is the order of the keys of `_flow_lstms`, `window[f]` the numbers of the
metrics of `f` in its deque. `Push` is `_get_flow_lstm` with `push`, `Decide` the steps 5
and 6 of `score` in the order of their exceptions: every score samples every arm
first. `Classify`, `Confidence` and `Failover` are the adjustments after the models
answered; the answers are chosen from a set at which an adjustment could turn the
verdict, probabilities in hundredths. `seen` and `scored`, which no step of the code
reads, count the metrics of a flow and of all: `scored` is what the bound `MaxScores` stops.

`flush[t]` is the position of thread `t` in `_flush_buffer`: the number of the next
element of the list, or `Written` between the close of the file and the `clear`. Both
threads run it on one list. `store[s]` counts the readable lines of a sample; two
flushes at once may mix their bytes. `rt.at` is the place in `_run_retrain`, whose lock
is held while it is not idle. `Load` and `Split` are the two reads of the store, each
after a flush of its own. `Train` is split, training, validation and gate: the gate
passes or not, but for the one comparison whose outcome the code fixes (an untrained
forest scores 0.0). `SwapForest`, `SwapXgb`, `SaveForest`, `SaveXgb`, `UpdateStats` are
the assignments and writes that follow, one by one. `SaveFails` ends the retrain with a
failure after the swap. `Finish` is the return of the lock (`retrainer.py:129`) and the
entry in the history (`retrainer.py:131`) in one step: that another retrain ends between
the two, and the entries of both change places, is left out. A score is `BeginScore`
(forest), `ClassifyMetric` (window, classifier, bandit, decision) and `Report` (the
versions read at the end); coroutines without an await, so that one handler runs at a
time beside the worker. What these three reads of one answer saw is not compared: beside
a swap they may differ, which `OneGeneration` bounds but does not forbid. `Restart`
loads the saved models; the repository has no start-up code for the service, and this is
the only way to get models that its classes offer. `CountsOnlyNewSamples` is an upper
bound: samples that come in while a retrain works are not counted (see the divergences).
Assumed: the AUPRC of a fitted forest is above the gate's 0.01, all samples have the
confidence both reads ask for (0.70), baseline samples are NOMINAL and the others
DEGRADED.

### SREOperations and the code

`incident`, `active`, `known` are the `Incident` objects, `_active` and `_all`; `disk`
is the status in each file. An id is a second and six characters of the region's name
(`incident_manager.py:38`), and is the key in `_all` and the name of the file: `stamped`
are the ids given within the second, `Ids` lets an incident have one of these if a region
whose name begins alike (`Short`) got it, and `SecondPasses` ends the second. Two
incidents with one id share a place in `_all`, which the later one takes, and a file,
which holds whichever was saved last (`Written`). An incident stands for its id when it
is the first to have it. The endpoints are coroutines without an await before
their end, so that each is one step of the event loop, except `fsm_degraded`,
which is two (`Degraded`, `Execute`) because it leaves the incident manager's
lock before it calls the executor and threads run in between. `run[k]` is the
thread of a run: `Start`, `Top`, `ExecuteStep`, `Judge` follow `_run`; `Record`,
`Notify`, `Pop` are `_finish`, which runs twice if `again`: the early returns of
`_run` call it and so does `finally`. Step objects are module-level constants of
the library, hence `stepFailed` is shared. `Save` is `_persist`, whose file may
stay old or be left half written. `Restart` is `_load_active`: files in any order,
without escalation and result. `FSMMoves` and `Receives` are the control plane's
side, one report for each entered state, delivered in order, repeated by
`DeliverTwice`, lost by `Lose`.

`IncidentBook` says what the incident manager promises, whatever is reported to it and
in whatever order: a region has at most one entry in front, only that one is written, a
new entry displaces none but a mitigated one, and a crash gives back every unsettled
entry and alters none, except those that were spoilt while they were written. Names may
collide, as the code's ids do, and namesakes may be missed. It knows no reports, runs,
files or threads. `ImplementsBook` maps the `Incident` objects to entries (`BookOf`),
`_active` to the front, ids to names and the incidents whose save failed to the spoilt
ones. The book does not promise that every entry is closed in the end: one that a
mitigated front left behind is not in the front of any region, in the code as in the
book, until a crash brings it there. Left out as data: timestamps, severities, ML
context, the result string, the runbook's choice, rollback commands, Slack and PagerDuty
messages. Never happening in the code as it is, and so not in the model: SKIPPED
(`_check_preconditions` returns True) and a failed final verification
(`_run_final_verification` returns True).

### ChaosInjection and the code

`main` is the thread of the suite or game day, `monitor[s]` the monitor of session `s`,
`clearing[t]` the place of thread `t` in `clear`: `Begin` is its part under the lock,
`Delete` the `tc qdisc del`, `Open` and `Write` the label, whose resolution is fixed
when the file is opened. `rule` is the one qdisc rule of `eth0`, the interface that
every profile names; `interface` is the injector's own, of which `clear` removes rules:
`eth0` by default, `veth0` in CI (`chaos.yaml:4`), where `clear` never reaches the rule.
A failing `tc qdisc del` is ignored (`DeleteFails`; `qdisc_injector.py:165`). `left`
remembers the sessions whose `clear` went on without removing their rule, `late` those
whose removal was still ahead after a pause; no step reads either. `Start` is `inject`
under its lock, `Apply` the rest, which removes whatever rule is there first. `TimesOut`
is `wait_for_healing`: the flag it waits for is set nowhere, so that its deadline is its
only end.

There is no clock. A monitor expires at the session's duration, or up to `Check` (5 s)
later since it sleeps between its looks; the runner at its timeout, a phase at its
duration. `MonitorPassed` and `RunnerPassed` keep the order of two deadlines that are
further apart than that, and leave it open otherwise. Assumed, and named `Settled`:
the pause between sessions (10 s in a suite, 5 s in a game day) outlasts the few
instructions from a monitor's look at the session through the lock of its `clear`. It
need not outlast what `clear` does then: `subprocess.run` (`qdisc_injector.py:230`) has no
timeout, so that a monitor's `tc qdisc del` may come after the next session began and
take that session's rule (`late`). Mutating `Settled` to no pause breaks `RulesHaveASession`
and `FaultLastsItsSession`: the code is right by its pauses, not by its lock. The process
ends with its suite (`Exit`), and its monitors, which are daemons, wherever they are.

The bridge is a process of its own: `Pick`, then `Accept` or `Refuse`, then `Mark`. The
service may take a record and answer with an error, since it appends the sample to its
buffer (`flywheel.py:283`) before the flush that raises (`TakenThenRefused`). An
answer that does not come in time raises an exception that is no `URLError` and ends
the polling thread (`AnswerLost`). `BridgeStop` is the planned stop, which waits five
seconds for a thread whose POST may take ten, `BridgeDies` the unplanned one;
`BridgeRestart` reads the log up to its first bad line.

## Runs

| run | checks | shows |
|---|---|---|
| `region` | `TypeOK`, `WeightMatchesState`, `RatePointsToTarget`, `NoTrafficRaiseWhileUnhealthy`, `FullTargetNeedsRecovery`, `TimedStatesEnd`, `LoopComesBack`, `WeightsSettle` | one region under all metrics, advice, forced weights, callers, timeouts and a crash: the weight follows the state machine whatever interleaves; timed states end, the loop comes back, weights come to rest |
| `regions` | `CallMatchesState`, `LoopHoldsOneMutex` | two regions sharing the loops: drains, restores and failovers come in the order of the transitions and the loop never holds two locks |
| `healthy_weight` | `HealthyIsNotHardFailed`, violated | finding 1 |
| `ring` | `OwnersAreMembers`, `DisagreeOnlyAtCollisions`, `RemovalIsLocal`, `AdditionIsLocal` | two agents whose rings change in any order |
| `sre` | `TypeOK`, `HealthyMeansResolved`, `FailedIsEscalated`, `ResolvedIsFinal`, `IncidentsSurvive`, `ImplementsBook` | incidents under lost, repeated and failed messages, ids shared within a second, a failed save and a restart; the manager keeps the book of `IncidentBook` |
| `one_run` | `OneLiveRunPerRegion`, violated | finding 2 |
| `learning` | `TypeOK`, `WindowIsSuffix`, `NoFailoverWithdrawn`, `OneGeneration`, `ReportedSwapIsDurable`, `CountsOnlyNewSamples`, `LostOnlyBesideARetrain`, `StoredOnce`, `TrainedStaysTrained` | samples and scores beside a retrain, with failed writes and a restart: what is lost, stored twice, served, saved and counted is only what the race and the faults explain |
| `bandit` | `ArmsStaySampleable`, violated | finding 3 |
| `lock` | `TypeOK`, `ExclusiveUntilLapse`, `ImplementsLease` | three agents around one lock with lapses, lost answers and deaths: it is a lease, and exclusive until it lapses |
| `orphan` | `NoOrphanWithoutFault`, violated | finding 5 |
| `chaos` | `TypeOK`, `RulesHaveASession`, `FaultLastsItsSession`, `ProcessedWasAccepted`, `LabelledOnce`, `LoggedIsNotResent`, `EndsClean` | suites and game days with their monitors and the bridge: which rules may stay, that a session keeps its fault and its label is written once, that runs end, and that no record is skipped or, once logged, sent again |
| `heal` | `HealedIsReported`, violated | finding 4 |

Deadlock is checked except in `sre` and `one_run`, where the bound on incidents
ends every behaviour and where a service that nobody calls does nothing, in
`learning`, whose service does nothing once the samples and metrics of the bounds
are used up, and in `chaos` and `heal`, where a run of a suite ends. `ImplementsLease` is a
temporal property: every step of DrainLock is a step of Lease or a stutter, and
leases end. `ImplementsBook` is the same for SREOperations and IncidentBook, without
fairness.

## Bounds

*Control plane.* One region is enough for the weight policy: regions share no
weight. Two are used where they share the main loop, the tick loop and the route
table. `region` has weights of 0 to 10 with a floor of 2, an `Epsilon` of 2 and a cutoff
of 8, and decays and ramps of two ticks: a weight can stand below, within `Epsilon` of, and
above its target, be retargeted halfway and truncate. Advice is heeded (10) or would
lower (6), a region is forced to 0, the CRITICAL threshold is 2, so that a count can be
interrupted, and `MaxRestarts` 1 allows a crash at every point. The theorems carry the safety
results to all regions, scales and thresholds.

*Ring.* Three peers on six positions, two of them shared between different
pairs, each peer with one of its own; two agents; four peer lists, two of them
permutations of each other. Lookups at every position include the wrap.

*SRE.* One region; two incidents, so that a second is opened while the first
is mitigated, resolved or being recorded, with an id of its own or within the same
second; two reports under way; one step of a
runbook; one incident whose save fails, one restart, one lost report. `sre` has
one run slot (a report that would need another waits), `one_run` two. No
transition is made whose report the bounds could not carry (`Room`): reports are
never lost to a bound. Regions meet in the shared steps, in the slots and in their ids:
with two regions whose names begin alike, one report under way and either region's
names interchanged, the properties of `sre` and `IncidentInv` hold in 2.15 million
states; that instance takes too long to be kept as a run. The theorems hold for any
regions and any `Short`.

*Lock.* Three agents, so that a lock can pass on twice while its first owner is still
at work; one region with its two keys; two faults. Keys of different regions share
nothing. `orphan` needs one agent and no fault.

*Learning.* Two flows and one window (`MaxFlows` 1) of two entries: each flow evicts
the other. Two scores, one region and one RTT, since the arms are the subject of
`bandit`; with two scores a full window does not slide yet, which `Slid` leaves to
Python's deque. Three samples, two of them baseline, a flush at two and a retrain
with two: a retrain with too few samples, one without anomalies, one that cannot be
split, a flush by the event loop into one of the worker, and a sample that arrives
after each of its reads. Two retrains, so that generations can mix, and one fault.
Flows and samples of one severity are interchangeable. A sample is not ingested
again once it is stored: ids are fresh in the code. `bandit` has one region and a
ladder of 23 RTTs from 200 ms to 65 ms, each a little above 95% of the one before.

*Chaos.* A suite of two scenarios of the repository, one whose two deadlines may pass in
either order (`severe_loss_escalation`, 60 s against 60) and one whose monitor is first
(`combined_worst_case`, 60 against 120), and a game day of two phases; the injector's
interface is the profiles' or another; two faults over
injector and bridge together, and one planned stop of the bridge: a torn line, a second
record and a restart fit into them. `heal` needs one scenario and no fault.

## Fairness

`FairSpec` of ControlPlane: weak fairness of each AWS call (SDK calls return or
time out) and of the three steps of the tick loop; strong fairness of `Decide`,
`LoopSend` and `CheckTimeouts(r)`. The main loop waits for mutexes that callers
take and free again for ever, and Go's mutex hands itself to a waiter that has
starved for a millisecond; its `select` draws at random among ready cases, so
that metrics cannot keep the FSM ticker out. Nothing is assumed of metrics, of
callers, of SREs or of crashes: what ends a timed state is the timeout alone. Crashes are
bounded, since a process that dies again and again makes no progress. `WeightsSettle` is
about regions that are HEALTHY from some time on and whose weight no SRE forced.

`Spec` of ChaosInjection: weak fairness of the suite's thread, of each `clear` and of
each monitor: threads are scheduled, sleeps and deadlines pass, `tc` and file writes
return in the end, though perhaps after the pause they are in. Nothing is assumed of the
bridge or of faults, and `EndsClean` excepts a killed process and the rules that a
`clear` left or was late for, which nobody removes. `Spec` of DrainLock and of Lease: weak
fairness of `Lapse`, which is time passing; no agent need ever go on.

## Proofs

All theorems hold for every value of the constants under the named assumptions
`WeightAssumption` (`TrafficShaper`: 0 < floor < bandit cutoff < full weight, a
positive Epsilon, periods of 1 to Epsilon ticks), `ControlPlaneAssumption` (thresholds are
positive, advice and forced weights lie in the range of weights),
`RingAssumption` (positions are naturals, the owner of nothing is no peer),
`DrainLockAssumption` (faults are bounded by a natural number, and the owner of no lock
is no agent), `SREAssumption` (a runbook has a step, the bounds are naturals, and what
stands for nothing is no incident, slot, region or state), `ScoringAssumption` (RTTs are
naturals, a window has a place, there is a window), `LearningAssumption` (the samples are
finite in number, the two limits are positive) and `ChaosAssumption` (a suite is a sequence
of scenarios no longer than the bound on sessions). Regions, incidents, slots, flows,
samples, suites, sessions, retrains and faults are otherwise any.

*Control plane.* `TypeOK` is not inductive alone: a rate could carry a weight out
of its range. `WellTyped` = `TypeOK` and `RatePointsToTarget` is; the shaper's
lemmas (`TrafficShaperProofs`: division keeps signs, a tick stays between weight
and target, each operation leaves a rate that points to its target) carry it
through every action. From it follow `TypeCorrect` and `RatesPointToTargets`;
with it `WeightMatchesState` is inductive (`WeightsMatchStates`): each transition
sets the weight its state asks for, ticks and advice keep `WeightPolicy`.
`CallsInOrder` = `CallMatchesState` and `LoopHoldsOneMutex` is inductive with
`TypeOK`: a transition needs a free mutex, so that a call under way pins the
state (`CallsMatchStates`, `LoopHoldsAtMostOne`). The action properties
`NoTrafficRaiseWhileUnhealthy` and `FullTargetNeedsRecovery` are proved from these
invariants by the actions that can raise a weight or a target
(`TrafficStaysDown`, `TrafficReturnsThroughRecovery`).

*Ring.* `OwnersAreMembers` says nothing of shared positions and is not
inductive. `RingInvariant` is: the sorted hashes are exactly the positions held;
whoever holds a position is a member that hashes to it; a member holds every
position that is its alone. It needs no assumption on collisions.
`OwnPointAssumption` (each peer has a position of its own) is a hypothesis of the
properties, not of the invariant. `KeysOwnedByMembers`,
`AgreementButAtCollisions`, `RemovalsAreLocal` and `AdditionsAreLocal` follow with
lemmas on the lookup: the first position at or after a key in a larger set is
either the one in the smaller set or an added one. The least element of a set of
positions comes from well-founded induction on the naturals.

*Lock.* `TypeOK` is inductive (`TypeCorrect`). `ExclusiveUntilLapse` is not: it does not
say what keeps a second agent out. `HoldsUntilLapse` does: a call at its change has the
item of its key and the item is valid, unless its lock lapsed. A put needs an invalid
item and a delete its owner, and a key names its region (`KeyOfRegion`), so that neither
touches the item of another agent's change; from two holders of one item follows
`ExclusionUntilLapse`. The proof does not use that every delete is refused, and holds for
a client that is put right. `LockIsLease` proves, from `TypeOK` and
`KeyOfRegion`, that Init implies `LeaseInit` and that each action is a `Take`, a `Leave`, a
`GiveBack`, a `LapseOf` or a stutter of Lease: its `LeaseSafety`. The fairness in
`ImplementsLease` stays with TLC.

*SRE.* None of the five properties beside `ImplementsBook` is inductive: they speak of
what a file, a register or a report says, and not of why it is right. `IInv` has three
parts that barely meet. `IncidentInv`: the active incident of a region is its own and
unresolved (`ActiveIsOwn`); one never opened is nowhere (`FreshIsNowhere`); a file
agrees with its incident unless a save failed or it is now the file of another with its
id (`FilesAgree`); an incident whose file says it is unresolved is active or put aside
(`FilesAreActive`); an unresolved incident is known, unless a save failed or its id is
shared (`UnresolvedIsKept`). `RunInv`: a thread at a step has a step. `ReportInv`: the
last report under way is of the state the region is in (`LastReport`). Every method of
the manager is `Open` or one kind of step, `Rewrites`: it sets fields of a region's
active incident, never its region or id, and never takes an escalation back. An id once
shared stays shared (`SharingStays`, `HarmStays`), so that the exceptions of the
properties are stable. From `FilesAgree`, a restart makes of a resolved incident a
resolved one (`ResolutionIsFinal`) and forgets none but one whose file another took
(`UnresolvedSurvive`). From `LastReport`, the report handled last is the one of the
state, after which the incidents are as `HealthyRegionsAreResolved` and
`FailedRegionsAreEscalated` say; no other step undoes that. `BookIsKept` is the
refinement: `Open` is `Enter`, since the front it displaces is unresolved and not open,
so mitigated; a `Rewrites` is `Mitigate`, `Close`, `Spoil` or nothing the book sees,
since no method opens an incident again; a restart is `Recover`, since the file of an
incident that is not spoilt says what the object said, or is a namesake's
(`FilesAgree`). No theorem assumes that ids are new.

*Scoring and learning.* `WindowIsSuffix` says nothing of the number of metrics, which the
type of a window needs: `ScoringInv` adds that a flow has seen no more than were scored
(`SeenAreScored`). `WindowsAreSuffixes` is the theorem about the pipeline alone; the
lemmas on `Push` and `ResetFlow` serve `WindowsStaySuffixes`, where retrains run beside it
and deaths empty the windows. `ArmsWeakenOnSlowRecovery` proves that finding 3 has one
cause: no step lowers a beta but one whose RTT fell by less than 5%.
`TypeInv` ties what the worker has loaded to its place. On it stand three invariants.
`FlushInv`: a flush belongs to a handler or to a load; the buffer holds samples of this
process, each once; what the event loop has passed is in the file unless the worker flushes
too (`PassedIsStored`); what a thread that flushes alone has ahead is not
(`AheadIsNew`). The last two are what makes `ClearBuffer` lose nothing
(`LossesAreExplained`) and `WriteLine` repeat nothing (`SecondLinesAreExplained`).
`ModelInv`: after each assignment and each save the model or the file is the new one
(`SwapsInOrder`); a reported swap is what the files hold while no later swap runs
(`SwappedIsSaved`); a forest that cannot score did not pass the gate against one that can
(`GatePassed`); nothing is under way while the process is down. `ModelsServeTogether`,
`ReportedSwapsLast` and `ServiceIsKept` follow. `CountInv` adds that whatever was loaded or
learnt is in the file (`LearntIsStored`): a sample that is ingested is new to the file, so
new to the classifier, and `CounterIsHonest` counts with the cardinality of finite sets.
`FailoversStand` needs no history: the verdict is made in one step, and
`AdjustmentsAreSafe` holds for any answers of the models.

*Chaos.* `RulesHaveASession` says nothing of sessions without a rule. `InjectorInv` does: only
the current session, which is that of the suite's thread, is active; none is between two
sessions or while the thread is in `clear`; a monitor that expired has the session of the
thread, which is where `Settled` is used; of a session one thread is in `clear`, and it has
no label before (`ClearsAreApart`); a session with a label is over; a rule about to be
removed is that of the thread's session or of one in `late` (`RemovalsAreKnown`). From it
follow `RulesHaveSessions`, `FaultsLast`, `LabelsAreFinal` and `PausesAreClean`, the safety
part of `EndsClean`: in a pause and at the end the interface has no rule but one
that a `clear` left or has yet to remove. Failing deletions and both interfaces are part of
each. `BridgeInv` adds to `ProcessedWasAccepted` that a bridge that runs remembers all a
restart would read (`LoggedIsRemembered`) and that the record in hand was not processed
before (`RecordInHand`): `NothingIsSkipped`, and `LoggedStays`, that what the log
names before its first torn line is never accepted again. `TypeOK` is inductive.

TLC checked each inductive invariant on the instance of its component's run before it was
proved.

*Only model-checked:* liveness, since fairness and ENABLED are out of the prover's reach
(`TimedStatesEnd`, `LoopComesBack`, `WeightsSettle`, `EndsClean`, the fairness part of
`ImplementsLease`), and the violated statements. What a sum over the store gives (`Lines`,
`Loaded`: the numbers of samples that the retrain compares) cannot be proved, since it is
defined by recursion over a set; no theorem needs it, because the models take those
numbers only for their being zero or for a choice that the theorems leave open.

## Findings

1. `HealthyIsNotHardFailed`: MANUAL_OVERRIDE takes a FAILED region to HEALTHY, but
   the enter action restores the weight only from RECOVERED (`controller.go:197`).
   The region is healthy, at the floor and in hard-fail mode, where bandit advice
   skips it.
2. `OneLiveRunPerRegion`: a run that returns early finishes twice; the second time
   it takes its successor out of `_active_runs` (`executor.py:380`), and posts a
   second RUNBOOK_FAILED, which may end the successor's healing.
3. `ArmsStaySampleable`: an RTT that falls by less than 5% is rewarded with more than
   1 (`bandit.py:223`), which takes from the arm's beta. Twenty-one such steps in a
   row, from 200 ms down to 65 ms, leave it below zero; `rng.beta` then raises for
   every score of the process, whatever its region.
4. `HealedIsReported`: `healing_triggered` is never set, so that `wait_for_healing`
   (`qdisc_injector.py:178`) returns False for every session, those labelled HEALED
   too. Every scenario that expects healing fails and no suite passes its gate.
5. `NoOrphanWithoutFault`: the delete of `releaseLock` (`client.go:304`) names the attribute
   `owner`, a reserved word of DynamoDB, without a placeholder: it is rejected every time
   and only logged, and the role has no right to `DeleteItem` besides. Every lock stays
   until it lapses, so that for 60 s after a drain the next drain of that region is refused.
   `client.go:303` says "Only release if we own it".

## Other divergences met on the way

- Control plane: `tick` calls the route table only when a rate moved a weight
  (`shaper.go:304`) though `shaper.go:50` says the weight is written there on every
  tick: weights that are set at once are never pushed, and a snapshot taken before
  a failover may overwrite its zero. `RestoreRegion` of the route table is never
  called (`manager.go:256`); a route that fails to be replaced is "retried on next
  tick" by nothing (`manager.go:137`); the RECOVERED rollback event is never sent
  and a single clean metric, not a window, ends RECOVERED; the next hop is chosen
  without looking at health; `ManualOverride` ignores its target state; the
  manager's map is used by two goroutines without a lock.
- Route 53: contention for the drain lock is reported as an error, since
  `isConditionalCheckFailed` compares the outermost type of a wrapped error, and not
  as "the other agent will handle it" (`client.go:111`). (`control-plane-04/README.md:132`
  says of that case: Logs "another agent is draining". Returns nil.) Keys are per region and per
  operation: the lock does not prevent a "concurrent dual-region drain"
  (`client.go:92`), nor a drain beside a restore of one region, which write the same
  record.
- Ring: two peers sharing a hash belong to whichever was added last (`ring.go:124`),
  so that agents with the same peers may disagree there although `ring.go:4` says
  that "flow ownership is deterministic"; `DisagreeOnlyAtCollisions` shows it is the
  only way they do. With 150 virtual nodes on 32 bits it is rare.
- ML: the "atomic replacement" of the models (`retrainer.py:222`) is two assignments;
  the gate lets a model pass that is up to one percent worse; a save that fails
  after the swap is reported as `models_swapped=False`; samples ingested during a
  retrain are not counted when it zeroes the counter, and `maybe_retrain`, which looks
  at it, has no caller. The SYN_FLOOD hint does not always escalate
  (`xgboost_classifier.py:156`), an unsure CRITICAL becomes DEGRADED and not WARNING
  (`xgboost_classifier.py:166`), and a window too short for the LSTM is sure of UNKNOWN,
  which supports a failover. `ml-intelligence-03/DOCUMENTATION.md:61` says "The
  `DataFlywheel` is thread-safe — the write buffer has its own lock and the JSONL append is
  atomic per line."; there is no lock (`flywheel.py:297`), the worker of a retrain and the
  event loop flush and clear one list, and samples are lost or stored twice by it:
  `LostOnlyBesideARetrain` and `StoredOnce` show that this race and the faults are the only
  ways, not that there are none. The "LRU eviction" of windows (DOCUMENTATION.md:138 and :447)
  evicts the flow that was inserted first, however busy it is (`scoring_pipeline.py:238`).
  `scoring_pipeline.py:39` to 44 import modules beside it which are in `ml/models`; the models
  read them there. Forests are calibrated with an increasing isotonic
  curve although scikit-learn's scores fall with anomaly. `bootstrap.py:52` uses
  `FAULT_PROFILES` before the local import at line 57 binds it. `/models/health`
  computes the status 503 and returns 200. `ScoringPipeline` calls itself thread-safe
  and has no lock.
- SRE: ids collide (`incident_manager.py:38`). An incident opened in the second in which the
  region's last one was opened (and already mitigated or resolved), or one of us-east-2
  opened in the second of one of us-east-1, gets the other's id, its place in `_all` and its
  file. If that one is unresolved, it can no longer be reached by its id and is gone after
  a restart, though no save failed.
  `sre-operations-05/DOCUMENTATION.md:107` says "Incidents are persisted to JSON on every state
  change." and that a restart "reloads them into `_active`", :348 "single corrupted file
  doesn't affect others", and `sre-operations-05/README.md:30` "Crash-recoverable". The
  properties except, on this account, the incidents that share an id (`SharesId`) and no other.
  `incident_manager.py:26` imports a `.types` that is not beside it; the models read
  `sre/types.py`.
  Further: a step past its deadline has status TIMEOUT, which on the last step counts
  as success; a new incident opened while an old run works gets no run, and the
  old run's result; a mitigated incident that is replaced is never resolved;
  escalation is lost on reload; resolving an old incident by hand degrades a
  healthy region; post-mortems can be changed after they are published.
- Chaos: the rules go to `eth0`, which every profile names (`qdisc_injector.py:37`), and
  `--interface` changes only where `clear` looks for them. In CI, which passes veth0
  (`chaos.yaml:4`), every rule stays on eth0 until the next scenario's takes its place,
  the last one for good, although `chaos-ci-gate-06/README.md:65` says "never touches
  the real interface" and DOCUMENTATION.md:23 "The injector never runs against the real
  host interface in CI". A `tc qdisc del` that fails is ignored
  (`qdisc_injector.py:165`), and its session is over all the same, although line 156
  says "Remove all qdisc rules and finalize the session." and `chaos_runner.py:232`
  "Always clean up — never leave qdisc rules in place". Hence the exceptions of
  `RulesHaveASession` and `EndsClean`; `left` names exactly these sessions. `run_single`
  may exit while its monitor is between marking the session inactive and removing the
  rule; a label is also written for a fault that `tc` refused; a label may say HEALED
  for a scenario that timed out; a regression has its 200 ms subtracted twice;
  `severe_loss_escalation` passes or fails with the race of its two deadlines of 60 s;
  three game day scenarios last longer than their `expected_max_healing_ms`.
- Bridge: "Deduplicates via processed log — safe to restart"
  (`chaos-ci-gate-06/README.md:85`) holds for what the log names before its first torn
  line (`LoggedIsNotResent`) and for nothing else: what comes after a torn line is sent
  again after each restart, planned ones too (`bridge.py:169`), and so is a record that
  was posted and not yet marked when the bridge was stopped, or that the service took
  and answered with an error. What it posts is not what `FlyWheelIngestRequest` takes
  (it has no `metric`, `serving.py:81`), and not where the service listens (8080 against
  8001), so that as deployed every record is refused and sent again for ever; a label
  class of 0 counts as missing (`bridge.py:115`).

## Not modelled

The numerical models and feature extraction of phase 3 (floating point; their
answers are left open in Scoring and are the nondeterministic inputs of
ControlPlane), the agent's telemetry (bus and aggregator, which end in a channel
nobody reads) and BPF programs, game day control (its readers have no caller),
metrics endpoints, text generation of post-mortems and notifications, process
wiring, Terraform (`foundation` and `foundation-01` are the same files), dashboards,
compose files, and the end-to-end tests. `PROJECT.json` lists each with its
reason. The proportional assignment of subnets in `UpdateWeights` is abstracted.

## Plan

Done: all components of the inventory that carry the program's logic are modelled and
checked, and every safety property of a run is a theorem. What is left, in this order:

1. An abstract specification of the bridge, delivery at least once of each final label, with
   its liveness under a service that answers.
2. Subnet assignment of `UpdateWeights` as a pure function against its reference
   definition.
