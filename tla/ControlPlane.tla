---------------------------- MODULE ControlPlane ----------------------------
(***************************************************************************)
(* The control plane of one agent                                          *)
(* (control-plane-04/controlplane/controller.go with the state machine,    *)
(* the traffic shaper, the Route 53 client and the route table manager it  *)
(* wires together).                                                        *)
(*                                                                         *)
(* Three kinds of goroutine share the state:                               *)
(*   - the main loop (Run): one scored metric or one timeout check at a    *)
(*     time. A metric updates the bandit weights, then reads the region's  *)
(*     state, then sends an event: three steps, between which the state    *)
(*     may change under it;                                                *)
(*   - the callers of NotifyRunbook* and ManualOverride, one goroutine per *)
(*     call, which send events of their own;                               *)
(*   - the shaper's tick loop, which moves the weights, reads them again   *)
(*     and hands them to the route table manager: three steps as well.     *)
(* RegionFSM.Send holds the region's mutex until the enter actions return, *)
(* AWS call included: `mutex' says who holds it and for which call.        *)
(* A process may die and start again at any time: all of its memory is     *)
(* new, what AWS holds (`upsert', `hop') stays.                            *)
(***************************************************************************)
EXTENDS RegionFSM, TrafficShaper

CONSTANTS Region,          \* the configured regions
          CriticalSignalsThreshold,
          Kind,            \* the classes of scored metric that may arrive
          Advice,          \* the bandit weights a metric may carry
          ForcedWeights,   \* the weights an SRE may force
          MaxRestarts      \* bound on the restarts of the process

\* What processScoredMetric tells apart in a metric, in the order it tests:
\* under MinFailoverConfidence; CRITICAL above 0.70; should_trigger_failover;
\* neither, with an isolation forest score below 0.30; neither, above it.
MetricKind == {"unsure", "critical", "trigger", "clean", "murky"}

ASSUME ControlPlaneAssumption ==
  /\ CriticalSignalsThreshold \in Nat \ {0}
  /\ Kind \subseteq MetricKind
  /\ Advice \subseteq 0 .. FullWeight
  /\ ForcedWeights \subseteq 0 .. FullWeight
  /\ MaxRestarts \in Nat

VARIABLES
  state,           \* RegionFSM.current of every region
  weight,          \* the shaper's RegionWeight of every region
  criticalCounts,  \* consecutive-CRITICAL counter of every region
  loop,            \* where the main loop is
  mutex,           \* RegionFSM.mu: its holder and the AWS call under it
  tick,            \* where the shaper's tick loop is
  tableWeights,    \* Manager.currentWeights
  upsert,          \* the last Route 53 change of every region's record
  hop,             \* the region every region's own CIDRs are routed to
  forced,          \* (history) an SRE weight that no transition replaced yet
  restarts         \* (bound) restarts so far

awsVars == <<upsert, hop>>
tableVars == <<tick, tableWeights>>
vars == <<state, weight, criticalCounts, loop, mutex, tick, tableWeights,
          upsert, hop, forced, restarts>>

Free == [by |-> "nobody", op |-> "none"]
Idle == [at |-> "idle"]

\* Manager.currentWeights holds normalised weights. It is kept here before
\* the normalisation, a scaling of all entries by one factor, which changes
\* neither their order nor which of them are zero.
TableWeights == [Region -> Nat]

Loop == {Idle}
        \cup [at : {"metric"}, region : Region, kind : MetricKind]
        \cup [at : {"send"}, region : Region, event : Event]
        \cup [at : {"blocked"}, region : Region]

Mutex == {Free}
         \cup [by : {"loop", "caller"}, op : {"drain", "restore", "failover"}]
         \cup [by : {"loop", "caller"}, op : {"reroute"}, via : Region]

Tick == {Idle, [at |-> "changed"]} \cup [at : {"apply"}, snapshot : TableWeights]

TypeOK ==
  /\ state \in [Region -> State]
  /\ weight \in [Region -> RegionWeight]
  /\ criticalCounts \in [Region -> 0 .. CriticalSignalsThreshold - 1]
  /\ loop \in Loop
  /\ mutex \in [Region -> Mutex]
  /\ tick \in Tick
  /\ tableWeights \in TableWeights
  /\ upsert \in [Region -> {"none", "drain", "restore"}]
  /\ hop \in [Region -> Region]
  /\ forced \in [Region -> BOOLEAN]
  /\ restarts \in 0 .. MaxRestarts

\* The memory of a new process.
FreshState == [r \in Region |-> "HEALTHY"]
FreshWeight == [r \in Region |-> InitialWeight]
FreshCounts == [r \in Region |-> 0]
FreshMutex == [r \in Region |-> Free]
FreshTable == [r \in Region |-> FullWeight]
NotForced == [r \in Region |-> FALSE]

Init ==
  /\ state = FreshState
  /\ weight = FreshWeight
  /\ criticalCounts = FreshCounts
  /\ loop = Idle
  /\ mutex = FreshMutex
  /\ tick = Idle
  /\ tableWeights = FreshTable
  /\ upsert = [r \in Region |-> "none"]
  /\ hop = [r \in Region |-> r]
  /\ forced = NotForced
  /\ restarts = 0

-----------------------------------------------------------------------------
\* Transitions of a region's state machine.

\* Mutant of EnterWeight: the ramp starts with the runbook.
EnterWeightEarlyRamp(from, to, rw) ==
  CASE to = "DEGRADED" -> OnDegraded(rw)
    [] to = "FAILED" -> OnFailed(rw)
    [] to \in {"HEALING", "RECOVERED"} -> OnRecovering(rw)
    [] to = "HEALTHY" /\ from = "RECOVERED" -> OnHealthy(rw)
    [] OTHER -> rw

\* The shaper call of the enter action of `to'.
EnterWeight(from, to, rw) ==
  CASE to = "DEGRADED" -> OnDegraded(rw)
    [] to = "FAILED" -> OnFailed(rw)
    [] to = "RECOVERED" -> OnRecovering(rw)
    [] to = "HEALTHY" /\ from = "RECOVERED" -> OnHealthy(rw)
    [] OTHER -> rw

\* The AWS call of the enter action of `to'.
EnterCall(from, to) ==
  CASE to = "DEGRADED" -> "drain"
    [] to = "FAILED" -> "failover"
    [] to = "HEALTHY" /\ from = "RECOVERED" -> "restore"
    [] OTHER -> "none"

\* The transitions whose enter action sets the weight anew.
Rewrites(from, to) == to \in {"DEGRADED", "FAILED", "RECOVERED"} \/ from = "RECOVERED"

\* transition: the state and the shaper change, and the mutex stays taken
\* while there is an AWS call to make. AWS errors are logged and swallowed.
Transition(r, to, by) ==
  LET from == state[r]
      op == EnterCall(from, to)
  IN  /\ state' = [state EXCEPT ![r] = to]
      /\ weight' = [weight EXCEPT ![r] = EnterWeight(from, to, @)]
      /\ forced' = [forced EXCEPT ![r] = @ /\ ~ Rewrites(from, to)]
      /\ mutex' = [mutex EXCEPT ![r] =
                     IF op = "none" THEN Free ELSE [by |-> by, op |-> op]]

\* Mutant of LoopAfter: the enter actions run in a goroutine of their own.
LoopAfterAtOnce(r) == loop' = Idle /\ r \in Region

\* The main loop goes on to its next select, or waits for the AWS call.
LoopAfter(r) ==
  loop' = IF mutex'[r] = Free THEN Idle ELSE [at |-> "blocked", region |-> r]

-----------------------------------------------------------------------------
\* The main loop.

\* processScoredMetric up to the confidence gate.
ReceiveMetric(r, k, w) ==
  /\ loop = Idle
  /\ weight' = [weight EXCEPT ![r] = UpdateBanditWeights(@, w)]
  /\ loop' = IF k = "unsure" THEN Idle
             ELSE [at |-> "metric", region |-> r, kind |-> k]
  /\ UNCHANGED <<state, criticalCounts, mutex, forced, restarts>>
  /\ UNCHANGED tableVars /\ UNCHANGED awsVars

\* Mutant of Counted: the threshold does not start the count anew.
CountedWithoutReset(k, s, count) ==
  IF k = "critical" THEN count + 1
  ELSE IF k = "clean" \/ (k = "trigger" /\ s = "HEALTHY") THEN 0 ELSE count

\* The counter after a metric of kind k in state s.
Counted(k, s, count) ==
  IF k = "critical"
  THEN IF count + 1 < CriticalSignalsThreshold THEN count + 1 ELSE 0
  ELSE IF k = "clean" \/ (k = "trigger" /\ s = "HEALTHY") THEN 0 ELSE count

\* The events a metric of kind k leads to in state s.
Decided(k, s, count) ==
  {e \in Event :
     \/ /\ e = "SEVERITY_CRITICAL" /\ k = "critical"
        /\ count + 1 >= CriticalSignalsThreshold
        /\ s \in {"HEALTHY", "DEGRADED"}
     \/ e = "ANOMALY_DETECTED" /\ k = "trigger" /\ s = "HEALTHY"
     \/ e = "HEALTH_VERIFIED" /\ k = "clean" /\ s = "RECOVERED"}

\* processScoredMetric from fsm.Current() to the decision. Current() waits
\* for the mutex; the event is sent later, from the state read here.
Decide ==
  /\ loop.at = "metric"
  /\ LET r == loop.region
         k == loop.kind
         events == Decided(k, state[r], criticalCounts[r])
     IN  /\ mutex[r] = Free
         /\ criticalCounts' =
              [criticalCounts EXCEPT ![r] = Counted(k, state[r], @)]
         /\ \/ \E e \in events : loop' = [at |-> "send", region |-> r, event |-> e]
            \/ events = {} /\ loop' = Idle
  /\ UNCHANGED <<state, weight, mutex, forced, restarts>>
  /\ UNCHANGED tableVars /\ UNCHANGED awsVars

\* fsm.Send by the main loop, in whatever state the region is in by now.
LoopSend ==
  /\ loop.at = "send"
  /\ mutex[loop.region] = Free
  /\ \/ \E to \in State :
          /\ Moves(state[loop.region], loop.event, to)
          /\ Transition(loop.region, to, "loop")
          /\ LoopAfter(loop.region)
     \/ /\ Ignored(state[loop.region], loop.event)
        /\ loop' = Idle
        /\ UNCHANGED <<state, weight, forced, mutex>>
  /\ UNCHANGED <<criticalCounts, restarts>>
  /\ UNCHANGED tableVars /\ UNCHANGED awsVars

\* CheckTimeouts of one region on the FSM ticker, its timeout passed. The
\* model keeps no clock: a timed state may time out at any tick.
CheckTimeouts(r) ==
  /\ loop = Idle
  /\ mutex[r] = Free
  /\ state[r] \in Timed
  /\ \E to \in State : Moves(state[r], "TTL_EXPIRED", to) /\ Transition(r, to, "loop")
  /\ LoopAfter(r)
  /\ UNCHANGED <<criticalCounts, restarts>>
  /\ UNCHANGED tableVars /\ UNCHANGED awsVars

-----------------------------------------------------------------------------
\* The callers of the controller's methods.

\* NotifyRunbookStarted, NotifyRunbookSucceeded, NotifyRunbookFailed and
\* ManualOverride, whose target state the state machine never looks at.
CallerEvent == {"RUNBOOK_STARTED", "RUNBOOK_SUCCEEDED", "RUNBOOK_FAILED",
                "MANUAL_OVERRIDE"}

\* Mutant of CallerSend: the mutex is free again before the enter actions, so
\* that an event finds the AWS call of an earlier one under way.
CallerSendUnlocked(r, e) ==
  /\ \E to \in State :
       LET op == EnterCall(state[r], to)
       IN  /\ Moves(state[r], e, to)
           /\ state' = [state EXCEPT ![r] = to]
           /\ weight' = [weight EXCEPT ![r] = EnterWeight(state[r], to, @)]
           /\ forced' = [forced EXCEPT ![r] = @ /\ ~ Rewrites(state[r], to)]
           /\ mutex' = IF op = "none" THEN mutex
                       ELSE [mutex EXCEPT ![r] = [by |-> "caller", op |-> op]]
  /\ UNCHANGED <<criticalCounts, loop, restarts>>
  /\ UNCHANGED tableVars /\ UNCHANGED awsVars

CallerSend(r, e) ==
  /\ mutex[r] = Free
  /\ \E to \in State : Moves(state[r], e, to) /\ Transition(r, to, "caller")
  /\ UNCHANGED <<criticalCounts, loop, restarts>>
  /\ UNCHANGED tableVars /\ UNCHANGED awsVars

\* ForceWeight takes the shaper's lock only.
ForceRegion(r, w) ==
  /\ weight' = [weight EXCEPT ![r] = ForceWeight(@, w)]
  /\ forced' = [forced EXCEPT ![r] = TRUE]
  /\ UNCHANGED <<state, criticalCounts, loop, mutex, restarts>>
  /\ UNCHANGED tableVars /\ UNCHANGED awsVars

-----------------------------------------------------------------------------
\* The AWS calls made under the mutex of a region.

\* Mutant of Release: an early return without the unlock.
ReleaseWithoutUnlock(r) ==
  /\ loop' = IF mutex[r].by = "loop" THEN Idle ELSE loop
  /\ UNCHANGED mutex

\* Send returns: the mutex is free, and the main loop if it was the sender.
Release(r) ==
  /\ mutex' = [mutex EXCEPT ![r] = Free]
  /\ loop' = IF mutex[r].by = "loop" THEN Idle ELSE loop

\* DrainRegion and RestoreRegion: the record is upserted, or the call gives
\* up (the lock is held by another agent, or AWS fails).
Upsert(r) ==
  /\ mutex[r].op \in {"drain", "restore"}
  /\ upsert' \in {upsert, [upsert EXCEPT ![r] = mutex[r].op]}
  /\ Release(r)
  /\ UNCHANGED <<state, weight, criticalCounts, hop, forced, restarts>>
  /\ UNCHANGED tableVars

\* selectNextHop: the first of the other regions with the highest weight in
\* the iteration order of a map, hence any of them.
NextHops(r) ==
  {n \in Region \ {r} :
     \A m \in Region \ {r} : tableWeights[m] <= tableWeights[n]}

\* FailoverRegion up to the choice of the next hop: none exists only when
\* there is no other region.
SelectNextHop(r) ==
  /\ mutex[r].op = "failover"
  /\ \/ \E n \in NextHops(r) :
          /\ mutex' = [mutex EXCEPT ![r] = [by |-> @.by, op |-> "reroute", via |-> n]]
          /\ UNCHANGED loop
     \/ NextHops(r) = {} /\ Release(r)
  /\ UNCHANGED <<state, weight, criticalCounts, forced, restarts>>
  /\ UNCHANGED tableVars /\ UNCHANGED awsVars

\* The rest of FailoverRegion: the routes are replaced (a failure is logged,
\* not retried), the region's table weight becomes zero. rebalanceWeights
\* then has nothing to hand out: it reads that zero as the weight lost.
Reroute(r) ==
  /\ mutex[r].op = "reroute"
  /\ hop' \in {hop, [hop EXCEPT ![r] = mutex[r].via]}
  /\ tableWeights' = [tableWeights EXCEPT ![r] = 0]
  /\ Release(r)
  /\ UNCHANGED <<state, weight, criticalCounts, tick, upsert, forced, restarts>>

-----------------------------------------------------------------------------
\* The shaper's tick loop.

Currents == [r \in Region |-> weight[r].current]

\* tick under the shaper's lock; without a change the manager is not called.
ShaperTick ==
  /\ tick = Idle
  /\ weight' = [r \in Region |-> TickWeight(weight[r])]
  /\ tick' = IF Currents' = Currents THEN Idle ELSE [at |-> "changed"]
  /\ UNCHANGED <<state, criticalCounts, loop, mutex, tableWeights, forced, restarts>>
  /\ UNCHANGED awsVars

\* NormalisedWeights takes the lock again. All zero means an equal share.
ReadWeights ==
  /\ tick.at = "changed"
  /\ tick' = [at |-> "apply",
              snapshot |-> IF \A r \in Region : weight[r].current = 0
                           THEN [r \in Region |-> FullWeight] ELSE Currents]
  /\ UNCHANGED <<state, weight, criticalCounts, loop, mutex, tableWeights,
                 forced, restarts>>
  /\ UNCHANGED awsVars

\* UpdateWeights ends: every entry is overwritten, a failed region's too.
UpdateWeights ==
  /\ tick.at = "apply"
  /\ tableWeights' = tick.snapshot
  /\ tick' = Idle
  /\ UNCHANGED <<state, weight, criticalCounts, loop, mutex, forced, restarts>>
  /\ UNCHANGED awsVars

-----------------------------------------------------------------------------
\* The process dies (the two goroutines that use the manager's map without a
\* lock can make the runtime stop it) and starts again.
Restart ==
  /\ restarts < MaxRestarts
  /\ restarts' = restarts + 1
  /\ state' = FreshState /\ weight' = FreshWeight /\ criticalCounts' = FreshCounts
  /\ loop' = Idle /\ mutex' = FreshMutex /\ tick' = Idle
  /\ tableWeights' = FreshTable /\ forced' = NotForced
  /\ UNCHANGED awsVars

MainLoop ==
  \/ \E r \in Region, k \in Kind, w \in Advice : ReceiveMetric(r, k, w)
  \/ Decide
  \/ LoopSend
  \/ \E r \in Region : CheckTimeouts(r)

Callers ==
  \/ \E r \in Region, e \in CallerEvent : CallerSend(r, e)
  \/ \E r \in Region, w \in ForcedWeights : ForceRegion(r, w)

Calls == \E r \in Region : Upsert(r) \/ SelectNextHop(r) \/ Reroute(r)

TickLoop == ShaperTick \/ ReadWeights \/ UpdateWeights

Next == MainLoop \/ Callers \/ Calls \/ TickLoop \/ Restart

Spec == Init /\ [][Next]_vars

(***************************************************************************)
(* Fairness. The goroutines run: a step of the tick loop, or an AWS call   *)
(* under way (every SDK call returns), is eventually taken. The main loop  *)
(* waits on mutexes that are freed and taken again, and its select may     *)
(* keep choosing metrics while the ticker is ready: Go's mutexes do not    *)
(* starve a waiter and select draws among the ready cases, hence strong    *)
(* fairness. Nothing is assumed of metrics, callers, SREs and crashes.     *)
(***************************************************************************)
Fairness ==
  /\ SF_vars(Decide)
  /\ SF_vars(LoopSend)
  /\ \A r \in Region :
       /\ SF_vars(CheckTimeouts(r))
       /\ WF_vars(Upsert(r)) /\ WF_vars(SelectNextHop(r)) /\ WF_vars(Reroute(r))
  /\ WF_vars(ShaperTick) /\ WF_vars(ReadWeights) /\ WF_vars(UpdateWeights)

FairSpec == Spec /\ Fairness

-----------------------------------------------------------------------------
\* Safety.

\* What the weight of a region in state s looks like: a FAILED region stands
\* at the floor, a DEGRADED or HEALING one is heading for the floor, and only
\* a HEALTHY one that an SRE took out of FAILED can still be in hard-fail mode.
WeightPolicy(s, rw) ==
  /\ s = "FAILED" => rw = Snapped(MinimumWeight, TRUE)
  /\ s \in {"DEGRADED", "HEALING"} => rw.target = MinimumWeight /\ ~ rw.hardFail
  /\ s = "RECOVERED" => ~ rw.hardFail
  /\ s = "HEALTHY" /\ rw.hardFail => rw = Snapped(MinimumWeight, TRUE)

\* The weight policy follows the state machine (wireActions) although the
\* bandit, the tick loop and stale decisions of the main loop all touch the
\* weights. A weight an SRE forced is excepted until a transition replaces it.
WeightMatchesState == \A r \in Region : ~ forced[r] => WeightPolicy(state[r], weight[r])

\* No interleaving of the shaper's methods leaves a rate that points away from
\* its target or a weight above the full one (RegionWeight's comments).
RatePointsToTarget == \A r \in Region : WellDirected(weight[r])

\* While an AWS call of a region is under way the region is in the state
\* whose entry asked for it: drains, restores and failovers of one region
\* neither overlap nor come in another order than its transitions (Send holds
\* the mutex through the enter actions), and a failover never picks the
\* failed region itself.
CallMatchesState ==
  \A r \in Region :
    /\ mutex[r].op = "drain" => state[r] = "DEGRADED"
    /\ mutex[r].op = "restore" => state[r] = "HEALTHY"
    /\ mutex[r].op \in {"failover", "reroute"} => state[r] = "FAILED"
    /\ mutex[r].op = "reroute" => mutex[r].via # r

\* The main loop is blocked in Send exactly while it holds one mutex: it
\* never holds two, and it never leaves one behind when it goes on.
LoopHoldsOneMutex ==
  \A r \in Region :
    mutex[r].by = "loop" <=> loop = [at |-> "blocked", region |-> r]

\* A step that raises no weight between two unhealthy states. A weight below
\* the floor, which only an SRE can set, may rise to it.
KeepsTrafficDown ==
  \A r \in Region :
    /\ state[r] \in Unhealthy /\ state'[r] \in Unhealthy
    /\ weight[r].current >= MinimumWeight /\ ~ forced'[r]
    => weight'[r].current <= weight[r].current

\* No traffic comes back to a region that is being drained, healed or kept
\* out, whatever the bandit advises and however ticks and transitions
\* interleave.
NoTrafficRaiseWhileUnhealthy == [][KeepsTrafficDown]_vars

\* A step that lifts the target of an unhealthy region to the full weight only
\* on a runbook's success, by an SRE's hand or with a new process.
LiftsTargetOnRecovery ==
  \A r \in Region :
    /\ state[r] \in Unhealthy
    /\ weight[r].target = MinimumWeight /\ weight'[r].target = FullWeight
    => \/ state[r] = "HEALING" /\ state'[r] = "RECOVERED"
       \/ forced'[r]
       \/ restarts' # restarts

\* Traffic returns to an unhealthy region only through RECOVERED: no timeout,
\* metric or advice gives it the full target back.
FullTargetNeedsRecovery == [][LiftsTargetOnRecovery]_vars

-----------------------------------------------------------------------------
\* Liveness.

\* No region stays in a degraded, healing, recovered or failed state for
\* ever: the timeouts end it when neither a runbook nor an SRE does, however
\* many metrics the main loop has to process in between.
TimedStatesEnd ==
  \A r \in Region, s \in Timed : state[r] = s ~> state[r] # s

\* The main loop always comes back to its select: neither a mutex held by a
\* caller nor its own AWS calls keep it for ever.
LoopComesBack == loop # Idle ~> loop = Idle

\* A region that stays HEALTHY, its weight no SRE's, ends up with a weight at its
\* target, but for the distance over which a tick's step is within Epsilon and
\* not applied.
WeightsSettle ==
  \A r \in Region :
    <>[](state[r] = "HEALTHY" /\ ~ forced[r]) =>
      <>[](Distance(weight[r].current, weight[r].target) < (Epsilon + 1) * BanditTicks)

-----------------------------------------------------------------------------
\* What comments and documents of the repository say and the code does not do.

\* "FullWeight is the target weight for a fully healthy region"
\* (shaper.go:37), restored on entering HEALTHY (controller.go:195).
HealthyIsNotHardFailed ==
  \A r \in Region : state[r] = "HEALTHY" /\ ~ forced[r] => ~ weight[r].hardFail

=============================================================================
