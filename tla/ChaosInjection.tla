--------------------------- MODULE ChaosInjection ---------------------------
(***************************************************************************)
(* Fault injection (chaos-ci-gate-06): the injector's sessions, shared by   *)
(* the thread that runs a suite or a game day and the monitor threads it    *)
(* starts, the labels the sessions leave behind, and the bridge that takes  *)
(* them to the ML service from a process of its own.                        *)
(*                                                                         *)
(* Session s is the one of the s-th scenario, or of the s-th phase of a     *)
(* game day. The clock appears only as the order of the two deadlines of a  *)
(* session, its monitor's and its runner's, where their distance fixes it.  *)
(***************************************************************************)
EXTENDS Integers, Sequences, FiniteSets

CONSTANTS Suites,     \* the suites that may be run, sequences of scenarios
          MaxSession, \* length of the longest suite
          Interface,  \* the interfaces the injector may be made for
          MaxFaults,  \* bound on failures of a process, a command or a write
          MaxStops,   \* bound on planned stops of the bridge
          Check       \* seconds between two looks of a monitor

\* A scenario of the runner waits for healing until its timeout; a phase of a
\* game day sleeps for its duration.
Scenario == [kind : {"scenario", "phase"}, duration : Nat, timeout : Nat,
             expectedHeal : BOOLEAN]

ASSUME ChaosAssumption ==
  /\ MaxSession \in Nat /\ MaxFaults \in Nat /\ MaxStops \in Nat /\ Check \in Nat
  /\ \A q \in Suites : /\ q \in Seq(Scenario) /\ Len(q) <= MaxSession

VARIABLES
  suite,      \* the scenarios of this run
  interface,  \* QdiscInjector.interface of this run
  alive,      \* whether the process that injects lives
  main,       \* where the suite's thread is, and its session
  monitor,    \* where the monitor thread of every session is
  clearing,   \* where a thread is in clear
  current,    \* QdiscInjector._active_session, 0 for none
  session,    \* the fields of every session
  rule,       \* the session whose qdisc rule is on the profiles' interface, 0 for none
  label,      \* the label file of every session
  result,     \* whether its scenario passed
  gate,       \* the verdict on the suite
  bridge,     \* what the bridge's thread is doing
  accepted,   \* how often the ML service took the record of a session
  processed,  \* FlywheelBridge._processed_ids
  log,        \* processed.jsonl
  left,       \* (history) the sessions whose clear went on without removing their rule
  late,       \* (history) the sessions whose rule a clear had yet to remove after a pause
  stops,      \* (bound) planned stops of the bridge so far
  faults      \* (bound) failures so far

run == <<suite, interface>>
leftovers == <<left, late>>
injectorVars == <<alive, main, monitor, clearing, current, session, rule, label,
                  result, gate, left, late>>
bridgeVars == <<bridge, accepted, processed, log, stops>>
vars == <<run, injectorVars, bridgeVars, faults>>

Session == 1 .. MaxSession
None == 0
Main == 0                     \* the thread of the suite; a monitor is its session
Thread == {Main} \cup Session
Final == {"HEALED", "MANUAL_CLEAR", "TIMEOUT"}
Torn == 0                     \* a line of the log that was not written to its end
ProfileInterface == "eth0"    \* FaultProfile.interface, which no profile overrides

NotClearing == [at |-> "no"]

\* The places of a thread in clear, with the session it clears.
Clearing ==
  [at : {"del", "open"}, s : Session] \cup [at : {"write"}, s : Session, resolution : Final]

\* What the bridge's thread does between two records and with one.
BridgeIdle == {[at |-> "poll"], [at |-> "dead"]}
BridgeBusy == [at : {"post", "mark"}, s : Session]

TypeOK ==
  /\ suite \in Suites /\ interface \in Interface /\ alive \in BOOLEAN
  /\ main \in [at : {"next", "apply", "wait", "clear", "gap", "gate", "done"},
               s : 0 .. MaxSession]
  /\ monitor \in [Session -> {"none", "watch", "expired", "clear", "ended"}]
  /\ clearing \in [Thread -> {NotClearing} \cup Clearing]
  /\ current \in 0 .. MaxSession /\ rule \in 0 .. MaxSession
  /\ session \in [Session -> [active : BOOLEAN, resolution : Final \cup {""},
                              latency : BOOLEAN]]
  /\ label \in [Session -> Final \cup {"none", "empty"}]
  /\ result \in [Session -> {"none", "passed", "failed"}]
  /\ gate \in {"none", "passed", "blocked"}
  /\ bridge \in BridgeIdle \cup BridgeBusy
  /\ accepted \in [Session -> Nat] /\ processed \subseteq Session
  /\ log \in Seq({Torn} \cup Session)
  /\ left \subseteq Session /\ late \subseteq Session
  /\ stops \in 0 .. MaxStops /\ faults \in 0 .. MaxFaults

Init ==
  /\ suite \in Suites /\ interface \in Interface /\ alive = TRUE
  /\ main = [at |-> "next", s |-> 0]
  /\ monitor = [s \in Session |-> "none"]
  /\ clearing = [t \in Thread |-> NotClearing]
  /\ current = None /\ rule = None
  /\ session = [s \in Session |-> [active |-> FALSE, resolution |-> "", latency |-> FALSE]]
  /\ label = [s \in Session |-> "none"]
  /\ result = [s \in Session |-> "none"] /\ gate = "none"
  /\ bridge = [at |-> "poll"] /\ accepted = [s \in Session |-> 0]
  /\ processed = {} /\ log = <<>>
  /\ left = {} /\ late = {} /\ stops = 0 /\ faults = 0

-----------------------------------------------------------------------------
\* Steps of the suite's thread.

Goes(at) == main' = [main EXCEPT !.at = at]
Verdict(s, v) == result' = [result EXCEPT ![s] = v]
Active == current # None /\ session[current].active

\* Mutant of Settled: there is no pause between two sessions.
SettledAtOnce == TRUE

\* In the pause between two sessions a monitor gets from its look at the session
\* into the lock. What clear does after that, tc for one, may take longer.
Settled ==
  \A s \in Session :
    monitor[s] # "expired" /\ (monitor[s] = "clear" => clearing[s] # NotClearing)

\* The part of inject under the lock, for the next session; with a session
\* still active it raises.
Start ==
  LET s == main.s + 1 IN
  /\ alive /\ main.at = "next" /\ s <= Len(suite)
  /\ IF Active
     THEN /\ main' = [at |-> "clear", s |-> s] /\ Verdict(s, "failed")
          /\ UNCHANGED <<current, session>>
     ELSE /\ main' = [at |-> "apply", s |-> s]
          /\ current' = s
          /\ session' = [session EXCEPT ![s].active = TRUE]
          /\ UNCHANGED result
  /\ UNCHANGED <<run, alive, monitor, clearing, rule, label, gate, leftovers, bridgeVars, faults>>

\* _apply_qdisc, whose rule replaces any other, and _start_monitor.
Apply ==
  /\ alive /\ main.at = "apply"
  /\ rule' = main.s
  /\ monitor' = [monitor EXCEPT ![main.s] = "watch"]
  /\ Goes("wait")
  /\ UNCHANGED <<run, alive, clearing, current, session, label, result, gate,
                 leftovers, bridgeVars, faults>>

\* tc refuses the rule, or that there is one which it could not remove before:
\* inject raises, and its caller clears.
ApplyFails ==
  /\ alive /\ main.at = "apply" /\ faults < MaxFaults
  /\ faults' = faults + 1
  /\ rule' \in {None, rule}
  /\ Verdict(main.s, "failed") /\ Goes("clear")
  /\ UNCHANGED <<run, alive, monitor, clearing, current, session, label, gate, leftovers, bridgeVars>>

\* The deadlines of a session. When they are more than Check seconds apart they
\* pass in the order of the clock.
RunnerDeadline(q) == IF q.kind = "phase" THEN q.duration ELSE q.timeout
MonitorPassed(s) ==
  session[s].active => suite[s].duration + Check >= RunnerDeadline(suite[s])
RunnerPassed(s) == suite[s].duration <= RunnerDeadline(suite[s])

\* Mutant of TimesOut: a resolution the bridge does not know.
TimesOutUnknown ==
  LET s == main.s IN
  /\ alive /\ main.at = "wait" /\ suite[s].kind = "scenario" /\ MonitorPassed(s)
  /\ session' = [session EXCEPT ![s].resolution = "TIMED_OUT"]
  /\ Verdict(s, IF suite[s].expectedHeal \/ session[s].latency THEN "failed" ELSE "passed")
  /\ Goes("clear")
  /\ UNCHANGED <<run, alive, monitor, clearing, current, rule, label, gate,
                 leftovers, bridgeVars, faults>>

\* wait_for_healing to its deadline: nothing sets healing_triggered, so it never
\* returns before. The scenario's regression is the latency the monitor noted.
TimesOut ==
  LET s == main.s IN
  /\ alive /\ main.at = "wait" /\ suite[s].kind = "scenario" /\ MonitorPassed(s)
  /\ session' = [session EXCEPT ![s].resolution = "TIMEOUT"]
  /\ Verdict(s, IF suite[s].expectedHeal \/ session[s].latency THEN "failed" ELSE "passed")
  /\ Goes("clear")
  /\ UNCHANGED <<run, alive, monitor, clearing, current, rule, label, gate,
                 leftovers, bridgeVars, faults>>

\* The sleep in a phase of a game day ends.
Sleeps ==
  /\ alive /\ main.at = "wait" /\ suite[main.s].kind = "phase"
  /\ Goes("clear")
  /\ UNCHANGED <<run, alive, monitor, clearing, current, session, rule, label, result,
                 gate, leftovers, bridgeVars, faults>>

\* The sessions whose rule a thread in clear is about to remove.
Removing == {s \in Session : \E t \in Thread : clearing[t].at = "del" /\ clearing[t].s = s}

\* The pause before the next session.
Gap ==
  /\ alive /\ main.at = "gap" /\ Settled
  /\ Goes(IF main.s < Len(suite) THEN "next" ELSE "gate")
  /\ late' = late \cup Removing
  /\ UNCHANGED <<run, alive, monitor, clearing, current, session, rule, label, result,
                 gate, left, bridgeVars, faults>>

\* _evaluate_gate. No session was reported healed, so that one which should have
\* been makes the rate 0; budgetLeft is the answer of the incident manager.
Evaluate(budgetLeft) ==
  LET ran == 1 .. Len(suite) IN
  /\ alive /\ main.at = "gate"
  /\ gate' = IF /\ \A s \in ran : result[s] = "passed"
                /\ \A s \in ran : suite[s].kind = "scenario" => ~suite[s].expectedHeal
                /\ budgetLeft
             THEN "passed" ELSE "blocked"
  /\ Goes("done")
  /\ UNCHANGED <<run, alive, monitor, clearing, current, session, rule, label, result,
                 leftovers, bridgeVars, faults>>

-----------------------------------------------------------------------------
\* Steps of the monitor of session s.

MonitorGoes(s, at) == monitor' = [monitor EXCEPT ![s] = at]

\* Its loop ends, and it looks at the session again: "Auto-clear when duration
\* expires".
Expire(s) ==
  /\ alive /\ monitor[s] = "watch" /\ (session[s].active => RunnerPassed(s))
  /\ MonitorGoes(s, IF session[s].active THEN "expired" ELSE "ended")
  /\ UNCHANGED <<run, alive, main, clearing, current, session, rule, label, result,
                 gate, leftovers, bridgeVars, faults>>

\* It notes the resolution and the latency, without the lock.
Resolve(s) ==
  /\ alive /\ monitor[s] = "expired"
  /\ session' = [session EXCEPT ![s].resolution = "HEALED", ![s].latency = TRUE]
  /\ MonitorGoes(s, "clear")
  /\ UNCHANGED <<run, alive, main, clearing, current, rule, label, result, gate,
                 leftovers, bridgeVars, faults>>

-----------------------------------------------------------------------------
\* clear, by any thread.

Calls(t) ==
  /\ clearing[t].at = "no"
  /\ IF t = Main THEN main.at = "clear" ELSE monitor[t] = "clear"

\* clear returns to thread t. For a phase of a game day ok is the result,
\* unless inject raised; a scenario has one, and ignores an exception.
Returns(t, ok) ==
  IF t = Main
  THEN /\ Goes("gap") /\ UNCHANGED monitor
       /\ IF suite[main.s].kind = "phase" /\ result[main.s] = "none"
          THEN Verdict(main.s, IF ok THEN "passed" ELSE "failed")
          ELSE UNCHANGED result
  ELSE MonitorGoes(t, "ended") /\ UNCHANGED <<main, result>>

\* Mutant of Begin: whether the session is active is not looked at.
BeginAgain(t) ==
  /\ alive /\ Calls(t)
  /\ session' = [session EXCEPT ![current].active = FALSE]
  /\ clearing' = [clearing EXCEPT ![t] = [at |-> "del", s |-> current]]
  /\ UNCHANGED <<run, alive, main, monitor, current, rule, label, result, gate,
                 leftovers, bridgeVars, faults>>

\* The part under the lock: the session that is current becomes inactive,
\* whichever session the caller had in mind.
Begin(t) ==
  /\ alive /\ Calls(t)
  /\ IF Active
     THEN /\ session' = [session EXCEPT ![current].active = FALSE]
          /\ clearing' = [clearing EXCEPT ![t] = [at |-> "del", s |-> current]]
          /\ UNCHANGED <<main, monitor, result>>
     ELSE Returns(t, TRUE) /\ UNCHANGED <<session, clearing>>
  /\ UNCHANGED <<run, alive, current, rule, label, gate, leftovers, bridgeVars, faults>>

\* Mutant of Delete: only the thread of the suite removes rules.
DeleteByMainOnly(t) ==
  /\ alive /\ clearing[t].at = "del"
  /\ rule' = IF t = Main /\ interface = ProfileInterface THEN None ELSE rule
  /\ left' = IF interface = ProfileInterface THEN left ELSE left \cup {clearing[t].s}
  /\ clearing' = [clearing EXCEPT ![t].at = "open"]
  /\ UNCHANGED <<run, alive, main, monitor, current, session, label, result, gate,
                 late, bridgeVars, faults>>

\* tc qdisc del removes the rule of any session, but from the injector's interface.
Delete(t) ==
  /\ alive /\ clearing[t].at = "del"
  /\ IF interface = ProfileInterface
     THEN rule' = None /\ UNCHANGED left
     ELSE left' = left \cup {clearing[t].s} /\ UNCHANGED rule
  /\ clearing' = [clearing EXCEPT ![t].at = "open"]
  /\ UNCHANGED <<run, alive, main, monitor, current, session, label, result, gate,
                 late, bridgeVars, faults>>

\* It fails, which clear does not look at.
DeleteFails(t) ==
  /\ alive /\ clearing[t].at = "del" /\ faults < MaxFaults
  /\ faults' = faults + 1
  /\ left' = left \cup {clearing[t].s}
  /\ clearing' = [clearing EXCEPT ![t].at = "open"]
  /\ UNCHANGED <<run, alive, main, monitor, current, session, rule, label, result, gate,
                 late, bridgeVars>>

\* The resolution of the session, if it has none yet, and the record of the
\* label are made; the file is opened, which empties it.
Open(t) ==
  LET s == clearing[t].s
      r == IF session[s].resolution = "" THEN "MANUAL_CLEAR" ELSE session[s].resolution
  IN /\ alive /\ clearing[t].at = "open"
     /\ session' = [session EXCEPT ![s].resolution = r]
     /\ label' = [label EXCEPT ![s] = "empty"]
     /\ clearing' = [clearing EXCEPT ![t] = [at |-> "write", s |-> s, resolution |-> r]]
     /\ UNCHANGED <<run, alive, main, monitor, current, rule, result, gate,
                    leftovers, bridgeVars, faults>>

Write(t) ==
  /\ alive /\ clearing[t].at = "write"
  /\ label' = [label EXCEPT ![clearing[t].s] = clearing[t].resolution]
  /\ clearing' = [clearing EXCEPT ![t] = NotClearing]
  /\ Returns(t, TRUE)
  /\ UNCHANGED <<run, alive, current, session, rule, gate, leftovers, bridgeVars, faults>>

\* The label cannot be written: clear raises, which ends a monitor.
WriteFails(t) ==
  /\ alive /\ clearing[t].at = "write" /\ faults < MaxFaults
  /\ faults' = faults + 1
  /\ clearing' = [clearing EXCEPT ![t] = NotClearing]
  /\ Returns(t, FALSE)
  /\ UNCHANGED <<run, alive, current, session, rule, label, gate, leftovers, bridgeVars>>

\* The process ends after its suite, and its monitors, daemons, with it.
Exit ==
  /\ alive /\ main.at = "done"
  /\ alive' = FALSE
  /\ UNCHANGED <<run, main, monitor, clearing, current, session, rule, label, result,
                 gate, leftovers, bridgeVars, faults>>

\* The process is killed, with the monitors.
Kill ==
  /\ alive /\ faults < MaxFaults
  /\ faults' = faults + 1 /\ alive' = FALSE
  /\ UNCHANGED <<run, main, monitor, clearing, current, session, rule, label, result,
                 gate, leftovers, bridgeVars>>

-----------------------------------------------------------------------------
\* The bridge. ingest_file skips what it has processed and what it cannot read.

Pick(s) ==
  /\ bridge.at = "poll" /\ label[s] \in Final /\ s \notin processed
  /\ bridge' = [at |-> "post", s |-> s]
  /\ UNCHANGED <<run, injectorVars, accepted, processed, log, stops, faults>>

\* The service takes the record and says so.
Accept ==
  /\ bridge.at = "post"
  /\ accepted' = [accepted EXCEPT ![bridge.s] = @ + 1]
  /\ bridge' = [bridge EXCEPT !.at = "mark"]
  /\ UNCHANGED <<run, injectorVars, processed, log, stops, faults>>

\* Mutant of Refuse: the status of the answer is not looked at.
RefuseIgnored ==
  /\ bridge.at = "post"
  /\ bridge' = [bridge EXCEPT !.at = "mark"]
  /\ UNCHANGED <<run, injectorVars, accepted, processed, log, stops, faults>>

\* The service is not reached or refuses the record, which stays for the next poll.
Refuse ==
  /\ bridge.at = "post"
  /\ bridge' = [at |-> "poll"]
  /\ UNCHANGED <<run, injectorVars, accepted, processed, log, stops, faults>>

\* The service takes the record, then fails to write it, and answers with an
\* error: the record stays for the next poll, too.
TakenThenRefused ==
  /\ bridge.at = "post" /\ faults < MaxFaults
  /\ faults' = faults + 1
  /\ accepted' = [accepted EXCEPT ![bridge.s] = @ + 1]
  /\ bridge' = [at |-> "poll"]
  /\ UNCHANGED <<run, injectorVars, processed, log, stops>>

\* The answer does not come in time. The exception is not a URLError, and ends
\* the polling thread.
AnswerLost ==
  /\ bridge.at = "post" /\ faults < MaxFaults
  /\ faults' = faults + 1
  /\ \/ accepted' = [accepted EXCEPT ![bridge.s] = @ + 1]
     \/ accepted' = accepted
  /\ bridge' = [at |-> "dead"]
  /\ UNCHANGED <<run, injectorVars, processed, log, stops>>

\* A line is appended to the log. It continues a torn one, after which no reader
\* of the log gets, so that nothing of what follows is kept here.
Appended(line) == IF log # <<>> /\ log[Len(log)] = Torn THEN log ELSE Append(log, line)

\* Mutant of Mark: the record is only logged.
MarkInLogOnly ==
  /\ bridge.at = "mark"
  /\ log' = Appended(bridge.s)
  /\ bridge' = [at |-> "poll"]
  /\ UNCHANGED <<run, injectorVars, accepted, processed, stops, faults>>

Mark ==
  /\ bridge.at = "mark"
  /\ processed' = processed \cup {bridge.s}
  /\ log' = Appended(bridge.s)
  /\ bridge' = [at |-> "poll"]
  /\ UNCHANGED <<run, injectorVars, accepted, stops, faults>>

\* The bridge's process dies, or the thread in a failed write of the log.
BridgeDies ==
  /\ bridge.at # "dead" /\ faults < MaxFaults
  /\ faults' = faults + 1
  /\ \/ log' = log
     \/ bridge.at = "mark" /\ log' = Appended(Torn)
  /\ bridge' = [at |-> "dead"]
  /\ UNCHANGED <<run, injectorVars, accepted, processed, stops>>

\* A planned stop: the thread has five seconds, less than its POST may take, and
\* ends with its process.
BridgeStop ==
  /\ bridge.at # "dead" /\ stops < MaxStops
  /\ stops' = stops + 1
  /\ \/ accepted' = accepted
     \/ bridge.at = "post" /\ accepted' = [accepted EXCEPT ![bridge.s] = @ + 1]
  /\ bridge' = [at |-> "dead"]
  /\ UNCHANGED <<run, injectorVars, processed, log, faults>>

Readable == {n \in 1 .. Len(log) : \A m \in 1 .. n : log[m] # Torn}
Logged == {log[n] : n \in Readable}

\* Mutant of BridgeRestart: the log is not read.
BridgeRestartUnread ==
  /\ bridge.at = "dead"
  /\ bridge' = [at |-> "poll"]
  /\ processed' = {}
  /\ UNCHANGED <<run, injectorVars, accepted, log, stops, faults>>

\* It is started again. _load_processed ends at the first line it cannot parse.
BridgeRestart ==
  /\ bridge.at = "dead"
  /\ bridge' = [at |-> "poll"]
  /\ processed' = Logged
  /\ UNCHANGED <<run, injectorVars, accepted, log, stops, faults>>

-----------------------------------------------------------------------------
MainStep ==
  \/ Start \/ Apply \/ TimesOut \/ Sleeps \/ Gap
  \/ \E budgetLeft \in BOOLEAN : Evaluate(budgetLeft)

ClearStep(t) == Begin(t) \/ Delete(t) \/ Open(t) \/ Write(t)

MonitorStep(s) == Expire(s) \/ Resolve(s)

BridgeStep ==
  \/ \E s \in Session : Pick(s)
  \/ Accept \/ Refuse \/ TakenThenRefused \/ AnswerLost \/ Mark
  \/ BridgeStop \/ BridgeDies \/ BridgeRestart

Next ==
  \/ MainStep \/ ApplyFails \/ Exit \/ Kill
  \/ \E t \in Thread : ClearStep(t) \/ DeleteFails(t) \/ WriteFails(t)
  \/ \E s \in Session : MonitorStep(s)
  \/ BridgeStep

Fairness ==
  /\ WF_vars(MainStep)
  /\ \A t \in Thread : WF_vars(ClearStep(t))
  /\ \A s \in Session : WF_vars(MonitorStep(s))

Spec == Init /\ [][Next]_vars /\ Fairness

-----------------------------------------------------------------------------
\* A qdisc rule belongs to a session that is active or whose clear has yet to
\* remove it, or is one that its clear gave up: no rule is left behind by two
\* threads that clear, or by a clear that meets a later session.
RulesHaveASession ==
  rule # None => session[rule].active \/ rule \in Removing \/ rule \in left

\* As long as a session's scenario waits, its fault is on the interface, unless its
\* own monitor ends it: the clear of an earlier session neither ends it nor takes
\* its rule away, or it took longer than a pause.
FaultLastsItsSession ==
  main.at = "wait" =>
    \/ session[main.s].active /\ rule = main.s
    \/ monitor[main.s] \in {"clear", "ended"}
    \/ late # {}

\* Of the clears of a session, by its monitor and by its runner, one writes its
\* label, which the bridge may have read: it is never written over.
LabelledOnce ==
  [][\A s \in Session : label[s] \in Final => label'[s] = label[s]]_vars

\* No record is taken for processed that the service did not accept, in memory
\* or in the log that a restart reads.
ProcessedWasAccepted ==
  \A s \in Session :
    s \in processed \/ (\E n \in 1 .. Len(log) : log[n] = s) => accepted[s] > 0

\* A record which the log names is not sent again, whatever fails and however
\* often the bridge is stopped and started.
LoggedIsNotResent == [][\A s \in Logged : accepted'[s] = accepted[s]]_vars

\* A run comes to its end, unless it is killed before: every session ends,
\* whichever of its deadlines passes first, and with it its rule, unless tc did not
\* remove it or the process ended while a late clear was about to.
EndsClean ==
  <>[](\/ main.at # "done" /\ ~alive
       \/ main.at = "done" /\ rule \in {None} \cup left \cup late)

\* What wait_for_healing says of itself: it returns true for a session that was
\* resolved as healed within the timeout, and a scenario that expects healing
\* passes then.
HealedIsReported ==
  \A s \in Session :
    label[s] = "HEALED" /\ result[s] # "none" => result[s] = "passed"
=============================================================================
