---------------------------- MODULE ChaosProofs ----------------------------
(***************************************************************************)
(* Theorems about ChaosInjection, for any suites and game days, any number  *)
(* of sessions and of faults, and any period of the monitors' looks.        *)
(***************************************************************************)
EXTENDS ChaosInjection, TLAPS

-----------------------------------------------------------------------------
\* The inductive invariant of the injector.

\* At most the current session is active, and it is that of the suite's thread.
OnlyCurrentIsActive ==
  \A s \in Session : session[s].active => s = main.s /\ s = current

\* The suite's thread has a session from its start to the pause after it, which
\* is active when its rule is about to be put on the interface.
MainHasASession ==
  /\ main.at \in {"apply", "wait", "clear", "gap"} => main.s \in Session
  /\ main.at = "apply" => session[main.s].active

\* No session is active between two sessions, nor once the suite's thread is in
\* clear.
QuietBetweenSessions ==
  /\ clearing[Main].at # "no" => main.at = "clear"
  /\ main.at \in {"next", "gap", "gate", "done"} \/ clearing[Main].at # "no" =>
       \A s \in Session : ~session[s].active

\* Monitors have sessions that were started, and one that is about to enter clear
\* has the session of the suite's thread.
MonitorsFollow ==
  \A s \in Session :
    /\ monitor[s] # "none" => s <= main.s /\ ~(main.at = "apply" /\ s = main.s)
    /\ monitor[s] = "expired" \/ (monitor[s] = "clear" /\ clearing[s].at = "no") =>
         s = main.s /\ main.at \in {"wait", "clear", "gap"}
    /\ clearing[s].at # "no" => monitor[s] = "clear"

\* A session is cleared by one thread, when it is no longer active, and has no
\* label before.
ClearsAreApart ==
  /\ \A t \in Thread :
       clearing[t].at # "no" =>
         LET s == clearing[t].s IN
         /\ s <= main.s /\ ~session[s].active
         /\ label[s] = IF clearing[t].at = "write" THEN "empty" ELSE "none"
  /\ \A t, u \in Thread :
       t # u /\ clearing[t].at # "no" /\ clearing[u].at # "no" =>
         clearing[t].s # clearing[u].s

\* A session that has a label is over.
LabelsAreOfThePast ==
  \A s \in Session : label[s] # "none" => s <= main.s /\ ~session[s].active

\* A thread that is about to remove a rule has the session of the suite's thread,
\* or one of those known to take longer than a pause.
RemovalsAreKnown ==
  \A t \in Thread :
    clearing[t].at = "del" =>
      \/ clearing[t].s \in late
      \/ clearing[t].s = main.s /\ main.at \in {"wait", "clear", "gap"}

InjectorInv ==
  /\ OnlyCurrentIsActive /\ MainHasASession /\ QuietBetweenSessions /\ MonitorsFollow
  /\ ClearsAreApart /\ LabelsAreOfThePast /\ RulesHaveASession
  /\ RemovalsAreKnown /\ FaultLastsItsSession

-----------------------------------------------------------------------------
\* The inductive invariant of the bridge.

\* The bridge that runs knows all that a restart would read from the log.
LoggedIsRemembered == bridge.at # "dead" => Logged \subseteq processed

\* The record in hand was not processed before, and was accepted if it is marked.
RecordInHand ==
  /\ bridge.at = "post" => bridge.s \notin processed
  /\ bridge.at = "mark" => accepted[bridge.s] > 0

BridgeInv == LoggedIsRemembered /\ RecordInHand /\ ProcessedWasAccepted

-----------------------------------------------------------------------------
\* Types.

LEMMA TypeInit == Init => TypeOK
  <1> SUFFICES ASSUME Init PROVE TypeOK
    OBVIOUS
  <1>1. 0 \in 0 .. MaxSession /\ 0 \in 0 .. MaxFaults /\ 0 \in 0 .. MaxStops
    BY ChaosAssumption DEF ChaosAssumption
  <1>2. /\ suite \in Suites /\ interface \in Interface /\ alive = TRUE /\ main = [at |-> "next", s |-> 0]
        /\ current = 0 /\ rule = 0 /\ gate = "none" /\ bridge = [at |-> "poll"]
        /\ processed = {} /\ log = <<>> /\ left = {} /\ late = {} /\ stops = 0 /\ faults = 0
    BY DEF Init, None
  <1>3. monitor \in [Session -> {"none", "watch", "expired", "clear", "ended"}]
        /\ clearing \in [Thread -> {NotClearing} \cup Clearing]
    BY DEF Init
  <1>4. session \in [Session -> [active : BOOLEAN, resolution : Final \cup {""},
                                 latency : BOOLEAN]]
    BY DEF Init
  <1>5. /\ label \in [Session -> Final \cup {"none", "empty"}]
        /\ result \in [Session -> {"none", "passed", "failed"}]
        /\ accepted \in [Session -> Nat]
    BY DEF Init
  <1>6. main \in [at : {"next", "apply", "wait", "clear", "gap", "gate", "done"},
                  s : 0 .. MaxSession]
    BY <1>1, <1>2
  <1>7. /\ bridge \in BridgeIdle \cup BridgeBusy
        /\ log \in Seq({Torn} \cup Session) /\ processed \subseteq Session
    BY <1>2 DEF BridgeIdle
  <1> QED
    BY <1>1, <1>2, <1>3, <1>4, <1>5, <1>6, <1>7 DEF TypeOK

\* The thread of the suite keeps its type when it moves.
LEMMA GoesType ==
  ASSUME TypeOK, NEW at \in {"next", "apply", "wait", "clear", "gap", "gate", "done"},
         Goes(at)
  PROVE  main' \in [at : {"next", "apply", "wait", "clear", "gap", "gate", "done"},
                    s : 0 .. MaxSession]
         /\ main'.at = at /\ main'.s = main.s
  BY DEF TypeOK, Goes

LEMMA MonitorGoesType ==
  ASSUME TypeOK, NEW s \in Session,
         NEW at \in {"none", "watch", "expired", "clear", "ended"}, MonitorGoes(s, at)
  PROVE  /\ monitor' \in [Session -> {"none", "watch", "expired", "clear", "ended"}]
         /\ monitor'[s] = at
         /\ \A r \in Session : r # s => monitor'[r] = monitor[r]
  BY DEF TypeOK, MonitorGoes

LEMMA VerdictType ==
  ASSUME TypeOK, NEW s, NEW v \in {"passed", "failed"}, Verdict(s, v)
  PROVE  result' \in [Session -> {"none", "passed", "failed"}]
  BY DEF TypeOK, Verdict

\* A thread that is in clear has a session to clear.
LEMMA ClearingType ==
  ASSUME TypeOK, NEW t \in Thread
  PROVE  /\ clearing[t].at \in {"no", "del", "open", "write"}
         /\ clearing[t].at # "no" => clearing[t] \in Clearing /\ clearing[t].s \in Session
         /\ clearing[t].at = "write" => clearing[t].resolution \in Final
         /\ clearing[t].at = "no" <=> clearing[t] = NotClearing
  <1>1. clearing[t] \in {NotClearing} \cup Clearing
    BY DEF TypeOK
  <1> QED
    BY <1>1 DEF NotClearing, Clearing

LEMMA ReturnsType ==
  ASSUME TypeOK, NEW t \in Thread, NEW ok \in BOOLEAN, Returns(t, ok)
  PROVE  /\ main' \in [at : {"next", "apply", "wait", "clear", "gap", "gate", "done"},
                       s : 0 .. MaxSession]
         /\ monitor' \in [Session -> {"none", "watch", "expired", "clear", "ended"}]
         /\ result' \in [Session -> {"none", "passed", "failed"}]
         /\ main'.s = main.s
         /\ t = Main => main'.at = "gap" /\ monitor' = monitor
         /\ t # Main => /\ main' = main /\ t \in Session /\ monitor'[t] = "ended"
                        /\ \A s \in Session : s # t => monitor'[s] = monitor[s]
  <1>1. CASE t = Main
    <2>1. Goes("gap") /\ monitor' = monitor
      BY <1>1 DEF Returns
    <2>2. result' \in [Session -> {"none", "passed", "failed"}]
      <3>1. CASE UNCHANGED result
        BY <3>1 DEF TypeOK
      <3>2. CASE Verdict(main.s, IF ok THEN "passed" ELSE "failed")
        <4>1. (IF ok THEN "passed" ELSE "failed") \in {"passed", "failed"}
          OBVIOUS
        <4> QED
          BY <3>2, <4>1, VerdictType
      <3> QED
        BY <1>1, <3>1, <3>2 DEF Returns
    <2>3. monitor \in [Session -> {"none", "watch", "expired", "clear", "ended"}]
      BY DEF TypeOK
    <2> QED
      BY <1>1, <2>1, <2>2, <2>3, GoesType
  <1>2. CASE t # Main
    <2>1. t \in Session /\ MonitorGoes(t, "ended") /\ main' = main /\ result' = result
      BY <1>2 DEF Returns, Thread
    <2> QED
      BY <1>2, <2>1, MonitorGoesType DEF TypeOK
  <1> QED
    BY <1>1, <1>2

\* A line that is appended to the log is the only one that may be new in it.
LEMMA AppendedType ==
  ASSUME NEW S, log \in Seq(S), NEW line \in S
  PROVE  /\ Appended(line) \in Seq(S)
         /\ \A n \in 1 .. Len(Appended(line)) :
              Appended(line)[n] = line \/ (n \in 1 .. Len(log) /\ Appended(line)[n] = log[n])
  BY DEF Appended

\* A step of the bridge leaves the injector's variables alone.
LEMMA BridgeTypes ==
  ASSUME TypeOK, NEW processedNow \in SUBSET Session,
         NEW logNow \in Seq({Torn} \cup Session),
         UNCHANGED <<run, injectorVars>>, processed' = processedNow, log' = logNow,
         bridge' \in BridgeIdle \cup BridgeBusy, accepted' \in [Session -> Nat],
         stops' \in 0 .. MaxStops, faults' \in 0 .. MaxFaults
  PROVE  TypeOK'
  BY DEF TypeOK, run, injectorVars

LEMMA FaultsType ==
  ASSUME TypeOK
  PROVE  /\ faults \in Nat
         /\ faults < MaxFaults => faults + 1 \in 0 .. MaxFaults
  <1>1. MaxFaults \in Nat
    BY ChaosAssumption DEF ChaosAssumption
  <1>2. faults \in 0 .. MaxFaults
    BY DEF TypeOK
  <1> QED
    BY <1>1, <1>2

\* What a session may hold, and that it stays so when its fields are set.
Fields == [active : BOOLEAN, resolution : Final \cup {""}, latency : BOOLEAN]

LEMMA FieldsType ==
  ASSUME TypeOK, NEW s \in Session
  PROVE  /\ session[s] \in Fields
         /\ \A f \in Fields : [session EXCEPT ![s] = f] \in [Session -> Fields]
         /\ \A b \in BOOLEAN : [session[s] EXCEPT !.active = b] \in Fields
         /\ \A r \in Final : [session[s] EXCEPT !.resolution = r] \in Fields
         /\ [session[s] EXCEPT !.resolution = "HEALED", !.latency = TRUE] \in Fields
  <1>1. session \in [Session -> Fields]
    BY DEF TypeOK, Fields
  <1>2. session[s] \in Fields /\ \A f \in Fields : [session EXCEPT ![s] = f] \in [Session -> Fields]
    BY <1>1
  <1>3. /\ \A b \in BOOLEAN : [session[s] EXCEPT !.active = b] \in Fields
        /\ \A r \in Final : [session[s] EXCEPT !.resolution = r] \in Fields
        /\ [session[s] EXCEPT !.resolution = "HEALED", !.latency = TRUE] \in Fields
    BY <1>2 DEF Fields, Final
  <1> QED
    BY <1>2, <1>3

LEMMA TypeStart == TypeOK /\ Start => TypeOK'
  <1> SUFFICES ASSUME TypeOK, Start PROVE TypeOK'
    OBVIOUS
  <1> DEFINE s == main.s + 1
  <1>1. s \in Session /\ s \in 0 .. MaxSession
    <2>1. suite \in Suites /\ main.s \in 0 .. MaxSession /\ s <= Len(suite)
      BY DEF TypeOK, Start
    <2>2. Len(suite) \in Nat /\ Len(suite) <= MaxSession /\ MaxSession \in Nat
      BY <2>1, ChaosAssumption DEF ChaosAssumption
    <2> QED
      BY <2>1, <2>2 DEF Session
  <1> HIDE DEF s
  <1>2. main' \in [at : {"next", "apply", "wait", "clear", "gap", "gate", "done"},
                   s : 0 .. MaxSession]
    BY <1>1 DEF Start, s
  <1>3. result' \in [Session -> {"none", "passed", "failed"}]
    BY <1>1, VerdictType DEF TypeOK, Start, s
  <1>4. current' \in 0 .. MaxSession
    BY <1>1 DEF TypeOK, Start, s
  <1>5. session' \in [Session -> [active : BOOLEAN, resolution : Final \cup {""},
                                  latency : BOOLEAN]]
    <2> DEFINE new == [session[s] EXCEPT !.active = TRUE]
    <2>1. session' = session \/ session' = [session EXCEPT ![s] = new]
      BY DEF Start, s
    <2>2. new \in Fields
      BY <1>1, FieldsType
    <2> HIDE DEF new
    <2>3. session \in [Session -> Fields]
      BY DEF TypeOK, Fields
    <2>4. session' \in [Session -> Fields]
      BY <1>1, <2>1, <2>2, <2>3, FieldsType
    <2> QED
      BY <2>4 DEF Fields
  <1> QED
    BY <1>2, <1>3, <1>4, <1>5 DEF TypeOK, Start, run, leftovers, bridgeVars

LEMMA RuleRange == TypeOK => rule \in 0 .. MaxSession /\ None \in 0 .. MaxSession
  <1>1. MaxSession \in Nat
    BY ChaosAssumption DEF ChaosAssumption
  <1>2. None \in 0 .. MaxSession
    BY <1>1 DEF None
  <1>3. TypeOK => rule \in 0 .. MaxSession
    BY DEF TypeOK
  <1> QED
    BY <1>2, <1>3

LEMMA TypeMain ==
  ASSUME TypeOK,
         \/ Apply \/ ApplyFails \/ TimesOut \/ Sleeps \/ Gap \/ Exit \/ Kill
         \/ \E budgetLeft \in BOOLEAN : Evaluate(budgetLeft)
  PROVE  TypeOK'
  <1>1. CASE Apply
    <2>1. main' \in [at : {"next", "apply", "wait", "clear", "gap", "gate", "done"},
                     s : 0 .. MaxSession]
      BY <1>1, GoesType DEF Apply
    <2> QED
      BY <1>1, <2>1 DEF TypeOK, Apply, run, leftovers, bridgeVars
  <1>2. CASE ApplyFails
    <2>1. main' \in [at : {"next", "apply", "wait", "clear", "gap", "gate", "done"},
                     s : 0 .. MaxSession]
      BY <1>2, GoesType DEF ApplyFails
    <2>2. result' \in [Session -> {"none", "passed", "failed"}]
      BY <1>2, VerdictType DEF ApplyFails
    <2>3. rule' \in 0 .. MaxSession /\ faults' \in 0 .. MaxFaults
      BY <1>2, FaultsType, RuleRange DEF ApplyFails
    <2> QED
      BY <1>2, <2>1, <2>2, <2>3 DEF TypeOK, ApplyFails, run, leftovers, bridgeVars
  <1>3. CASE TimesOut
    <2>1. main' \in [at : {"next", "apply", "wait", "clear", "gap", "gate", "done"},
                     s : 0 .. MaxSession]
      BY <1>3, GoesType DEF TimesOut
    <2>2. result' \in [Session -> {"none", "passed", "failed"}]
      <3> DEFINE v == IF suite[main.s].expectedHeal \/ session[main.s].latency
                      THEN "failed" ELSE "passed"
      <3>1. v \in {"passed", "failed"} /\ Verdict(main.s, v)
        BY <1>3 DEF TimesOut
      <3> QED
        BY <3>1, VerdictType
    <2>3. session' \in [Session -> [active : BOOLEAN, resolution : Final \cup {""},
                                    latency : BOOLEAN]]
      <3>1. session \in [Session -> Fields]
        BY DEF TypeOK, Fields
      <3>2. CASE main.s \in Session
        <4> DEFINE new == [session[main.s] EXCEPT !.resolution = "TIMEOUT"]
        <4>1. new \in Fields /\ session' = [session EXCEPT ![main.s] = new]
          BY <1>3, <3>2, FieldsType DEF TimesOut, Final
        <4> HIDE DEF new
        <4> QED
          BY <3>1, <4>1 DEF Fields
      <3>3. CASE main.s \notin Session
        <4>1. session' = session
          BY <1>3, <3>1, <3>3 DEF TimesOut
        <4> QED
          BY <3>1, <4>1 DEF Fields
      <3> QED
        BY <3>2, <3>3
    <2> QED
      BY <1>3, <2>1, <2>2, <2>3 DEF TypeOK, TimesOut, run, leftovers, bridgeVars
  <1>4. CASE Sleeps
    <2>1. main' \in [at : {"next", "apply", "wait", "clear", "gap", "gate", "done"},
                     s : 0 .. MaxSession]
      BY <1>4, GoesType DEF Sleeps
    <2> QED
      BY <1>4, <2>1 DEF TypeOK, Sleeps, run, leftovers, bridgeVars
  <1>5. CASE Gap
    <2>1. main' \in [at : {"next", "apply", "wait", "clear", "gap", "gate", "done"},
                     s : 0 .. MaxSession]
      <3>1. Goes("next") \/ Goes("gate")
        BY <1>5 DEF Gap
      <3> QED
        BY <3>1, GoesType
    <2>2. late' \subseteq Session
      BY <1>5 DEF TypeOK, Gap, Removing
    <2> QED
      BY <1>5, <2>1, <2>2 DEF TypeOK, Gap, run, leftovers, bridgeVars
  <1>6. CASE Kill
    <2>1. faults' \in 0 .. MaxFaults
      BY <1>6, FaultsType DEF Kill
    <2> QED
      BY <1>6, <2>1 DEF TypeOK, Kill, run, leftovers, bridgeVars
  <1>7. ASSUME NEW budgetLeft \in BOOLEAN, Evaluate(budgetLeft) PROVE TypeOK'
    <2>1. main' \in [at : {"next", "apply", "wait", "clear", "gap", "gate", "done"},
                     s : 0 .. MaxSession]
      BY <1>7, GoesType DEF Evaluate
    <2>2. gate' \in {"none", "passed", "blocked"}
      BY <1>7 DEF Evaluate
    <2> QED
      BY <1>7, <2>1, <2>2 DEF TypeOK, Evaluate, run, leftovers, bridgeVars
  <1>8. CASE Exit
    BY <1>8 DEF TypeOK, Exit, run, leftovers, bridgeVars
  <1> QED
    BY <1>1, <1>2, <1>3, <1>4, <1>5, <1>6, <1>7, <1>8

LEMMA TypeMonitor ==
  ASSUME TypeOK, NEW s \in Session, MonitorStep(s)
  PROVE  TypeOK'
  <1>1. CASE Expire(s)
    <2> DEFINE at == IF session[s].active THEN "expired" ELSE "ended"
    <2>1. MonitorGoes(s, at) /\ at \in {"none", "watch", "expired", "clear", "ended"}
      BY <1>1 DEF Expire
    <2>2. monitor' \in [Session -> {"none", "watch", "expired", "clear", "ended"}]
      BY <2>1, MonitorGoesType
    <2> QED
      BY <1>1, <2>2 DEF TypeOK, Expire, run, leftovers, bridgeVars
  <1>2. CASE Resolve(s)
    <2>1. monitor' \in [Session -> {"none", "watch", "expired", "clear", "ended"}]
      BY <1>2, MonitorGoesType DEF Resolve
    <2>2. session' \in [Session -> [active : BOOLEAN, resolution : Final \cup {""},
                                    latency : BOOLEAN]]
      <3> DEFINE new == [session[s] EXCEPT !.resolution = "HEALED", !.latency = TRUE]
      <3>1. session \in [Session -> Fields]
        BY DEF TypeOK, Fields
      <3>2. new \in Fields
        BY FieldsType
      <3>3. session' = [session EXCEPT ![s] = new]
        BY <1>2, <3>1 DEF Resolve
      <3> HIDE DEF new
      <3>4. session' \in [Session -> Fields]
        BY <3>1, <3>2, <3>3
      <3> QED
        BY <3>4 DEF Fields
    <2> QED
      BY <1>2, <2>1, <2>2 DEF TypeOK, Resolve, run, leftovers, bridgeVars
  <1> QED
    BY <1>1, <1>2 DEF MonitorStep

LEMMA TypeClear ==
  ASSUME TypeOK, NEW t \in Thread, ClearStep(t) \/ DeleteFails(t) \/ WriteFails(t)
  PROVE  TypeOK'
  <1>0. /\ clearing[t].at # "no" => clearing[t] \in Clearing /\ clearing[t].s \in Session
        /\ clearing[t].at = "write" => clearing[t].resolution \in Final
    BY ClearingType
  <1>1. CASE Begin(t)
    <2>1. CASE Active
      <3>1. current \in Session
        <4>1. current \in 0 .. MaxSession /\ current # 0
          BY <2>1 DEF TypeOK, Active, None
        <4>2. MaxSession \in Nat
          BY ChaosAssumption DEF ChaosAssumption
        <4> QED
          BY <4>1, <4>2 DEF Session
      <3>2. session' \in [Session -> [active : BOOLEAN, resolution : Final \cup {""},
                                      latency : BOOLEAN]]
        <4> DEFINE new == [session[current] EXCEPT !.active = FALSE]
        <4>1. new \in Fields /\ session' = [session EXCEPT ![current] = new]
          BY <1>1, <2>1, <3>1, FieldsType DEF Begin
        <4> HIDE DEF new
        <4> QED
          BY <3>1, <4>1, FieldsType DEF Fields
      <3>3. clearing' \in [Thread -> {NotClearing} \cup Clearing]
        <4>1. [at |-> "del", s |-> current] \in Clearing
          BY <3>1 DEF Clearing
        <4> QED
          BY <1>1, <2>1, <4>1 DEF TypeOK, Begin
      <3> QED
        BY <1>1, <2>1, <3>2, <3>3 DEF TypeOK, Begin, run, leftovers, bridgeVars
    <2>2. CASE ~Active
      <3>1. Returns(t, TRUE) /\ UNCHANGED <<session, clearing>>
        BY <1>1, <2>2 DEF Begin
      <3>2. /\ main' \in [at : {"next", "apply", "wait", "clear", "gap", "gate", "done"},
                          s : 0 .. MaxSession]
            /\ monitor' \in [Session -> {"none", "watch", "expired", "clear", "ended"}]
            /\ result' \in [Session -> {"none", "passed", "failed"}]
        BY <3>1, ReturnsType
      <3> QED
        BY <1>1, <3>1, <3>2 DEF TypeOK, Begin, run, leftovers, bridgeVars
    <2> QED
      BY <2>1, <2>2
  <1>2. CASE Delete(t) \/ DeleteFails(t)
    <2> DEFINE record == [clearing[t] EXCEPT !.at = "open"]
    <2>1. record \in Clearing
      BY <1>0, <1>2 DEF Delete, DeleteFails, Clearing
    <2>2. clearing' = [clearing EXCEPT ![t] = record]
      BY <1>2 DEF Delete, DeleteFails
    <2> HIDE DEF record
    <2>3. clearing' \in [Thread -> {NotClearing} \cup Clearing]
      BY <2>1, <2>2 DEF TypeOK
    <2>4. rule' \in 0 .. MaxSession
      BY <1>2, RuleRange DEF Delete, DeleteFails
    <2>5. left' \subseteq Session
      BY <1>0, <1>2 DEF TypeOK, Delete, DeleteFails
    <2>6. faults' \in 0 .. MaxFaults
      BY <1>2, FaultsType DEF TypeOK, Delete, DeleteFails
    <2> QED
      BY <1>2, <2>3, <2>4, <2>5, <2>6
      DEF TypeOK, Delete, DeleteFails, run, leftovers, bridgeVars
  <1>3. CASE Open(t)
    <2> DEFINE s == clearing[t].s
               r == IF session[s].resolution = "" THEN "MANUAL_CLEAR"
                    ELSE session[s].resolution
    <2>1. s \in Session /\ r \in Final
      BY <1>0, <1>3 DEF Open, TypeOK, Final
    <2>2. /\ session' = [session EXCEPT ![s].resolution = r]
          /\ label' = [label EXCEPT ![s] = "empty"]
          /\ clearing' = [clearing EXCEPT ![t] = [at |-> "write", s |-> s, resolution |-> r]]
      BY <1>3 DEF Open
    <2> HIDE DEF s, r
    <2>3. [at |-> "write", s |-> s, resolution |-> r] \in Clearing
      BY <2>1 DEF Clearing
    <2>4. clearing' \in [Thread -> {NotClearing} \cup Clearing]
      BY <2>2, <2>3 DEF TypeOK
    <2>5. session' \in [Session -> [active : BOOLEAN, resolution : Final \cup {""},
                                    latency : BOOLEAN]]
      BY <2>1, <2>2 DEF TypeOK
    <2>6. label' \in [Session -> Final \cup {"none", "empty"}]
      BY <2>2 DEF TypeOK
    <2> QED
      BY <1>3, <2>4, <2>5, <2>6 DEF TypeOK, Open, run, leftovers, bridgeVars
  <1>4. CASE Write(t)
    <2>1. /\ main' \in [at : {"next", "apply", "wait", "clear", "gap", "gate", "done"},
                        s : 0 .. MaxSession]
          /\ monitor' \in [Session -> {"none", "watch", "expired", "clear", "ended"}]
          /\ result' \in [Session -> {"none", "passed", "failed"}]
      BY <1>4, ReturnsType DEF Write
    <2>2. clearing' \in [Thread -> {NotClearing} \cup Clearing]
      BY <1>4 DEF TypeOK, Write
    <2>3. label' \in [Session -> Final \cup {"none", "empty"}]
      BY <1>0, <1>4 DEF TypeOK, Write
    <2> QED
      BY <1>4, <2>1, <2>2, <2>3 DEF TypeOK, Write, run, leftovers, bridgeVars
  <1>5. CASE WriteFails(t)
    <2>1. /\ main' \in [at : {"next", "apply", "wait", "clear", "gap", "gate", "done"},
                        s : 0 .. MaxSession]
          /\ monitor' \in [Session -> {"none", "watch", "expired", "clear", "ended"}]
          /\ result' \in [Session -> {"none", "passed", "failed"}]
      BY <1>5, ReturnsType DEF WriteFails
    <2>2. clearing' \in [Thread -> {NotClearing} \cup Clearing]
      BY <1>5 DEF TypeOK, WriteFails
    <2>3. faults' \in 0 .. MaxFaults
      BY <1>5, FaultsType DEF WriteFails
    <2> QED
      BY <1>5, <2>1, <2>2, <2>3 DEF TypeOK, WriteFails, run, leftovers, bridgeVars
  <1> QED
    BY <1>1, <1>2, <1>3, <1>4, <1>5 DEF ClearStep

LEMMA TypeBridge ==
  ASSUME TypeOK, BridgeStep
  PROVE  TypeOK'
  <1>0. /\ bridge.at \in {"post", "mark"} => bridge \in BridgeBusy /\ bridge.s \in Session
        /\ log \in Seq({Torn} \cup Session) /\ processed \in SUBSET Session
        /\ stops \in 0 .. MaxStops /\ faults \in 0 .. MaxFaults /\ accepted \in [Session -> Nat]
    <2>1. bridge \in BridgeIdle \cup BridgeBusy
      BY DEF TypeOK
    <2>2. bridge.at \in {"post", "mark"} => bridge \in BridgeBusy /\ bridge.s \in Session
      BY <2>1 DEF BridgeIdle, BridgeBusy
    <2> QED
      BY <2>2 DEF TypeOK
  <1>1. /\ [at |-> "poll"] \in BridgeIdle \cup BridgeBusy
        /\ [at |-> "dead"] \in BridgeIdle \cup BridgeBusy
    BY DEF BridgeIdle
  <1>2. \A s \in Session : accepted[s] + 1 \in Nat
                           /\ [accepted EXCEPT ![s] = accepted[s] + 1] \in [Session -> Nat]
    <2> TAKE s \in Session
    <2> DEFINE next == accepted[s] + 1
    <2>1. next \in Nat
      BY <1>0
    <2> HIDE DEF next
    <2>2. [accepted EXCEPT ![s] = next] \in [Session -> Nat]
      BY <1>0, <2>1
    <2> QED
      BY <2>1, <2>2 DEF next
  <1>3. ASSUME NEW s \in Session, Pick(s) PROVE TypeOK'
    <2>1. bridge' \in BridgeIdle \cup BridgeBusy
      BY <1>3 DEF Pick, BridgeBusy
    <2> QED
      BY <1>0, <1>3, <2>1, BridgeTypes DEF Pick
  <1>4. CASE Accept
    <2>1. bridge' \in BridgeIdle \cup BridgeBusy
      BY <1>0, <1>4 DEF Accept, BridgeBusy
    <2>2. accepted' \in [Session -> Nat]
      BY <1>0, <1>2, <1>4 DEF Accept
    <2> QED
      BY <1>0, <1>4, <2>1, <2>2, BridgeTypes DEF Accept
  <1>5. CASE Refuse
    BY <1>0, <1>1, <1>5, BridgeTypes DEF Refuse
  <1>6. CASE AnswerLost
    <2>1. accepted' \in [Session -> Nat]
      BY <1>0, <1>2, <1>6 DEF AnswerLost
    <2>2. faults' \in 0 .. MaxFaults
      BY <1>6, FaultsType DEF AnswerLost
    <2> QED
      BY <1>0, <1>1, <1>6, <2>1, <2>2, BridgeTypes DEF AnswerLost
  <1>7. CASE Mark
    <2>1. Appended(bridge.s) \in Seq({Torn} \cup Session)
      BY <1>0, <1>7, AppendedType DEF Mark
    <2>2. processed \cup {bridge.s} \in SUBSET Session
      BY <1>0, <1>7 DEF Mark
    <2> QED
      BY <1>0, <1>1, <1>7, <2>1, <2>2, BridgeTypes DEF Mark
  <1>8. CASE BridgeDies
    <2>1. log' \in Seq({Torn} \cup Session)
      BY <1>0, <1>8, AppendedType DEF BridgeDies
    <2>2. faults' \in 0 .. MaxFaults
      BY <1>8, FaultsType DEF BridgeDies
    <2> QED
      BY <1>0, <1>1, <1>8, <2>1, <2>2, BridgeTypes DEF BridgeDies
  <1>9. CASE BridgeRestart
    <2>1. Logged \in SUBSET Session
      BY <1>0 DEF Logged, Readable
    <2> QED
      BY <1>0, <1>1, <1>9, <2>1, BridgeTypes DEF BridgeRestart
  <1>10. CASE TakenThenRefused
    <2>1. accepted' \in [Session -> Nat]
      BY <1>0, <1>2, <1>10 DEF TakenThenRefused
    <2>2. faults' \in 0 .. MaxFaults
      BY <1>10, FaultsType DEF TakenThenRefused
    <2> QED
      BY <1>0, <1>1, <1>10, <2>1, <2>2, BridgeTypes DEF TakenThenRefused
  <1>11. CASE BridgeStop
    <2>1. accepted' \in [Session -> Nat]
      BY <1>0, <1>2, <1>11 DEF BridgeStop
    <2>2. stops' \in 0 .. MaxStops
      BY <1>0, <1>11, ChaosAssumption DEF BridgeStop, ChaosAssumption
    <2> QED
      BY <1>0, <1>1, <1>11, <2>1, <2>2, BridgeTypes DEF BridgeStop
  <1> QED
    BY <1>3, <1>4, <1>5, <1>6, <1>7, <1>8, <1>9, <1>10, <1>11 DEF BridgeStep

LEMMA TypeNext == TypeOK /\ [Next]_vars => TypeOK'
  <1> SUFFICES ASSUME TypeOK, [Next]_vars PROVE TypeOK'
    OBVIOUS
  <1>1. CASE MainStep \/ ApplyFails \/ Exit \/ Kill
    BY <1>1, TypeStart, TypeMain DEF MainStep
  <1>2. CASE \E t \in Thread : ClearStep(t) \/ DeleteFails(t) \/ WriteFails(t)
    BY <1>2, TypeClear
  <1>3. CASE \E s \in Session : MonitorStep(s)
    BY <1>3, TypeMonitor
  <1>4. CASE BridgeStep
    BY <1>4, TypeBridge
  <1>5. CASE UNCHANGED vars
    BY <1>5 DEF TypeOK, vars, run, injectorVars, bridgeVars
  <1> QED
    BY <1>1, <1>2, <1>3, <1>4, <1>5 DEF Next

\* The sessions, the threads, the labels and the bridge keep their types: no
\* step leaves the domain of what is written to a session, to a label or to the
\* log of the bridge.
THEOREM TypeCorrect == Spec => []TypeOK
  <1>1. Init => TypeOK
    BY TypeInit
  <1>2. TypeOK /\ [Next]_vars => TypeOK'
    BY TypeNext
  <1> QED
    BY <1>1, <1>2, PTL DEF Spec

-----------------------------------------------------------------------------
\* The injector.

LEMMA InjectorInit == Init => InjectorInv
  <1> SUFFICES ASSUME Init PROVE InjectorInv
    OBVIOUS
  <1>1. /\ main.at = "next" /\ rule = None /\ Main \in Thread
        /\ \A s \in Session : ~session[s].active /\ monitor[s] = "none" /\ label[s] = "none"
        /\ \A t \in Thread : clearing[t].at = "no"
    BY DEF Init, NotClearing, Thread
  <1>2. \A s \in Session : s \in Thread
    BY DEF Thread
  <1> QED
    BY <1>1, <1>2 DEF InjectorInv, OnlyCurrentIsActive, MainHasASession,
      QuietBetweenSessions, MonitorsFollow, ClearsAreApart, LabelsAreOfThePast,
      RulesHaveASession, RemovalsAreKnown, FaultLastsItsSession

LEMMA SessionsAreNumbers ==
  /\ \A s \in Session : s \in Nat /\ s # None /\ s # Main
  /\ Main \in Thread /\ \A s \in Session : s \in Thread
  BY ChaosAssumption DEF ChaosAssumption, Session, None, Main, Thread

\* A session is active exactly when its number says so after its fields are set.
LEMMA FieldsSet ==
  ASSUME TypeOK, NEW s \in Session, NEW f \in Fields, session' = [session EXCEPT ![s] = f]
  PROVE  session'[s] = f /\ \A r \in Session : r # s => session'[r] = session[r]
  BY DEF TypeOK

\* No session is active exactly when inject and clear take it that way.
LEMMA ActiveMeans ==
  ASSUME TypeOK, OnlyCurrentIsActive
  PROVE  /\ Active => current \in Session /\ session[current].active /\ current = main.s
         /\ ~Active => \A s \in Session : ~session[s].active
  <1>1. current # None => current \in Session
    <2>1. current \in 0 .. MaxSession /\ MaxSession \in Nat
      BY ChaosAssumption DEF TypeOK, ChaosAssumption
    <2> QED
      BY <2>1 DEF None, Session
  <1> QED
    BY <1>1, SessionsAreNumbers DEF Active, OnlyCurrentIsActive

LEMMA RuleType ==
  ASSUME TypeOK
  PROVE  rule # None => rule \in Session
  <1>1. rule \in 0 .. MaxSession /\ MaxSession \in Nat
    BY ChaosAssumption DEF TypeOK, ChaosAssumption
  <1> QED
    BY <1>1 DEF None, Session

LEMMA InjectorStart == TypeOK /\ InjectorInv /\ Start => InjectorInv'
  <1> SUFFICES ASSUME TypeOK, InjectorInv, Start PROVE InjectorInv'
    OBVIOUS
  <1> USE DEF InjectorInv
  <1> DEFINE n == main.s + 1
  <1>1. n \in Session
    <2>1. suite \in Suites /\ main.s \in 0 .. MaxSession /\ n <= Len(suite)
      BY DEF TypeOK, Start
    <2>2. Len(suite) \in Nat /\ Len(suite) <= MaxSession /\ MaxSession \in Nat
      BY <2>1, ChaosAssumption DEF ChaosAssumption
    <2> QED
      BY <2>1, <2>2 DEF Session
  <1>2. \A s \in Session : s <= main.s => s <= n /\ s # n
    <2>1. main.s \in 0 .. MaxSession
      BY DEF TypeOK
    <2> QED
      BY <2>1, SessionsAreNumbers
  <1> HIDE DEF n
  <1>3. main.at = "next" /\ clearing[Main].at = "no" /\ \A s \in Session : ~session[s].active
    BY DEF Start, QuietBetweenSessions
  <1>4. ~Active
    BY <1>3, ActiveMeans
  <1>5. /\ main' = [at |-> "apply", s |-> n] /\ current' = n
        /\ UNCHANGED <<monitor, clearing, rule, label>>
    BY <1>4 DEF Start, n
  <1>6. /\ session'[n].active
        /\ \A s \in Session : s # n => session'[s] = session[s]
    <2> DEFINE new == [session[n] EXCEPT !.active = TRUE]
    <2>1. session' = [session EXCEPT ![n] = new]
      BY <1>4 DEF Start, n
    <2>2. new \in Fields /\ new.active
      BY <1>1, FieldsType DEF Fields
    <2> HIDE DEF new
    <2> QED
      BY <1>1, <2>1, <2>2, FieldsSet
  <1>7. OnlyCurrentIsActive'
    BY <1>3, <1>5, <1>6 DEF OnlyCurrentIsActive
  <1>8. MainHasASession'
    BY <1>1, <1>5, <1>6 DEF MainHasASession
  <1>9. QuietBetweenSessions'
    BY <1>3, <1>5 DEF QuietBetweenSessions
  <1>10. MonitorsFollow'
    BY <1>2, <1>3, <1>5 DEF MonitorsFollow
  <1>11. ClearsAreApart'
    BY <1>2, <1>5, <1>6, ClearingType DEF ClearsAreApart
  <1>12. LabelsAreOfThePast'
    BY <1>2, <1>5, <1>6 DEF LabelsAreOfThePast
  <1>13. RulesHaveASession'
    BY <1>3, <1>5, <1>6, RuleType DEF RulesHaveASession, Removing, Start, leftovers
  <1>14. RemovalsAreKnown'
    BY <1>3, <1>5 DEF RemovalsAreKnown, Start, leftovers
  <1>15. FaultLastsItsSession'
    BY <1>5 DEF FaultLastsItsSession
  <1> QED
    BY <1>7, <1>8, <1>9, <1>10, <1>11, <1>12, <1>13, <1>14, <1>15

\* A step of the suite's thread after the start of a session, that leaves the
\* sessions as active as they were.
LEMMA InjectorMain ==
  ASSUME TypeOK, InjectorInv,
         \/ Apply \/ ApplyFails \/ TimesOut \/ Sleeps \/ Gap
         \/ \E budgetLeft \in BOOLEAN : Evaluate(budgetLeft)
  PROVE  InjectorInv'
  <1> USE DEF InjectorInv
  <1>1. main'.s = main.s
    <2>1. \E at \in {"next", "apply", "wait", "clear", "gap", "gate", "done"} : Goes(at)
      BY DEF Apply, ApplyFails, TimesOut, Sleeps, Gap, Evaluate
    <2> QED
      BY <2>1, GoesType
  <1>2. \A s \in Session : session'[s].active = session[s].active
    <2>1. CASE session' = session
      BY <2>1
    <2>2. CASE TimesOut /\ main.s \in Session
      <3> DEFINE new == [session[main.s] EXCEPT !.resolution = "TIMEOUT"]
      <3>1. session' = [session EXCEPT ![main.s] = new]
        BY <2>2 DEF TimesOut
      <3>2. new \in Fields /\ new.active = session[main.s].active
        <4>1. session[main.s] \in Fields
          BY <2>2, FieldsType
        <4>2. "TIMEOUT" \in Final
          BY DEF Final
        <4>3. new \in Fields
          BY <2>2, <4>2, FieldsType
        <4> QED
          BY <4>1, <4>3 DEF Fields
      <3> HIDE DEF new
      <3> QED
        BY <2>2, <3>1, <3>2, FieldsSet
    <2>3. TimesOut => main.s \in Session
      BY DEF TimesOut, MainHasASession
    <2> QED
      BY <2>1, <2>2, <2>3 DEF Apply, ApplyFails, Sleeps, Gap, Evaluate
  <1>3. UNCHANGED <<current, clearing, label>>
    BY DEF Apply, ApplyFails, TimesOut, Sleeps, Gap, Evaluate
  <1>4. OnlyCurrentIsActive' /\ ClearsAreApart' /\ LabelsAreOfThePast'
    <2>1. OnlyCurrentIsActive' /\ LabelsAreOfThePast'
      BY <1>1, <1>2, <1>3 DEF OnlyCurrentIsActive, LabelsAreOfThePast
    <2>2. ClearsAreApart'
      BY <1>1, <1>2, <1>3, ClearingType DEF ClearsAreApart
    <2> QED
      BY <2>1, <2>2
  <1>5. CASE Apply
    <2>1. main.at = "apply" /\ main'.at = "wait" /\ main.s \in Session /\ rule' = main.s
          /\ monitor' = [monitor EXCEPT ![main.s] = "watch"]
      BY <1>5, GoesType DEF Apply, MainHasASession
    <2>2. MainHasASession' /\ QuietBetweenSessions'
      BY <1>1, <1>2, <1>3, <2>1 DEF MainHasASession, QuietBetweenSessions
    <2>3. MonitorsFollow'
      <3>1. /\ monitor'[main.s] = "watch"
            /\ \A s \in Session : s # main.s => monitor'[s] = monitor[s]
        BY <2>1 DEF TypeOK
      <3>2. main.s <= main.s /\ \A s \in Session : clearing[s].at # "no" => s # main.s
        BY <2>1, SessionsAreNumbers DEF MonitorsFollow
      <3> QED
        BY <1>1, <1>3, <2>1, <3>1, <3>2 DEF MonitorsFollow
    <2>4. RulesHaveASession'
      BY <1>2, <2>1 DEF RulesHaveASession, MainHasASession
    <2>5. RemovalsAreKnown'
      BY <1>1, <1>3, <1>5, <2>1 DEF RemovalsAreKnown, Apply, leftovers
    <2>6. FaultLastsItsSession'
      BY <1>1, <1>2, <2>1 DEF FaultLastsItsSession, MainHasASession
    <2> QED
      BY <1>4, <2>2, <2>3, <2>4, <2>5, <2>6
  <1>6. CASE ApplyFails
    <2>1. /\ main.at = "apply" /\ main'.at = "clear" /\ rule' \in {None, rule}
          /\ monitor' = monitor /\ UNCHANGED leftovers
      BY <1>6, GoesType DEF ApplyFails
    <2>2. MainHasASession' /\ QuietBetweenSessions' /\ MonitorsFollow'
      BY <1>1, <1>2, <1>3, <2>1 DEF MainHasASession, QuietBetweenSessions, MonitorsFollow
    <2>3. RulesHaveASession'
      BY <1>2, <1>3, <2>1, RuleType DEF RulesHaveASession, Removing, leftovers
    <2>4. RemovalsAreKnown' /\ FaultLastsItsSession'
      BY <1>1, <1>3, <2>1 DEF RemovalsAreKnown, FaultLastsItsSession, leftovers
    <2> QED
      BY <1>4, <2>2, <2>3, <2>4
  <1>7. CASE TimesOut \/ Sleeps
    <2>1. /\ main.at = "wait" /\ main'.at = "clear" /\ rule' = rule /\ monitor' = monitor
          /\ UNCHANGED leftovers
      BY <1>7, GoesType DEF TimesOut, Sleeps
    <2>2. MainHasASession' /\ QuietBetweenSessions' /\ MonitorsFollow'
      BY <1>1, <1>2, <1>3, <2>1 DEF MainHasASession, QuietBetweenSessions, MonitorsFollow
    <2>3. RulesHaveASession'
      BY <1>2, <1>3, <2>1, RuleType DEF RulesHaveASession, Removing, leftovers
    <2>4. RemovalsAreKnown' /\ FaultLastsItsSession'
      BY <1>1, <1>3, <2>1 DEF RemovalsAreKnown, FaultLastsItsSession, leftovers
    <2> QED
      BY <1>4, <2>2, <2>3, <2>4
  <1>8. CASE Gap \/ \E budgetLeft \in BOOLEAN : Evaluate(budgetLeft)
    <2>1. /\ main.at \in {"gap", "gate"} /\ main'.at \in {"next", "gate", "done"}
          /\ rule' = rule /\ monitor' = monitor /\ left' = left
          /\ late' = IF main.at = "gap" THEN late \cup Removing ELSE late
      BY <1>8, GoesType DEF Gap, Evaluate, leftovers
    <2>2. MainHasASession' /\ QuietBetweenSessions'
      BY <1>1, <1>2, <1>3, <2>1 DEF MainHasASession, QuietBetweenSessions
    <2>3. MonitorsFollow'
      <3>1. \A s \in Session :
              monitor[s] # "expired" /\ (monitor[s] = "clear" => clearing[s].at # "no")
        <4> TAKE s \in Session
        <4>1. CASE main.at = "gap"
          <5>1. Settled /\ (clearing[s].at = "no" <=> clearing[s] = NotClearing)
            BY <1>8, <4>1, SessionsAreNumbers, ClearingType DEF Gap, Evaluate
          <5> QED
            BY <5>1 DEF Settled
        <4>2. CASE main.at = "gate"
          BY <4>2 DEF MonitorsFollow
        <4> QED
          BY <2>1, <4>1, <4>2
      <3> QED
        BY <1>1, <1>3, <2>1, <3>1 DEF MonitorsFollow
    <2>4. RulesHaveASession'
      BY <1>2, <1>3, <2>1, RuleType DEF RulesHaveASession, Removing
    <2>5. RemovalsAreKnown'
      <3> SUFFICES ASSUME NEW t \in Thread, clearing[t].at = "del"
                   PROVE  clearing[t].s \in late'
        BY <1>3 DEF RemovalsAreKnown
      <3>1. clearing[t].s \in Removing
        BY ClearingType DEF Removing
      <3> QED
        BY <2>1, <3>1 DEF RemovalsAreKnown
    <2>6. FaultLastsItsSession'
      BY <2>1 DEF FaultLastsItsSession
    <2> QED
      BY <1>4, <2>2, <2>3, <2>4, <2>5, <2>6
  <1> QED
    BY <1>5, <1>6, <1>7, <1>8

LEMMA InjectorMonitor ==
  ASSUME TypeOK, InjectorInv, NEW r \in Session, MonitorStep(r)
  PROVE  InjectorInv'
  <1> USE DEF InjectorInv
  <1>1. UNCHANGED <<main, current, clearing, label, rule, left, late>>
    BY DEF MonitorStep, Expire, Resolve, leftovers
  <1>2. \A s \in Session : session'[s].active = session[s].active
    <2>1. CASE session' = session
      BY <2>1
    <2>2. CASE Resolve(r)
      <3> DEFINE new == [session[r] EXCEPT !.resolution = "HEALED", !.latency = TRUE]
      <3>1. session' = [session EXCEPT ![r] = new]
        BY <2>2 DEF Resolve
      <3>2. new \in Fields /\ new.active = session[r].active
        BY FieldsType DEF Fields
      <3> HIDE DEF new
      <3> QED
        BY <3>1, <3>2, FieldsSet
    <2> QED
      BY <2>1, <2>2 DEF MonitorStep, Expire
  <1>3. /\ \A s \in Session : s # r => monitor'[s] = monitor[s]
        /\ \/ monitor[r] = "watch" /\ monitor'[r] = "expired" /\ session[r].active
           \/ monitor[r] = "watch" /\ monitor'[r] = "ended"
           \/ monitor[r] = "expired" /\ monitor'[r] = "clear"
    <2>1. CASE Expire(r)
      <3>1. CASE session[r].active
        BY <2>1, <3>1, MonitorGoesType DEF Expire
      <3>2. CASE ~session[r].active
        BY <2>1, <3>2, MonitorGoesType DEF Expire
      <3> QED
        BY <3>1, <3>2
    <2>2. CASE Resolve(r)
      BY <2>2, MonitorGoesType DEF Resolve
    <2> QED
      BY <2>1, <2>2 DEF MonitorStep
  <1>4. OnlyCurrentIsActive' /\ LabelsAreOfThePast' /\ MainHasASession'
        /\ QuietBetweenSessions'
    BY <1>1, <1>2 DEF OnlyCurrentIsActive, LabelsAreOfThePast, MainHasASession,
      QuietBetweenSessions
  <1>5. ClearsAreApart'
    BY <1>1, <1>2, ClearingType DEF ClearsAreApart
  <1>6. RulesHaveASession' /\ RemovalsAreKnown'
    BY <1>1, <1>2, RuleType DEF RulesHaveASession, Removing, RemovalsAreKnown
  <1>7. MonitorsFollow'
    <2>1. session[r].active /\ monitor[r] # "none" =>
            r = main.s /\ main.at \in {"wait", "clear"}
      <3>1. main.at \in {"next", "apply", "wait", "clear", "gap", "gate", "done"}
        BY DEF TypeOK
      <3> QED
        BY <3>1 DEF OnlyCurrentIsActive, QuietBetweenSessions, MonitorsFollow
    <2> QED
      BY <1>1, <1>3, <2>1 DEF MonitorsFollow
  <1>8. FaultLastsItsSession'
    BY <1>1, <1>2, <1>3 DEF FaultLastsItsSession, MainHasASession
  <1> QED
    BY <1>4, <1>5, <1>6, <1>7, <1>8

\* What the return of a clear to thread t leaves as it is, for a thread that is
\* in clear, or calls it when no session is active.
LEMMA InjectorReturns ==
  ASSUME TypeOK, OnlyCurrentIsActive, MainHasASession, QuietBetweenSessions, MonitorsFollow,
         NEW t \in Thread, NEW ok \in BOOLEAN, Returns(t, ok),
         \/ clearing[t].at # "no"
         \/ Calls(t) /\ \A s \in Session : ~session[s].active,
         clearing'[t].at = "no",
         \A u \in Thread : u # t => clearing'[u] = clearing[u],
         UNCHANGED <<current, session>>
  PROVE  /\ main'.s = main.s
         /\ OnlyCurrentIsActive' /\ MainHasASession' /\ QuietBetweenSessions'
         /\ MonitorsFollow'
  <1>1. CASE t = Main
    <2>1. main.at = "clear" /\ main'.at = "gap" /\ main'.s = main.s /\ monitor' = monitor
      BY <1>1, ReturnsType DEF QuietBetweenSessions, Calls
    <2>2. \A s \in Session : ~session[s].active
      BY <1>1 DEF QuietBetweenSessions
    <2>3. \A s \in Session : s # Main /\ s \in Thread
      BY SessionsAreNumbers
    <2> QED
      BY <1>1, <2>1, <2>2, <2>3 DEF OnlyCurrentIsActive, MainHasASession,
        QuietBetweenSessions, MonitorsFollow
  <1>2. CASE t # Main
    <2>1. /\ main' = main /\ t \in Session /\ monitor'[t] = "ended"
          /\ \A s \in Session : s # t => monitor'[s] = monitor[s]
      BY <1>2, ReturnsType
    <2>2. monitor[t] = "clear"
      BY <1>2, <2>1 DEF MonitorsFollow, Calls
    <2>3. Main \in Thread /\ \A s \in Session : s \in Thread
      BY SessionsAreNumbers
    <2>4. MonitorsFollow'
      BY <2>1, <2>2, <2>3 DEF MonitorsFollow
    <2>5. OnlyCurrentIsActive' /\ MainHasASession' /\ QuietBetweenSessions'
      BY <1>2, <2>1, <2>3 DEF OnlyCurrentIsActive, MainHasASession, QuietBetweenSessions
    <2> QED
      BY <2>1, <2>4, <2>5
  <1> QED
    BY <1>1, <1>2

LEMMA ReturnsKeeps ==
  ASSUME TypeOK, InjectorInv,
         NEW t \in Thread, NEW ok \in BOOLEAN, Returns(t, ok),
         clearing[t].at # "no" \/ Calls(t), clearing'[t].at = "no",
         \A u \in Thread : u # t => clearing'[u] = clearing[u],
         UNCHANGED <<session, rule, left, late>>
  PROVE  RemovalsAreKnown' /\ FaultLastsItsSession'
  <1> USE DEF InjectorInv
  <1>1. /\ main'.s = main.s
        /\ main' = main \/ (main.at = "clear" /\ main'.at = "gap")
        /\ \A s \in Session : monitor'[s] = monitor[s] \/ monitor'[s] = "ended"
    <2>1. CASE t = Main
      BY <2>1, ReturnsType DEF QuietBetweenSessions, Calls
    <2>2. CASE t # Main
      BY <2>2, ReturnsType
    <2> QED
      BY <2>1, <2>2
  <1>2. RemovalsAreKnown'
    BY <1>1 DEF RemovalsAreKnown
  <1>3. FaultLastsItsSession'
    BY <1>1 DEF FaultLastsItsSession, MainHasASession
  <1> QED
    BY <1>2, <1>3

\* The session that becomes inactive is that of the suite's thread, it has no
\* label, and no other thread clears it.
LEMMA InjectorBegin == ASSUME TypeOK, InjectorInv, NEW t \in Thread, Begin(t)
                       PROVE  InjectorInv'
  <1> USE DEF InjectorInv
  <1>0. clearing[t].at = "no" /\ Calls(t)
    BY DEF Begin, Calls
  <1>1. CASE ~Active
    <2>1. /\ \A s \in Session : ~session[s].active
          /\ Returns(t, TRUE) /\ UNCHANGED <<current, session, clearing, rule, label>>
      BY <1>1, ActiveMeans DEF Begin
    <2>2. /\ main'.s = main.s
          /\ OnlyCurrentIsActive' /\ MainHasASession' /\ QuietBetweenSessions'
          /\ MonitorsFollow'
      BY <1>0, <2>1, InjectorReturns
    <2>3. ClearsAreApart' /\ LabelsAreOfThePast'
      BY <2>1, <2>2 DEF ClearsAreApart, LabelsAreOfThePast
    <2>4. RulesHaveASession'
      BY <2>1, RuleType DEF RulesHaveASession, Removing, Begin, leftovers
    <2>5. RemovalsAreKnown' /\ FaultLastsItsSession'
      BY <1>0, <2>1, ReturnsKeeps DEF Begin, leftovers
    <2> QED
      BY <2>2, <2>3, <2>4, <2>5
  <1>2. CASE Active
    <2>1. current \in Session /\ session[current].active /\ current = main.s
      BY <1>2, ActiveMeans
    <2>2. UNCHANGED <<main, monitor, current, rule, label, left, late>>
      BY <1>2 DEF Begin, leftovers
    <2>3. /\ ~session'[current].active
          /\ \A s \in Session : s # current => session'[s] = session[s]
          /\ \A s \in Session : ~session'[s].active
      <3> DEFINE new == [session[current] EXCEPT !.active = FALSE]
      <3>1. session' = [session EXCEPT ![current] = new]
        BY <1>2 DEF Begin
      <3>2. new \in Fields /\ ~new.active
        BY <2>1, FieldsType DEF Fields
      <3> HIDE DEF new
      <3>3. session'[current] = new /\ \A s \in Session : s # current => session'[s] = session[s]
        BY <2>1, <3>1, <3>2, FieldsSet
      <3> QED
        BY <3>2, <3>3 DEF OnlyCurrentIsActive
    <2>4. /\ clearing'[t] = [at |-> "del", s |-> current]
          /\ \A u \in Thread : u # t => clearing'[u] = clearing[u]
      BY <1>2 DEF Begin, TypeOK
    <2>5. \A u \in Thread : clearing[u].at # "no" => clearing[u].s # current
      BY <2>1 DEF ClearsAreApart
    <2>6. OnlyCurrentIsActive' /\ LabelsAreOfThePast'
      BY <2>2, <2>3 DEF OnlyCurrentIsActive, LabelsAreOfThePast
    <2>7. QuietBetweenSessions'
      BY <1>0, <2>2, <2>3, <2>4, SessionsAreNumbers DEF QuietBetweenSessions, Calls
    <2>8. /\ main.at \in {"wait", "clear", "gap"}
          /\ main.at = "wait" => monitor[main.s] = "clear"
      <3>1. CASE t = Main
        BY <1>0, <3>1 DEF Calls
      <3>2. CASE t # Main
        <4>1. t \in Session /\ monitor[t] = "clear"
          BY <1>0, <3>2 DEF Calls, Thread
        <4> QED
          BY <1>0, <4>1 DEF MonitorsFollow
      <3> QED
        BY <3>1, <3>2
    <2>9. MonitorsFollow'
      BY <1>0, <2>2, <2>4, SessionsAreNumbers DEF MonitorsFollow, Calls
    <2>10. ClearsAreApart'
      <3>1. label[current] = "none" /\ current <= main.s
        <4>1. current \in Nat
          BY <2>1, SessionsAreNumbers
        <4> QED
          BY <2>1, <4>1 DEF LabelsAreOfThePast
      <3>2. \A u \in Thread : clearing'[u].at # "no" =>
              /\ clearing'[u].s <= main.s /\ ~session'[clearing'[u].s].active
              /\ label[clearing'[u].s] = IF clearing'[u].at = "write" THEN "empty" ELSE "none"
        BY <2>3, <2>4, <2>5, <3>1, ClearingType DEF ClearsAreApart
      <3>3. \A u, v \in Thread : u # v /\ clearing'[u].at # "no" /\ clearing'[v].at # "no" =>
              clearing'[u].s # clearing'[v].s
        BY <2>4, <2>5 DEF ClearsAreApart
      <3> QED
        BY <2>2, <3>2, <3>3 DEF ClearsAreApart
    <2>11. RulesHaveASession'
      <3>1. CASE rule = current
        <4>1. current \in Removing'
          BY <2>1, <2>4 DEF Removing
        <4> QED
          BY <2>2, <3>1, <4>1 DEF RulesHaveASession
      <3>2. CASE rule # current
        <4>1. \A s \in Removing : s \in Removing'
          BY <1>0, <2>4 DEF Removing
        <4> QED
          BY <2>2, <2>3, <3>2, <4>1, RuleType DEF RulesHaveASession
      <3> QED
        BY <3>1, <3>2
    <2>12. MainHasASession'
      BY <2>2, <2>8 DEF MainHasASession
    <2>13. RemovalsAreKnown'
      BY <2>1, <2>2, <2>4, <2>8 DEF RemovalsAreKnown
    <2>14. FaultLastsItsSession'
      BY <2>2, <2>8 DEF FaultLastsItsSession
    <2> QED
      BY <2>6, <2>7, <2>9, <2>10, <2>11, <2>12, <2>13, <2>14
  <1> QED
    BY <1>1, <1>2

\* The rule is removed or given up, and it is not that of a scenario that waits,
\* unless its own monitor is the one that clears.
LEMMA InjectorDelete ==
  ASSUME TypeOK, InjectorInv, NEW t \in Thread, Delete(t) \/ DeleteFails(t)
  PROVE  InjectorInv'
  <1> USE DEF InjectorInv
  <1>1. /\ UNCHANGED <<main, monitor, current, session, label, late>>
        /\ \/ rule' = None /\ left' = left
           \/ rule' = rule /\ left' = left \cup {clearing[t].s}
    BY DEF Delete, DeleteFails
  <1>2. /\ clearing[t].at = "del" /\ clearing'[t].at = "open"
        /\ clearing'[t].s = clearing[t].s
        /\ \A u \in Thread : u # t => clearing'[u] = clearing[u]
    <2> DEFINE record == [clearing[t] EXCEPT !.at = "open"]
    <2>1. clearing[t].at = "del" /\ clearing[t] \in Clearing
      BY ClearingType DEF Delete, DeleteFails
    <2>2. clearing' = [clearing EXCEPT ![t] = record]
      BY DEF Delete, DeleteFails
    <2>3. record.at = "open" /\ record.s = clearing[t].s
      BY <2>1 DEF Clearing
    <2> HIDE DEF record
    <2> QED
      BY <2>1, <2>2, <2>3 DEF TypeOK
  <1>3. OnlyCurrentIsActive' /\ MainHasASession' /\ LabelsAreOfThePast'
    BY <1>1 DEF OnlyCurrentIsActive, MainHasASession, LabelsAreOfThePast
  <1>4. QuietBetweenSessions' /\ MonitorsFollow'
    BY <1>1, <1>2, SessionsAreNumbers DEF QuietBetweenSessions, MonitorsFollow
  <1>5. ClearsAreApart'
    BY <1>1, <1>2 DEF ClearsAreApart
  <1>6. RulesHaveASession'
    <2>1. \A s \in Removing : s = clearing[t].s \/ s \in Removing'
      BY <1>2 DEF Removing
    <2> QED
      BY <1>1, <2>1 DEF RulesHaveASession
  <1>7. RemovalsAreKnown'
    BY <1>1, <1>2 DEF RemovalsAreKnown
  <1>8. FaultLastsItsSession'
    <2> SUFFICES ASSUME main.at = "wait", late = {}
                 PROVE  monitor[main.s] \in {"clear", "ended"}
      BY <1>1 DEF FaultLastsItsSession
    <2>1. clearing[t].s = main.s
      BY <1>2 DEF RemovalsAreKnown
    <2>2. ~session[main.s].active
      BY <1>2, <2>1 DEF ClearsAreApart
    <2> QED
      BY <2>2 DEF FaultLastsItsSession
  <1> QED
    BY <1>3, <1>4, <1>5, <1>6, <1>7, <1>8

LEMMA InjectorOpen == ASSUME TypeOK, InjectorInv, NEW t \in Thread, Open(t)
                      PROVE  InjectorInv'
  <1> USE DEF InjectorInv
  <1> DEFINE s == clearing[t].s
             r == IF session[s].resolution = "" THEN "MANUAL_CLEAR"
                  ELSE session[s].resolution
  <1>1. clearing[t].at = "open" /\ s \in Session
    BY ClearingType DEF Open
  <1>2. UNCHANGED <<main, monitor, current, rule, left, late>>
    BY DEF Open, leftovers
  <1>3. /\ clearing'[t] = [at |-> "write", s |-> s, resolution |-> r]
        /\ \A u \in Thread : u # t => clearing'[u] = clearing[u]
    BY DEF Open, TypeOK
  <1>4. /\ label'[s] = "empty"
        /\ \A q \in Session : q # s => label'[q] = label[q]
    BY <1>1 DEF Open, TypeOK
  <1>5. \A q \in Session : session'[q].active = session[q].active
    <2> DEFINE new == [session[s] EXCEPT !.resolution = r]
    <2>1. r \in Final
      BY <1>1 DEF TypeOK, Final
    <2>2. session' = [session EXCEPT ![s] = new]
      BY DEF Open
    <2>3. new \in Fields /\ new.active = session[s].active
      BY <1>1, <2>1, FieldsType DEF Fields
    <2> HIDE DEF new, s, r
    <2> QED
      BY <1>1, <2>2, <2>3, FieldsSet
  <1>6. OnlyCurrentIsActive' /\ MainHasASession'
    BY <1>2, <1>5 DEF OnlyCurrentIsActive, MainHasASession
  <1>7. QuietBetweenSessions' /\ MonitorsFollow'
    <2>1. \A u \in Thread : (clearing'[u].at = "no") <=> (clearing[u].at = "no")
      <3> HIDE DEF s, r
      <3> QED
        BY <1>1, <1>3
    <2> QED
      BY <1>2, <1>5, <2>1, SessionsAreNumbers DEF QuietBetweenSessions, MonitorsFollow
  <1>8. \A u \in Thread : u # t /\ clearing[u].at # "no" =>
          clearing[u].s \in Session /\ clearing[u].s # s
    BY <1>1, ClearingType DEF ClearsAreApart
  <1>9. s <= main.s /\ ~session[s].active
    BY <1>1 DEF ClearsAreApart
  <1> HIDE DEF s, r
  <1>10. clearing'[t].at = "write" /\ clearing'[t].s = s
    BY <1>3
  <1>11. LabelsAreOfThePast'
    BY <1>2, <1>4, <1>5, <1>9 DEF LabelsAreOfThePast
  <1>12. ClearsAreApart'
    <2>1. \A u \in Thread : clearing'[u].at # "no" =>
            /\ clearing'[u].s <= main.s /\ ~session'[clearing'[u].s].active
            /\ label'[clearing'[u].s] = IF clearing'[u].at = "write" THEN "empty" ELSE "none"
      BY <1>1, <1>3, <1>4, <1>5, <1>8, <1>9, <1>10 DEF ClearsAreApart
    <2>2. \A u, v \in Thread : u # v /\ clearing'[u].at # "no" /\ clearing'[v].at # "no" =>
            clearing'[u].s # clearing'[v].s
      BY <1>3, <1>8, <1>10 DEF ClearsAreApart
    <2> QED
      BY <1>2, <2>1, <2>2 DEF ClearsAreApart
  <1>13. RulesHaveASession'
    <2>1. \A q \in Removing : q \in Removing'
      BY <1>1, <1>3 DEF Removing
    <2> QED
      BY <1>2, <1>5, <2>1, RuleType DEF RulesHaveASession
  <1>14. RemovalsAreKnown'
    BY <1>2, <1>3, <1>10 DEF RemovalsAreKnown
  <1>15. FaultLastsItsSession'
    BY <1>2, <1>5 DEF FaultLastsItsSession, MainHasASession
  <1> QED
    BY <1>6, <1>7, <1>11, <1>12, <1>13, <1>14, <1>15

LEMMA InjectorWrites ==
  ASSUME TypeOK, InjectorInv, NEW t \in Thread, Write(t) \/ WriteFails(t)
  PROVE  InjectorInv'
  <1> USE DEF InjectorInv
  <1> DEFINE s == clearing[t].s
  <1>1. clearing[t].at = "write" /\ s \in Session
    BY ClearingType DEF Write, WriteFails
  <1>2. UNCHANGED <<current, session, rule, left, late>>
    BY DEF Write, WriteFails, leftovers
  <1>3. /\ clearing'[t].at = "no"
        /\ \A u \in Thread : u # t => clearing'[u] = clearing[u]
    <2>1. clearing' = [clearing EXCEPT ![t] = NotClearing] /\ NotClearing.at = "no"
      BY DEF Write, WriteFails, NotClearing
    <2> QED
      BY <2>1 DEF TypeOK
  <1>4. \A q \in Session : q # s => label'[q] = label[q]
    BY DEF Write, WriteFails, TypeOK
  <1>5. /\ main'.s = main.s
        /\ OnlyCurrentIsActive' /\ MainHasASession' /\ QuietBetweenSessions'
        /\ MonitorsFollow' /\ RemovalsAreKnown' /\ FaultLastsItsSession'
    <2>1. \E ok \in BOOLEAN : Returns(t, ok)
      BY DEF Write, WriteFails
    <2> QED
      BY <1>1, <1>2, <1>3, <2>1, InjectorReturns, ReturnsKeeps
  <1>6. \A u \in Thread : u # t /\ clearing[u].at # "no" =>
          clearing[u].s \in Session /\ clearing[u].s # s
    BY <1>1, ClearingType DEF ClearsAreApart
  <1>7. s <= main.s /\ ~session[s].active
    BY <1>1 DEF ClearsAreApart
  <1>8. RulesHaveASession'
    <2>1. \A q \in Removing : q \in Removing'
      BY <1>1, <1>3 DEF Removing
    <2> QED
      BY <1>2, <2>1, RuleType DEF RulesHaveASession
  <1> HIDE DEF s
  <1>9. LabelsAreOfThePast'
    BY <1>2, <1>4, <1>5, <1>7 DEF LabelsAreOfThePast
  <1>10. ClearsAreApart'
    BY <1>2, <1>3, <1>4, <1>5, <1>6 DEF ClearsAreApart
  <1> QED
    BY <1>5, <1>8, <1>9, <1>10

LEMMA InjectorStutters ==
  ASSUME InjectorInv,
         UNCHANGED <<main, monitor, clearing, current, session, rule, label, left, late>>
  PROVE  InjectorInv'
  BY DEF InjectorInv, OnlyCurrentIsActive, MainHasASession, QuietBetweenSessions,
    MonitorsFollow, ClearsAreApart, LabelsAreOfThePast, RulesHaveASession, Removing,
    RemovalsAreKnown, FaultLastsItsSession

LEMMA BridgeLeavesInjector == BridgeStep => UNCHANGED <<run, injectorVars>>
  BY DEF BridgeStep, Pick, Accept, Refuse, TakenThenRefused, AnswerLost, Mark, BridgeStop,
    BridgeDies, BridgeRestart

LEMMA InjectorNext == TypeOK /\ InjectorInv /\ [Next]_vars => InjectorInv'
  <1> SUFFICES ASSUME TypeOK, InjectorInv, [Next]_vars PROVE InjectorInv'
    OBVIOUS
  <1>1. CASE MainStep \/ ApplyFails
    BY <1>1, InjectorStart, InjectorMain DEF MainStep
  <1>2. ASSUME NEW t \in Thread, ClearStep(t) \/ DeleteFails(t) \/ WriteFails(t)
        PROVE  InjectorInv'
    BY <1>2, InjectorBegin, InjectorDelete, InjectorOpen, InjectorWrites DEF ClearStep
  <1>3. CASE \E s \in Session : MonitorStep(s)
    BY <1>3, InjectorMonitor
  <1>4. CASE Exit \/ Kill
    BY <1>4, InjectorStutters DEF Exit, Kill, leftovers
  <1>5. CASE BridgeStep
    BY <1>5, BridgeLeavesInjector, InjectorStutters DEF injectorVars
  <1>6. CASE UNCHANGED vars
    BY <1>6, InjectorStutters DEF vars, injectorVars
  <1> QED
    BY <1>1, <1>2, <1>3, <1>4, <1>5, <1>6 DEF Next

LEMMA InjectorAlways == Spec => [](TypeOK /\ InjectorInv)
  <1>1. Init => TypeOK /\ InjectorInv
    BY TypeInit, InjectorInit
  <1>2. TypeOK /\ InjectorInv /\ [Next]_vars => (TypeOK /\ InjectorInv)'
    BY TypeNext, InjectorNext
  <1> QED
    BY <1>1, <1>2, PTL DEF Spec

\* Whatever the order of the suite's thread and the monitors, the rule on the
\* interface is that of an active session, of one whose clear is about to remove
\* it, or one that a clear could not remove and went on, in a suite of any length
\* and after any faults.
THEOREM RulesHaveSessions == Spec => []RulesHaveASession
  <1>1. TypeOK /\ InjectorInv => RulesHaveASession
    BY DEF InjectorInv
  <1> QED
    BY <1>1, InjectorAlways, PTL

\* While a scenario waits for healing, nothing but its own monitor takes its fault
\* away, as long as no clear outlasts the pause after its session.
THEOREM FaultsLast == Spec => []FaultLastsItsSession
  <1>1. TypeOK /\ InjectorInv => FaultLastsItsSession
    BY DEF InjectorInv
  <1> QED
    BY <1>1, InjectorAlways, PTL

\* In a pause the interface has no rule but one that a clear gave up or is about to
\* remove, and after it only one given up, or whose clear took longer.
CleanWhenQuiet ==
  /\ main.at = "gap" => rule \in {None} \cup left \cup Removing
  /\ main.at \in {"next", "gate", "done"} => rule \in {None} \cup left \cup late

\* What EndsClean says of the end of a run holds before every session: a suite
\* neither starts a session on, nor leaves, an interface with a rule, but for one
\* that tc did not remove or a clear that outlasted its pause.
THEOREM PausesAreClean == Spec => []CleanWhenQuiet
  <1>1. TypeOK /\ InjectorInv => CleanWhenQuiet
    <2> SUFFICES ASSUME TypeOK, InjectorInv, rule # None, rule \notin left,
                        main.at \in {"next", "gap", "gate", "done"}
                 PROVE  rule \in Removing /\ (main.at # "gap" => rule \in late)
      BY DEF CleanWhenQuiet
    <2>1. rule \in Session
      BY RuleType
    <2>2. rule \in Removing
      BY <2>1 DEF InjectorInv, QuietBetweenSessions, RulesHaveASession
    <2>3. PICK t \in Thread : clearing[t].at = "del" /\ clearing[t].s = rule
      BY <2>2 DEF Removing
    <2>4. main.at # "gap" => rule \in late
      BY <2>3 DEF InjectorInv, RemovalsAreKnown
    <2> QED
      BY <2>2, <2>4
  <1> QED
    BY <1>1, InjectorAlways, PTL

\* The label of a session is written once: no step touches it afterwards.
THEOREM LabelsAreFinal == Spec => LabelledOnce
  <1>1. ASSUME TypeOK, InjectorInv, [Next]_vars
        PROVE  [\A s \in Session : label[s] \in Final => label'[s] = label[s]]_vars
    <2>1. CASE label' = label
      BY <2>1
    <2>2. ASSUME NEW t \in Thread, Open(t) \/ Write(t)
          PROVE  \A s \in Session : label[s] \in Final => label'[s] = label[s]
      <3>1. clearing[t].at \in {"open", "write"} /\ clearing[t].s \in Session
        BY <1>1, <2>2, ClearingType DEF Open, Write
      <3>2. label[clearing[t].s] \notin Final
        BY <1>1, <3>1 DEF InjectorInv, ClearsAreApart, Final
      <3>3. \A s \in Session : s # clearing[t].s => label'[s] = label[s]
        BY <1>1, <2>2 DEF Open, Write, TypeOK
      <3> QED
        BY <3>2, <3>3
    <2>3. \/ label' = label
          \/ \E t \in Thread : Open(t) \/ Write(t)
      BY <1>1 DEF Next, MainStep, Start, Apply, TimesOut, Sleeps, Gap, Evaluate, ApplyFails,
        Exit, Kill, ClearStep, Begin, Delete, DeleteFails, WriteFails, MonitorStep, Expire,
        Resolve, BridgeStep, Pick, Accept, Refuse, TakenThenRefused, AnswerLost, Mark,
        BridgeStop, BridgeDies, BridgeRestart, vars, injectorVars
    <2> QED
      BY <2>1, <2>2, <2>3
  <1> QED
    BY <1>1, InjectorAlways, PTL DEF Spec, LabelledOnce

-----------------------------------------------------------------------------
\* The bridge.

LEMMA BridgeTypeFacts ==
  ASSUME TypeOK
  PROVE  /\ bridge.at \in {"poll", "dead", "post", "mark"}
         /\ bridge.at \in {"post", "mark"} => bridge \in BridgeBusy /\ bridge.s \in Session
         /\ log \in Seq({Torn} \cup Session)
         /\ accepted \in [Session -> Nat] /\ processed \subseteq Session
  <1>1. bridge \in BridgeIdle \cup BridgeBusy
    BY DEF TypeOK
  <1>2. /\ bridge.at \in {"poll", "dead", "post", "mark"}
        /\ bridge.at \in {"post", "mark"} => bridge \in BridgeBusy /\ bridge.s \in Session
    BY <1>1 DEF BridgeIdle, BridgeBusy
  <1> QED
    BY <1>2 DEF TypeOK

\* The record of a session is counted once more.
LEMMA AcceptedOnce ==
  ASSUME TypeOK, NEW s \in Session, accepted' = [accepted EXCEPT ![s] = @ + 1]
  PROVE  /\ accepted'[s] = accepted[s] + 1
         /\ \A r \in Session : r # s => accepted'[r] = accepted[r]
         /\ \A r \in Session : accepted[r] \in Nat /\ accepted'[r] >= accepted[r]
  <1>1. accepted \in [Session -> Nat]
    BY DEF TypeOK
  <1> DEFINE next == accepted[s] + 1
  <1>2. accepted' = [accepted EXCEPT ![s] = next]
    OBVIOUS
  <1> HIDE DEF next
  <1>3. accepted'[s] = next /\ \A r \in Session : r # s => accepted'[r] = accepted[r]
    BY <1>1, <1>2
  <1>4. \A r \in Session : accepted[r] \in Nat
    BY <1>1
  <1> QED
    BY <1>3, <1>4 DEF next

LEMMA BridgeInit == Init => BridgeInv
  <1> SUFFICES ASSUME Init PROVE BridgeInv
    OBVIOUS
  <1>1. /\ bridge = [at |-> "poll"] /\ processed = {} /\ log = <<>>
        /\ \A s \in Session : accepted[s] = 0
    BY DEF Init
  <1>2. ~\E n \in 1 .. Len(log) : TRUE
    BY <1>1
  <1> QED
    BY <1>1, <1>2 DEF BridgeInv, LoggedIsRemembered, Logged, Readable, RecordInHand,
      ProcessedWasAccepted

\* What the log names changes with the log alone.
LEMMA LoggedStutters == log' = log => Logged' = Logged
  BY DEF Logged, Readable

LEMMA BridgeIsPassive == ASSUME BridgeInv, UNCHANGED bridgeVars PROVE BridgeInv'
  BY LoggedStutters DEF BridgeInv, LoggedIsRemembered, RecordInHand, ProcessedWasAccepted,
    bridgeVars

\* What the service accepts is a record in hand, or nothing.
AcceptsInHand ==
  \/ accepted' = accepted
  \/ bridge.at = "post" /\ accepted' = [accepted EXCEPT ![bridge.s] = @ + 1]

LEMMA BridgeCounts ==
  ASSUME TypeOK, BridgeStep
  PROVE  AcceptsInHand
  BY DEF AcceptsInHand, BridgeStep, Pick, Accept, Refuse, TakenThenRefused, AnswerLost, Mark,
    BridgeStop, BridgeDies, BridgeRestart

\* No count falls, so that what was accepted stays so.
LEMMA AcceptedStays ==
  ASSUME TypeOK, ProcessedWasAccepted, AcceptsInHand
  PROVE  \A s \in Session :
           s \in processed \/ (\E n \in 1 .. Len(log) : log[n] = s) => accepted'[s] > 0
  <1>0. \A s \in Session : accepted[s] \in Nat
    BY BridgeTypeFacts
  <1>1. \A s \in Session : accepted'[s] >= accepted[s]
    <2>1. CASE accepted' = accepted
      BY <1>0, <2>1
    <2>2. CASE bridge.at = "post" /\ accepted' = [accepted EXCEPT ![bridge.s] = @ + 1]
      <3> PICK s : s = bridge.s
        OBVIOUS
      <3>1. s \in Session
        BY <2>2, BridgeTypeFacts
      <3> QED
        BY <2>2, <3>1, AcceptedOnce
    <2> QED
      BY <2>1, <2>2 DEF AcceptsInHand
  <1>2. \A s \in Session : accepted[s] > 0 => accepted'[s] > 0
    <2> TAKE s \in Session
    <2>1. accepted[s] \in Nat /\ accepted'[s] >= accepted[s]
      BY <1>0, <1>1
    <2>2. CASE accepted' = accepted
      BY <2>1, <2>2
    <2>3. CASE bridge.at = "post" /\ accepted' = [accepted EXCEPT ![bridge.s] = @ + 1]
      <3> PICK r : r = bridge.s
        OBVIOUS
      <3>1. r \in Session
        BY <2>3, BridgeTypeFacts
      <3>2. accepted'[r] = accepted[r] + 1 /\ (s # r => accepted'[s] = accepted[s])
        BY <2>3, <3>1, AcceptedOnce
      <3> QED
        BY <2>1, <3>2
    <2> QED
      BY <2>2, <2>3 DEF AcceptsInHand
  <1> QED
    BY <1>2 DEF ProcessedWasAccepted

\* A step that neither marks a record nor reads or writes the log, nor brings a
\* dead bridge back.
LEMMA BridgeSends ==
  ASSUME TypeOK, BridgeInv, AcceptsInHand, UNCHANGED <<processed, log>>,
         bridge.at # "dead",
         \/ bridge'.at \in {"poll", "dead"}
         \/ bridge'.at = "post" /\ bridge'.s \notin processed
         \/ bridge'.at = "mark" /\ accepted'[bridge'.s] > 0
  PROVE  BridgeInv'
  <1>1. LoggedIsRemembered'
    BY LoggedStutters DEF BridgeInv, LoggedIsRemembered
  <1>2. RecordInHand'
    BY DEF RecordInHand
  <1>3. ProcessedWasAccepted'
    BY AcceptedStays DEF BridgeInv, ProcessedWasAccepted
  <1> QED
    BY <1>1, <1>2, <1>3 DEF BridgeInv

LEMMA BridgeAccept == TypeOK /\ BridgeInv /\ Accept => BridgeInv'
  <1> SUFFICES ASSUME TypeOK, BridgeInv, Accept PROVE BridgeInv'
    OBVIOUS
  <1> PICK s : s = bridge.s
    OBVIOUS
  <1>1. bridge.at = "post" /\ s \in Session /\ UNCHANGED <<processed, log>>
    BY BridgeTypeFacts DEF Accept
  <1>2. bridge'.at = "mark" /\ bridge'.s = s
    <2>1. bridge \in BridgeBusy
      BY <1>1, BridgeTypeFacts
    <2> QED
      BY <2>1 DEF Accept, BridgeBusy
  <1>3. accepted' = [accepted EXCEPT ![s] = @ + 1]
    BY DEF Accept
  <1>4. accepted'[s] = accepted[s] + 1 /\ accepted[s] \in Nat
    BY <1>1, <1>3, AcceptedOnce
  <1>5. AcceptsInHand
    BY <1>1, <1>3 DEF AcceptsInHand
  <1>6. accepted'[s] > 0
    BY <1>4
  <1> QED
    BY <1>1, <1>2, <1>5, <1>6, BridgeSends

\* A line that is appended adds at most itself to what the log names.
LEMMA LoggedGrows ==
  ASSUME NEW S, log \in Seq(S), NEW line \in S, log' = Appended(line)
  PROVE  Logged' \subseteq Logged \cup {line}
  <1> SUFFICES ASSUME NEW n \in 1 .. Len(log'), \A m \in 1 .. n : log'[m] # Torn,
                      log'[n] # line
               PROVE  log'[n] \in Logged
    BY DEF Logged, Readable
  <1>1. CASE log' = log
    BY <1>1 DEF Logged, Readable
  <1>2. CASE log' = Append(log, line)
    <2>1. /\ Len(log') = Len(log) + 1 /\ Len(log) \in Nat /\ log'[Len(log) + 1] = line
          /\ \A m \in 1 .. Len(log) : log'[m] = log[m]
      BY <1>2
    <2>2. n \in 1 .. Len(log)
      BY <2>1
    <2>3. log[n] = log'[n] /\ \A m \in 1 .. n : m \in 1 .. Len(log) /\ log[m] # Torn
      BY <2>1, <2>2
    <2> QED
      BY <2>2, <2>3 DEF Logged, Readable
  <1> QED
    BY <1>1, <1>2 DEF Appended

LEMMA BridgeMark == TypeOK /\ BridgeInv /\ Mark => BridgeInv'
  <1> SUFFICES ASSUME TypeOK, BridgeInv, Mark PROVE BridgeInv'
    OBVIOUS
  <1> DEFINE s == bridge.s
  <1>1. /\ bridge.at = "mark" /\ s \in Session /\ accepted[s] > 0
        /\ accepted' = accepted /\ bridge'.at = "poll"
        /\ processed' = processed \cup {s} /\ log' = Appended(s)
    BY BridgeTypeFacts DEF Mark, BridgeInv, RecordInHand
  <1>2. log \in Seq({Torn} \cup Session) /\ s \in {Torn} \cup Session
    BY <1>1, BridgeTypeFacts
  <1> HIDE DEF s
  <1>3. LoggedIsRemembered'
    <2>1. Logged \subseteq processed
      BY <1>1 DEF BridgeInv, LoggedIsRemembered
    <2>2. Logged' \subseteq Logged \cup {s}
      BY <1>1, <1>2, LoggedGrows
    <2> QED
      BY <1>1, <2>1, <2>2 DEF LoggedIsRemembered
  <1>4. RecordInHand'
    BY <1>1 DEF RecordInHand
  <1>5. ProcessedWasAccepted'
    <2>1. \A n \in 1 .. Len(log') : log'[n] = s \/ (n \in 1 .. Len(log) /\ log'[n] = log[n])
      BY <1>1, <1>2, AppendedType
    <2>2. \A r \in Session : r \in processed \/ (\E n \in 1 .. Len(log) : log[n] = r)
                             => accepted[r] > 0
      BY DEF BridgeInv, ProcessedWasAccepted
    <2>3. \A r \in Session : r \in processed' \/ (\E n \in 1 .. Len(log') : log'[n] = r)
                             => accepted[r] > 0
      BY <1>1, <2>1, <2>2
    <2> QED
      BY <1>1, <2>3 DEF ProcessedWasAccepted
  <1> QED
    BY <1>3, <1>4, <1>5 DEF BridgeInv

LEMMA BridgeDying == TypeOK /\ BridgeInv /\ BridgeDies => BridgeInv'
  <1> SUFFICES ASSUME TypeOK, BridgeInv, BridgeDies PROVE BridgeInv'
    OBVIOUS
  <1>1. /\ bridge'.at = "dead" /\ UNCHANGED <<accepted, processed>>
        /\ log' \in {log, Appended(Torn)}
    BY DEF BridgeDies
  <1>2. LoggedIsRemembered'
    BY <1>1 DEF LoggedIsRemembered
  <1>3. RecordInHand'
    BY <1>1 DEF RecordInHand
  <1>4. ProcessedWasAccepted'
    <2>1. \A n \in 1 .. Len(log') :
            log'[n] = Torn \/ (n \in 1 .. Len(log) /\ log'[n] = log[n])
      <3>1. log \in Seq({Torn} \cup Session) /\ Torn \in {Torn} \cup Session
        BY BridgeTypeFacts
      <3> QED
        BY <1>1, <3>1, AppendedType
    <2>2. Torn \notin Session
      BY ChaosAssumption DEF Session, Torn, ChaosAssumption
    <2>3. \A r \in Session : r \in processed \/ (\E n \in 1 .. Len(log) : log[n] = r)
                             => accepted[r] > 0
      BY DEF BridgeInv, ProcessedWasAccepted
    <2>4. \A r \in Session : r \in processed \/ (\E n \in 1 .. Len(log') : log'[n] = r)
                             => accepted[r] > 0
      BY <2>1, <2>2, <2>3
    <2> QED
      BY <1>1, <2>4 DEF ProcessedWasAccepted
  <1> QED
    BY <1>2, <1>3, <1>4 DEF BridgeInv

LEMMA BridgeRestarts == TypeOK /\ BridgeInv /\ BridgeRestart => BridgeInv'
  <1> SUFFICES ASSUME TypeOK, BridgeInv, BridgeRestart PROVE BridgeInv'
    OBVIOUS
  <1>1. /\ bridge'.at = "poll" /\ UNCHANGED <<accepted, log>>
        /\ processed' = Logged /\ Readable \subseteq 1 .. Len(log)
    BY DEF BridgeRestart, Readable
  <1>2. LoggedIsRemembered'
    BY <1>1, LoggedStutters DEF LoggedIsRemembered
  <1>3. RecordInHand'
    BY <1>1 DEF RecordInHand
  <1>4. ProcessedWasAccepted'
    BY <1>1 DEF BridgeInv, ProcessedWasAccepted, Logged
  <1> QED
    BY <1>2, <1>3, <1>4 DEF BridgeInv

LEMMA BridgeNext == TypeOK /\ BridgeInv /\ [Next]_vars => BridgeInv'
  <1> SUFFICES ASSUME TypeOK, BridgeInv, [Next]_vars PROVE BridgeInv'
    OBVIOUS
  <1>1. CASE UNCHANGED bridgeVars
    BY <1>1, BridgeIsPassive
  <1>2. CASE BridgeStep
    <2>1. AcceptsInHand
      BY <1>2, BridgeCounts
    <2>2. CASE Refuse \/ TakenThenRefused \/ AnswerLost \/ BridgeStop
      <3>1. /\ UNCHANGED <<processed, log>> /\ bridge.at # "dead"
            /\ bridge'.at \in {"poll", "dead"}
        BY <2>2 DEF Refuse, TakenThenRefused, AnswerLost, BridgeStop
      <3> QED
        BY <2>1, <3>1, BridgeSends
    <2>3. ASSUME NEW s \in Session, Pick(s) PROVE BridgeInv'
      <3>1. /\ UNCHANGED <<processed, log>> /\ bridge.at # "dead"
            /\ bridge'.at = "post" /\ bridge'.s \notin processed
        BY <2>3 DEF Pick
      <3> QED
        BY <2>1, <3>1, BridgeSends
    <2> QED
      BY <1>2, <2>2, <2>3, BridgeAccept, BridgeMark, BridgeDying, BridgeRestarts
      DEF BridgeStep
  <1>3. [Next]_vars => BridgeStep \/ UNCHANGED bridgeVars
    BY DEF Next, MainStep, Start, Apply, TimesOut, Sleeps, Gap, Evaluate, ApplyFails, Exit,
      Kill, ClearStep, Begin, Delete, DeleteFails, Open, Write, WriteFails, MonitorStep,
      Expire, Resolve, vars
  <1> QED
    BY <1>1, <1>2, <1>3

LEMMA BridgeAlways == Spec => [](TypeOK /\ BridgeInv)
  <1>1. Init => TypeOK /\ BridgeInv
    BY TypeInit, BridgeInit
  <1>2. TypeOK /\ BridgeInv /\ [Next]_vars => (TypeOK /\ BridgeInv)'
    BY TypeNext, BridgeNext
  <1> QED
    BY <1>1, <1>2, PTL DEF Spec

\* A record that the bridge takes for processed, from its memory or from the log
\* that a restart reads, was accepted by the service: neither a lost answer nor a
\* torn line makes the bridge forget to send one.
THEOREM NothingIsSkipped == Spec => []ProcessedWasAccepted
  <1>1. TypeOK /\ BridgeInv => ProcessedWasAccepted
    BY DEF BridgeInv
  <1> QED
    BY <1>1, BridgeAlways, PTL

\* The service takes no record that the log names, up to a torn line, once more:
\* whatever fails, and however often the bridge is stopped and started.
THEOREM LoggedStays == Spec => LoggedIsNotResent
  <1>1. ASSUME TypeOK, BridgeInv, [Next]_vars
        PROVE  [\A s \in Logged : accepted'[s] = accepted[s]]_vars
    <2>1. CASE UNCHANGED bridgeVars
      BY <2>1 DEF bridgeVars
    <2>2. CASE BridgeStep
      <3> SUFFICES ASSUME NEW s \in Logged PROVE accepted'[s] = accepted[s]
        OBVIOUS
      <3>1. CASE accepted' = accepted
        BY <3>1
      <3>2. CASE bridge.at = "post" /\ accepted' = [accepted EXCEPT ![bridge.s] = @ + 1]
        <4> PICK r : r = bridge.s
          OBVIOUS
        <4>1. s # r /\ r \in Session /\ s \in Session
          BY <1>1, <3>2, BridgeTypeFacts DEF BridgeInv, LoggedIsRemembered, RecordInHand
        <4> QED
          BY <1>1, <3>2, <4>1, AcceptedOnce
      <3> QED
        BY <1>1, <2>2, <3>1, <3>2, BridgeCounts DEF AcceptsInHand
    <2>3. BridgeStep \/ UNCHANGED bridgeVars
      BY <1>1 DEF Next, MainStep, Start, Apply, TimesOut, Sleeps, Gap, Evaluate, ApplyFails,
        Exit, Kill, ClearStep, Begin, Delete, DeleteFails, Open, Write, WriteFails,
        MonitorStep, Expire, Resolve, vars
    <2> QED
      BY <2>1, <2>2, <2>3
  <1> QED
    BY <1>1, BridgeAlways, PTL DEF Spec, LoggedIsNotResent
=============================================================================
