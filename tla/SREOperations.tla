--------------------------- MODULE SREOperations ---------------------------
(***************************************************************************)
(* The SRE operations service (sre-operations-05/sre): the incident        *)
(* manager with its files, the runbook executor with a thread per run, and *)
(* the endpoints by which the control plane reports what its state machine *)
(* does. The state machine is that of RegionFSM; its reports may be lost   *)
(* or arrive twice, a POST back to it may fail before or after it took     *)
(* effect, a save may fail or leave half a file, and the service may die   *)
(* and start again.                                                        *)
(*                                                                         *)
(* The endpoints run one at a time on the event loop and interleave with   *)
(* the threads of the runs. A thread ends in _finish, which an early       *)
(* return of _run calls before its `finally' clause calls it again.        *)
(***************************************************************************)
EXTENDS RegionFSM, Integers, Sequences, FiniteSets

CONSTANTS Region,
          Short,         \* what an incident's id keeps of its region's name
          Incident,      \* the incidents that may be opened (a bound)
          Slot,          \* the runs that may be under way at once (a bound)
          Steps,         \* the number of steps of the runbook
          MaxInbox,      \* bound on the reports of a region under way
          MaxDamaged,    \* bound on the incidents whose save fails
          MaxRestarts,   \* bound on the restarts of the service
          None           \* no incident, no run

ASSUME SREAssumption ==
  /\ Steps \in Nat \ {0}
  /\ MaxInbox \in Nat /\ MaxDamaged \in Nat /\ MaxRestarts \in Nat
  /\ None \notin Incident \cup Slot \cup Region \cup State

VARIABLES
  fsm,          \* the control plane's state of every region
  inbox,        \* its reports of entered states that are under way
  incident,     \* the Incident objects ever made
  stamped,      \* the ids given within the current second
  active,       \* IncidentManager._active
  known,        \* the keys of IncidentManager._all
  disk,         \* the status in every incident's file
  damaged,      \* (history) the incidents of which a save failed
  run,          \* the run in every slot: RunbookResult and the thread's place
  registered,   \* RunbookExecutor._active_runs
  stepFailed,   \* whether RunbookStep.status is FAILED; all runs share the steps
  server,       \* where the event loop is in fsm_degraded
  lost,         \* (history) the report that was lost, if one was
  restarts      \* (bound) restarts so far

fsmVars == <<fsm, inbox>>
incidentVars == <<incident, stamped, active, known, disk, damaged>>
runVars == <<run, registered, stepFailed>>
faultVars == <<lost, restarts>>
vars == <<fsmVars, incidentVars, runVars, server, faultVars>>

Reported == {"DEGRADED", "FAILED", "HEALTHY"}
Unresolved == {"open", "mitigated"}
Idle == [at |-> "idle"]

\* The places of a run's thread: notify_fsm_started, the top of the loop over
\* the steps, _execute_step, what follows it, and the three parts of _finish.
Place == {"start", "top", "execute", "judge", "record", "notify", "pop"}

Run == [at : Place, region : Region, step : 1 .. Steps + 1,
        status : {"running", "success", "failed", "timeout"},
        late : BOOLEAN, again : BOOLEAN] \cup {Idle}

\* A run of region r before its thread's first step.
Started(r) == [at |-> "start", region |-> r, step |-> 1, status |-> "running",
               late |-> FALSE, again |-> FALSE]

TypeOK ==
  /\ fsm \in [Region -> State]
  /\ inbox \in [Region -> Seq(Reported)]
  /\ incident \in [Incident -> [region : Region \cup {None},
                                status : Unresolved \cup {"unopened", "resolved"},
                                id : Incident \cup {None},
                                escalated : BOOLEAN,
                                reloaded : BOOLEAN, aside : BOOLEAN]]
  /\ stamped \subseteq Incident
  /\ active \in [Region -> Incident \cup {None}]
  /\ known \subseteq Incident
  /\ disk \in [Incident -> Unresolved \cup {"resolved", "none", "torn"}]
  /\ damaged \subseteq Incident
  /\ run \in [Slot -> Run]
  /\ registered \in [Region -> Slot \cup {None}]
  /\ stepFailed \in [1 .. Steps -> BOOLEAN]
  /\ server \in {Idle} \cup [at : {"execute"}, region : Region]
  /\ lost \in Reported \cup {None} /\ restarts \in 0 .. MaxRestarts

\* An Incident object. An id is known by the first incident that was given it.
\* Two fields are history: the incident was read back from its file, and it was
\* unresolved when another took its place in _active.
New(r, st, id, severe) ==
  [region |-> r, status |-> st, id |-> id, escalated |-> severe,
   reloaded |-> FALSE, aside |-> FALSE]

Init ==
  /\ fsm = [r \in Region |-> "HEALTHY"]
  /\ inbox = [r \in Region |-> <<>>]
  /\ incident = [i \in Incident |-> New(None, "unopened", None, FALSE)]
  /\ stamped = {}
  /\ active = [r \in Region |-> None]
  /\ known = {}
  /\ disk = [i \in Incident |-> "none"]
  /\ damaged = {}
  /\ run = [k \in Slot |-> Idle]
  /\ registered = [r \in Region |-> None]
  /\ stepFailed = [n \in 1 .. Steps |-> FALSE]
  /\ server = Idle
  /\ lost = None /\ restarts = 0

-----------------------------------------------------------------------------
\* The control plane's state machine and its reports.

\* The incidents not made yet.
Fresh == {i \in Incident : incident[i].status = "unopened"}

\* The number of reports under way that may open an incident.
Underway ==
  Cardinality({p \in Region \X (1 .. MaxInbox) :
                 p[2] <= Len(inbox[p[1]]) /\ inbox[p[1]][p[2]] # "HEALTHY"})

\* No transition is made that the bounds would keep from being reported.
Room(r, report) ==
  /\ Len(inbox[r]) < MaxInbox
  /\ report # "HEALTHY" => Cardinality(Fresh) > Underway

\* Event e reaches the state machine of r.
Receives(r, e) ==
  \/ \E to \in State :
       /\ Moves(fsm[r], e, to)
       /\ fsm' = [fsm EXCEPT ![r] = to]
       /\ to \in Reported => Room(r, to)
       /\ inbox' = [inbox EXCEPT ![r] = IF to \in Reported THEN Append(@, to) ELSE @]
  \/ Ignored(fsm[r], e) /\ UNCHANGED fsmVars

\* The events that are not the service's own.
FSMMoves(r) ==
  /\ \E e \in {"ANOMALY_DETECTED", "HEALTH_VERIFIED", "TTL_EXPIRED"} : Receives(r, e)
  /\ fsm' # fsm
  /\ UNCHANGED <<incidentVars, runVars, server, faultVars>>

\* A report gets lost.
Lose(r) ==
  /\ lost = None /\ inbox[r] # <<>>
  /\ lost' = Head(inbox[r])
  /\ inbox' = [inbox EXCEPT ![r] = Tail(@)]
  /\ UNCHANGED <<fsm, incidentVars, runVars, server, restarts>>

-----------------------------------------------------------------------------
\* The incident manager. Its methods hold one lock.

\* _new_incident_id: the second and what Short keeps of the region's name. An
\* incident j of region r gets the id given in this second to one of that region,
\* or of one whose name begins alike; else a new id.
Ids(r, j) ==
  LET same == {i \in stamped : Short[incident[i].region] = Short[r]}
  IN  IF same = {} THEN {j} ELSE same

SecondPasses ==
  /\ stamped # {} /\ stamped' = {}
  /\ UNCHANGED <<fsmVars, incident, active, known, disk, damaged, runVars, server, faultVars>>

\* The file of the id n, once it holds the record of incident i with the status st.
Written(i, n, st) ==
  [k \in Incident |-> IF k = i THEN st ELSE IF incident[k].id = n THEN "none" ELSE disk[k]]

\* _persist: the file of the id n of i holds i with the status st, or what it held
\* before, or half a record.
Save(i, n, st) ==
  \/ disk' = Written(i, n, st) /\ UNCHANGED damaged
  \/ /\ Cardinality(damaged \cup {i}) <= MaxDamaged
     /\ disk' \in {disk, Written(i, n, "torn")}
     /\ damaged' = damaged \cup {i}

\* Incident j, with the id n, is the new one of region r; a mitigated one makes
\* way for it, and one with its id makes way for it in _all.
Becomes(r, j, n, severe) ==
  /\ incident' = [i \in Incident |->
       CASE i = j -> New(r, "open", n, severe)
         [] i = active[r] -> [incident[i] EXCEPT !.aside = TRUE]
         [] OTHER -> incident[i]]
  /\ stamped' = stamped \cup {n}
  /\ active' = [active EXCEPT ![r] = j]
  /\ known' = {i \in known : incident[i].id # n} \cup {j}

\* Mutant of IsOpen: an incident that is open already is not looked for.
NotLookedFor(r) == FALSE

IsOpen(r) == active[r] # None /\ incident[active[r]].status = "open"

\* Mutant of Open: the new incident is not saved.
OpenUnsaved(r, severe) ==
  /\ ~ IsOpen(r)
  /\ \E j \in Fresh : \E n \in Ids(r, j) : Becomes(r, j, n, severe)
  /\ UNCHANGED <<disk, damaged>>

\* open, when it makes an incident, with a record_escalation at once if `severe'.
Open(r, severe) ==
  /\ ~ IsOpen(r)
  /\ \E j \in Fresh : \E n \in Ids(r, j) : Becomes(r, j, n, severe) /\ Save(j, n, "open")

\* record_escalation
Escalate(r) ==
  LET i == active[r]
  IN  /\ incident' = [incident EXCEPT ![i].escalated = TRUE]
      /\ Save(i, incident[i].id, incident[i].status)
      /\ UNCHANGED <<stamped, active, known>>

\* Mutant of Resolve: the resolved incident is not saved.
ResolveUnsaved(r) ==
  LET i == active[r]
  IN  IF i = None THEN UNCHANGED incidentVars
      ELSE /\ incident' = [incident EXCEPT ![i].status = "resolved"]
           /\ active' = [active EXCEPT ![r] = None]
           /\ UNCHANGED <<stamped, known, disk, damaged>>

\* Mutant of Resolve: only an open incident is resolved.
ResolveOpen(r) ==
  LET i == active[r]
  IN  IF ~ IsOpen(r) THEN UNCHANGED incidentVars
      ELSE /\ incident' = [incident EXCEPT ![i].status = "resolved"]
           /\ active' = [active EXCEPT ![r] = None]
           /\ Save(i, incident[i].id, "resolved")
           /\ UNCHANGED <<stamped, known>>

\* resolve
Resolve(r) ==
  LET i == active[r]
  IN  IF i = None THEN UNCHANGED incidentVars
      ELSE /\ incident' = [incident EXCEPT ![i].status = "resolved"]
           /\ active' = [active EXCEPT ![r] = None]
           /\ Save(i, incident[i].id, "resolved")
           /\ UNCHANGED <<stamped, known>>

\* record_runbook_started, _progress and record_sre_ack: nothing of the
\* incident that matters here changes, but its file is written again.
SaveActive(r) ==
  /\ IF active[r] = None THEN UNCHANGED <<disk, damaged>>
     ELSE LET i == active[r] IN Save(i, incident[i].id, incident[i].status)
  /\ UNCHANGED <<incident, stamped, active, known>>

\* Mutant of RecordResult: the result is stored as the status.
RecordResultAsStatus(r, status) ==
  LET i == active[r]
  IN  IF i = None THEN UNCHANGED incidentVars
      ELSE /\ incident' = [incident EXCEPT ![i].status = status]
           /\ Save(i, incident[i].id, incident[i].status)
           /\ UNCHANGED <<stamped, active, known>>

\* record_runbook_result: the result, of which only a success shows here, is put
\* down to whatever incident of the region is active by now.
RecordResult(r, status) ==
  LET i == active[r]
      new == IF status = "success" THEN "mitigated" ELSE incident[i].status
  IN  IF i = None THEN UNCHANGED incidentVars
      ELSE /\ incident' = [incident EXCEPT ![i].status = new]
           /\ Save(i, incident[i].id, new)
           /\ UNCHANGED <<stamped, active, known>>

-----------------------------------------------------------------------------
\* The endpoints.

\* fsm_degraded, up to the call of the executor: an open incident is kept.
Degraded(r) ==
  /\ \/ IsOpen(r) /\ UNCHANGED incidentVars
     \/ Open(r, FALSE)
  /\ server' = [at |-> "execute", region |-> r]

\* Mutant of Failed: a region without an incident is not escalated.
FailedOfIncident(r) ==
  /\ IF active[r] = None THEN UNCHANGED incidentVars ELSE Escalate(r)
  /\ UNCHANGED server

\* fsm_failed
Failed(r) ==
  /\ IF active[r] = None THEN Open(r, TRUE) ELSE Escalate(r)
  /\ UNCHANGED server

\* fsm_healthy
Healthy(r) == Resolve(r) /\ UNCHANGED server

Handle(r, report) ==
  /\ server = Idle
  /\ \/ report = "DEGRADED" /\ Degraded(r)
     \/ report = "FAILED" /\ Failed(r)
     \/ report = "HEALTHY" /\ Healthy(r)
  /\ UNCHANGED <<fsm, runVars, faultVars>>

Deliver(r) ==
  /\ inbox[r] # <<>>
  /\ Handle(r, Head(inbox[r]))
  /\ inbox' = [inbox EXCEPT ![r] = Tail(@)]

\* The first report of r is taken for lost by its sender, who repeats it.
DeliverTwice(r) ==
  /\ inbox[r] # <<>>
  /\ Cardinality(Fresh) > Underway
  /\ Handle(r, Head(inbox[r]))
  /\ UNCHANGED inbox

\* execute_for_incident, the second half of fsm_degraded.
Execute ==
  /\ server.at = "execute"
  /\ LET r == server.region
         k == registered[r]
     IN  IF k # None /\ run[k] # Idle THEN UNCHANGED runVars
         ELSE \E j \in Slot :
                /\ run[j] = Idle
                /\ run' = [run EXCEPT ![j] = Started(r)]
                /\ registered' = [registered EXCEPT ![r] = j]
                /\ UNCHANGED stepFailed
  /\ server' = Idle
  /\ UNCHANGED <<fsmVars, incidentVars, faultVars>>

\* A POST to the control plane: it answers, or it fails and may have arrived.
Answered(r, e) == Receives(r, e)
Unanswered(r, e) == UNCHANGED fsmVars \/ Receives(r, e)

\* resolve_incident: a person asks for the override of the region of i.
SREResolve(i) ==
  /\ server = Idle /\ i \in known
  /\ Unanswered(incident[i].region, "MANUAL_OVERRIDE")
  /\ UNCHANGED <<incidentVars, runVars, server, faultVars>>

\* ack_incident: record_sre_ack acknowledges, and saves, what is active in the
\* region of i, which need not be i.
Acknowledge(i) ==
  /\ server = Idle /\ i \in known
  /\ SaveActive(incident[i].region)
  /\ UNCHANGED <<fsmVars, runVars, server, faultVars>>

-----------------------------------------------------------------------------
\* The thread of the run in slot k.

At(k, place) == run[k].at = place
Goes(k, place) == run' = [run EXCEPT ![k].at = place]

\* _finish is called; `again' if an early return makes `finally' call it again.
Finishes(k, status, again) ==
  run' = [run EXCEPT ![k].at = "record", ![k].status = status, ![k].again = again]

\* notify_fsm_started and record_runbook_started; only the POST can raise.
Start(k) ==
  /\ At(k, "start")
  /\ \/ /\ Answered(run[k].region, "RUNBOOK_STARTED")
        /\ SaveActive(run[k].region)
        /\ Goes(k, "top")
     \/ /\ Unanswered(run[k].region, "RUNBOOK_STARTED")
        /\ Finishes(k, "failed", FALSE)
        /\ UNCHANGED incidentVars
  /\ UNCHANGED <<registered, stepFailed, server, faultVars>>

\* The head of the loop: the time is up, another step, or all are done and
\* the final verification, which always holds, passes.
Top(k) ==
  LET n == run[k].step
  IN  /\ At(k, "top")
      /\ \/ /\ n > Steps
            /\ Finishes(k, "success", FALSE)
            /\ UNCHANGED stepFailed
         \/ /\ n <= Steps
            /\ Finishes(k, "timeout", TRUE)
            /\ UNCHANGED stepFailed
         \/ /\ n <= Steps /\ ~ run[k].late
            /\ Goes(k, "execute")
            /\ stepFailed' = [stepFailed EXCEPT ![n] = FALSE]
      /\ UNCHANGED <<fsmVars, incidentVars, registered, server, faultVars>>

\* _execute_step: the attempts end in success, in failure or past the deadline.
ExecuteStep(k) ==
  /\ At(k, "execute")
  /\ \E outcome \in {"success", "failed", "timeout"} :
       /\ stepFailed' = [stepFailed EXCEPT ![run[k].step] = (outcome = "failed")]
       /\ run' = [run EXCEPT ![k].at = "judge", ![k].late = (outcome = "timeout")]
  /\ UNCHANGED <<fsmVars, incidentVars, registered, server, faultVars>>

\* record_runbook_progress; then the step's status is read, whosever it is by now.
Judge(k) ==
  /\ At(k, "judge")
  /\ SaveActive(run[k].region)
  /\ IF stepFailed[run[k].step]
       THEN Finishes(k, "failed", TRUE)
       ELSE run' = [run EXCEPT ![k].at = "top", ![k].step = @ + 1]
  /\ UNCHANGED <<fsmVars, registered, stepFailed, server, faultVars>>

\* _finish in three parts. A POST that fails is logged and forgotten.
Record(k) ==
  /\ At(k, "record")
  /\ RecordResult(run[k].region, run[k].status)
  /\ Goes(k, "notify")
  /\ UNCHANGED <<fsmVars, registered, stepFailed, server, faultVars>>

Notify(k) ==
  /\ At(k, "notify")
  /\ LET e == IF run[k].status = "success" THEN "RUNBOOK_SUCCEEDED" ELSE "RUNBOOK_FAILED"
     IN  Unanswered(run[k].region, e)
  /\ Goes(k, "pop")
  /\ UNCHANGED <<incidentVars, registered, stepFailed, server, faultVars>>

Pop(k) ==
  /\ At(k, "pop")
  /\ registered' = [registered EXCEPT ![run[k].region] = None]
  /\ IF run[k].again
       THEN Finishes(k, run[k].status, FALSE)
       ELSE run' = [run EXCEPT ![k] = Idle]
  /\ UNCHANGED <<fsmVars, incidentVars, stepFailed, server, faultVars>>

Thread(k) ==
  \/ Start(k) \/ Top(k) \/ ExecuteStep(k) \/ Judge(k)
  \/ Record(k) \/ Notify(k) \/ Pop(k)

-----------------------------------------------------------------------------
\* The service dies, its threads with it, and starts again: _load_active reads
\* the files in any order, and of two unresolved incidents of a region the one
\* that is read last is active.
Restart ==
  LET Loaded == {i \in Incident : disk[i] \in Unresolved}
      Of(r) == {i \in Loaded : incident[i].region = r}
  IN  /\ restarts < MaxRestarts
      /\ restarts' = restarts + 1
      /\ known' = Loaded
      /\ active' \in {a \in [Region -> Loaded \cup {None}] :
                       \A r \in Region : IF Of(r) = {} THEN a[r] = None ELSE a[r] \in Of(r)}
      /\ incident' = [i \in Incident |->
           IF i \notin Loaded THEN incident[i]
           ELSE [incident[i] EXCEPT !.status = disk[i],
                                    !.escalated = FALSE, !.reloaded = TRUE,
                                    !.aside = @ \/ i # active'[incident[i].region]]]
      /\ run' = [k \in Slot |-> Idle]
      /\ registered' = [r \in Region |-> None]
      /\ stepFailed' = [n \in 1 .. Steps |-> FALSE]
      /\ server' = Idle
      /\ UNCHANGED <<fsmVars, stamped, disk, damaged, lost>>

Endpoints == (\E r \in Region : Deliver(r) \/ DeliverTwice(r)) \/ Execute

Next ==
  \/ \E r \in Region : FSMMoves(r) \/ Lose(r)
  \/ SecondPasses
  \/ Endpoints
  \/ \E i \in Incident : SREResolve(i) \/ Acknowledge(i)
  \/ \E k \in Slot : Thread(k)
  \/ Restart

Spec == Init /\ [][Next]_vars

-----------------------------------------------------------------------------
\* Another incident has the id of i, and so its file and its place in _all.
SharesId(i) ==
  incident[i].id # None /\ \E k \in Incident \ {i} : incident[k].id = incident[i].id

\* A save of an incident of r failed, or another incident has its id.
Harmed(r) ==
  \E i \in Incident : incident[i].region = r /\ (i \in damaged \/ SharesId(i))

\* A region that is healthy, with no report of it under way or lost, has no
\* incident left open: not one whose fault is over. Set apart are incidents that
\* were put aside unresolved or whose save failed, which a restart brings back.
\* (fsm_healthy, IncidentManager.resolve and _load_active)
HealthyMeansResolved ==
  \A r \in Region :
    fsm[r] = "HEALTHY" /\ inbox[r] = <<>> /\ lost # "HEALTHY" /\ active[r] # None
      => incident[active[r]].aside \/ active[r] \in damaged

\* A region that has failed, with no report of it under way and no FAILED lost,
\* has an active incident and a person was called to it, even when the report
\* that should have opened the incident never came. A restart forgets the
\* escalation, and an incident it cannot read or whose file went to another
\* with its id. (fsm_failed, record_escalation)
FailedIsEscalated ==
  \A r \in Region :
    fsm[r] = "FAILED" /\ inbox[r] = <<>> /\ lost # "FAILED"
      => \/ active[r] # None /\ (incident[active[r]].escalated \/ incident[active[r]].reloaded)
         \/ Harmed(r)

\* An incident once resolved stays resolved, across restarts and whatever the
\* threads of old runs still record, unless a save of it failed. (resolve,
\* record_runbook_result, _load_active)
ResolvedIsFinal ==
  [][\A i \in Incident :
       incident[i].status = "resolved" /\ i \notin damaged
         => incident'[i].status = "resolved"]_vars

\* An incident that is not resolved is never forgotten, by a restart either,
\* unless a save of it failed or another incident was given its id: a region's
\* own next one, or one of a region whose name begins alike, within the second.
\* (_new_incident_id, open, _persist, _load_active)
IncidentsSurvive ==
  [][\A i \in known :
       incident[i].status # "resolved" /\ i \notin damaged => i \in known' \/ SharesId(i)']_vars

\* The manager keeps a book of incidents: IncidentBook says what is promised of
\* it. (open, record_runbook_result, resolve, _persist, _load_active)
BookOf == [i \in Incident |-> [region |-> incident[i].region, status |-> incident[i].status,
                               name |-> incident[i].id]]
Book == INSTANCE IncidentBook WITH book <- BookOf, front <- active, spoilt <- damaged
ImplementsBook == Book!BookSafety

\* A region has at most one run that carries out steps: what the register of
\* live threads is for. (execute_for_incident, _finish)
OneLiveRunPerRegion ==
  \A j, k \in Slot :
    /\ run[j].at \in {"top", "execute", "judge"}
    /\ run[k].at \in {"top", "execute", "judge"}
    /\ run[j].region = run[k].region
    => j = k

=============================================================================
