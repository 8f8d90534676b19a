------------------------------ MODULE RegionFSM ------------------------------
(***************************************************************************)
(* The healing state machine of one region: its states, its events, its    *)
(* transition table and the states that carry a timeout                    *)
(* (control-plane-04/controlplane/statemachine/fsm.go).                    *)
(*                                                                         *)
(* The table is a set of triples, so that "event e is accepted in state s" *)
(* is the existence of a triple and an event outside the table is ignored, *)
(* as Send does.                                                           *)
(***************************************************************************)

State == {"HEALTHY", "DEGRADED", "HEALING", "RECOVERED", "FAILED"}

Event == {"ANOMALY_DETECTED", "SEVERITY_CRITICAL", "RUNBOOK_STARTED",
          "RUNBOOK_SUCCEEDED", "RUNBOOK_FAILED", "HEALTH_VERIFIED",
          "TTL_EXPIRED", "MANUAL_OVERRIDE", "RECOVERY_ROLLBACK"}

\* nextState: the pairs (state, event) that have a successor, with it.
Table ==
  { <<"HEALTHY",   "ANOMALY_DETECTED",  "DEGRADED">>,
    <<"HEALTHY",   "SEVERITY_CRITICAL", "DEGRADED">>,
    <<"HEALTHY",   "MANUAL_OVERRIDE",   "DEGRADED">>,
    <<"DEGRADED",  "RUNBOOK_STARTED",   "HEALING">>,
    <<"DEGRADED",  "TTL_EXPIRED",       "HEALING">>,
    <<"DEGRADED",  "MANUAL_OVERRIDE",   "FAILED">>,
    <<"HEALING",   "RUNBOOK_SUCCEEDED", "RECOVERED">>,
    <<"HEALING",   "RUNBOOK_FAILED",    "FAILED">>,
    <<"HEALING",   "TTL_EXPIRED",       "FAILED">>,
    <<"HEALING",   "MANUAL_OVERRIDE",   "FAILED">>,
    <<"RECOVERED", "HEALTH_VERIFIED",   "HEALTHY">>,
    <<"RECOVERED", "RECOVERY_ROLLBACK", "DEGRADED">>,
    <<"RECOVERED", "ANOMALY_DETECTED",  "DEGRADED">>,
    <<"RECOVERED", "TTL_EXPIRED",       "HEALTHY">>,
    <<"FAILED",    "MANUAL_OVERRIDE",   "HEALTHY">>,
    <<"FAILED",    "TTL_EXPIRED",       "DEGRADED">> }

\* Mutant of Moves: the FAILED row of the timeouts is forgotten.
MovesWithoutFailedTimeout(s, e, t) ==
  <<s, e, t>> \in Table \ {<<"FAILED", "TTL_EXPIRED", "DEGRADED">>}

\* Event e takes state s to state t.
Moves(s, e, t) == <<s, e, t>> \in Table

\* Send drops the event when the table has no entry for it.
Ignored(s, e) == \A t \in State : ~ Moves(s, e, t)

\* The states with an entry in the timeouts map: CheckTimeouts never fires
\* in HEALTHY.
Timed == {"DEGRADED", "HEALING", "RECOVERED", "FAILED"}

\* The states in which the region is being drained or kept out of traffic.
Unhealthy == {"DEGRADED", "HEALING", "FAILED"}

=============================================================================
