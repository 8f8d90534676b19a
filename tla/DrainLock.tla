----------------------------- MODULE DrainLock -----------------------------
(***************************************************************************)
(* DrainRegion and RestoreRegion of controlplane/route53/client.go, as the  *)
(* control planes of several regions call them: every call takes a lock in  *)
(* a DynamoDB table, changes the region's record in Route 53 and asks for   *)
(* the removal of the lock, which DynamoDB refuses (see MayDelete). A lock  *)
(* lapses after LockTTLSeconds, however long its owner takes; a request to  *)
(* AWS may fail, or be carried out and its answer lost, in which case the   *)
(* SDK sends it again.                                                      *)
(*                                                                         *)
(* A controller has at most one such call for a region under way (see       *)
(* CallMatchesState of ControlPlane).                                       *)
(***************************************************************************)
EXTENDS Integers, FiniteSets

CONSTANTS Agent,      \* the controllers, by their localRegion: the owner of their locks
          Region,     \* the regions that are drained and restored
          MaxFaults   \* bound on failed requests, lost answers and deaths

ASSUME DrainLockAssumption == MaxFaults \in Nat /\ "free" \notin Agent

VARIABLES
  table,    \* the owner of the lock item of every key, Absent without one
  valid,    \* whether expires_at of the item is yet to come
  call,     \* where the call of an agent for a region is, and its lock key
  late,     \* (history) the calls whose lock lapsed before they ended
  faults    \* (bound) faults so far

vars == <<table, valid, call, late, faults>>

Absent == "free"
Key == {"drain", "restore"} \X Region
Idle == [at |-> "idle"]
Places == {"acquire", "change", "release"}
Calling(a, r, p) == call[<<a, r>>].at = p

TypeOK ==
  /\ table \in [Key -> Agent \cup {Absent}]
  /\ valid \in [Key -> BOOLEAN]
  /\ call \in [Agent \X Region -> {Idle} \cup [at : Places, key : Key]]
  /\ late \subseteq Agent \X Region
  /\ faults \in 0 .. MaxFaults

Init ==
  /\ table = [k \in Key |-> Absent]
  /\ valid = [k \in Key |-> FALSE]
  /\ call = [c \in Agent \X Region |-> Idle]
  /\ late = {} /\ faults = 0

-----------------------------------------------------------------------------
\* Steps of a call.

Goes(a, r, p) == call' = [call EXCEPT ![<<a, r>>].at = p]
Ends(a, r) == call' = [call EXCEPT ![<<a, r>>] = Idle]
Fault == faults < MaxFaults /\ faults' = faults + 1

\* DrainRegion or RestoreRegion is called.
Call(a, r, op) ==
  /\ Calling(a, r, "idle")
  /\ call' = [call EXCEPT ![<<a, r>>] = [at |-> "acquire", key |-> <<op, r>>]]
  /\ late' = late \ {<<a, r>>}
  /\ UNCHANGED <<table, valid, faults>>

\* Mutant of MayPut: the put is unconditional.
MayPutAlways(k) == k \in Key

\* The condition of the put, attribute_not_exists(lock_key) OR expires_at < :now.
MayPut(k) == ~valid[k]

\* Mutant of PutItem: the item's owner is the operation.
PutItemOfOperation(a, k) ==
  /\ table' = [table EXCEPT ![k] = k[1]]
  /\ valid' = [valid EXCEPT ![k] = TRUE]

PutItem(a, k) ==
  /\ table' = [table EXCEPT ![k] = a]
  /\ valid' = [valid EXCEPT ![k] = TRUE]

\* acquireLock. When the condition fails the call gives up with an error: the
\* SDK's error wraps the exception that isConditionalCheckFailed looks for.
Acquire(a, r) ==
  LET k == call[<<a, r>>].key IN
  /\ Calling(a, r, "acquire")
  /\ IF MayPut(k) THEN PutItem(a, k) /\ Goes(a, r, "change")
     ELSE Ends(a, r) /\ UNCHANGED <<table, valid>>
  /\ UNCHANGED <<late, faults>>

\* The put is carried out, its answer is lost, and the SDK sends it again.
AcquireUnanswered(a, r) ==
  LET k == call[<<a, r>>].key IN
  /\ Calling(a, r, "acquire") /\ MayPut(k) /\ Fault
  /\ PutItem(a, k)
  /\ UNCHANGED <<call, late>>

\* The change of the record succeeds or fails, or there is no health check for
\* the region; the removal of the lock is asked for in any case.
Change(a, r) ==
  /\ Calling(a, r, "change")
  /\ Goes(a, r, "release")
  /\ UNCHANGED <<table, valid, late, faults>>

\* The names among those the expressions of the client use as they are that
\* DynamoDB reserves: it takes them only through a placeholder.
ReservedWords == {"owner"}

\* The condition of the delete, owner = :owner, and whether it is accepted at all.
MayDelete(a, k) == "owner" \notin ReservedWords /\ table[k] = a

\* Mutant of DeleteItem: the delete has no condition.
DeleteItemOfAny(a, k) ==
  /\ a \in Agent
  /\ table' = [table EXCEPT ![k] = Absent]
  /\ valid' = [valid EXCEPT ![k] = FALSE]

DeleteItem(a, k) ==
  IF MayDelete(a, k)
  THEN /\ table' = [table EXCEPT ![k] = Absent]
       /\ valid' = [valid EXCEPT ![k] = FALSE]
  ELSE UNCHANGED <<table, valid>>

\* releaseLock, deferred by both operations: whatever DynamoDB answers, and if it
\* does not, is logged at most.
Release(a, r) ==
  /\ Calling(a, r, "release")
  /\ DeleteItem(a, call[<<a, r>>].key)
  /\ Ends(a, r)
  /\ UNCHANGED <<late, faults>>

\* The request for the lock fails for good.
RequestFails(a, r) ==
  /\ Calling(a, r, "acquire") /\ Fault
  /\ Ends(a, r)
  /\ UNCHANGED <<table, valid, late>>

\* The controller dies, or is shut down and its context with it: its locks stay.
Die(a) ==
  /\ Fault
  /\ \E r \in Region : call[<<a, r>>] # Idle
  /\ call' = [c \in Agent \X Region |-> IF c[1] = a THEN Idle ELSE call[c]]
  /\ UNCHANGED <<table, valid, late>>

\* The owner's clock, or that of an agent which puts, passes expires_at.
Lapse(k) ==
  /\ valid[k]
  /\ valid' = [valid EXCEPT ![k] = FALSE]
  /\ late' = late \cup {c \in Agent \X Region : /\ call[c] # Idle /\ call[c].key = k
                                               /\ call[c].at # "acquire" /\ table[k] = c[1]}
  /\ UNCHANGED <<table, call, faults>>

-----------------------------------------------------------------------------
Step(a, r) ==
  \/ \E op \in {"drain", "restore"} : Call(a, r, op)
  \/ Acquire(a, r) \/ AcquireUnanswered(a, r) \/ Change(a, r)
  \/ Release(a, r) \/ RequestFails(a, r)

Next ==
  \/ \E a \in Agent, r \in Region : Step(a, r)
  \/ \E a \in Agent : Die(a)
  \/ \E k \in Key : Lapse(k)

\* Time passes.
Spec == Init /\ [][Next]_vars /\ \A k \in Key : WF_vars(Lapse(k))

-----------------------------------------------------------------------------
\* Two agents change the record of a region under one lock at the same time only
\* if the lock of one of them lapsed while it was at it. Neither a lost answer,
\* a late request to remove a lock, nor a death of an agent brings this about.
ExclusiveUntilLapse ==
  \A r \in Region, a, b \in Agent :
    /\ a # b
    /\ Calling(a, r, "change") /\ Calling(b, r, "change")
    /\ call[<<a, r>>].key = call[<<b, r>>].key
    => <<a, r>> \in late \/ <<b, r>> \in late

\* The agents between their put of a lock and the end of the change it guards.
Changing ==
  [k \in Key |-> {a \in Agent : Calling(a, k[2], "change") /\ call[<<a, k[2]>>].key = k}]

\* The table's items are the leases, and those agents are in the section.
L == INSTANCE Lease WITH
  Holder <- Agent, Key <- Key, lease <- table, runs <- valid, inside <- Changing

\* The lock in the table keeps the promises of a lease.
ImplementsLease == L!LeaseSpec
-----------------------------------------------------------------------------
\* What comments and documents of the repository say and the code does not do.

\* The lock is removed by its owner at the end of the call (client.go:303, "Only
\* release if we own it") and left to expire only "if US-East crashes mid-drain"
\* (control-plane-04/README.md): without a fault, a lock that blocks others belongs
\* to a call under way.
NoOrphanWithoutFault ==
  \A k \in Key :
    valid[k] /\ faults = 0 =>
      LET c == <<table[k], k[2]>>
      IN call[c].at \in {"change", "release"} /\ call[c].key = k

=============================================================================
