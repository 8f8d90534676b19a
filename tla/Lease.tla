------------------------------- MODULE Lease -------------------------------
(***************************************************************************)
(* What the drain lock promises: a lease on every key. A holder may be in   *)
(* the section that the lease guards longer than the lease lasts, and may   *)
(* hold a lease it was never told of; but no lease is taken while another   *)
(* runs, and none is given back while its holder is in the section.         *)
(***************************************************************************)
EXTENDS Integers

CONSTANTS Holder, Key

VARIABLES
  lease,    \* the holder of the last lease on a key, or Free if given back
  runs,     \* whether that lease still runs
  inside    \* the holders in the section of a key

leaseVars == <<lease, runs, inside>>

Free == "free"    \* no Holder

LeaseInit ==
  /\ lease = [k \in Key |-> Free]
  /\ runs = [k \in Key |-> FALSE]
  /\ inside = [k \in Key |-> {}]

\* h takes the lease on k, and enters the section if it learns of it.
Take(h, k, learns) ==
  /\ ~runs[k]
  /\ lease' = [lease EXCEPT ![k] = h]
  /\ runs' = [runs EXCEPT ![k] = TRUE]
  /\ inside' = IF learns THEN [inside EXCEPT ![k] = @ \cup {h}] ELSE inside

\* h leaves the sections of some keys: one, or all when it dies.
Leave(h, K) ==
  /\ inside' = [k \in Key |-> IF k \in K THEN inside[k] \ {h} ELSE inside[k]]
  /\ UNCHANGED <<lease, runs>>

GiveBack(k) ==
  /\ lease[k] \notin inside[k]
  /\ lease' = [lease EXCEPT ![k] = Free]
  /\ runs' = [runs EXCEPT ![k] = FALSE]
  /\ UNCHANGED inside

LapseOf(k) ==
  /\ runs[k]
  /\ runs' = [runs EXCEPT ![k] = FALSE]
  /\ UNCHANGED <<lease, inside>>

LeaseNext ==
  \/ \E h \in Holder, k \in Key, learns \in BOOLEAN : Take(h, k, learns)
  \/ \E h \in Holder, K \in SUBSET Key : Leave(h, K)
  \/ \E k \in Key : GiveBack(k) \/ LapseOf(k)

LeaseSafety == LeaseInit /\ [][LeaseNext]_leaseVars

\* No lease runs for ever.
LeaseSpec == LeaseSafety /\ \A k \in Key : WF_leaseVars(LapseOf(k))
=============================================================================
