-------------------------- MODULE MCSREOperations --------------------------
(***************************************************************************)
(* Instances of SREOperations: incidents and run slots are interchangeable. *)
(***************************************************************************)
EXTENDS SREOperations, TLC

CONSTANTS r1, r2, i1, i2, k1, k2

MCRegion == {r1}
MCRegions == {r1, r2}
MCShort == [r \in MCRegions |-> 0]
MCIncident == {i1, i2}
MCOneSlot == {k1}
MCSlots == {k1, k2}
Symmetry == Permutations(MCIncident)
SlotSymmetry == Permutations(MCIncident) \cup Permutations(MCSlots)

=============================================================================
