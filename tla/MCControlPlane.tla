--------------------------- MODULE MCControlPlane ---------------------------
(***************************************************************************)
(* The control plane on small instances, for TLC.                          *)
(***************************************************************************)
EXTENDS ControlPlane, TLC

\* Regions are interchangeable: no constant names one.
Symmetry == Permutations(Region)

=============================================================================
