----------------------------- MODULE MCHashRing -----------------------------
(***************************************************************************)
(* Hash rings of two agents over six positions, for TLC.                   *)
(***************************************************************************)
EXTENDS HashRing, TLC

CONSTANTS p, q, s

\* p and q share position 3, q and s position 5; each has one of its own.
MCPoints == p :> {0, 3} @@ q :> {2, 3, 5} @@ s :> {1, 5}

\* No configured peers (the default), one, and all in two orders.
MCOrder == {<<>>, <<s>>, <<p, q, s>>, <<s, q, p>>}

=============================================================================
