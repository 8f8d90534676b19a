----------------------------- MODULE MCScoring -----------------------------
(* Scoring with the RTTs of a path that recovers from 200 ms to 65 ms.      *)
EXTENDS Scoring

\* Every RTT, in hundredths of a millisecond, is a little more than 95% of the
\* one before it.
RTTs ==
  LET next(r) == (r * 95) \div 100 + 1
      ladder[n \in 1 .. 23] == IF n = 1 THEN 20000 ELSE next(ladder[n - 1])
  IN {ladder[n] : n \in 1 .. 23}
=============================================================================
