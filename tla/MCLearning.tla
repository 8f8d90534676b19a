----------------------------- MODULE MCLearning ----------------------------
(* Learning on small sets. Flows and samples of one severity are interchangeable. *)
EXTENDS Learning, TLC

\* The answers of the models whose adjustment could turn a verdict.
AnAnswer(p, synFlood, lstm) ==
  [p |-> [s \in Severity |-> 100 * p[s + 1]], synFlood |-> synFlood,
   forest |-> 50, lstm |-> lstm, weight |-> 20]

Answers ==
  {AnAnswer(p, synFlood, lstm) :
     p \in {<<7, 1, 1, 1>>, <<4, 2, 3, 1>>, <<1, 4, 4, 1>>, <<1, 1, 4, 4>>,
            <<1, 2, 3, 4>>, <<1, 1, 2, 6>>},
     synFlood \in BOOLEAN, lstm \in {50, 60}}

Symmetric ==
  Permutations(Flow) \cup Permutations(Baseline) \cup Permutations(Sample \ Baseline)
=============================================================================
