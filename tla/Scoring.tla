------------------------------ MODULE Scoring ------------------------------
(***************************************************************************)
(* The scoring pipeline (ml/pipeline/scoring_pipeline.py): the LSTM window *)
(* kept for every flow, the bandit's arms, and how the four models' answers *)
(* become a failover verdict. What the models compute is left open; which  *)
(* model answers, and what a score leaves behind, is not.                  *)
(*                                                                         *)
(* Scores are in hundredths, the arms' parameters in thousandths.          *)
(***************************************************************************)
EXTENDS Integers, Sequences, FiniteSets

CONSTANTS Flow,       \* flow keys, src_ip and dst_ip of a metric
          Region,     \* the regions of the metrics; every one has an arm
          RTT,        \* the RTTs a metric may report, 0 for none
          SeqLen,     \* length of an LSTM window
          MaxFlows,   \* MAX_FLOW_LSTMS
          MaxScores   \* bound on the metrics scored

ASSUME ScoringAssumption ==
  /\ RTT \subseteq Nat
  /\ SeqLen \in Nat \ {0} /\ MaxFlows \in Nat \ {0} /\ MaxScores \in Nat

VARIABLES
  flows,     \* the keys of _flow_lstms, in order of insertion
  window,    \* the window of every flow that has one, as numbers of its metrics
  seen,      \* (history) metrics of a flow pushed so far
  prevRTT,   \* _prev_rtt_by_region, 0 for none
  scored,    \* (bound) metrics pushed so far
  beta       \* RegionArm.beta; alpha never falls and is left out

scoringVars == <<flows, window, seen, scored, prevRTT, beta>>

ScoringTypeOK ==
  /\ flows \in Seq(Flow) /\ Len(flows) <= MaxFlows
  /\ window \in [Flow -> Seq(1 .. MaxScores)]
  /\ seen \in [Flow -> 0 .. MaxScores] /\ scored \in 0 .. MaxScores
  /\ prevRTT \in [Region -> RTT \cup {0}]
  /\ beta \in [Region -> Int]

ScoringInit ==
  /\ flows = <<>>
  /\ window = [f \in Flow |-> <<>>]
  /\ seen = [f \in Flow |-> 0] /\ scored = 0
  /\ prevRTT = [r \in Region |-> 0]
  /\ beta = [r \in Region |-> 1000]

-----------------------------------------------------------------------------
\* The LSTM windows.

Known(f) == \E n \in 1 .. Len(flows) : flows[n] = f

\* Metric n is appended to a window, whose deque drops its oldest entry.
Slid(w, n) == Append(IF Len(w) = SeqLen THEN Tail(w) ELSE w, n)

\* Mutant of Push: the window of the flow inserted first is not dropped.
PushKeepingWindow(f) ==
  LET full == Len(flows) >= MaxFlows
  IN /\ scored < MaxScores /\ scored' = scored + 1
     /\ flows' = IF Known(f) THEN flows
                 ELSE Append(IF full THEN Tail(flows) ELSE flows, f)
     /\ seen' = [seen EXCEPT ![f] = @ + 1]
     /\ window' = [window EXCEPT ![f] = Slid(@, seen'[f])]

\* Mutant of Push: the number of windows has no limit.
PushUnbounded(f) ==
  /\ scored < MaxScores /\ scored' = scored + 1
  /\ flows' = IF Known(f) THEN flows ELSE Append(flows, f)
  /\ seen' = [seen EXCEPT ![f] = @ + 1]
  /\ window' = [window EXCEPT ![f] = Slid(@, seen'[f])]

\* A metric of f is pushed; a flow without a window gets an empty one first,
\* in the place of the window inserted first when there are MaxFlows.
Push(f) ==
  LET full == Len(flows) >= MaxFlows
      evicted == IF ~Known(f) /\ full THEN {Head(flows)} ELSE {}
  IN /\ scored < MaxScores /\ scored' = scored + 1
     /\ flows' = IF Known(f) THEN flows
                 ELSE Append(IF full THEN Tail(flows) ELSE flows, f)
     /\ seen' = [seen EXCEPT ![f] = @ + 1]
     /\ window' = [g \in Flow |->
                     IF g \in evicted THEN <<>>
                     ELSE IF g = f THEN Slid(window[f], seen'[f]) ELSE window[g]]

\* reset_flow, after a fault is resolved.
ResetFlow(f) ==
  /\ Known(f) /\ window[f] # <<>>
  /\ window' = [window EXCEPT ![f] = <<>>]
  /\ UNCHANGED <<flows, seen, scored, prevRTT, beta>>

-----------------------------------------------------------------------------
\* The bandit.

\* rng.beta raises unless both parameters are positive.
Sampleable == \A r \in Region : beta[r] > 0

\* The reward of a decision after which the RTT went from old to new.
Reward(old, new) ==
  CASE old <= 0                 -> 500
    [] old > 0 /\ new * 100 <= old * 95 -> 1000
    [] old > 0 /\ new * 10 > old * 11   -> 0
    [] OTHER -> LET partial == 1000 + ((old - new) * 1000) \div old
                IN IF partial > 0 THEN partial ELSE 0

\* RegionArm.update, from NimbusMultiArmedBandit.observe.
Observe(r, old, new) == beta' = [beta EXCEPT ![r] = @ + (1000 - Reward(old, new))]

\* Steps 5 and 6 of score, after recommend_weights has sampled every arm. With
\* an arm that cannot be sampled it raises and leaves the rest undone.
Decide(r, rtt) ==
  IF Sampleable
  THEN /\ IF prevRTT[r] > 0 /\ rtt > 0 THEN Observe(r, prevRTT[r], rtt) ELSE beta' = beta
       /\ prevRTT' = IF rtt > 0 THEN [prevRTT EXCEPT ![r] = rtt] ELSE prevRTT
  ELSE UNCHANGED <<prevRTT, beta>>

-----------------------------------------------------------------------------
\* The verdict.

Severity == 0 .. 3            \* NOMINAL, WARNING, DEGRADED, CRITICAL
DEGRADED == 2
CRITICAL == 3

\* The first severity of greatest probability, as numpy's argmax.
ArgMax(p) == CHOOSE s \in Severity : /\ \A t \in Severity : p[s] >= p[t]
                                     /\ \A t \in 0 .. s - 1 : p[t] < p[s]

\* The SYN_FLOOD hint moves weight from NOMINAL to WARNING, before the
\* probabilities are divided by their sum.
Hinted(p, synFlood) ==
  IF synFlood /\ ArgMax(p) = 0
  THEN [p EXCEPT ![0] = (@ * 3) \div 10, ![1] = @ + (7 * ((p[0] * 3) \div 10)) \div 10]
  ELSE p

\* Mutant of Classify: an unsure CRITICAL becomes WARNING.
ClassifyAsWarning(p, synFlood) ==
  LET q == Hinted(p, synFlood)
      s == ArgMax(q)
  IN IF s = CRITICAL /\ q[s] * 100 < 55 * (q[0] + q[1] + q[2] + q[3]) THEN 1 ELSE s

\* NimbusXGBoostClassifier.classify: an unsure CRITICAL becomes DEGRADED.
Classify(p, synFlood) ==
  LET q == Hinted(p, synFlood)
      total == q[0] + q[1] + q[2] + q[3]
      s == ArgMax(q)
  IN IF s = CRITICAL /\ q[s] * 100 < 55 * total THEN DEGRADED ELSE s

\* The LSTM's confidence with n entries in the window: with fewer than two it is
\* sure that the fault is UNKNOWN.
Confidence(n, c) == IF n < 2 THEN 100 ELSE c

\* _ensemble_decision: the forest's score, the severity, the LSTM's confidence
\* and the bandit's weight of the region.
Failover(forestScore, severity, lstm, weight) ==
  \/ forestScore >= 70
  \/ severity >= DEGRADED /\ lstm >= 60
  \/ weight < 20 /\ forestScore >= 50

-----------------------------------------------------------------------------
\* A metric of flow f in region r is scored without a retrain beside it.
Score(f, r, rtt) == Push(f) /\ Decide(r, rtt)

ScoringNext ==
  \/ \E f \in Flow, r \in Region, rtt \in RTT : Score(f, r, rtt)
  \/ \E f \in Flow : ResetFlow(f)

ScoringSpec == ScoringInit /\ [][ScoringNext]_scoringVars

-----------------------------------------------------------------------------
\* Every window holds the latest metrics of its own flow, in order and without
\* a gap: flows do not bleed into one another, and a flow that lost its window
\* to another starts over instead of going on where it was.
WindowIsSuffix ==
  \A f \in Flow :
    /\ \A n \in 1 .. Len(window[f]) : window[f][n] = seen[f] - Len(window[f]) + n
    /\ window[f] # <<>> => Known(f)

\* A region's arm can be sampled as long as the process lives: the reward of a
\* routing decision is between 0 and 1, so that beta never falls.
ArmsStaySampleable == Sampleable
=============================================================================
