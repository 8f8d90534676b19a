--------------------------- MODULE ScoringProofs ---------------------------
(***************************************************************************)
(* Theorems about Scoring, for any flows, regions and RTTs, any length of a *)
(* window and any number of them: what a score and a reset leave behind.    *)
(* LearningProofs takes them to the process in which retrains run beside.   *)
(***************************************************************************)
EXTENDS Scoring, TLAPS

\* A flow has no more metrics than were pushed.
SeenAreScored == \A f \in Flow : seen[f] <= scored

ScoringInv == ScoringTypeOK /\ SeenAreScored /\ WindowIsSuffix

-----------------------------------------------------------------------------
\* The windows.

LEMMA TailOf ==
  ASSUME NEW S, NEW q \in Seq(S), Len(q) > 0
  PROVE  /\ Tail(q) \in Seq(S) /\ Len(Tail(q)) = Len(q) - 1
         /\ \A n \in 1 .. Len(q) - 1 : Tail(q)[n] = q[n + 1]
  <1>1. q # <<>>
    OBVIOUS
  <1>2. Tail(q) \in Seq(S) /\ Len(Tail(q)) = Len(q) - 1
    BY <1>1
  <1>3. \A n \in 1 .. Len(q) - 1 : Tail(q)[n] = q[n + 1]
    BY <1>1, <1>2
  <1> QED
    BY <1>2, <1>3

\* A window that ends with the metric before n still does with n, after which it
\* is not empty.
LEMMA SlidKeepsSuffix ==
  ASSUME NEW S, NEW w \in Seq(S), NEW n \in S, S \subseteq Int,
         \A k \in 1 .. Len(w) : w[k] = n - 1 - Len(w) + k
  PROVE  /\ Slid(w, n) \in Seq(S) /\ Slid(w, n) # <<>>
         /\ \A k \in 1 .. Len(Slid(w, n)) : Slid(w, n)[k] = n - Len(Slid(w, n)) + k
  <1>0. SeqLen \in Nat \ {0}
    BY ScoringAssumption DEF ScoringAssumption
  <1>1. ASSUME NEW v \in Seq(S), \A k \in 1 .. Len(v) : v[k] = n - 1 - Len(v) + k
        PROVE  /\ Append(v, n) \in Seq(S) /\ Append(v, n) # <<>>
               /\ \A k \in 1 .. Len(Append(v, n)) :
                    Append(v, n)[k] = n - Len(Append(v, n)) + k
    <2>1. /\ Append(v, n) \in Seq(S) /\ Len(Append(v, n)) = Len(v) + 1 /\ Len(v) \in Nat
          /\ Append(v, n)[Len(v) + 1] = n
          /\ \A k \in 1 .. Len(v) : Append(v, n)[k] = v[k]
      BY <1>1
    <2>2. Append(v, n) # <<>>
      BY <2>1
    <2>3. ASSUME NEW k \in 1 .. Len(v) + 1
          PROVE  Append(v, n)[k] = n - (Len(v) + 1) + k
      <3>1. n \in Int
        OBVIOUS
      <3>2. CASE k = Len(v) + 1
        BY <2>1, <3>1, <3>2
      <3>3. CASE k \in 1 .. Len(v)
        <4>1. Append(v, n)[k] = n - 1 - Len(v) + k
          BY <1>1, <2>1, <3>3
        <4>2. n - 1 - Len(v) + k = n - (Len(v) + 1) + k
          BY <2>1, <3>1
        <4> QED
          BY <4>1, <4>2
      <3> QED
        BY <2>1, <3>2, <3>3
    <2> QED
      BY <2>1, <2>2, <2>3
  <1>2. CASE Len(w) = SeqLen
    <2>1. /\ Tail(w) \in Seq(S) /\ Len(Tail(w)) = Len(w) - 1
          /\ \A k \in 1 .. Len(w) - 1 : Tail(w)[k] = w[k + 1]
      BY <1>0, <1>2, TailOf
    <2> DEFINE v == Tail(w)
    <2>2. ASSUME NEW k \in 1 .. Len(v)
          PROVE  v[k] = n - 1 - Len(v) + k
      <3>1. Len(w) \in Nat /\ n \in Int /\ k + 1 \in 1 .. Len(w)
        BY <2>1
      <3>2. v[k] = n - 1 - Len(w) + (k + 1)
        BY <2>1, <3>1
      <3>3. n - 1 - Len(w) + (k + 1) = n - 1 - (Len(w) - 1) + k
        BY <3>1
      <3> QED
        BY <2>1, <3>2, <3>3
    <2> HIDE DEF v
    <2>3. Slid(w, n) = Append(v, n) /\ v \in Seq(S)
      BY <1>2, <2>1 DEF Slid, v
    <2> QED
      BY <1>1, <2>2, <2>3
  <1>3. CASE Len(w) # SeqLen
    <2>1. Slid(w, n) = Append(w, n)
      BY <1>3 DEF Slid
    <2> QED
      BY <1>1, <2>1
  <1> QED
    BY <1>2, <1>3

\* Of the flows only the one inserted first loses its place, and only to a flow
\* that has none.
LEMMA PushKeepsFlows ==
  ASSUME ScoringTypeOK, NEW f \in Flow, Push(f)
  PROVE  /\ flows' \in Seq(Flow) /\ Len(flows') <= MaxFlows
         /\ Known(f)'
         /\ \A g \in Flow :
              Known(g) => Known(g)' \/ (~Known(f) /\ Len(flows) >= MaxFlows /\ g = Head(flows))
         /\ ~Known(f) /\ Len(flows) >= MaxFlows => f # Head(flows)
  <1>0. /\ flows \in Seq(Flow) /\ Len(flows) <= MaxFlows /\ Len(flows) \in Nat
        /\ MaxFlows \in Nat \ {0}
    BY ScoringAssumption DEF ScoringTypeOK, ScoringAssumption
  <1>1. CASE Known(f)
    <2>1. flows' = flows
      BY <1>1 DEF Push
    <2> QED
      BY <1>0, <1>1, <2>1 DEF Known
  <1>2. CASE ~Known(f) /\ Len(flows) < MaxFlows
    <2>1. flows' = Append(flows, f)
      BY <1>0, <1>2 DEF Push
    <2>2. /\ flows' \in Seq(Flow) /\ Len(flows') = Len(flows) + 1
          /\ flows'[Len(flows) + 1] = f
          /\ \A n \in 1 .. Len(flows) : flows'[n] = flows[n]
      BY <1>0, <2>1
    <2>3. Known(f)' /\ \A g \in Flow : Known(g) => Known(g)'
      BY <1>0, <2>2 DEF Known
    <2> QED
      BY <1>0, <1>2, <2>2, <2>3
  <1>3. CASE ~Known(f) /\ Len(flows) >= MaxFlows
    <2>1. /\ Tail(flows) \in Seq(Flow) /\ Len(Tail(flows)) = Len(flows) - 1
          /\ \A n \in 1 .. Len(flows) - 1 : Tail(flows)[n] = flows[n + 1]
      BY <1>0, <1>3, TailOf
    <2>2. flows' = Append(Tail(flows), f) /\ Head(flows) = flows[1]
      BY <1>0, <1>3 DEF Push
    <2>3. /\ flows' \in Seq(Flow) /\ Len(flows') = Len(flows)
          /\ flows'[Len(flows)] = f
          /\ \A n \in 1 .. Len(flows) - 1 : flows'[n] = flows[n + 1]
      BY <1>0, <2>1, <2>2
    <2>4. Known(f)'
      BY <1>0, <1>3, <2>3 DEF Known
    <2>5. ASSUME NEW g \in Flow, Known(g), g # Head(flows) PROVE Known(g)'
      <3>1. PICK n \in 1 .. Len(flows) : flows[n] = g
        BY <2>5 DEF Known
      <3>2. n # 1
        BY <2>2, <2>5, <3>1
      <3>3. n - 1 \in 1 .. Len(flows) - 1 /\ flows'[n - 1] = flows[(n - 1) + 1]
        BY <1>0, <2>3, <3>2
      <3>4. n - 1 \in 1 .. Len(flows') /\ flows'[n - 1] = g
        BY <1>0, <2>3, <3>1, <3>3
      <3> QED
        BY <3>4 DEF Known
    <2>6. f # Head(flows)
      <3>1. 1 \in 1 .. Len(flows)
        BY <1>0, <1>3
      <3> QED
        BY <1>3, <2>2, <3>1 DEF Known
    <2> QED
      BY <1>0, <1>3, <2>3, <2>4, <2>5, <2>6
  <1> QED
    BY <1>0, <1>1, <1>2, <1>3

LEMMA PushKeepsWindows ==
  ASSUME ScoringTypeOK, SeenAreScored, WindowIsSuffix, NEW f \in Flow, Push(f)
  PROVE  /\ flows' \in Seq(Flow) /\ Len(flows') <= MaxFlows
         /\ window' \in [Flow -> Seq(1 .. MaxScores)]
         /\ seen' \in [Flow -> 0 .. MaxScores] /\ scored' \in 0 .. MaxScores
         /\ SeenAreScored' /\ WindowIsSuffix'
  <1> DEFINE evicted == IF ~Known(f) /\ Len(flows) >= MaxFlows THEN {Head(flows)} ELSE {}
             next == seen[f] + 1
  <1>0. /\ MaxScores \in Nat /\ scored \in 0 .. MaxScores /\ scored < MaxScores
        /\ scored' = scored + 1
    BY ScoringAssumption DEF ScoringAssumption, ScoringTypeOK, Push
  <1>1. seen \in [Flow -> 0 .. MaxScores] /\ window \in [Flow -> Seq(1 .. MaxScores)]
    BY DEF ScoringTypeOK
  <1>2. next \in 1 .. MaxScores /\ next <= scored'
    <2>1. seen[f] \in 0 .. MaxScores /\ seen[f] <= scored
      BY <1>1 DEF SeenAreScored
    <2> QED
      BY <1>0, <2>1
  <1>3. seen' = [seen EXCEPT ![f] = next]
    BY DEF Push
  <1>4. /\ window' = [g \in Flow |->
                        IF g \in evicted THEN <<>>
                        ELSE IF g = f THEN Slid(window[f], seen'[f]) ELSE window[g]]
    BY DEF Push
  <1>5. \A k \in 1 .. Len(window[f]) : window[f][k] = next - 1 - Len(window[f]) + k
    <2>1. seen[f] \in Int /\ Len(window[f]) \in Int /\ next - 1 = seen[f]
      BY <1>1
    <2>2. \A k \in 1 .. Len(window[f]) : window[f][k] = seen[f] - Len(window[f]) + k
      BY DEF WindowIsSuffix
    <2> QED
      BY <2>1, <2>2
  <1>6. /\ f \notin evicted
        /\ \A g \in evicted : ~Known(f)
    BY PushKeepsFlows
  <1>7. \A g \in Flow : Known(g) /\ g \notin evicted => Known(g)'
    BY PushKeepsFlows
  <1> HIDE DEF evicted, next
  <1>8. seen'[f] = next /\ \A g \in Flow : g # f => seen'[g] = seen[g]
    BY <1>1, <1>3
  <1>9. seen' \in [Flow -> 0 .. MaxScores] /\ SeenAreScored'
    <2>1. next \in 0 .. MaxScores
      BY <1>0, <1>2
    <2>2. seen' \in [Flow -> 0 .. MaxScores]
      BY <1>1, <1>3, <2>1
    <2>3. \A g \in Flow : seen[g] <= scored + 1
      BY <1>0, <1>1 DEF SeenAreScored
    <2> QED
      BY <1>0, <1>2, <1>8, <2>2, <2>3 DEF SeenAreScored
  <1>10. /\ Slid(window[f], next) \in Seq(1 .. MaxScores) /\ Slid(window[f], next) # <<>>
         /\ \A k \in 1 .. Len(Slid(window[f], next)) :
              Slid(window[f], next)[k] = next - Len(Slid(window[f], next)) + k
    <2> DEFINE S == 1 .. MaxScores
    <2>1. S \subseteq Int /\ window[f] \in Seq(S) /\ next \in S
      BY <1>1, <1>2
    <2> HIDE DEF S
    <2>2. /\ Slid(window[f], next) \in Seq(S) /\ Slid(window[f], next) # <<>>
          /\ \A k \in 1 .. Len(Slid(window[f], next)) :
               Slid(window[f], next)[k] = next - Len(Slid(window[f], next)) + k
      <3>1. \A w \in Seq(S), n \in S :
              (\A k \in 1 .. Len(w) : w[k] = n - 1 - Len(w) + k) =>
                /\ Slid(w, n) \in Seq(S) /\ Slid(w, n) # <<>>
                /\ \A k \in 1 .. Len(Slid(w, n)) : Slid(w, n)[k] = n - Len(Slid(w, n)) + k
        BY <2>1, SlidKeepsSuffix
      <3> QED
        BY <1>5, <2>1, <3>1, Zenon
    <2> QED
      BY <2>2 DEF S
  <1>11. window'[f] = Slid(window[f], next)
    BY <1>4, <1>6, <1>8
  <1>12. \A g \in Flow : g # f => window'[g] = <<>> \/ (g \notin evicted /\ window'[g] = window[g])
    BY <1>4
  <1>13. window' \in [Flow -> Seq(1 .. MaxScores)]
    <2>1. <<>> \in Seq(1 .. MaxScores)
      OBVIOUS
    <2>2. \A g \in Flow : window'[g] \in Seq(1 .. MaxScores)
      BY <1>1, <1>10, <1>11, <1>12, <2>1
    <2> QED
      BY <1>4, <2>2
  <1>14. WindowIsSuffix'
    <2>1. ASSUME NEW g \in Flow
          PROVE  /\ \A n \in 1 .. Len(window'[g]) :
                      window'[g][n] = seen'[g] - Len(window'[g]) + n
                 /\ window'[g] # <<>> => Known(g)'
      <3>1. CASE g = f
        BY <1>8, <1>10, <1>11, <3>1, PushKeepsFlows
      <3>2. CASE g # f /\ window'[g] = <<>>
        <4>1. ~\E n \in 1 .. Len(window'[g]) : TRUE
          BY <3>2
        <4> QED
          BY <3>2, <4>1
      <3>3. CASE g # f /\ g \notin evicted /\ window'[g] = window[g]
        BY <1>7, <1>8, <3>3 DEF WindowIsSuffix
      <3> QED
        BY <1>12, <3>1, <3>2, <3>3
    <2> QED
      BY <2>1 DEF WindowIsSuffix
  <1> QED
    BY <1>0, <1>9, <1>13, <1>14, PushKeepsFlows

LEMMA ResetKeepsWindows ==
  ASSUME ScoringInv, NEW f \in Flow, ResetFlow(f)
  PROVE  ScoringInv'
  <1>1. /\ window \in [Flow -> Seq(1 .. MaxScores)] /\ window' = [window EXCEPT ![f] = <<>>]
        /\ UNCHANGED <<flows, seen, scored, prevRTT, beta>>
    BY DEF ScoringInv, ScoringTypeOK, ResetFlow
  <1>2. window'[f] = <<>> /\ \A g \in Flow : g # f => window'[g] = window[g]
    BY <1>1
  <1>3. window' \in [Flow -> Seq(1 .. MaxScores)]
    <2>1. <<>> \in Seq(1 .. MaxScores)
      OBVIOUS
    <2> QED
      BY <1>1, <2>1
  <1>4. WindowIsSuffix'
    <2>1. ASSUME NEW g \in Flow
          PROVE  /\ \A n \in 1 .. Len(window'[g]) :
                      window'[g][n] = seen[g] - Len(window'[g]) + n
                 /\ window'[g] # <<>> => Known(g)
      <3>1. CASE g = f
        <4>1. window'[g] = <<>> /\ ~\E n \in 1 .. Len(window'[g]) : TRUE
          BY <1>2, <3>1
        <4> QED
          BY <4>1
      <3>2. CASE g # f
        BY <1>2, <3>2 DEF ScoringInv, WindowIsSuffix
      <3> QED
        BY <3>1, <3>2
    <2>2. \A g \in Flow : Known(g)' <=> Known(g)
      BY <1>1 DEF Known
    <2> QED
      BY <1>1, <2>1, <2>2 DEF WindowIsSuffix
  <1> QED
    BY <1>1, <1>3, <1>4 DEF ScoringInv, ScoringTypeOK, SeenAreScored

-----------------------------------------------------------------------------
\* The bandit.

LEMMA RewardType ==
  ASSUME NEW old \in Int, NEW new \in Int
  PROVE  Reward(old, new) \in Int
  <1> DEFINE partial == 1000 + ((old - new) * 1000) \div old
  <1>1. CASE old <= 0
    BY <1>1 DEF Reward
  <1>2. CASE old > 0
    <2>1. ((old - new) * 1000) \div old \in Int
      BY <1>2
    <2>2. partial \in Int
      BY <2>1
    <2> HIDE DEF partial
    <2>3. Reward(old, new) \in {1000, 0, partial}
      BY <1>2 DEF Reward, partial
    <2> QED
      BY <2>2, <2>3
  <1> QED
    BY <1>1, <1>2

LEMMA DecideKeepsArms ==
  ASSUME ScoringTypeOK, NEW r \in Region, NEW rtt \in RTT, Decide(r, rtt)
  PROVE  prevRTT' \in [Region -> RTT \cup {0}] /\ beta' \in [Region -> Int]
  <1>1. prevRTT \in [Region -> RTT \cup {0}] /\ beta \in [Region -> Int]
    BY DEF ScoringTypeOK
  <1>2. prevRTT' \in [Region -> RTT \cup {0}]
    BY <1>1 DEF Decide
  <1>3. beta' \in [Region -> Int]
    <2>1. CASE beta' = beta
      BY <1>1, <2>1
    <2>2. CASE Observe(r, prevRTT[r], rtt)
      <3> DEFINE next == beta[r] + (1000 - Reward(prevRTT[r], rtt))
      <3>1. prevRTT[r] \in Int /\ rtt \in Int /\ beta[r] \in Int
        <4>1. RTT \subseteq Int
          BY ScoringAssumption DEF ScoringAssumption
        <4>2. prevRTT[r] \in RTT \cup {0} /\ beta[r] \in Int
          BY <1>1
        <4>3. prevRTT[r] \in Int
          BY <4>1, <4>2
        <4> QED
          BY <4>1, <4>2, <4>3
      <3>2. Reward(prevRTT[r], rtt) \in Int
        BY <3>1, RewardType
      <3>3. next \in Int
        BY <3>1, <3>2
      <3>4. beta' = [beta EXCEPT ![r] = next]
        BY <2>2 DEF Observe
      <3> HIDE DEF next
      <3> QED
        BY <1>1, <3>3, <3>4
    <2> QED
      BY <2>1, <2>2 DEF Decide
  <1> QED
    BY <1>2, <1>3

-----------------------------------------------------------------------------
LEMMA ScoringStarts == ScoringInit => ScoringInv
  <1> SUFFICES ASSUME ScoringInit PROVE ScoringInv
    OBVIOUS
  <1>1. /\ flows = <<>> /\ window = [f \in Flow |-> <<>>] /\ seen = [f \in Flow |-> 0]
        /\ scored = 0
    BY DEF ScoringInit
  <1>2. MaxFlows \in Nat /\ 0 \in 0 .. MaxScores
    BY ScoringAssumption DEF ScoringAssumption
  <1>3. flows \in Seq(Flow) /\ Len(flows) <= MaxFlows
    BY <1>1, <1>2
  <1>4. window \in [Flow -> Seq(1 .. MaxScores)]
    <2>1. <<>> \in Seq(1 .. MaxScores)
      OBVIOUS
    <2> QED
      BY <1>1, <2>1
  <1>5. prevRTT \in [Region -> RTT \cup {0}] /\ beta \in [Region -> Int]
    BY DEF ScoringInit
  <1>6. WindowIsSuffix
    <2>1. \A f \in Flow : window[f] = <<>> /\ ~\E n \in 1 .. Len(window[f]) : TRUE
      BY <1>1
    <2> QED
      BY <2>1 DEF WindowIsSuffix
  <1> QED
    BY <1>1, <1>2, <1>3, <1>4, <1>5, <1>6 DEF ScoringInv, ScoringTypeOK, SeenAreScored

LEMMA ScoringSteps == ScoringInv /\ [ScoringNext]_scoringVars => ScoringInv'
  <1> SUFFICES ASSUME ScoringInv, [ScoringNext]_scoringVars PROVE ScoringInv'
    OBVIOUS
  <1>1. ASSUME NEW f \in Flow, NEW r \in Region, NEW rtt \in RTT, Score(f, r, rtt)
        PROVE  ScoringInv'
    BY <1>1, PushKeepsWindows, DecideKeepsArms DEF Score, ScoringInv, ScoringTypeOK
  <1>2. ASSUME NEW f \in Flow, ResetFlow(f) PROVE ScoringInv'
    BY <1>2, ResetKeepsWindows
  <1>3. CASE UNCHANGED scoringVars
    BY <1>3 DEF ScoringInv, ScoringTypeOK, SeenAreScored, WindowIsSuffix, Known, scoringVars
  <1> QED
    BY <1>1, <1>2, <1>3 DEF ScoringNext

\* Scores and resets in any order leave every flow a window of its own latest
\* metrics, for any number of flows beyond the places that there are.
THEOREM WindowsAreSuffixes == ScoringSpec => [](ScoringTypeOK /\ WindowIsSuffix)
  <1>1. ScoringInv => ScoringTypeOK /\ WindowIsSuffix
    BY DEF ScoringInv
  <1> QED
    BY <1>1, ScoringStarts, ScoringSteps, PTL DEF ScoringSpec

-----------------------------------------------------------------------------
\* When a reward takes from an arm.

\* A distance that is not positive has no positive share.
LEMMA QuotientSign ==
  ASSUME NEW a \in Int, NEW n \in Nat \ {0}, a <= 0
  PROVE  a \div n \in Int /\ a \div n <= 0
  <1>1. a = n * (a \div n) + (a % n) /\ (a % n) \in 0 .. n - 1 /\ a \div n \in Int
    OBVIOUS
  <1>2. ASSUME a \div n >= 1 PROVE FALSE
    <2>1. n * (a \div n) >= n
      BY <1>1, <1>2
    <2> QED
      BY <1>1, <2>1
  <1> QED
    BY <1>1, <1>2

\* The RTT fell, by less than 5%.
SlowRecovery(old, new) == new < old /\ old * 95 < new * 100

\* Of all changes of an RTT only a slow recovery is rewarded with more than 1.
LEMMA RewardAboveOne ==
  ASSUME NEW old \in Nat, NEW new \in Nat, Reward(old, new) > 1000
  PROVE  SlowRecovery(old, new)
  <1> DEFINE share == ((old - new) * 1000) \div old
  <1>1. old > 0 /\ ~(new * 100 <= old * 95) /\ ~(new * 10 > old * 11)
    <2>1. CASE old <= 0
      BY <2>1 DEF Reward
    <2>2. CASE old > 0 /\ new * 100 <= old * 95
      BY <2>2 DEF Reward
    <2>3. CASE old > 0 /\ ~(new * 100 <= old * 95) /\ new * 10 > old * 11
      BY <2>3 DEF Reward
    <2> QED
      BY <2>1, <2>2, <2>3
  <1>2. Reward(old, new) = IF 1000 + share > 0 THEN 1000 + share ELSE 0
    BY <1>1 DEF Reward
  <1>3. ASSUME new >= old PROVE FALSE
    <2>1. (old - new) * 1000 \in Int /\ (old - new) * 1000 <= 0
      BY <1>3
    <2>2. share \in Int /\ share <= 0
      BY <1>1, <2>1, QuotientSign
    <2> HIDE DEF share
    <2> QED
      BY <1>2, <2>2
  <1> QED
    BY <1>1, <1>3 DEF SlowRecovery

LEMMA BetaSteps ==
  ScoringTypeOK /\ [ScoringNext]_scoringVars =>
    \A r \in Region : beta'[r] < beta[r] => SlowRecovery(prevRTT[r], prevRTT'[r])
  <1> SUFFICES ASSUME ScoringTypeOK, [ScoringNext]_scoringVars,
                      NEW r \in Region, beta'[r] < beta[r]
               PROVE  SlowRecovery(prevRTT[r], prevRTT'[r])
    OBVIOUS
  <1>0. prevRTT \in [Region -> Nat] /\ beta \in [Region -> Int] /\ RTT \subseteq Nat
    <2>1. RTT \subseteq Nat
      BY ScoringAssumption DEF ScoringAssumption
    <2>2. prevRTT \in [Region -> RTT \cup {0}] /\ RTT \cup {0} \subseteq Nat
      BY <2>1 DEF ScoringTypeOK
    <2>3. \A q \in Region : prevRTT[q] \in Nat
      BY <2>2
    <2> QED
      BY <2>1, <2>2, <2>3 DEF ScoringTypeOK
  <1>1. beta' # beta
    BY <1>0
  <1>2. PICK q \in Region, rtt \in RTT : Decide(q, rtt)
    BY <1>1 DEF ScoringNext, Score, ResetFlow, scoringVars
  <1>3. /\ prevRTT[q] > 0 /\ rtt > 0 /\ Observe(q, prevRTT[q], rtt)
        /\ prevRTT' = [prevRTT EXCEPT ![q] = rtt]
    BY <1>1, <1>2 DEF Decide
  <1>4. q = r
    BY <1>0, <1>3 DEF Observe
  <1>5. Reward(prevRTT[r], rtt) \in Int
    BY <1>0, RewardType
  <1>6. beta'[r] = beta[r] + (1000 - Reward(prevRTT[r], rtt))
    BY <1>0, <1>3, <1>4 DEF Observe
  <1>7. Reward(prevRTT[r], rtt) > 1000
    BY <1>0, <1>5, <1>6
  <1>8. prevRTT'[r] = rtt
    BY <1>0, <1>3, <1>4
  <1> QED
    BY <1>0, <1>7, <1>8, RewardAboveOne

\* What the finding about observe shows for one ladder of RTTs is its only cause:
\* the beta of an arm falls in no step but one after which the region's RTT is
\* lower by less than 5%.
THEOREM ArmsWeakenOnSlowRecovery ==
  ScoringSpec =>
    [][\A r \in Region : beta'[r] < beta[r] => SlowRecovery(prevRTT[r], prevRTT'[r])]_scoringVars
  <1>1. ScoringInv /\ [ScoringNext]_scoringVars =>
          [\A r \in Region :
             beta'[r] < beta[r] => SlowRecovery(prevRTT[r], prevRTT'[r])]_scoringVars
    BY BetaSteps DEF ScoringInv
  <1> QED
    BY <1>1, ScoringStarts, ScoringSteps, PTL DEF ScoringSpec
=============================================================================
