------------------------ MODULE TrafficShaperProofs ------------------------
(***************************************************************************)
(* What every operation of the shaper keeps true of a region's weight, for *)
(* all weights and all periods.                                            *)
(***************************************************************************)
EXTENDS TrafficShaper, TLAPS

\* A distance divided by a number of ticks is never longer than it.
LEMMA DivisionBounds ==
  ASSUME NEW a \in Nat, NEW n \in Nat \ {0}
  PROVE  a \div n \in Nat /\ a \div n <= a
<1>1. a = n * (a \div n) + (a % n) /\ (a % n) \in 0 .. n - 1 /\ a \div n \in Int
  BY SMT
<1>2. a \div n >= 0
  BY <1>1, SMT
<1>3. a \div n <= n * (a \div n)
  BY <1>1, <1>2, SMT
<1> QED BY <1>1, <1>2, <1>3, SMT

\* The rate of Towards points from the weight to the target.
LEMMA TowardsDirection ==
  ASSUME NEW from \in Nat, NEW to \in Nat, NEW ticks \in Nat \ {0}
  PROVE  /\ Towards(from, to, ticks) \in Int
         /\ Towards(from, to, ticks) > 0 => from < to
         /\ Towards(from, to, ticks) < 0 => from > to
<1>1. CASE to >= from
  <2>1. to - from \in Nat
    BY <1>1, SMT
  <2> QED BY <1>1, <2>1, DivisionBounds DEF Towards
<1>2. CASE to < from
  <2>1. from - to \in Nat
    BY <1>2, SMT
  <2> QED BY <1>2, <2>1, DivisionBounds DEF Towards
<1> QED BY <1>1, <1>2, SMT

\* What the constants are, one by one.
LEMMA Constants ==
  /\ FullWeight \in Nat /\ MinimumWeight \in Nat /\ BanditCutoff \in Nat
  /\ 0 < MinimumWeight /\ MinimumWeight < FullWeight
  /\ Epsilon \in Nat \ {0}
  /\ DecayTicks \in Nat \ {0} /\ RampTicks \in Nat \ {0} /\ BanditTicks \in Nat \ {0}
BY WeightAssumption, SMT

\* A rate set by Towards for a new target points at it.
LEMMA RateDirection ==
  ASSUME NEW rw \in RegionWeight, NEW goal \in Nat, NEW ticks \in Nat \ {0}
  PROVE  /\ rw.current \in Nat
         /\ Towards(rw.current, goal, ticks) \in Int
         /\ Towards(rw.current, goal, ticks) > 0 => rw.current < goal
         /\ Towards(rw.current, goal, ticks) < 0 => rw.current > goal
<1>1. rw.current \in Nat
  BY DEF RegionWeight
<1> QED BY <1>1, TowardsDirection

\* The soft decay keeps a weight well directed.
LEMMA OnDegradedDirection ==
  ASSUME NEW rw \in RegionWeight, WellDirected(rw)
  PROVE  OnDegraded(rw) \in RegionWeight /\ WellDirected(OnDegraded(rw))
<1> DEFINE rate == Towards(rw.current, MinimumWeight, DecayTicks)
<1>1. /\ rate \in Int
      /\ rate > 0 => rw.current < MinimumWeight
      /\ rate < 0 => rw.current > MinimumWeight
  BY Constants, RateDirection
<1> HIDE DEF rate
<1>2. OnDegraded(rw) = [rw EXCEPT !.target = MinimumWeight, !.hardFail = FALSE, !.rate = rate]
  BY DEF OnDegraded, rate
<1>3. OnDegraded(rw) \in RegionWeight
  BY <1>1, <1>2, Constants, Zenon DEF RegionWeight
<1>4. WellDirected(OnDegraded(rw))
  BY <1>1, <1>2, Constants, SMT DEF RegionWeight, WellDirected
<1> QED BY <1>3, <1>4

\* So does the ramp.
LEMMA OnRecoveringDirection ==
  ASSUME NEW rw \in RegionWeight, WellDirected(rw)
  PROVE  OnRecovering(rw) \in RegionWeight /\ WellDirected(OnRecovering(rw))
<1> DEFINE rate == Towards(rw.current, FullWeight, RampTicks)
<1>1. /\ rate \in Int
      /\ rate > 0 => rw.current < FullWeight
      /\ rate < 0 => rw.current > FullWeight
  BY Constants, RateDirection
<1> HIDE DEF rate
<1>2. CASE rw.current < FullWeight
  <2>1. OnRecovering(rw) = [rw EXCEPT !.target = FullWeight, !.hardFail = FALSE, !.rate = rate]
    BY <1>2 DEF OnRecovering, rate
  <2>2. OnRecovering(rw) \in RegionWeight
    BY <1>1, <2>1, Constants, Zenon DEF RegionWeight
  <2>3. WellDirected(OnRecovering(rw))
    BY <1>1, <2>1, Constants, SMT DEF RegionWeight, WellDirected
  <2> QED BY <2>2, <2>3
<1>3. CASE ~ (rw.current < FullWeight)
  BY <1>3, Constants DEF OnRecovering, Snapped, RegionWeight, WellDirected
<1> QED BY <1>2, <1>3

\* So does bandit advice up to the full weight.
LEMMA UpdateBanditWeightsDirection ==
  ASSUME NEW rw \in RegionWeight, WellDirected(rw),
         NEW w \in Nat, w <= FullWeight
  PROVE  /\ UpdateBanditWeights(rw, w) \in RegionWeight
         /\ WellDirected(UpdateBanditWeights(rw, w))
<1> DEFINE goal == Larger(w, MinimumWeight)
           rate == Towards(rw.current, goal, BanditTicks)
<1>1. goal \in Nat /\ goal <= FullWeight
  BY Constants, SMT DEF Larger
<1>2. /\ rate \in Int
      /\ rate > 0 => rw.current < goal
      /\ rate < 0 => rw.current > goal
  BY <1>1, Constants, RateDirection
<1>3. \/ UpdateBanditWeights(rw, w) = rw
      \/ UpdateBanditWeights(rw, w) = [rw EXCEPT !.target = goal, !.rate = rate]
  BY DEF UpdateBanditWeights
<1> HIDE DEF goal, rate
<1> QED BY <1>1, <1>2, <1>3 DEF RegionWeight, WellDirected

\* One tick moves the weight towards its target and never past it.
LEMMA AdvancedBetween ==
  ASSUME NEW rw \in RegionWeight, WellDirected(rw)
  PROVE  /\ Advanced(rw) \in Nat
         /\ rw.rate > 0 => Advanced(rw) \in rw.current .. rw.target
         /\ rw.rate < 0 => Advanced(rw) \in rw.target .. rw.current
<1> DEFINE next == rw.current + rw.rate
<1>1. rw.current \in Nat /\ rw.target \in Nat /\ rw.rate \in Int
  BY DEF RegionWeight
<1>2. CASE rw.rate < 0
  <2>1. Larger(next, rw.target) \in rw.target .. rw.current
    BY <1>1, <1>2, SMT DEF Larger, WellDirected
  <2> QED BY <1>1, <1>2, <2>1, SMT DEF Advanced, WellDirected
<1>3. CASE ~ (rw.rate < 0)
  <2>1. /\ Smaller(next, rw.target) \in Nat
        /\ rw.rate > 0 => Smaller(next, rw.target) \in rw.current .. rw.target
    BY <1>1, <1>3, SMT DEF Smaller, WellDirected
  <2> QED BY <1>1, <1>3, <2>1, SMT DEF Advanced, WellDirected
<1> QED BY <1>2, <1>3

\* A tick keeps a weight well directed, leaves its target and mode alone, and
\* raises it only when its target is higher.
LEMMA TickWeightDirection ==
  ASSUME NEW rw \in RegionWeight, WellDirected(rw)
  PROVE  /\ TickWeight(rw) \in RegionWeight
         /\ WellDirected(TickWeight(rw))
         /\ TickWeight(rw).target = rw.target
         /\ TickWeight(rw).hardFail = rw.hardFail
         /\ rw.rate = 0 => TickWeight(rw) = rw
         /\ rw.target <= rw.current => TickWeight(rw).current <= rw.current
<1> DEFINE new == Advanced(rw)
           current == IF Distance(new, rw.current) > Epsilon THEN new ELSE rw.current
           rate == IF new = rw.target THEN 0 ELSE rw.rate
<1>1. rw.current \in Nat /\ rw.target \in Nat /\ rw.rate \in Int
  BY DEF RegionWeight
<1>2. /\ new \in Nat
      /\ rw.rate > 0 => new \in rw.current .. rw.target
      /\ rw.rate < 0 => new \in rw.target .. rw.current
  BY AdvancedBetween
<1>3. CASE rw.rate = 0
  BY <1>1, <1>3 DEF TickWeight
<1>4. CASE rw.rate # 0
  <2>1. TickWeight(rw) = [rw EXCEPT !.rate = rate, !.current = current]
    BY <1>4 DEF TickWeight
  <2>2. current \in Nat /\ rate \in Int /\ current \in {new, rw.current}
    BY <1>1, <1>2
  <2>3. /\ rate > 0 => current < rw.target
        /\ rate < 0 => current > rw.target
        /\ current <= FullWeight
        /\ rw.target <= rw.current => current <= rw.current
    BY <1>1, <1>2, <1>4, <2>2, Constants, SMT DEF WellDirected
  <2> HIDE DEF new, current, rate
  <2>4. /\ TickWeight(rw).current = current /\ TickWeight(rw).rate = rate
        /\ TickWeight(rw).target = rw.target /\ TickWeight(rw).hardFail = rw.hardFail
        /\ TickWeight(rw) \in RegionWeight
    BY <2>1, <2>2 DEF RegionWeight
  <2> QED BY <1>4, <2>3, <2>4 DEF WellDirected
<1> QED BY <1>3, <1>4

=============================================================================
