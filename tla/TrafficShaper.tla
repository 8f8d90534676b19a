---------------------------- MODULE TrafficShaper ----------------------------
(***************************************************************************)
(* The routing weight of one region: what each method of the adaptive      *)
(* traffic shaper does to it                                               *)
(* (control-plane-04/controlplane/trafficshaper/shaper.go).                *)
(*                                                                         *)
(* Weights are integers in a unit finer than the 0.001 below which the     *)
(* shaper ignores a change (Epsilon is that 0.001), and a rate is the      *)
(* change of one tick, rounded towards zero: the rounding stays below      *)
(* Epsilon because no period is longer than Epsilon ticks.                 *)
(***************************************************************************)
EXTENDS Integers

CONSTANTS FullWeight,     \* 1.0
          MinimumWeight,  \* 0.05, the floor
          Epsilon,        \* 0.001, changes up to it are not applied
          BanditCutoff,   \* 0.8, recommendations from it on are ignored
          DecayTicks,     \* DegradedDecayPeriod in ticks (120s / 5s)
          RampTicks,      \* RecoveryRampPeriod in ticks (300s / 5s)
          BanditTicks     \* the 30s adjustment, in ticks

ASSUME WeightAssumption ==
  /\ FullWeight \in Nat /\ MinimumWeight \in Nat /\ BanditCutoff \in Nat
  /\ 0 < MinimumWeight /\ MinimumWeight < BanditCutoff /\ BanditCutoff < FullWeight
  /\ Epsilon \in Nat \ {0}
  /\ DecayTicks \in 1 .. Epsilon
  /\ RampTicks \in 1 .. Epsilon
  /\ BanditTicks \in 1 .. Epsilon

\* The fields of RegionWeight the shaper reads. BanditWeight and
\* LastUpdatedAt are stored for diagnostics only.
RegionWeight == [current : Nat, target : Nat, rate : Int, hardFail : BOOLEAN]

Larger(a, b) == IF a > b THEN a ELSE b
Smaller(a, b) == IF a < b THEN a ELSE b
Distance(a, b) == IF a > b THEN a - b ELSE b - a

\* RatePerSec times the tick interval: `amount' spread over `ticks' ticks.
Towards(from, to, ticks) ==
  IF to >= from THEN (to - from) \div ticks ELSE -((from - to) \div ticks)

\* A weight that stands still at w.
Snapped(w, hard) == [current |-> w, target |-> w, rate |-> 0, hardFail |-> hard]

\* New: every region starts with the full weight.
InitialWeight == Snapped(FullWeight, FALSE)

\* Mutant of OnDegraded: the region stays in hard-fail mode.
OnDegradedKeepsHardFail(rw) ==
  [rw EXCEPT !.target = MinimumWeight,
             !.rate = Towards(rw.current, MinimumWeight, DecayTicks)]

\* The soft decay on entering DEGRADED.
OnDegraded(rw) ==
  [rw EXCEPT !.target = MinimumWeight,
             !.hardFail = FALSE,
             !.rate = Towards(rw.current, MinimumWeight, DecayTicks)]

\* The snap to the floor on entering FAILED.
OnFailed(rw) == Snapped(MinimumWeight, TRUE)

\* The ramp on entering RECOVERED.
OnRecovering(rw) ==
  IF rw.current < FullWeight
  THEN [rw EXCEPT !.target = FullWeight,
                  !.hardFail = FALSE,
                  !.rate = Towards(rw.current, FullWeight, RampTicks)]
  ELSE Snapped(FullWeight, FALSE)

\* Mutant of OnHealthy: the target of an earlier bandit advice is kept.
OnHealthyKeepsTarget(rw) == [rw EXCEPT !.current = FullWeight, !.hardFail = FALSE]

\* The full restore on entering HEALTHY.
OnHealthy(rw) == Snapped(FullWeight, FALSE)

\* Mutant of UpdateBanditWeights: advice retargets a draining region too.
UpdateBanditWeightsOfDraining(rw, w) ==
  IF ~ rw.hardFail /\ rw.target # w
  THEN LET goal == Larger(w, MinimumWeight)
       IN  [rw EXCEPT !.target = goal,
                      !.rate = Towards(rw.current, goal, BanditTicks)]
  ELSE rw

\* UpdateBanditWeights for one region: advice below the cutoff retargets a
\* region that is heading for the full weight.
UpdateBanditWeights(rw, w) ==
  IF ~ rw.hardFail /\ rw.target = FullWeight /\ w < BanditCutoff
  THEN LET goal == Larger(w, MinimumWeight)
       IN  [rw EXCEPT !.target = goal,
                      !.rate = Towards(rw.current, goal, BanditTicks)]
  ELSE rw

\* The SRE's manual control.
ForceWeight(rw, w) == Snapped(w, w = 0)

\* The weight one tick on: clamped at the target, on it when within Epsilon.
Advanced(rw) ==
  LET next == rw.current + rw.rate
      clamped == IF rw.rate < 0 THEN Larger(next, rw.target)
                                ELSE Smaller(next, rw.target)
  IN  IF Distance(clamped, rw.target) < Epsilon THEN rw.target ELSE clamped

\* Mutant of TickWeight: the rate goes on after the target is reached.
TickWeightWithoutStop(rw) ==
  LET new == Advanced(rw)
  IN  IF rw.rate = 0 THEN rw
      ELSE [rw EXCEPT !.current = IF Distance(new, @) > Epsilon THEN new ELSE @]

\* One iteration of tick's loop: the rate ends on arrival, the weight moves
\* only by more than Epsilon.
TickWeight(rw) ==
  LET new == Advanced(rw)
  IN  IF rw.rate = 0 THEN rw
      ELSE [rw EXCEPT !.rate = IF new = rw.target THEN 0 ELSE @,
                      !.current = IF Distance(new, @) > Epsilon THEN new ELSE @]

\* A rate points from the weight to its target, and no weight is above the
\* full one: the clamping of tick can then neither jump back nor run past.
WellDirected(rw) ==
  /\ rw.rate > 0 => rw.current < rw.target
  /\ rw.rate < 0 => rw.current > rw.target
  /\ rw.current <= FullWeight /\ rw.target <= FullWeight

=============================================================================
