\* One region with every kind of metric, bandit advice that it heeds and that it
\* ignores, forced weights and a crash, on coarse weights: two ticks for a decay
\* and a ramp.
CONSTANTS
  r1 = r1
  Region = {r1}
  FullWeight = 10
  MinimumWeight = 2
  Epsilon = 2
  BanditCutoff = 8
  DecayTicks = 2
  RampTicks = 2
  BanditTicks = 1
  CriticalSignalsThreshold = 2
  Kind = {"unsure", "critical", "trigger", "clean", "murky"}
  Advice = {10, 6}
  ForcedWeights = {0}
  MaxRestarts = 1
SPECIFICATION FairSpec
INVARIANTS
  TypeOK
  WeightMatchesState
  RatePointsToTarget
PROPERTIES
  NoTrafficRaiseWhileUnhealthy
  FullTargetNeedsRecovery
  TimedStatesEnd
  LoopComesBack
  WeightsSettle
