\* One region, no metrics: an SRE overrides twice.
CONSTANTS
  r1 = r1
  Region = {r1}
  FullWeight = 6
  MinimumWeight = 1
  Epsilon = 1
  BanditCutoff = 5
  DecayTicks = 1
  RampTicks = 1
  BanditTicks = 1
  CriticalSignalsThreshold = 1
  Kind = {}
  Advice = {6}
  ForcedWeights = {}
  MaxRestarts = 0
SPECIFICATION Spec
INVARIANTS
  HealthyIsNotHardFailed
