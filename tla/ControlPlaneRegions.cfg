\* Two regions that share the main loop, the tick loop and the route table;
\* runbooks, SREs and timeouts drive them, and two kinds of metric.
CONSTANTS
  r1 = r1
  r2 = r2
  Region = {r1, r2}
  FullWeight = 6
  MinimumWeight = 1
  Epsilon = 1
  BanditCutoff = 5
  DecayTicks = 1
  RampTicks = 1
  BanditTicks = 1
  CriticalSignalsThreshold = 1
  Kind = {"trigger", "clean"}
  Advice = {6}
  ForcedWeights = {}
  MaxRestarts = 0
SPECIFICATION Spec
SYMMETRY Symmetry
INVARIANTS
  CallMatchesState
  LoopHoldsOneMutex
