SPECIFICATION Spec
CONSTANTS
  Flow = {f1, f2}
  Region = {r1}
  RTT = {100}
  SeqLen = 2
  MaxFlows = 1
  MaxScores = 2
  Sample = {s1, s2, s3}
  Baseline = {s1, s2}
  BufferLimit = 2
  MinSamples = 2
  MaxRetrains = 2
  MaxFaults = 1
  Answer <- Answers
SYMMETRY Symmetric
INVARIANTS
  TypeOK
  WindowIsSuffix
  NoFailoverWithdrawn
  OneGeneration
  ReportedSwapIsDurable
  CountsOnlyNewSamples
PROPERTIES
  LostOnlyBesideARetrain
  StoredOnce
  TrainedStaysTrained
CHECK_DEADLOCK FALSE
