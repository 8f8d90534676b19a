SPECIFICATION ScoringSpec
CONSTANTS
  Flow = {f1}
  Region = {r1}
  RTT <- RTTs
  SeqLen = 2
  MaxFlows = 1
  MaxScores = 23
INVARIANTS
  ArmsStaySampleable
