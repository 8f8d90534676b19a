SPECIFICATION Spec
CONSTANTS
  Suites <- OneScenario
  MaxSession = 1
  Interface = {"eth0"}
  MaxFaults = 0
  MaxStops = 0
  Check = 5
INVARIANTS
  HealedIsReported
CHECK_DEADLOCK FALSE
