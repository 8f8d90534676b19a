\* The suite ends, and the bridge then has nothing more to do.
SPECIFICATION Spec
CONSTANTS
  Suites <- SomeSuites
  MaxSession = 2
  Interface = {"eth0", "veth0"}
  MaxFaults = 2
  MaxStops = 1
  Check = 5
INVARIANTS
  TypeOK
  RulesHaveASession
  ProcessedWasAccepted
  FaultLastsItsSession
PROPERTIES
  LabelledOnce
  LoggedIsNotResent
  EndsClean
CHECK_DEADLOCK FALSE
