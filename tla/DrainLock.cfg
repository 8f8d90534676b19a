SPECIFICATION Spec
CONSTANTS
  Agent = {us, eu, ap}
  Region = {r1}
  MaxFaults = 2
INVARIANTS
  TypeOK
  
PROPERTIES
  ImplementsLease
