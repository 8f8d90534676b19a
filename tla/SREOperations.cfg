\* One region, two incidents, one run at a time: lost and repeated reports, failed
\* POSTs, ids shared within a second, one failed save and one restart. The bound
\* on incidents ends behaviours.
CONSTANTS
  r1 = r1
  r2 = r2
  i1 = i1
  i2 = i2
  k1 = k1
  k2 = k2
  None = None
  Region <- MCRegion
  Short <- MCShort
  Incident <- MCIncident
  Slot <- MCOneSlot
  Steps = 1
  MaxInbox = 2
  MaxDamaged = 1
  MaxRestarts = 1
SPECIFICATION Spec
SYMMETRY Symmetry
INVARIANTS
  TypeOK
  HealthyMeansResolved
  FailedIsEscalated
PROPERTIES
  ResolvedIsFinal
  IncidentsSurvive
  ImplementsBook
CHECK_DEADLOCK FALSE
