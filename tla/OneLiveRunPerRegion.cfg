\* One region, two runs, no crash and no failed save.
CONSTANTS
  r1 = r1
  r2 = r2
  i1 = i1
  i2 = i2
  k1 = k1
  k2 = k2
  None = None
  Region <- MCRegion
  Short <- MCShort
  Incident <- MCIncident
  Slot <- MCSlots
  Steps = 1
  MaxInbox = 2
  MaxDamaged = 0
  MaxRestarts = 0
SPECIFICATION Spec
SYMMETRY SlotSymmetry
INVARIANT OneLiveRunPerRegion
CHECK_DEADLOCK FALSE
