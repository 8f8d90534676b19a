\* One agent, one region and no fault at all.
SPECIFICATION Spec
CONSTANTS
  Agent = {us}
  Region = {r1}
  MaxFaults = 0
INVARIANTS
  NoOrphanWithoutFault
