\* Two agents, three peers, six positions of which two are shared.
CONSTANTS
  a = a
  b = b
  p = p
  q = q
  s = s
  NoPeer = NoPeer
  Agent = {a, b}
  Peer = {p, q, s}
  Position = {0, 1, 2, 3, 4, 5}
  Points <- MCPoints
  Order <- MCOrder
SPECIFICATION Spec
INVARIANTS
  OwnersAreMembers
  DisagreeOnlyAtCollisions
PROPERTIES
  RemovalIsLocal
  AdditionIsLocal
