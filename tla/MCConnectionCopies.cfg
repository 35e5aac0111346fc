CONSTANTS
  Heap = {h1, h2, h3, h4, h5}
  Socket = {s1, s2}
  Closed = Closed
  NoObject = NoObject
  Observer = {n1, n2}
SPECIFICATION Spec
INVARIANTS
  TypeOK
  RightPeer
  NothingLeaks
