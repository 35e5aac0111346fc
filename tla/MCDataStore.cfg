CONSTANTS
  Key = {k1, k2}
  Entry = {e1, e2}
  NoEntry = NoEntry
  ClientId = {id1, id2}
  Handler = {h1}
  MaxObservers = 3
SPECIFICATION Spec
INVARIANTS
  TypeOK
  Fresh
PROPERTY LoopEnds
