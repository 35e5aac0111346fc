CONSTANTS
  Base = 4
  NameSize = 4
  TopicSize = 2
  Streams <- MCStreams
  Skip = {1, 3}
  MaxMoves = 2
SPECIFICATION Spec
INVARIANTS
  TypeOK
  Framed
  BytesLeft
  PayloadsStored
  FieldsIntact
  AbortExplained
PROPERTY PacketEnds
CHECK_DEADLOCK FALSE
