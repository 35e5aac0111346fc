CONSTANTS
  Base = 4
  NameSize = 4
  TopicSize = 2
  Streams <- WholeStreams
  Skip = {1, 3}
  MaxMoves = 2
SPECIFICATION Spec
INVARIANT AssertHolds
CHECK_DEADLOCK FALSE
