CONSTANTS
  kBufferSize = 2
  MaxCall = 5
  MaxSent = 6
SPECIFICATION Spec
INVARIANT ReadFillsBuffer
