CONSTANTS
  KeyBytes = 3
  CharBits = 3
  SignedChar = TRUE
  WideShift = "mod"
  Text <- MCText
  MaxOverrun = 2
SPECIFICATION Spec
INVARIANTS
  TypeOK
  RoundTrip
  DecodedFits
  PrefixComplete
  LiteralAgrees
CHECK_DEADLOCK FALSE
