CONSTANTS
  c1 = c1
  c2 = c2
  Conn = {c1, c2}
  ClientId = {1}
  IdOf <- SharedId
  Topic <- MCTopic
  FilterTopic <- MCFilterTopic
  Packet <- AnyPacket
  MaxPublishes = 1
  MaxObservers = 1
  EncodeKey <- MCEncodeKey
  DecodeKey <- MCDecodeKey
  FullKeyMatcher <- MCFullKeyMatch
  PrefixKeyMatcher <- MCPrefixKeyMatch
  IsTopicPrefix <- MCIsTopicPrefix
SPECIFICATION Spec
INVARIANT WrongProtocolRefused
CHECK_DEADLOCK FALSE
