CONSTANTS
  c1 = c1
  c2 = c2
  Conn = {c1, c2}
  ClientId = {1}
  IdOf <- SharedId
  Topic <- MCTopic
  FilterTopic <- MCFilterTopic
  Packet <- AnyPacket
  MaxPublishes = 1
  MaxObservers = 2
  EncodeKey <- MCEncodeKey
  DecodeKey <- MCDecodeKey
  FullKeyMatcher <- MCFullKeyMatch
  PrefixKeyMatcher <- MCPrefixKeyMatch
  IsTopicPrefix <- MCIsTopicPrefix
SPECIFICATION Spec
INVARIANTS
  TypeOK
  ObserversAreAcked
  
PROPERTY CallReturns
CHECK_DEADLOCK FALSE
