CONSTANTS
  c1 = c1
  c2 = c2
  Conn = {c1, c2}
  ClientId = {1, 2}
  IdOf <- OwnIds
  Topic <- LongTopic
  FilterTopic <- MCFilterTopic
  Packet <- PubSubPacket
  MaxPublishes = 2
  MaxObservers = 2
  EncodeKey <- MCEncodeKey
  DecodeKey <- MCDecodeKey
  FullKeyMatcher <- MCFullKeyMatch
  PrefixKeyMatcher <- MCPrefixKeyMatch
  IsTopicPrefix <- MCIsTopicPrefix
SPECIFICATION Spec
INVARIANTS
  Converged
  OnlySubscribed
  RightTopic
PROPERTIES
  NeverStale
  UsesStore
  ImplementsBroker
CHECK_DEADLOCK FALSE
