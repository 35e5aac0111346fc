CONSTANTS
  c1 = c1
  c2 = c2
  Conn = {c1, c2}
  ClientId = {1, 2}
  IdOf <- OwnIds
  Topic <- MCTopic
  FilterTopic <- MCFilterTopic
  Packet <- PubSubPacket
  MaxPublishes = 1
  MaxObservers = 1
  EncodeKey <- MCEncodeKey
  DecodeKey <- MCDecodeKey
  FullKeyMatcher <- MCFullKeyMatch
  PrefixKeyMatcher <- MCPrefixKeyMatch
  IsTopicPrefix <- MCIsTopicPrefix
SPECIFICATION Spec
INVARIANT OnlyMatchingTopics
CHECK_DEADLOCK FALSE
