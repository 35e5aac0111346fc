--------------------------- MODULE MCServerString ---------------------------
(***************************************************************************)
(* The server over DataStore<std::string>: characters are numbers and a    *)
(* topic can be any length up to 3.                                        *)
(***************************************************************************)
EXTENDS Server, TLC

NoOverrun(key) == <<>>

StringStore == INSTANCE StringKey WITH TopicSize <- 3, Overrun <- NoOverrun

MCEncodeKey(topic)              == StringStore!KeyOf(topic)
MCDecodeKey(key)                == StringStore!TopicOf(key)
MCFullKeyMatch(target, other)   == StringStore!FullKeyMatch(target, other)
MCPrefixKeyMatch(target, other) == StringStore!PrefixKeyMatch(target, other)

MCIsTopicPrefix(prefix, topic) ==
  Len(prefix) <= Len(topic) /\ SubSeq(topic, 1, Len(prefix)) = prefix

MCTopic       == {<<1>>, <<1, 2, 3>>}
MCFilterTopic == {<<1>>, <<1, 2>>}

Connect(name, level)     == [type |-> "CONNECT", name |-> name, level |-> level]
Publish(topic, fits)     == [type |-> "PUBLISH", topic |-> topic, fits |-> fits]
Subscribe(filters, fits) == [type |-> "SUBSCRIBE", filters |-> filters, fits |-> fits]

Full(topic)   == [topic |-> topic, kind |-> "full"]
Prefix(topic) == [topic |-> topic, kind |-> "prefix"]
Plus(topic)   == [topic |-> topic, kind |-> "plus"]

(* One of every packet, those that are refused included.  The prefix "12#" *)
(* is also sent the topic "1".                                             *)
AnyPacket ==
  {Connect("MQTT", 4), Connect("other", 5), Connect("too long", 4), Connect("MQIsdp", 6)} \cup
  {Publish(<<1>>, TRUE), Publish(<<1, 2, 3>>, FALSE)} \cup
  {Subscribe(<<Full(<<1>>), Prefix(<<1, 2>>)>>, TRUE), Subscribe(<<Full(<<1>>)>>, FALSE),
   Subscribe(<<Prefix(<<1>>), Plus(<<1>>)>>, TRUE), Subscribe(<<>>, TRUE)} \cup
  {[type |-> t] : t \in {"PINGREQ", "DISCONNECT", "other"}}

(* Two connections that use one id in turn.                                *)
CONSTANTS c1, c2
SharedId == (c1 :> 1) @@ (c2 :> 1)

=============================================================================
