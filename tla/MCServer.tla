------------------------------ MODULE MCServer ------------------------------
(***************************************************************************)
(* The server over DataStore<uint64_t> with words of 2 bytes of 2 bits.    *)
(* The characters are a, b and c; the bits of a are among those of c, as   *)
(* the bits of 'a' are among those of 'c' in ASCII.                        *)
(***************************************************************************)
EXTENDS Server, TLC

Uint64 == INSTANCE Uint64Key
            WITH KeyBytes <- 2, CharBits <- 2, SignedChar <- FALSE, WideShift <- "mod"

MCEncodeKey(topic)              == Uint64!EncodeString(topic)
MCDecodeKey(key)                == Uint64!DecodeString(key)
MCFullKeyMatch(target, other)   == Uint64!FullKeyMatch(target, other)
MCPrefixKeyMatch(target, other) == Uint64!PrefixKeyMatch(target, other)

MCIsTopicPrefix(prefix, topic) ==
  Len(prefix) <= Len(topic) /\ SubSeq(topic, 1, Len(prefix)) = prefix

a == {0}
b == {1}
c == {0, 1}

MCTopic       == {<<a>>, <<c, b>>}
MCFilterTopic == {<<>>, <<a>>, <<c>>}

Full(topic)   == [topic |-> topic, kind |-> "full"]
Prefix(topic) == [topic |-> topic, kind |-> "prefix"]

Publish(topic, fits)     == [type |-> "PUBLISH", topic |-> topic, fits |-> fits]
Subscribe(filters, fits) == [type |-> "SUBSCRIBE", filters |-> filters, fits |-> fits]

(* Publishers and subscribers: "a#", and "a" as the second topic of a      *)
(* packet whose first one, "#", is not observed.                           *)
PubSubPacket ==
  {Publish(t, TRUE) : t \in Topic} \cup
  {Subscribe(<<Prefix(<<a>>)>>, TRUE), Subscribe(<<Prefix(<<>>), Full(<<a>>)>>, TRUE)}

(* With a topic longer than the word: it has the key of "cb", and is       *)
(* received under that name.                                               *)
LongTopic == MCTopic \cup {<<a, b, b>>}

(* Two connections with ids of their own.                                  *)
CONSTANTS c1, c2
OwnIds == (c1 :> 1) @@ (c2 :> 2)

=============================================================================
