------------------------------- MODULE Frames -------------------------------
(***************************************************************************)
(* The bytes of packets: the SendOn functions of packets.h, and what other *)
(* MQTT clients and brokers send, who have a packet id for their QoS,      *)
(* several topics or several responses.  A byte is a number; the text of a *)
(* string is all ones.                                                     *)
(***************************************************************************)
EXTENDS Integers, Sequences, SequencesExt

CONSTANTS
  Base,      \* of the size encoding: 128 in the program
  TopicSize  \* size of StringBuffer<128> topic

CONNECT   == 1
CONNACK   == 2
PUBLISH   == 3
SUBSCRIBE == 8
SUBACK    == 9
PINGRESP  == 13

(* The size, low digits first, each but the last with its high bit set.    *)
RECURSIVE SizeBytes(_)
SizeBytes(length) ==
  IF length < Base THEN <<length>>
                   ELSE <<(length % Base) + Base>> \o SizeBytes(length \div Base)

(* A word: n >> 8, then n & 0xFF.                                          *)
Word(n) == <<n \div 256, n % 256>>

(* A StringBuffer: two bytes of length, of which the senders of this       *)
(* program need the second only, then that many of text.                   *)
Text(length) == <<0, length>> \o [i \in 1 .. length |-> 1]

(* A packet: its bytes, the values of the fields its ReadFrom should find  *)
(* (of a string its length), and the payload it has for a broker to store. *)
Frame(type, flags, body, fields, payloads) ==
  [bytes    |-> <<(type * 16) + flags>> \o SizeBytes(Len(body)) \o body,
   fields   |-> fields,
   payloads |-> payloads]

ConnectFrame(c) ==
  Frame(CONNECT, 0,
        Text(c.protocol_name) \o <<c.protocol_level, c.flags>> \o Word(c.keep_alive)
          \o Text(c.client_id),
        <<c.protocol_name, c.protocol_level, c.flags, c.keep_alive>>, {})

kDefaultConnect ==
  [protocol_name |-> 4, protocol_level |-> 4, flags |-> 2, keep_alive |-> 0, client_id |-> 4]

(* Flags 0, and the generic error or none.                                 *)
ConnectAckFrame(error) ==
  LET code == IF error THEN 128 ELSE 0
  IN  Frame(CONNACK, 0, <<0, code>>, <<0, code>>, {})

(* A topic that does not fit is not stored.                                *)
PublishFrame(qos, topic, packet_id, payload) ==
  Frame(PUBLISH, qos * 2,
        Text(topic) \o (IF qos = 0 THEN <<>> ELSE Word(packet_id)) \o payload,
        <<topic>> \o (IF qos = 0 THEN <<>> ELSE <<packet_id>>),
        IF topic <= TopicSize THEN {payload} ELSE {})

SubscribeFrame(packet_id, topics) ==
  Frame(SUBSCRIBE, 2,
        Word(packet_id) \o FlattenSeq([i \in DOMAIN topics |-> Append(Text(topics[i]), 0)]),
        <<packet_id>> \o FlattenSeq([i \in DOMAIN topics |-> <<topics[i], 0>>]), {})

(* Of the responses ReadFrom takes the first.                              *)
SubscribeAckFrame(subscribe_packet_id, responses) ==
  Frame(SUBACK, 0, Word(subscribe_packet_id) \o responses,
        <<subscribe_packet_id, Head(responses)>>, {})

PingRespFrame == Frame(PINGRESP, 0, <<>>, <<>>, {})

(* As an MQTT 5 client sends them, with an empty list of properties.  The  *)
(* readers know of none: the properties of a PUBLISH go into its payload,  *)
(* and the topics of a SUBSCRIBE are not found.                            *)
Properties == <<0>>

ConnectFrame5(c) ==
  Frame(CONNECT, 0,
        Text(c.protocol_name) \o <<5, c.flags>> \o Word(c.keep_alive) \o Properties
          \o Text(c.client_id),
        <<c.protocol_name, 5, c.flags, c.keep_alive>>, {})

PublishFrame5(qos, topic, packet_id, payload) ==
  PublishFrame(qos, topic, packet_id, Properties \o payload)

SubscribeFrame5(packet_id, topic) ==
  Frame(SUBSCRIBE, 2, Word(packet_id) \o Properties \o Append(Text(topic), 0), <<>>, {})

(* PINGREQ, DISCONNECT, and what a broker does not support.                *)
OtherFrame(type, body) == Frame(type, 0, body, <<>>, {})

(* What a peer sends in one connection: the bytes, the positions between   *)
(* two packets, and the fields, if any are to be found, and payloads with  *)
(* the position where their packet ends.                                   *)
Stream(frames) ==
  LET upTo(i) == FlattenSeq([j \in 1 .. i |-> frames[j].bytes])
      end(i)  == Len(upTo(i))
  IN  [bytes    |-> upTo(Len(frames)),
       ends     |-> {end(i) : i \in 0 .. Len(frames)},
       fields   |-> {[end |-> end(i), values |-> frames[i].fields] :
                       i \in {j \in DOMAIN frames : frames[j].fields # <<>>}},
       payloads |-> UNION {{[end |-> end(i), bytes |-> p] : p \in frames[i].payloads} :
                             i \in DOMAIN frames}]

=============================================================================
