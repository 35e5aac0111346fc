----------------------------- MODULE WireFormat -----------------------------
(***************************************************************************)
(* What a peer sends in a connection: which bytes are packets, what a      *)
(* reader should find in them, and which packets are too short for it.     *)
(* Nothing here reads or writes: a stream is looked at as a whole.         *)
(*                                                                         *)
(* A stream is its bytes, the positions between two packets, the values    *)
(* of the fields of those packets that are meant to be understood, and the *)
(* payloads to be stored, with the position where their packet ends.       *)
(***************************************************************************)
EXTENDS Integers, Sequences

CONSTANTS
  Base,      \* of the size encoding: 128 in the program
  NameSize,  \* size of StringBuffer<6> protocol_name
  TopicSize  \* size of StringBuffer<128> topic

ASSUME FormatAssumption ==
  /\ Base \in Nat /\ Base > 1
  /\ {NameSize, TopicSize} \subseteq Nat

CONNECT   == 1
CONNACK   == 2
PUBLISH   == 3
SUBSCRIBE == 8
SUBACK    == 9

StreamType ==
  [bytes : Seq(Nat), ends : SUBSET Nat,
   fields : SUBSET [end : Nat, values : Seq(Nat)],
   payloads : SUBSET [end : Nat, bytes : Seq(Nat)]]

(* The control byte is the type and the flags, with the QoS in bits 1 and 2. *)
TypeOf(control) == control \div 16
QoSOf(control)  == (control \div 2) % 4

WordAt(s, at) == s.bytes[at + 1] * 256 + s.bytes[at + 2]

-----------------------------------------------------------------------------
(* What digit i of the size n, and those after it, stand for: an MQTT size *)
(* has four digits at most.                                                *)
Rests(n) ==
  <<n, n \div Base, (n \div Base) \div Base, ((n \div Base) \div Base) \div Base>>

(* From this position on, n is written in so many digits, the low ones     *)
(* first, each but the last with its high bit set.                         *)
IsSize(s, at, n, digits) ==
  /\ digits \in 1 .. 4
  /\ Rests(n)[digits] < Base
  /\ \A i \in 1 .. digits :
       s.bytes[at + i] = (Rests(n)[i] % Base) + (IF i < digits THEN Base ELSE 0)

(* A packet with its body at that position; there is no other between.     *)
IsPacket(s, start, body, end) ==
  /\ {start, end} \subseteq s.ends
  /\ start < end /\ body <= end
  /\ \A e \in s.ends : e <= start \/ end <= e
  /\ IsSize(s, start + 1, end - body, body - (start + 1))

-----------------------------------------------------------------------------
(* What is in the body of a packet, if it is to be understood.             *)

(* Field k of the packet that ends there, counted as they are read.        *)
FieldIs(s, end, k, x) ==
  \A f \in s.fields : f.end = end => k <= Len(f.values) /\ f.values[k] = x

HasPayloads(s, end, payloads) == {p \in s.payloads : p.end = end} = payloads

(* What follows a name or a topic that is too long is anything.            *)
IsConnect(s, body, end) ==
  LET name == WordAt(s, body)
      at   == body + 2 + name
  IN  /\ body + 2 <= end
      /\ name <= NameSize =>
           /\ at + 4 <= end
           /\ FieldIs(s, end, 1, name)
           /\ FieldIs(s, end, 2, s.bytes[at + 1])
           /\ FieldIs(s, end, 3, s.bytes[at + 2])
           /\ FieldIs(s, end, 4, WordAt(s, at + 2))

IsConnectAck(s, body, end) ==
  /\ body + 2 <= end
  /\ FieldIs(s, end, 1, s.bytes[body + 1])
  /\ FieldIs(s, end, 2, s.bytes[body + 2])

IsPublish(s, qos, body, end) ==
  LET topic   == WordAt(s, body)
      id      == body + 2 + topic
      payload == IF qos = 0 THEN id ELSE id + 2
  IN  /\ body + 2 <= end
      /\ IF topic > TopicSize THEN HasPayloads(s, end, {})
         ELSE /\ payload <= end
              /\ FieldIs(s, end, 1, topic)
              /\ qos # 0 => FieldIs(s, end, 2, WordAt(s, id))
              /\ HasPayloads(s, end,
                   {[end |-> end, bytes |-> SubSeq(s.bytes, payload + 1, end)]})

(* Topic k, if k < count, is at at[k] and has flags; where the last one    *)
(* would be, the body ends or there is what cannot be a topic.             *)
AreTopics(s, body, end, count, at) ==
  /\ at[1] = body + 2
  /\ \A k \in 1 .. count - 1 :
       /\ at[k] + 2 <= end
       /\ WordAt(s, at[k]) <= TopicSize
       /\ at[k + 1] = at[k] + 2 + WordAt(s, at[k]) + 1
  /\ at[count] = end \/ (at[count] + 2 <= end /\ WordAt(s, at[count]) > TopicSize)
  /\ FieldIs(s, end, 1, WordAt(s, body))
  /\ \A k \in 1 .. count - 1 :
       /\ FieldIs(s, end, 2 * k, WordAt(s, at[k]))
       /\ FieldIs(s, end, 2 * k + 1, s.bytes[at[k + 1]])

IsSubscribe(s, body, end) ==
  /\ body + 2 <= end
  /\ \E count \in 1 .. end : \E at \in [1 .. count -> body .. end] :
       AreTopics(s, body, end, count, at)

(* Of the responses the first one is read.                                 *)
IsSubscribeAck(s, body, end) ==
  /\ body + 3 <= end
  /\ FieldIs(s, end, 1, WordAt(s, body))
  /\ FieldIs(s, end, 2, s.bytes[body + 3])

IsBody(s, control, body, end) ==
  LET type == TypeOf(control)
  IN  /\ type = CONNECT   => IsConnect(s, body, end)
      /\ type = CONNACK   => IsConnectAck(s, body, end)
      /\ type = PUBLISH   => IsPublish(s, QoSOf(control), body, end)
      /\ type = SUBSCRIBE => IsSubscribe(s, body, end)
      /\ type = SUBACK    => IsSubscribeAck(s, body, end)
      /\ type # PUBLISH   => HasPayloads(s, end, {})

-----------------------------------------------------------------------------
(* What a peer may also send: a packet with the size it says it has, but   *)
(* too short for what has to be in it, or for a length in it.              *)

IsCutConnect(s, body, end) ==
  LET name == WordAt(s, body)
  IN  body + 2 > end \/ (name <= NameSize /\ body + 2 + name + 4 > end)

IsCutPublish(s, qos, body, end) ==
  LET topic   == WordAt(s, body)
      id      == body + 2 + topic
      payload == IF qos = 0 THEN id ELSE id + 2
  IN  body + 2 > end \/ (topic <= TopicSize /\ payload > end)

(* Up to the last of these positions there are whole topics, of three      *)
(* bytes or more, and then part of one.                                    *)
IsCutSubscribe(s, body, end) ==
  \/ body + 2 > end
  \/ \E count \in 1 .. 1 + (end - body) \div 3 : \E at \in [1 .. count -> body .. end] :
       /\ at[1] = body + 2
       /\ \A k \in 1 .. count - 1 :
            /\ at[k] + 2 <= end
            /\ WordAt(s, at[k]) <= TopicSize
            /\ at[k + 1] = at[k] + 2 + WordAt(s, at[k]) + 1
       /\ at[count] < end
       /\ \/ at[count] + 2 > end
          \/ /\ WordAt(s, at[count]) <= TopicSize
             /\ at[count] + 2 + WordAt(s, at[count]) + 1 > end

(* There is nothing in it to be found or stored.                           *)
IsBroken(s, control, body, end) ==
  LET type == TypeOf(control)
  IN  /\ \/ type = CONNECT   /\ IsCutConnect(s, body, end)
         \/ type = CONNACK   /\ body + 2 > end
         \/ type = PUBLISH   /\ IsCutPublish(s, QoSOf(control), body, end)
         \/ type = SUBSCRIBE /\ IsCutSubscribe(s, body, end)
         \/ type = SUBACK    /\ body + 3 > end
      /\ \A f \in s.fields : f.end # end
      /\ HasPayloads(s, end, {})

-----------------------------------------------------------------------------
(* From its first byte to its last, a stream is packets.                   *)
IsStream(s) ==
  /\ s \in StreamType
  /\ {0, Len(s.bytes)} \subseteq s.ends
  /\ s.ends \subseteq 0 .. Len(s.bytes)
  /\ \A p \in s.payloads : p.end \in s.ends \ {0}
  /\ \A start \in s.ends \ {Len(s.bytes)} : \E end \in s.ends : \E body \in start .. end :
       /\ IsPacket(s, start, body, end)
       /\ LET control == s.bytes[start + 1]
          IN  IsBroken(s, control, body, end) \/ IsBody(s, control, body, end)

=============================================================================
