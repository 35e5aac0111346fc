------------------------------- MODULE Packet -------------------------------
(***************************************************************************)
(* Packet (packets.h): one packet of a connection's byte stream.  It       *)
(* counts the bytes the packet has left, the ReadFrom functions read       *)
(* fields through it, and its destructor drains what they leave, so that   *)
(* the next packet is read from its first byte.                            *)
(*                                                                         *)
(* The client can be lost at any point.  Until then every byte it sent     *)
(* arrives and connection_.Read waits for it; after that every read fails. *)
(***************************************************************************)
EXTENDS WireFormat

CONSTANTS
  Streams,    \* what a peer may send in a connection
  Skip,       \* sizes for which a program calls Drain on a packet it ignores
  MaxMoves    \* bound: how often a Packet is moved

ASSUME PacketAssumption ==
  /\ \A s \in Streams : IsStream(s)
  /\ Skip \subseteq Nat
  /\ MaxMoves \in Nat

-----------------------------------------------------------------------------
VARIABLES
  stream,     \* what the peer of this connection sends
  position,   \* bytes of it the connection has delivered
  link,       \* "up" or "down"
  pc,         \* "idle", "size", "returning", "ready", "reading", "leaving"
              \* or "aborted"
  control,    \* of the FixedHeader
  size,       \* its remaining_size, as far as it is read
  multiplier, \* of the next digit of it
  remaining,  \* bytes_remaining_ of the Packet objects there are: the one in
              \* use last, before it those it was moved from
  todo,       \* the fields the handler has yet to read
  value,      \* of the number being read, the bytes read so far
  fields,     \* history: the fields of this packet read so far
  stored      \* history: the payloads read, with the position they end at

vars ==
  <<stream, position, link, pc, control, size, multiplier, remaining, todo, value, fields,
    stored>>

header == <<control, size, multiplier>>
record == <<value, fields>>

Bytes == stream.bytes

bytes_remaining == remaining[Len(remaining)]

(* connection_.Read(buffer, n): no bytes can always be read.               *)
CanRead(n)   == n = 0 \/ (link = "up" /\ position + n <= Len(Bytes))
ReadFails(n) == n > 0 /\ link = "down"

Init ==
  /\ stream \in Streams
  /\ position = 0
  /\ link = "up"
  /\ pc = "idle"
  /\ control = 0 /\ size = 0 /\ multiplier = 1
  /\ remaining = <<>>
  /\ todo = <<>>
  /\ value = 0 /\ fields = <<>>
  /\ stored = {}

(* The client is lost.                                                     *)
Lose ==
  /\ link = "up"
  /\ link' = "down"
  /\ UNCHANGED <<stream, position, pc, header, remaining, todo, record, stored>>

-----------------------------------------------------------------------------
(* ReadNext                                                                *)

ReadControl ==
  /\ pc = "idle"
  /\ link = "up" /\ CanRead(1)
  /\ position' = position + 1
  /\ control' = Bytes[position + 1]
  /\ size' = 0 /\ multiplier' = 1
  /\ pc' = "size"
  /\ UNCHANGED <<stream, link, remaining, todo, record, stored>>

(* One round of ReadVariableByteInteger.  After the last one there is a    *)
(* Packet.                                                                 *)
ReadSize ==
  LET next_byte == Bytes[position + 1]
      more      == next_byte >= Base
  IN  /\ pc = "size"
      /\ CanRead(1)
      /\ position' = position + 1
      /\ size' = size + (next_byte % Base) * multiplier
      /\ multiplier' = multiplier * Base
      /\ IF more THEN UNCHANGED <<pc, remaining>>
                 ELSE pc' = "returning" /\ remaining' = <<size'>>
      /\ UNCHANGED <<stream, link, control, todo, record, stored>>

FailHeader ==
  /\ pc = "size"
  /\ ReadFails(1)
  /\ pc' = "idle"
  /\ UNCHANGED <<stream, position, link, header, remaining, todo, record, stored>>

(* ReadNext's temporary is moved once, the Packet it returns perhaps more. *)
CanMove ==
  \/ pc = "returning" /\ Len(remaining) = 1
  \/ pc = "ready" /\ Len(remaining) <= MaxMoves

(* Mutation: the move constructor leaves the count where it was.           *)
MoveKeepsCount ==
  /\ CanMove
  /\ remaining' = Append(remaining, bytes_remaining)
  /\ UNCHANGED <<stream, position, link, pc, header, todo, record, stored>>

(* The move constructor.                                                   *)
Move ==
  /\ CanMove
  /\ remaining' = [remaining EXCEPT ![Len(remaining)] = 0] \o <<bytes_remaining>>
  /\ UNCHANGED <<stream, position, link, pc, header, todo, record, stored>>

-----------------------------------------------------------------------------
(* The fields, in the order the ReadFrom functions read them.              *)

Field(kind, n) == [kind |-> kind, n |-> n]

Number(n)   == Field("bytes", n)
String(max) == Field("string", max)

ConnectFields == <<String(NameSize), Number(1), Number(1), Number(2)>>

ConnectAckFields == <<Number(1), Number(1)>>

(* Mutation: the packet id of a QoS is left to the payload.                *)
PublishFieldsNoId(qos) == <<String(TopicSize), Field("payload", 0)>>

PublishFields(qos) ==
  <<String(TopicSize)>> \o (IF qos # 0 THEN <<Number(2)>> ELSE <<>>) \o <<Field("payload", 0)>>

SubscribeFields == <<Number(2), Field("topics", 0)>>

(* The loop body of Subscribe::ReadFrom: a topic, the callback, its flags. *)
TopicFields == <<String(TopicSize), Field("callback", 0), Number(1), Field("topics", 0)>>

(* The first of the responses.                                             *)
SubscribeAckFields == <<Number(2), Number(1)>>

(* What HandleMessage, or as a client the program, reads of a packet of    *)
(* this type; of the others nothing, but the program may drain or dump     *)
(* them.                                                                   *)
Handlers(type, qos) ==
  CASE type = CONNECT   -> {ConnectFields}
    [] type = CONNACK   -> {ConnectAckFields}
    [] type = PUBLISH   -> {PublishFields(qos)}
    [] type = SUBSCRIBE -> {SubscribeFields}
    [] type = SUBACK    -> {SubscribeAckFields}
    [] OTHER            -> {<<>>, <<Field("dump", 0)>>} \cup {<<Field("drain", n)>> : n \in Skip}

HandleMessage ==
  /\ pc = "ready"
  /\ pc' = "reading"
  /\ todo' \in Handlers(TypeOf(control), QoSOf(control))
  /\ value' = 0 /\ fields' = <<>>
  /\ UNCHANGED <<stream, position, link, header, remaining, stored>>

Reading(kind) == pc = "reading" /\ todo # <<>> /\ Head(todo).kind = kind

(* Mutation: the bytes are not counted off.                                *)
TakeUncounted(n) ==
  /\ n <= bytes_remaining /\ CanRead(n)
  /\ position' = position + n
  /\ UNCHANGED remaining

(* Packet::Read once its assertion holds: n bytes, counted off, or none.   *)
Take(n) ==
  /\ n <= bytes_remaining /\ CanRead(n)
  /\ position' = position + n
  /\ remaining' = [remaining EXCEPT ![Len(remaining)] = @ - n]

TakeFails(n) ==
  /\ n <= bytes_remaining /\ ReadFails(n)
  /\ UNCHANGED <<position, remaining>>

Continue(next) == todo' = next \o Tail(todo)
Fail == todo' = <<>>
Found(v) == fields' = Append(fields, v) /\ UNCHANGED value

(* Mutation: out without + i, so that the last byte is all there is.       *)
PutByteNoOffset(byte) ==
  LET i == Head(todo).n - 1
  IN  IF i = 0 THEN value' = 0 /\ fields' = Append(fields, byte) /\ Continue(<<>>)
               ELSE value' = byte /\ UNCHANGED fields /\ Continue(<<Number(i)>>)

(* (uint8_t* )out + i, with i counting down: the bytes of a number come    *)
(* high ones first.                                                        *)
PutByte(byte) ==
  LET i   == Head(todo).n - 1
      sum == value + byte * 256 ^ i
  IN  IF i = 0 THEN value' = 0 /\ fields' = Append(fields, sum) /\ Continue(<<>>)
               ELSE value' = sum /\ UNCHANGED fields /\ Continue(<<Number(i)>>)

(* A number ignores that a byte of it is not read, and keeps there what it *)
(* was made with.                                                          *)
ReadByte ==
  /\ Reading("bytes")
  /\ \/ Take(1) /\ PutByte(Bytes[position + 1])
     \/ TakeFails(1) /\ PutByte(0)
  /\ UNCHANGED <<stream, link, pc, header, stored>>

(* ReadString: the length, which must fit the buffer...                    *)
ReadLength ==
  /\ Reading("string")
  /\ \/ /\ Take(2)
        /\ LET length == Bytes[position + 1] * 256 + Bytes[position + 2]
           IN  IF length > Head(todo).n THEN Fail /\ UNCHANGED record
               ELSE Continue(<<Field("chars", length)>>) /\ Found(length)
     \/ TakeFails(2) /\ Fail /\ UNCHANGED record
  /\ UNCHANGED <<stream, link, pc, header, stored>>

(* ...and the text.                                                        *)
ReadChars ==
  /\ Reading("chars")
  /\ \/ Take(Head(todo).n) /\ Continue(<<>>)
     \/ TakeFails(Head(todo).n) /\ Fail
  /\ UNCHANGED <<stream, link, pc, header, record, stored>>

(* Mutation: the loop has no end of its own.                               *)
MoreTopicsAlways ==
  /\ Reading("topics")
  /\ Continue(TopicFields)
  /\ UNCHANGED <<stream, position, link, pc, header, remaining, record, stored>>

(* The loop of Subscribe::ReadFrom goes on while there are bytes.          *)
MoreTopics ==
  /\ Reading("topics")
  /\ Continue(IF bytes_remaining > 0 THEN TopicFields ELSE <<>>)
  /\ UNCHANGED <<stream, position, link, pc, header, remaining, record, stored>>

(* The topic is taken or, for its '+', refused.                            *)
CallTopicCallback ==
  /\ Reading("callback")
  /\ Continue(<<>>) \/ Fail
  /\ UNCHANGED <<stream, position, link, pc, header, remaining, record, stored>>

(* payload_bytes is what remains; all of it is read into the entry.        *)
ReadPayload ==
  /\ Reading("payload")
  /\ \/ /\ Take(bytes_remaining)
        /\ stored' = stored \cup {[end   |-> position + bytes_remaining,
                                   bytes |-> SubSeq(Bytes, position + 1,
                                                    position + bytes_remaining)]}
     \/ TakeFails(bytes_remaining) /\ UNCHANGED stored
  /\ Fail
  /\ UNCHANGED <<stream, link, pc, header, record>>

(* Dump reads what remains.                                                *)
Dump ==
  /\ Reading("dump")
  /\ Take(bytes_remaining) \/ TakeFails(bytes_remaining)
  /\ Continue(<<>>)
  /\ UNCHANGED <<stream, link, pc, header, record, stored>>

(* Mutation: Drain does not look at what remains.                          *)
DrainUnchecked ==
  /\ Reading("drain")
  /\ CanRead(Head(todo).n)
  /\ position' = position + Head(todo).n
  /\ remaining' = [remaining EXCEPT ![Len(remaining)] = @ - Head(todo).n]
  /\ Continue(<<>>)
  /\ UNCHANGED <<stream, link, pc, header, record, stored>>

(* Drain skips so many bytes, unless there are fewer.                      *)
Drain ==
  /\ Reading("drain")
  /\ \/ Take(Head(todo).n) \/ TakeFails(Head(todo).n)
     \/ Head(todo).n > bytes_remaining /\ UNCHANGED <<position, remaining>>
  /\ Continue(<<>>)
  /\ UNCHANGED <<stream, link, pc, header, record, stored>>

(* assert(size <= bytes_remaining_)                                        *)
Abort ==
  /\ \/ Reading("bytes") /\ 1 > bytes_remaining
     \/ Reading("string") /\ 2 > bytes_remaining
     \/ Reading("chars") /\ Head(todo).n > bytes_remaining
  /\ pc' = "aborted"
  /\ UNCHANGED <<stream, position, link, header, remaining, todo, record, stored>>

(* connection_.Drain(bytes_remaining_), if that is not 0.                  *)
DrainRest(n) ==
  \/ CanRead(n) /\ position' = position + n
  \/ ReadFails(n) /\ UNCHANGED position

(* Once the last Packet is gone, the next one can be read.                 *)
LeaveScope ==
  pc' = IF pc = "returning" THEN "ready" ELSE IF Len(remaining) = 1 THEN "idle" ELSE "leaving"

(* Mutation: the destructor leaves what remains in the stream.             *)
LeaveRest ==
  /\ pc = "reading" /\ todo = <<>>
  /\ LeaveScope
  /\ remaining' = SubSeq(remaining, 1, Len(remaining) - 1)
  /\ UNCHANGED <<stream, position, link, header, todo, record, stored>>

(* ~Packet of the one in use, when its handler is done.                    *)
Destroy ==
  /\ pc = "reading" /\ todo = <<>>
  /\ DrainRest(bytes_remaining)
  /\ LeaveScope
  /\ remaining' = SubSeq(remaining, 1, Len(remaining) - 1)
  /\ UNCHANGED <<stream, link, header, todo, record, stored>>

(* ~Packet of one moved from: the temporary's when ReadNext returns, those *)
(* of the program's variables after the handler.                           *)
DestroyMovedFrom ==
  /\ pc = "leaving" \/ (pc = "returning" /\ Len(remaining) = 2)
  /\ DrainRest(remaining[1])
  /\ LeaveScope
  /\ remaining' = Tail(remaining)
  /\ UNCHANGED <<stream, link, header, todo, record, stored>>

Step ==
  \/ ReadSize \/ FailHeader \/ Move \/ HandleMessage
  \/ ReadByte \/ ReadLength \/ ReadChars \/ MoreTopics \/ CallTopicCallback
  \/ ReadPayload \/ Dump \/ Drain \/ Abort
  \/ Destroy \/ DestroyMovedFrom

Next == ReadControl \/ Step \/ Lose

Spec == Init /\ [][Next]_vars /\ WF_vars(Step)

-----------------------------------------------------------------------------
Bound == Len(Bytes)

TypeOK ==
  /\ stream \in Streams
  /\ position \in 0 .. Bound
  /\ link \in {"up", "down"}
  /\ pc \in {"idle", "size", "returning", "ready", "reading", "leaving", "aborted"}
  /\ control \in Nat /\ size \in Nat /\ multiplier \in Nat
  /\ remaining \in Seq(0 .. Bound)
  /\ todo \in Seq([kind : {"bytes", "string", "chars", "topics", "callback", "payload",
                            "dump", "drain"}, n : Nat])
  /\ value \in Nat /\ fields \in Seq(Nat)
  /\ stored \subseteq [end : 0 .. Bound, bytes : Seq(Nat)]

(* Whatever a handler left unread, and however often a Packet was moved,   *)
(* the next packet is read from its first byte (~Packet).                  *)
Framed == pc = "idle" /\ link = "up" => position \in stream.ends

(* While a handler reads, bytes_remaining is what is left of this packet   *)
(* and no byte of the next one is taken.                                   *)
BytesLeft ==
  pc = "reading" /\ link = "up" =>
    /\ position + bytes_remaining \in stream.ends
    /\ \A end \in stream.ends : position <= end => position + bytes_remaining <= end

(* The payloads stored are those of the PUBLISH packets read so far, each  *)
(* whole and without the fields before it (payload_bytes of Publish);      *)
(* none is missing unless the client was lost.                             *)
PayloadsStored ==
  /\ stored \subseteq stream.payloads
  /\ pc = "idle" /\ link = "up" =>
       \A p \in stream.payloads : p.end <= position => p \in stored

(* The numbers and lengths a ReadFrom finds are, in order, those that the  *)
(* sender put into this packet (the SendOn functions).                     *)
FieldsIntact ==
  pc = "reading" /\ link = "up" =>
    \A f \in stream.fields :
      f.end = position + bytes_remaining => fields = SubSeq(f.values, 1, Len(fields))

(* While the client is there, the assertion of Packet::Read fails on no    *)
(* packet but one that is itself too short for its fields: nothing read,   *)
(* moved or refused before makes it ask for more than there is.            *)
AbortExplained ==
  pc = "aborted" /\ link = "up" =>
    \E start, end \in stream.ends : \E body \in start .. position :
      /\ position <= end
      /\ IsPacket(stream, start, body, end)
      /\ IsBroken(stream, control, body, end)

(* A packet that is begun comes to an end: its destructors do not wait for *)
(* bytes that nobody sends.                                                *)
PacketEnds == pc # "idle" ~> pc \in {"idle", "aborted"}

(* "assert(size <= bytes_remaining_)" (packets.h): no read asks for more   *)
(* than the packet has.                                                    *)
AssertHolds == pc # "aborted"

=============================================================================
