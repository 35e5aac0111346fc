---------------------------- MODULE PacketProofs ----------------------------
(***************************************************************************)
(* Proofs about Packet, for every stream of packets, whole or too short    *)
(* for their fields (IsStream), all sizes of buffers and every base of the *)
(* size encoding.                                                          *)
(***************************************************************************)
EXTENDS Packet, SequenceTheorems, TLAPS

FieldType ==
  {f \in [kind : {"bytes", "string", "chars", "topics", "callback", "payload", "dump", "drain"},
          n : Nat] : f.kind = "bytes" => f.n \in {1, 2}}

Types ==
  /\ TypeOK
  /\ todo \in Seq(FieldType)
  /\ stored \subseteq stream.payloads

(* There are Packets from the last digit of the size to the last           *)
(* destructor, and only the one in use last has something to drain.        *)
Remains ==
  /\ pc \in {"idle", "size"} <=> remaining = <<>>
  /\ pc = "returning" => Len(remaining) <= 2
  /\ \A i \in 1 .. Len(remaining) - 1 : remaining[i] = 0
  /\ pc = "leaving" => bytes_remaining = 0

StoredUpTo(end) == \A p \in stream.payloads : p.end <= end => p \in stored

(* Between two packets, unless the client is lost.                         *)
Between ==
  pc \in {"idle", "leaving"} /\ link = "up" =>
    position \in stream.ends /\ StoredUpTo(position)

-----------------------------------------------------------------------------
(* While it reads the size: what the digits so far stand for, and what the *)
(* next one and those after it do, is the size of the body.                *)
InSize(start, body, end) ==
  \E i \in 1 .. body - (start + 1) :
    /\ position = start + i
    /\ size + multiplier * Rests(end - body)[i] = end - body

FoundSoFar(end) ==
  \A f \in stream.fields : f.end = end =>
    Len(fields) <= Len(f.values) /\ \A i \in 1 .. Len(fields) : fields[i] = f.values[i]

(* Where a reader is: what it has yet to read, from which position on, the *)
(* bytes of a number it has, and how many fields it has found.             *)
Point(list, at, v, count) ==
  todo = list /\ position = at /\ value = v /\ Len(fields) = count

Chars(n) == Field("chars", n)
Payload  == Field("payload", 0)
Topics   == Field("topics", 0)
Callback == Field("callback", 0)

(* The rest of the lists of fields.                                        *)
OneByte       == <<Number(1)>>
AfterName     == <<Number(1), Number(1), Number(2)>>
AfterLevel    == <<Number(1), Number(2)>>
KeepAlive     == <<Number(2)>>
AfterTopic    == <<Number(2), Payload>>
HalfId        == <<Number(1), Payload>>
ToPayload     == <<Payload>>
AfterText     == <<Callback, Number(1), Topics>>
OneThenTopics == <<Number(1), Topics>>
ToTopics      == <<Topics>>

Text(n, rest) == <<Chars(n)>> \o rest

ConnectPoint(body) ==
  LET name == WordAt(stream, body)
      at   == body + 2 + name
  IN  \/ Point(ConnectFields, body, 0, 0)
      \/ /\ name <= NameSize
         /\ \/ Point(Text(name, AfterName), body + 2, 0, 1)
            \/ Point(AfterName, at, 0, 1)
            \/ Point(AfterLevel, at + 1, 0, 2)
            \/ Point(KeepAlive, at + 2, 0, 3)
            \/ Point(OneByte, at + 3, stream.bytes[at + 3] * 256, 3)

ConnectAckPoint(body) ==
  \/ Point(ConnectAckFields, body, 0, 0)
  \/ Point(OneByte, body + 1, 0, 1)

PublishPoint(body) ==
  LET topic == WordAt(stream, body)
      id    == body + 2 + topic
      qos   == QoSOf(control)
  IN  \/ Point(PublishFields(qos), body, 0, 0)
      \/ /\ topic \in 0 .. TopicSize
         /\ \/ qos = 0 /\ Point(Text(topic, ToPayload), body + 2, 0, 1)
            \/ qos = 0 /\ Point(ToPayload, id, 0, 1)
            \/ qos # 0 /\ Point(Text(topic, AfterTopic), body + 2, 0, 1)
            \/ qos # 0 /\ Point(AfterTopic, id, 0, 1)
            \/ qos # 0 /\ Point(HalfId, id + 1, stream.bytes[id + 1] * 256, 1)
            \/ qos # 0 /\ Point(ToPayload, id + 2, 0, 2)

TopicPoint(end, count, at, k) ==
  LET topic == WordAt(stream, at[k])
      flags == at[k] + 2 + topic
  IN  \/ Point(ToTopics, at[k], 0, 2 * k - 1)
      \/ at[k] # end /\ Point(TopicFields, at[k], 0, 2 * k - 1)
      \/ /\ k < count
         /\ \/ Point(Text(topic, AfterText), at[k] + 2, 0, 2 * k)
            \/ Point(AfterText, flags, 0, 2 * k)
            \/ Point(OneThenTopics, flags, 0, 2 * k)

SubscribePoint(body, end) ==
  \/ Point(SubscribeFields, body, 0, 0)
  \/ Point(OneThenTopics, body + 1, stream.bytes[body + 1] * 256, 0)
  \/ \E count \in 1 .. end : \E at \in [1 .. count -> body .. end] :
       /\ AreTopics(stream, body, end, count, at)
       /\ \E k \in 1 .. count : TopicPoint(end, count, at, k)

(* The rest of a SUBACK after its first byte is that of a CONNACK.         *)
SubscribeAckPoint(body) ==
  \/ Point(SubscribeAckFields, body, 0, 0)
  \/ Point(ConnectAckFields, body + 1, stream.bytes[body + 1] * 256, 0)
  \/ Point(OneByte, body + 2, 0, 1)

(* Of a packet that nobody reads.                                          *)
OtherPoint ==
  \/ Point(<<Field("dump", 0)>>, position, 0, 0)
  \/ \E n \in Skip : Point(<<Field("drain", n)>>, position, 0, 0)

AtPoint(body, end) ==
  LET type == TypeOf(control)
  IN  \/ type = CONNECT   /\ ConnectPoint(body)
      \/ type = CONNACK   /\ ConnectAckPoint(body)
      \/ type = PUBLISH   /\ PublishPoint(body)
      \/ type = SUBSCRIBE /\ SubscribePoint(body, end)
      \/ type = SUBACK    /\ SubscribeAckPoint(body)
      \/ type \notin {CONNECT, CONNACK, PUBLISH, SUBSCRIBE, SUBACK} /\ OtherPoint

Done(end) == todo = <<>> /\ (link = "up" => StoredUpTo(end))

(* A read has failed, so that nothing but the destructor can take what is  *)
(* left.                                                                   *)
Lost == link = "down" /\ bytes_remaining > 0

(* It is known what is to be found in the packet.  In a PUBLISH that is    *)
(* too short it is nothing, but a reader goes the same way as far as it    *)
(* gets.                                                                   *)
Known(body, end) ==
  \/ IsBody(stream, control, body, end)
  \/ IsBroken(stream, control, body, end) /\ TypeOf(control) = PUBLISH

OnTrack(body, end) ==
  Known(body, end) /\ FoundSoFar(end) /\ (Done(end) \/ AtPoint(body, end))

(* A reader of any other packet that is too short can be anywhere, but it  *)
(* never reads a payload.                                                  *)
NoPayload == {f \in FieldType : f.kind # "payload"}

OffTrack(body, end) ==
  /\ IsBroken(stream, control, body, end) /\ TypeOf(control) # PUBLISH
  /\ todo \in Seq(NoPayload)

InBody(body, end) ==
  /\ position >= body
  /\ position + bytes_remaining = end
  /\ Lost \/ OnTrack(body, end) \/ OffTrack(body, end)

InPacket(start, body, end) ==
  /\ IsPacket(stream, start, body, end)
  /\ IsBody(stream, control, body, end) \/ IsBroken(stream, control, body, end)
  /\ link = "up" => StoredUpTo(start)
  /\ pc = "size" => InSize(start, body, end)
  /\ pc \in {"returning", "ready"} => position = body /\ bytes_remaining = end - body
  /\ pc = "reading" => InBody(body, end)

InSomePacket ==
  pc \in {"size", "returning", "ready", "reading"} =>
    \E start, body, end \in Nat : InPacket(start, body, end)

Inv == Types /\ Remains /\ Between /\ InSomePacket /\ AbortExplained

-----------------------------------------------------------------------------
(* A sequence that is another one with an element before it.              *)
LEMMA PushFront ==
  ASSUME NEW S, NEW a \in S, NEW s \in Seq(S), NEW t \in Seq(S),
         Len(t) = Len(s) + 1, t[1] = a, \A i \in 1 .. Len(s) : t[i + 1] = s[i]
  PROVE  <<a>> \o s = t
<1> DEFINE u == <<a>> \o s
<1>1. /\ <<a>> \in Seq(S) /\ Len(<<a>>) = 1 /\ <<a>>[1] = a /\ Len(s) \in Nat
  OBVIOUS
<1>2. /\ u \in Seq(S) /\ Len(u) = 1 + Len(s)
      /\ \A i \in 1 .. 1 + Len(s) : u[i] = IF i <= 1 THEN <<a>>[i] ELSE s[i - 1]
  BY <1>1, ConcatProperties
<1> HIDE DEF u
<1>3. ASSUME NEW i \in 1 .. Len(u) PROVE u[i] = t[i]
  <2>1. CASE i = 1
    BY <2>1, <1>1, <1>2
  <2>2. CASE i # 1
    <3>1. i - 1 \in 1 .. Len(s) /\ u[i] = s[i - 1]
      BY <2>2, <1>1, <1>2
    <3>2. t[(i - 1) + 1] = s[i - 1]
      BY <3>1
    <3> QED
      BY <3>1, <3>2
  <2> QED
    BY <2>1, <2>2
<1>4. u = t
  BY <1>1, <1>2, <1>3, SeqEqual
<1> QED
  BY <1>4 DEF u

LEMMA Concats ==
  ASSUME NEW a, NEW b, NEW c, NEW d
  PROVE  /\ <<a>> \o <<>> = <<a>>
         /\ <<a>> \o <<b>> = <<a, b>>
         /\ <<a>> \o <<b, c>> = <<a, b, c>>
         /\ <<a>> \o <<b, c, d>> = <<a, b, c, d>>
         /\ <<a, b, c, d>> \o <<>> = <<a, b, c, d>>
<1> DEFINE S == {a, b, c, d}
<1>1. <<a>> \o <<>> = <<a>>
  OBVIOUS
<1>2. <<a>> \o <<b>> = <<a, b>>
  <2> DEFINE s == <<b>>  t == <<a, b>>
  <2>1. /\ s \in Seq(S) /\ t \in Seq(S) /\ a \in S
        /\ Len(s) = 1 /\ Len(t) = 2 /\ t[1] = a /\ \A i \in 1 .. 1 : t[i + 1] = s[i]
    OBVIOUS
  <2> HIDE DEF S, s, t
  <2>2. Len(t) = Len(s) + 1 /\ \A i \in 1 .. Len(s) : t[i + 1] = s[i]
    BY <2>1
  <2>3. <<a>> \o s = t
    BY <2>1, <2>2, PushFront, Zenon
  <2> QED
    BY <2>3 DEF s, t
<1>3. <<a>> \o <<b, c>> = <<a, b, c>>
  <2> DEFINE s == <<b, c>>  t == <<a, b, c>>
  <2>1. /\ s \in Seq(S) /\ t \in Seq(S) /\ a \in S
        /\ Len(s) = 2 /\ Len(t) = 3 /\ t[1] = a /\ \A i \in 1 .. 2 : t[i + 1] = s[i]
    OBVIOUS
  <2> HIDE DEF S, s, t
  <2>2. Len(t) = Len(s) + 1 /\ \A i \in 1 .. Len(s) : t[i + 1] = s[i]
    BY <2>1
  <2>3. <<a>> \o s = t
    BY <2>1, <2>2, PushFront, Zenon
  <2> QED
    BY <2>3 DEF s, t
<1>4. <<a>> \o <<b, c, d>> = <<a, b, c, d>>
  <2> DEFINE s == <<b, c, d>>  t == <<a, b, c, d>>
  <2>1. /\ s \in Seq(S) /\ t \in Seq(S) /\ a \in S
        /\ Len(s) = 3 /\ Len(t) = 4 /\ t[1] = a /\ \A i \in 1 .. 3 : t[i + 1] = s[i]
    OBVIOUS
  <2> HIDE DEF S, s, t
  <2>2. Len(t) = Len(s) + 1 /\ \A i \in 1 .. Len(s) : t[i + 1] = s[i]
    BY <2>1
  <2>3. <<a>> \o s = t
    BY <2>1, <2>2, PushFront, Zenon
  <2> QED
    BY <2>3 DEF s, t
<1>5. <<a, b, c, d>> \o <<>> = <<a, b, c, d>>
  OBVIOUS
<1> QED
  BY <1>1, <1>2, <1>3, <1>4, <1>5

(* What the lists of fields are made of.                                   *)
Begins(list, field, rest) == list # <<>> /\ Head(list) = field /\ Tail(list) = rest

LEMMA Tails ==
  ASSUME NEW a, NEW b, NEW c, NEW d
  PROVE  /\ Begins(<<a>>, a, <<>>)
         /\ Begins(<<a, b>>, a, <<b>>)
         /\ Begins(<<a, b, c>>, a, <<b, c>>)
         /\ Begins(<<a, b, c, d>>, a, <<b, c, d>>)
BY DEF Begins

LEMMA ConnectLists ==
  /\ Begins(ConnectFields, String(NameSize), AfterName)
  /\ Begins(AfterName, Number(1), AfterLevel)
  /\ Begins(AfterLevel, Number(1), KeepAlive)
  /\ Begins(KeepAlive, Number(2), <<>>) /\ <<Number(1)>> \o <<>> = OneByte
  /\ Begins(OneByte, Number(1), <<>>)
BY Tails, Concats DEF ConnectFields, AfterName, AfterLevel, KeepAlive, OneByte

LEMMA AckLists ==
  /\ Begins(ConnectAckFields, Number(1), OneByte)
  /\ Begins(SubscribeAckFields, Number(2), OneByte)
  /\ <<Number(1)>> \o OneByte = ConnectAckFields
  /\ Begins(OneByte, Number(1), <<>>)
BY Tails, Concats DEF ConnectAckFields, SubscribeAckFields, OneByte

LEMMA Pushes ==
  ASSUME NEW a, NEW b, NEW c
  PROVE  <<a, b>> \o <<c>> = <<a, b, c>>
<1> DEFINE S == {a, b, c}  s == <<a, b>>  t == <<a, b, c>>  u == s \o <<c>>
<1>1. /\ s \in Seq(S) /\ t \in Seq(S) /\ <<c>> \in Seq(S)
      /\ Len(s) = 2 /\ Len(t) = 3 /\ Len(<<c>>) = 1 /\ <<c>>[1] = c
      /\ s[1] = a /\ s[2] = b /\ t[1] = a /\ t[2] = b /\ t[3] = c
  OBVIOUS
<1> HIDE DEF S, s, t
<1>2. /\ u \in Seq(S) /\ Len(u) = 3
      /\ \A i \in 1 .. 3 : u[i] = IF i <= 2 THEN s[i] ELSE <<c>>[i - 2]
  BY <1>1, ConcatProperties
<1> HIDE DEF u
<1>3. u[1] = a /\ u[2] = b /\ u[3] = c
  BY <1>1, <1>2
<1>4. \A i \in 1 .. Len(u) : u[i] = t[i]
  BY <1>1, <1>2, <1>3
<1>5. u = t
  BY <1>1, <1>2, <1>4, SeqEqual
<1> QED
  BY <1>5 DEF s, t, u

LEMMA PublishLists ==
  /\ \A qos : Begins(PublishFields(qos), String(TopicSize),
                     IF qos = 0 THEN ToPayload ELSE AfterTopic)
  /\ Begins(AfterTopic, Number(2), ToPayload) /\ <<Number(1)>> \o ToPayload = HalfId
  /\ Begins(HalfId, Number(1), ToPayload)
  /\ Begins(ToPayload, Payload, <<>>)
<1>1. PublishFields(0) = <<String(TopicSize), Payload>>
  BY Concats DEF PublishFields, Payload
<1>2. ASSUME NEW qos, qos # 0
      PROVE  PublishFields(qos) = <<String(TopicSize), Number(2), Payload>>
  <2>1. PublishFields(qos) = (<<String(TopicSize)>> \o <<Number(2)>>) \o <<Payload>>
    BY <1>2 DEF PublishFields, Payload
  <2>2. @ = <<String(TopicSize), Number(2)>> \o <<Payload>>
    BY Concats
  <2>3. <<String(TopicSize), Number(2)>> \o <<Payload>> = <<String(TopicSize), Number(2), Payload>>
    BY Pushes
  <2> QED
    BY <2>1, <2>2, <2>3
<1>3. \A qos : Begins(PublishFields(qos), String(TopicSize),
                     IF qos = 0 THEN ToPayload ELSE AfterTopic)
  BY <1>1, <1>2, Tails DEF AfterTopic, ToPayload
<1>4. /\ Begins(AfterTopic, Number(2), ToPayload) /\ <<Number(1)>> \o ToPayload = HalfId
      /\ Begins(HalfId, Number(1), ToPayload)
      /\ Begins(ToPayload, Payload, <<>>)
  BY Tails, Concats DEF AfterTopic, HalfId, ToPayload
<1> QED
  BY <1>3, <1>4

LEMMA SubscribeLists ==
  /\ Begins(SubscribeFields, Number(2), ToTopics) /\ <<Number(1)>> \o ToTopics = OneThenTopics
  /\ Begins(OneThenTopics, Number(1), ToTopics)
  /\ Begins(ToTopics, Topics, <<>>)
  /\ Begins(TopicFields, String(TopicSize), AfterText)
  /\ Begins(AfterText, Callback, OneThenTopics)
BY Tails, Concats
   DEF SubscribeFields, TopicFields, AfterText, OneThenTopics, ToTopics, Topics, Callback

-----------------------------------------------------------------------------
LEMMA StreamFacts ==
  ASSUME NEW s \in Streams
  PROVE  /\ IsStream(s)
         /\ s.bytes \in Seq(Nat) /\ Len(s.bytes) \in Nat
         /\ {0, Len(s.bytes)} \subseteq s.ends
         /\ s.ends \subseteq 0 .. Len(s.bytes)
         /\ s.payloads \subseteq [end : s.ends \ {0}, bytes : Seq(Nat)]
         /\ s.fields \subseteq [end : Nat, values : Seq(Nat)]
<1>1. IsStream(s)
  BY PacketAssumption
<1>2. s \in StreamType
  BY <1>1 DEF IsStream
<1> QED
  BY <1>1, <1>2 DEF IsStream, StreamType

(* A packet that does not end the stream is followed by another one.       *)
LEMMA PacketExists ==
  ASSUME NEW s \in Streams, NEW start \in s.ends, start # Len(s.bytes)
  PROVE  \E end \in s.ends : \E body \in start .. end :
           /\ IsPacket(s, start, body, end)
           /\ \/ IsBody(s, s.bytes[start + 1], body, end)
              \/ IsBroken(s, s.bytes[start + 1], body, end)
BY StreamFacts DEF IsStream

LEMMA PacketFacts ==
  ASSUME NEW s \in Streams, NEW start \in Nat, NEW body \in Nat, NEW end \in Nat,
         IsPacket(s, start, body, end)
  PROVE  /\ start \in s.ends /\ end \in s.ends
         /\ start + 1 < body /\ body <= end /\ end <= Len(s.bytes)
         /\ \A e \in s.ends : e <= start \/ end <= e
         /\ body - (start + 1) \in 1 .. 4
BY StreamFacts DEF IsPacket, IsSize

LEMMA ByteFacts ==
  ASSUME NEW s \in Streams
  PROVE  /\ \A i \in 1 .. Len(s.bytes) : s.bytes[i] \in Nat
         /\ \A i \in Nat : i + 2 <= Len(s.bytes) => WordAt(s, i) \in Nat
BY StreamFacts DEF WordAt

LEMMA BytesRemainingFacts ==
  ASSUME Types, remaining # <<>>
  PROVE  /\ Bound \in Nat /\ position \in 0 .. Bound
         /\ remaining \in Seq(0 .. Bound) /\ Len(remaining) \in Nat \ {0}
         /\ bytes_remaining \in 0 .. Bound
<1>1. stream \in Streams /\ position \in 0 .. Bound /\ remaining \in Seq(0 .. Bound)
  BY DEF Types, TypeOK
<1>2. Bound \in Nat
  BY <1>1, StreamFacts DEF Bound, Bytes
<1>3. Len(remaining) \in Nat \ {0}
  BY <1>1, EmptySeq
<1>4. remaining[Len(remaining)] \in 0 .. Bound
  <2>1. Len(remaining) \in 1 .. Len(remaining)
    BY <1>3
  <2> QED
    BY <1>1, <2>1, ElementOfSeq
<1> QED
  BY <1>1, <1>2, <1>3, <1>4 DEF bytes_remaining

-----------------------------------------------------------------------------
(* One read: it takes all it was asked for or nothing, and nothing more    *)
(* once the client is lost.                                                *)
LEMMA Taking ==
  ASSUME Types, Remains, remaining # <<>>, UNCHANGED <<stream, link>>,
         NEW n \in Nat,
         Take(n) \/ TakeFails(n) \/ UNCHANGED <<position, remaining>>
  PROVE  /\ position' \in 0 .. Bound' /\ position' >= position
         /\ remaining' \in Seq(0 .. Bound') /\ Len(remaining') = Len(remaining)
         /\ \A i \in 1 .. Len(remaining) - 1 : remaining'[i] = remaining[i]
         /\ bytes_remaining \in Nat /\ bytes_remaining' \in Nat
         /\ position' + bytes_remaining' = position + bytes_remaining
         /\ Lost => Lost'
<1>1. /\ Bound \in Nat /\ Bound' = Bound
      /\ remaining \in Seq(0 .. Bound) /\ position \in 0 .. Bound
      /\ Len(remaining) \in Nat \ {0}
      /\ bytes_remaining \in 0 .. Bound
  BY BytesRemainingFacts DEF Bound, Bytes
<1>2. CASE UNCHANGED <<position, remaining>>
  BY <1>1, <1>2 DEF Lost, bytes_remaining
<1>3. CASE TakeFails(n)
  BY <1>1, <1>3 DEF Lost, bytes_remaining, TakeFails
<1>4. CASE Take(n)
  <2>1. n <= bytes_remaining /\ CanRead(n) /\ position' = position + n
        /\ remaining' = [remaining EXCEPT ![Len(remaining)] = @ - n]
    BY <1>4 DEF Take
  <2>2. /\ remaining' \in Seq(0 .. Bound) /\ Len(remaining') = Len(remaining)
        /\ \A i \in 1 .. Len(remaining) - 1 : remaining'[i] = remaining[i]
        /\ remaining'[Len(remaining)] = bytes_remaining - n
    BY <1>1, <2>1, ExceptSeq DEF bytes_remaining
  <2>3. bytes_remaining' = bytes_remaining - n
    BY <2>2 DEF bytes_remaining
  <2>4. n = 0 \/ (link = "up" /\ position + n <= Bound)
    BY <2>1 DEF CanRead, Bound
  <2>5. position' \in 0 .. Bound' /\ position' >= position
    BY <1>1, <2>1, <2>4
  <2>6. bytes_remaining' \in Nat /\ position' + bytes_remaining' = position + bytes_remaining
    BY <1>1, <2>1, <2>3
  <2>7. Lost => Lost'
    BY <1>1, <2>3, <2>4 DEF Lost
  <2>8. remaining' \in Seq(0 .. Bound')
    BY <1>1, <2>2
  <2>9. bytes_remaining \in Nat
    BY <1>1
  <2> QED
    BY <2>2, <2>5, <2>6, <2>7, <2>8, <2>9, Zenon
<1> QED
  BY <1>2, <1>3, <1>4

(* A read that fails leaves something to be lost.                          *)
LEMMA FailingIsLost ==
  ASSUME Types, remaining # <<>>, NEW n \in Nat, TakeFails(n), UNCHANGED link
  PROVE  Lost'
<1>1. bytes_remaining \in Nat
  BY BytesRemainingFacts
<1> QED
  BY <1>1 DEF TakeFails, ReadFails, Lost, bytes_remaining


-----------------------------------------------------------------------------
LEMMA FieldSeqs ==
  ASSUME NEW s \in Seq(FieldType)
  PROVE  s \in Seq([kind : {"bytes", "string", "chars", "topics", "callback", "payload",
                            "dump", "drain"}, n : Nat])
<1>1. FieldType \subseteq [kind : {"bytes", "string", "chars", "topics", "callback", "payload",
                                  "dump", "drain"}, n : Nat]
  BY DEF FieldType
<1> QED
  BY <1>1, SeqMonotonic, Zenon

LEMMA PayloadTypes ==
  ASSUME NEW s \in Streams, NEW P \in SUBSET s.payloads
  PROVE  P \subseteq [end : 0 .. Len(s.bytes), bytes : Seq(Nat)]
BY StreamFacts

(* A step of a handler keeps the invariant if its reader stays on track or *)
(* has lost the client.                                                    *)
LEMMA ReadingStep ==
  ASSUME Inv, pc = "reading", UNCHANGED <<stream, link, pc, header>>,
         NEW n \in Nat,
         Take(n) \/ TakeFails(n) \/ UNCHANGED <<position, remaining>>,
         todo' \in Seq(FieldType), value' \in Nat, fields' \in Seq(Nat),
         stored \subseteq stored', stored' \subseteq stream.payloads,
         NEW start \in Nat, NEW body \in Nat, NEW end \in Nat,
         InPacket(start, body, end),
         Lost \/ Lost' \/ OnTrack(body, end)' \/ OffTrack(body, end)'
  PROVE  Inv'
<1>1. remaining # <<>> /\ Types /\ Remains
  BY DEF Inv, Remains
<1>2. /\ position' \in 0 .. Bound' /\ position' >= position
      /\ remaining' \in Seq(0 .. Bound') /\ Len(remaining') = Len(remaining)
      /\ \A i \in 1 .. Len(remaining) - 1 : remaining'[i] = remaining[i]
      /\ bytes_remaining \in Nat /\ bytes_remaining' \in Nat
      /\ position' + bytes_remaining' = position + bytes_remaining
      /\ Lost => Lost'
  BY <1>1, Taking
<1>3. Types'
  <2>1. stored' \subseteq [end : 0 .. Bound', bytes : Seq(Nat)]
    BY PayloadTypes DEF Inv, Types, TypeOK, Bound, Bytes
  <2>2. TypeOK'
    BY <1>2, <2>1, FieldSeqs DEF Inv, Types, TypeOK, header
  <2> QED
    BY <2>2 DEF Types
<1>4. Remains'
  <2>1. remaining' # <<>>
    BY <1>1, <1>2, EmptySeq
  <2> QED
    BY <1>2, <2>1 DEF Inv, Remains
<1>5. Between' /\ AbortExplained'
  BY DEF Between, AbortExplained
<1>6. InBody(body, end)'
  <2>1. position \in Nat
    BY <1>1, BytesRemainingFacts
  <2>2. InBody(body, end)
    BY DEF InPacket
  <2>3. position' >= body
    BY <1>2, <2>1, <2>2 DEF InBody
  <2>4. position' + bytes_remaining' = end
    BY <1>2, <2>2 DEF InBody
  <2>5. Lost' \/ OnTrack(body, end)' \/ OffTrack(body, end)'
    BY <1>2
  <2> QED
    BY <2>3, <2>4, <2>5 DEF InBody
<1>7. InPacket(start, body, end)'
  <2>1. (link = "up" => StoredUpTo(start))'
    BY DEF InPacket, StoredUpTo
  <2> QED
    BY <1>6, <2>1 DEF InPacket, header
<1>8. InSomePacket'
  BY <1>7 DEF InSomePacket
<1> QED
  BY <1>3, <1>4, <1>5, <1>8 DEF Inv

-----------------------------------------------------------------------------
(* The fields found so far stay found, and the next one is.                *)
LEMMA FoundSame ==
  ASSUME NEW end, FoundSoFar(end), UNCHANGED <<stream, fields>>
  PROVE  FoundSoFar(end)'
BY DEF FoundSoFar

LEMMA FoundMore ==
  ASSUME NEW end, FoundSoFar(end), UNCHANGED stream, fields \in Seq(Nat),
         NEW x \in Nat, fields' = Append(fields, x),
         FieldIs(stream, end, Len(fields) + 1, x)
  PROVE  FoundSoFar(end)' /\ Len(fields') = Len(fields) + 1 /\ fields' \in Seq(Nat)
<1>1. /\ Len(fields) \in Nat /\ Len(fields') = Len(fields) + 1 /\ fields' \in Seq(Nat)
      /\ \A i \in 1 .. Len(fields) : fields'[i] = fields[i]
      /\ fields'[Len(fields) + 1] = x
  BY AppendProperties
<1>2. ASSUME NEW f \in stream.fields, f.end = end
      PROVE  Len(fields') <= Len(f.values) /\ \A i \in 1 .. Len(fields') : fields'[i] = f.values[i]
  <2>1. Len(fields') <= Len(f.values)
    BY <1>1, <1>2 DEF FieldIs
  <2>2. ASSUME NEW i \in 1 .. Len(fields') PROVE fields'[i] = f.values[i]
    <3>1. CASE i = Len(fields) + 1
      BY <1>1, <1>2, <3>1 DEF FieldIs
    <3>2. CASE i # Len(fields) + 1
      BY <1>1, <1>2, <3>2 DEF FoundSoFar
    <3> QED
      BY <3>1, <3>2
  <2> QED
    BY <2>1, <2>2
<1> QED
  BY <1>1, <1>2 DEF FoundSoFar

(* Without a payload in this packet, all up to its end are those before.   *)
LEMMA NothingToStore ==
  ASSUME stream \in Streams, NEW start \in Nat, NEW body \in Nat, NEW end \in Nat,
         IsPacket(stream, start, body, end), HasPayloads(stream, end, {}),
         StoredUpTo(start)
  PROVE  StoredUpTo(end)
<1>1. ASSUME NEW p \in stream.payloads, p.end <= end PROVE p \in stored
  <2>1. p.end \in stream.ends /\ p.end # end
    BY StreamFacts DEF HasPayloads
  <2>2. p.end <= start
    BY <1>1, <2>1, PacketFacts, StreamFacts
  <2> QED
    BY <2>2 DEF StoredUpTo
<1> QED
  BY <1>1 DEF StoredUpTo

-----------------------------------------------------------------------------
(* A byte of a number: of one that has no more, and of one that has.       *)
LEMMA LastByte ==
  ASSUME Types, todo # <<>>, Head(todo) = Number(1), NEW byte \in Nat, PutByte(byte)
  PROVE  todo' = Tail(todo) /\ value' = 0 /\ fields' = Append(fields, value + byte)
<1>1. Tail(todo) \in Seq(FieldType)
  BY DEF Types
<1>2. <<>> \o Tail(todo) = Tail(todo)
  BY <1>1, ConcatEmptySeq
<1>3. Head(todo).n - 1 = 0
  BY DEF Number, Field
<1>4. value + byte * 256 ^ 0 = value + byte
  BY DEF Types, TypeOK
<1>5. value' = 0 /\ fields' = Append(fields, value + byte) /\ Continue(<<>>)
  BY <1>3, <1>4 DEF PutByte
<1> QED
  BY <1>2, <1>5 DEF Continue

LEMMA FirstByte ==
  ASSUME Types, todo # <<>>, Head(todo) = Number(2), NEW byte \in Nat, PutByte(byte)
  PROVE  /\ todo' = <<Number(1)>> \o Tail(todo)
         /\ value' = value + byte * 256 /\ fields' = fields
<1>1. Head(todo).n - 1 = 1
  BY DEF Number, Field
<1>2. 256 ^ 1 = 256
  OBVIOUS
<1>3. value' = value + byte * 256 /\ fields' = fields /\ Continue(<<Number(1)>>)
  <2>1. 256 ^ (Head(todo).n - 1) = 256
    BY <1>1, <1>2, Zenon
  <2> QED
    BY <1>1, <2>1 DEF PutByte
<1> QED
  BY <1>3 DEF Continue

LEMMA NumberTypes ==
  ASSUME Types, Reading("bytes"), NEW byte \in Nat, PutByte(byte)
  PROVE  todo' \in Seq(FieldType) /\ value' \in Nat /\ fields' \in Seq(Nat)
<1>1. /\ Head(todo) \in FieldType /\ Tail(todo) \in Seq(FieldType) /\ todo # <<>>
      /\ Head(todo).kind = "bytes"
      /\ value \in Nat /\ fields \in Seq(Nat)
  BY DEF Types, TypeOK, Reading
<1>2. Head(todo) = Number(1) \/ Head(todo) = Number(2)
  BY <1>1 DEF FieldType, Number, Field
<1>3. CASE Head(todo) = Number(1)
  <2>1. todo' = Tail(todo) /\ value' = 0 /\ fields' = Append(fields, value + byte)
    BY <1>1, <1>3, LastByte
  <2>2. value + byte \in Nat
    BY <1>1
  <2> QED
    BY <1>1, <2>1, <2>2, AppendProperties
<1>4. CASE Head(todo) = Number(2)
  <2>1. /\ todo' = <<Number(1)>> \o Tail(todo)
        /\ value' = value + byte * 256 /\ fields' = fields
    BY <1>1, <1>4, FirstByte
  <2>2. <<Number(1)>> \in Seq(FieldType)
    BY DEF FieldType, Number, Field
  <2> QED
    BY <1>1, <2>1, <2>2, ConcatProperties
<1> QED
  BY <1>2, <1>3, <1>4

-----------------------------------------------------------------------------
(* The last byte of a number that is the next field, or the first of two.  *)
LEMMA NumberFound ==
  ASSUME Types, todo # <<>>, Head(todo) = Number(1), UNCHANGED stream,
         NEW byte \in Nat, PutByte(byte),
         NEW end, FoundSoFar(end), FieldIs(stream, end, Len(fields) + 1, value + byte)
  PROVE  /\ FoundSoFar(end)' /\ Len(fields') = Len(fields) + 1
         /\ todo' = Tail(todo) /\ value' = 0
<1>1. todo' = Tail(todo) /\ value' = 0 /\ fields' = Append(fields, value + byte)
  BY LastByte
<1>2. fields \in Seq(Nat) /\ value + byte \in Nat
  BY DEF Types, TypeOK
<1> QED
  BY <1>1, <1>2, FoundMore

LEMMA NumberBegun ==
  ASSUME Types, todo # <<>>, Head(todo) = Number(2), UNCHANGED stream,
         NEW byte \in Nat, PutByte(byte),
         NEW end, FoundSoFar(end), value = 0
  PROVE  /\ FoundSoFar(end)' /\ Len(fields') = Len(fields)
         /\ todo' = <<Number(1)>> \o Tail(todo) /\ value' = byte * 256
<1>1. todo' = <<Number(1)>> \o Tail(todo) /\ value' = value + byte * 256 /\ fields' = fields
  BY FirstByte
<1> QED
  BY <1>1, FoundSame

(* A byte of a number, from one point of the reader to the next.           *)
ByteRead(end) ==
  /\ Types /\ UNCHANGED stream /\ FoundSoFar(end)
  /\ position' = position + 1 /\ PutByte(stream.bytes[position + 1])

LEMMA ByteAtPoint ==
  ASSUME NEW end, ByteRead(end),
         NEW list, NEW rest, Begins(list, Number(1), rest),
         NEW at, NEW k, Point(list, at, 0, k),
         NEW at2, at2 = at + 1, NEW k2, k2 = k + 1,
         stream.bytes[at2] \in Nat, FieldIs(stream, end, k2, stream.bytes[at2])
  PROVE  FoundSoFar(end)' /\ Point(rest, at2, 0, k2)'
<1> DEFINE byte == stream.bytes[at2]
<1>1. todo = list /\ position + 1 = at2 /\ position' = at2 /\ value = 0 /\ Len(fields) + 1 = k2
  BY DEF Point, ByteRead
<1>2. todo # <<>> /\ Head(todo) = Number(1) /\ Tail(todo) = rest
  BY <1>1 DEF Begins
<1>3. PutByte(byte) /\ byte \in Nat /\ value + byte = byte
  BY <1>1 DEF ByteRead
<1>4. FieldIs(stream, end, Len(fields) + 1, value + byte)
  BY <1>1, <1>3
<1> HIDE DEF byte
<1>5. /\ FoundSoFar(end)' /\ Len(fields') = Len(fields) + 1
      /\ todo' = Tail(todo) /\ value' = 0
  BY <1>2, <1>3, <1>4, NumberFound DEF ByteRead
<1> QED
  BY <1>1, <1>2, <1>5 DEF Point

LEMMA FirstAtPoint ==
  ASSUME NEW end, ByteRead(end),
         NEW list, NEW rest, Begins(list, Number(2), rest),
         NEW at, NEW k, Point(list, at, 0, k),
         NEW at2, at2 = at + 1, stream.bytes[at2] \in Nat,
         NEW v, v = stream.bytes[at2] * 256,
         NEW list2, <<Number(1)>> \o rest = list2
  PROVE  FoundSoFar(end)' /\ Point(list2, at2, v, k)'
<1> DEFINE byte == stream.bytes[at2]
<1>1. todo = list /\ position + 1 = at2 /\ position' = at2 /\ value = 0 /\ Len(fields) = k
  BY DEF Point, ByteRead
<1>2. todo # <<>> /\ Head(todo) = Number(2) /\ Tail(todo) = rest
  BY <1>1 DEF Begins
<1>3. PutByte(byte) /\ byte \in Nat
  BY <1>1 DEF ByteRead
<1> HIDE DEF byte
<1>4. /\ FoundSoFar(end)' /\ Len(fields') = Len(fields)
      /\ todo' = <<Number(1)>> \o Tail(todo) /\ value' = byte * 256
  BY <1>1, <1>2, <1>3, NumberBegun DEF ByteRead
<1> QED
  BY <1>1, <1>2, <1>4 DEF Point, byte

LEMMA SecondAtPoint ==
  ASSUME NEW end, ByteRead(end),
         NEW list, NEW rest, Begins(list, Number(1), rest),
         NEW at \in Nat, NEW at1, at1 = at + 1, NEW v, v = stream.bytes[at1] * 256,
         NEW k, Point(list, at1, v, k),
         NEW at2, at2 = at + 2, NEW k2, k2 = k + 1,
         stream.bytes[at2] \in Nat, FieldIs(stream, end, k2, WordAt(stream, at))
  PROVE  FoundSoFar(end)' /\ Point(rest, at2, 0, k2)'
<1> DEFINE byte == stream.bytes[at2]
<1>1. /\ todo = list /\ position = at1 /\ position + 1 = at2 /\ position' = at2
      /\ Len(fields) + 1 = k2
      /\ value = stream.bytes[at1] * 256
  BY DEF Point, ByteRead
<1>2. todo # <<>> /\ Head(todo) = Number(1) /\ Tail(todo) = rest
  BY <1>1 DEF Begins
<1>3. PutByte(byte) /\ byte \in Nat
  BY <1>1 DEF ByteRead
<1>4. value + byte = WordAt(stream, at)
  BY <1>1 DEF WordAt
<1>5. FieldIs(stream, end, Len(fields) + 1, value + byte)
  BY <1>1, <1>4, Zenon
<1> HIDE DEF byte
<1>6. /\ FoundSoFar(end)' /\ Len(fields') = Len(fields) + 1
      /\ todo' = Tail(todo) /\ value' = 0
  BY <1>2, <1>3, <1>5, NumberFound DEF ByteRead
<1> QED
  BY <1>1, <1>2, <1>6 DEF Point

LEMMA Pushed ==
  ASSUME NEW S, NEW a \in S, NEW rest \in Seq(S)
  PROVE  Begins(<<a>> \o rest, a, rest)
<1> DEFINE list == <<a>> \o rest
<1>1. /\ <<a>> \in Seq(S) /\ Len(<<a>>) = 1 /\ <<a>>[1] = a /\ Len(rest) \in Nat
  OBVIOUS
<1>2. /\ list \in Seq(S) /\ Len(list) = 1 + Len(rest)
      /\ \A i \in 1 .. 1 + Len(rest) : list[i] = IF i <= 1 THEN <<a>>[i] ELSE rest[i - 1]
  BY <1>1, ConcatProperties
<1> HIDE DEF list
<1>3. list # <<>>
  BY <1>1, <1>2, EmptySeq
<1>4. /\ Tail(list) \in Seq(S) /\ Len(Tail(list)) = Len(rest)
      /\ \A i \in 1 .. Len(rest) : Tail(list)[i] = list[i + 1]
      /\ Head(list) = list[1]
  BY <1>1, <1>2, <1>3, HeadTailProperties
<1>5. Head(list) = a
  BY <1>1, <1>2, <1>4
<1>6. \A i \in 1 .. Len(rest) : Tail(list)[i] = rest[i]
  BY <1>1, <1>2, <1>4
<1>7. Tail(list) = rest
  BY <1>1, <1>4, <1>6, SeqEqual
<1> QED
  BY <1>3, <1>5, <1>7 DEF Begins, list

LEMMA TextLists ==
  ASSUME NEW n, NEW rest, rest \in {AfterName, AfterTopic, ToPayload, AfterText}
  PROVE  Begins(Text(n, rest), Chars(n), rest)
<1>1. /\ Number(1) \in FieldType /\ Number(2) \in FieldType
      /\ Payload \in FieldType /\ Callback \in FieldType /\ Topics \in FieldType
  BY DEF FieldType, Number, Payload, Callback, Topics, Field
<1> DEFINE S == FieldType \cup {Chars(n)}
<1>2. rest \in Seq(FieldType)
  <2>1. AfterName \in Seq(FieldType) /\ AfterTopic \in Seq(FieldType)
    BY <1>1 DEF AfterName, AfterTopic
  <2>2. ToPayload \in Seq(FieldType) /\ AfterText \in Seq(FieldType)
    BY <1>1 DEF ToPayload, AfterText
  <2> QED
    BY <2>1, <2>2
<1>3. FieldType \subseteq S /\ Chars(n) \in S
  OBVIOUS
<1> HIDE DEF S
<1>4. rest \in Seq(S)
  BY <1>2, <1>3, SeqMonotonic, Zenon
<1> QED
  BY <1>3, <1>4, Pushed DEF Text

(* At a list, the handler's next read is that of its first field.          *)
LEMMA NextRead ==
  ASSUME NEW kind, Reading(kind), NEW list, todo = list, NEW field, NEW rest,
         Begins(list, field, rest)
  PROVE  todo # <<>> /\ Head(todo) = field /\ Tail(todo) = rest /\ field.kind = kind
BY DEF Reading, Begins

LEMMA Kinds ==
  /\ \A n : Number(n).kind = "bytes" /\ String(n).kind = "string" /\ Chars(n).kind = "chars"
  /\ \A n : Number(n).n = n /\ String(n).n = n /\ Chars(n).n = n
  /\ Payload.kind = "payload" /\ Topics.kind = "topics" /\ Callback.kind = "callback"
BY DEF Number, String, Chars, Payload, Topics, Callback, Field

LEMMA NextField ==
  ASSUME Types, todo # <<>>
  PROVE  /\ Head(todo) \in FieldType /\ Head(todo).n \in Nat
         /\ Tail(todo) \in Seq(FieldType) /\ <<>> \o Tail(todo) = Tail(todo)
<1>1. Head(todo) \in FieldType /\ Tail(todo) \in Seq(FieldType)
  BY HeadTailProperties DEF Types
<1>2. <<>> \o Tail(todo) = Tail(todo)
  BY <1>1, ConcatEmptySeq
<1> QED
  BY <1>1, <1>2 DEF FieldType

LEMMA WordFacts ==
  ASSUME Types, NEW at \in Nat, NEW end \in Nat, at + 2 <= end, end <= Len(stream.bytes)
  PROVE  stream \in Streams /\ WordAt(stream, at) \in Nat
<1>1. stream \in Streams
  BY DEF Types, TypeOK
<1>2. at + 2 <= Len(stream.bytes)
  BY <1>1, StreamFacts
<1> QED
  BY <1>1, <1>2, ByteFacts

LEMMA AByte ==
  ASSUME Types, NEW at \in Nat, at >= 1, NEW end \in Nat, at <= end, end <= Len(stream.bytes)
  PROVE  stream.bytes[at] \in Nat
<1>1. stream \in Streams
  BY DEF Types, TypeOK
<1>2. at \in 1 .. Len(stream.bytes)
  BY <1>1, StreamFacts
<1> QED
  BY <1>1, <1>2, ByteFacts

(* A length, and the text after it.                                        *)
LengthRead(end) ==
  /\ Types /\ UNCHANGED stream /\ FoundSoFar(end)
  /\ position' = position + 2
  /\ LET length == stream.bytes[position + 1] * 256 + stream.bytes[position + 2]
     IN  IF length > Head(todo).n THEN Fail /\ UNCHANGED record
         ELSE Continue(<<Chars(length)>>) /\ Found(length)

LEMMA LengthAtPoint ==
  ASSUME NEW end, LengthRead(end),
         NEW list, NEW max, NEW rest, Begins(list, String(max), rest),
         NEW at, NEW k, Point(list, at, 0, k),
         NEW at2, at2 = at + 2, NEW k2, k2 = k + 1,
         NEW n \in Nat, n = WordAt(stream, at), n <= max => FieldIs(stream, end, k2, n)
  PROVE  /\ FoundSoFar(end)'
         /\ n > max => todo' = <<>>
         /\ ~ n > max => Point(Text(n, rest), at2, 0, k2)'
<1>1. /\ todo = list /\ position = at /\ position' = at2 /\ value = 0 /\ Len(fields) = k
      /\ max = Head(todo).n /\ Tail(todo) = rest
  BY DEF Point, LengthRead, Begins, String, Field
<1>2. stream.bytes[position + 1] * 256 + stream.bytes[position + 2] = n
  BY <1>1 DEF WordAt
<1>3. IF n > max THEN Fail /\ UNCHANGED record ELSE Continue(<<Chars(n)>>) /\ Found(n)
  BY <1>1, <1>2 DEF LengthRead
<1>4. CASE n > max
  BY <1>3, <1>4, FoundSame DEF Fail, record, LengthRead
<1>5. CASE ~ n > max
  <2>1. todo' = Text(n, rest) /\ fields' = Append(fields, n) /\ value' = 0
    BY <1>1, <1>3, <1>5 DEF Continue, Found, Text
  <2>2. n <= max
    <3>1. max \in Nat
      BY <1>1, NextField DEF LengthRead, Point, Begins
    <3> QED
      BY <1>5, <3>1
  <2>3. FieldIs(stream, end, Len(fields) + 1, n) /\ fields \in Seq(Nat)
    BY <1>1, <2>2 DEF LengthRead, Types, TypeOK
  <2>4. FoundSoFar(end)' /\ Len(fields') = Len(fields) + 1
    BY <2>1, <2>3, FoundMore DEF LengthRead
  <2> QED
    BY <1>1, <1>5, <2>1, <2>4 DEF Point
<1> QED
  BY <1>4, <1>5

LEMMA CharsAtPoint ==
  ASSUME Types, UNCHANGED <<stream, record>>, NEW end, FoundSoFar(end),
         NEW n \in Nat, NEW rest, Begins(Text(n, rest), Chars(n), rest),
         NEW at, NEW k, Point(Text(n, rest), at, 0, k),
         position' = position + Head(todo).n, Continue(<<>>),
         NEW at2, at2 = at + n
  PROVE  FoundSoFar(end)' /\ Point(rest, at2, 0, k)'
<1>1. /\ todo # <<>> /\ Head(todo).n = n /\ Tail(todo) = rest /\ position' = at2
      /\ value' = 0 /\ fields' = fields /\ Len(fields) = k
  BY Kinds DEF Point, Begins, record
<1>2. todo' = rest
  BY <1>1, NextField DEF Continue
<1> QED
  BY <1>1, <1>2, FoundSame DEF Point

-----------------------------------------------------------------------------
(* CONNECT                                                                 *)

(* Where the fields of a CONNECT are.                                      *)
LEMMA ConnectLayout ==
  ASSUME NEW s \in Streams, NEW body \in Nat, NEW end \in Nat, end <= Len(s.bytes),
         IsConnect(s, body, end), WordAt(s, body) <= NameSize
  PROVE  \E at \in Nat :
           /\ at = body + 2 + WordAt(s, body) /\ at >= body /\ at + 4 <= end
           /\ \A i \in 1 .. 4 : s.bytes[at + i] \in Nat
           /\ FieldIs(s, end, 1, WordAt(s, body))
           /\ FieldIs(s, end, 2, s.bytes[at + 1])
           /\ FieldIs(s, end, 3, s.bytes[at + 2])
           /\ FieldIs(s, end, 4, WordAt(s, at + 2))
<1> DEFINE at == body + 2 + WordAt(s, body)
<1>1. Len(s.bytes) \in Nat /\ body + 2 <= end /\ WordAt(s, body) \in Nat
  BY StreamFacts, ByteFacts DEF IsConnect
<1>2. /\ at + 4 <= end
      /\ FieldIs(s, end, 1, WordAt(s, body))
      /\ FieldIs(s, end, 2, s.bytes[at + 1])
      /\ FieldIs(s, end, 3, s.bytes[at + 2])
      /\ FieldIs(s, end, 4, WordAt(s, at + 2))
  BY DEF IsConnect
<1>3. at \in Nat /\ at >= body
  BY <1>1
<1> HIDE DEF at
<1>4. ASSUME NEW i \in 1 .. 4 PROVE s.bytes[at + i] \in Nat
  <2>1. at + i \in 1 .. Len(s.bytes)
    BY <1>1, <1>2, <1>3
  <2> QED
    BY <2>1, ByteFacts
<1>5. at = body + 2 + WordAt(s, body)
  BY DEF at
<1> QED
  BY <1>2, <1>3, <1>4, <1>5

LEMMA ConnectByte ==
  ASSUME NEW body \in Nat, NEW end \in Nat, end <= Len(stream.bytes),
         IsConnect(stream, body, end), ConnectPoint(body), Reading("bytes"), ByteRead(end)
  PROVE  FoundSoFar(end)' /\ (todo' = <<>> \/ ConnectPoint(body)')
<1>1. stream \in Streams /\ WordAt(stream, body) \in Nat
  BY ByteFacts, StreamFacts DEF ByteRead, Types, TypeOK, IsConnect
<1>2. todo # ConnectFields /\ todo # Text(WordAt(stream, body), AfterName)
  BY <1>1, NextRead, ConnectLists, TextLists, Kinds
<1>3. WordAt(stream, body) <= NameSize
  BY <1>2 DEF ConnectPoint, Point
<1>4. PICK at \in Nat :
           /\ at = body + 2 + WordAt(stream, body) /\ at >= body /\ at + 4 <= end
           /\ \A i \in 1 .. 4 : stream.bytes[at + i] \in Nat
           /\ FieldIs(stream, end, 1, WordAt(stream, body))
           /\ FieldIs(stream, end, 2, stream.bytes[at + 1])
           /\ FieldIs(stream, end, 3, stream.bytes[at + 2])
           /\ FieldIs(stream, end, 4, WordAt(stream, at + 2))
  BY <1>1, <1>3, ConnectLayout
<1>5. PICK a1, a2, a3, a4 \in Nat : a1 = at + 1 /\ a2 = at + 2 /\ a3 = at + 3 /\ a4 = at + 4
  OBVIOUS
<1>6. /\ FieldIs(stream, end, 2, stream.bytes[a1])
      /\ FieldIs(stream, end, 3, stream.bytes[a2])
      /\ FieldIs(stream, end, 4, WordAt(stream, a2))
      /\ stream.bytes[a1] \in Nat /\ stream.bytes[a2] \in Nat
      /\ stream.bytes[a3] \in Nat /\ stream.bytes[a4] \in Nat
  BY <1>4, <1>5
<1>high. PICK v : v = stream.bytes[a3] * 256
  OBVIOUS
<1>7. \/ Point(AfterName, at, 0, 1)
      \/ Point(AfterLevel, a1, 0, 2)
      \/ Point(KeepAlive, a2, 0, 3)
      \/ Point(OneByte, a3, v, 3)
  BY <1>high, <1>2, <1>4, <1>5 DEF ConnectPoint, Point
<1>8. \/ FoundSoFar(end)' /\ Point(AfterLevel, a1, 0, 2)'
      \/ FoundSoFar(end)' /\ Point(KeepAlive, a2, 0, 3)'
      \/ FoundSoFar(end)' /\ Point(OneByte, a3, v, 3)'
      \/ FoundSoFar(end)' /\ Point(<<>>, a4, 0, 4)'
  <2>1. CASE Point(AfterName, at, 0, 1)
    <3>1. /\ a1 = at + 1 /\ 2 = 1 + 1 /\ Begins(AfterName, Number(1), AfterLevel)
          /\ stream.bytes[a1] \in Nat /\ FieldIs(stream, end, 2, stream.bytes[a1])
      BY <1>5, <1>6, <1>high, ConnectLists
    <3>2. FoundSoFar(end)' /\ Point(AfterLevel, a1, 0, 2)'
      BY ONLY ByteRead(end), <2>1, <3>1, ByteAtPoint
    <3> QED
      BY <3>2
  <2>2. CASE Point(AfterLevel, a1, 0, 2)
    <3>1. /\ a2 = a1 + 1 /\ 3 = 2 + 1 /\ Begins(AfterLevel, Number(1), KeepAlive)
          /\ stream.bytes[a2] \in Nat /\ FieldIs(stream, end, 3, stream.bytes[a2])
      BY <1>5, <1>6, <1>high, ConnectLists
    <3>2. FoundSoFar(end)' /\ Point(KeepAlive, a2, 0, 3)'
      BY ONLY ByteRead(end), <2>2, <3>1, ByteAtPoint
    <3> QED
      BY <3>2
  <2>3. CASE Point(KeepAlive, a2, 0, 3)
    <3>1. /\ a3 = a2 + 1 /\ v = stream.bytes[a3] * 256 /\ stream.bytes[a3] \in Nat
          /\ Begins(KeepAlive, Number(2), <<>>) /\ <<Number(1)>> \o <<>> = OneByte
      BY <1>5, <1>6, <1>high, ConnectLists
    <3>2. FoundSoFar(end)' /\ Point(OneByte, a3, v, 3)'
      BY ONLY ByteRead(end), <2>3, <3>1, FirstAtPoint, ZenonT(60)
    <3> QED
      BY <3>2
  <2>4. CASE Point(OneByte, a3, v, 3)
    <3>1. /\ a2 \in Nat /\ a3 = a2 + 1 /\ a4 = a2 + 2 /\ 4 = 3 + 1
          /\ v = stream.bytes[a3] * 256 /\ Begins(OneByte, Number(1), <<>>)
          /\ stream.bytes[a4] \in Nat /\ FieldIs(stream, end, 4, WordAt(stream, a2))
      BY <1>5, <1>6, <1>high, ConnectLists
    <3>2. FoundSoFar(end)' /\ Point(<<>>, a4, 0, 4)'
      BY ONLY ByteRead(end), <2>4, <3>1, SecondAtPoint
    <3> QED
      BY <3>2
  <2> QED
    BY <1>7, <2>1, <2>2, <2>3, <2>4
<1>9. todo' = <<>> \/ ConnectPoint(body)'
  <2>1. stream' = stream /\ WordAt(stream, body)' = WordAt(stream, body)
    BY DEF WordAt, ByteRead
  <2>2. CASE Point(AfterLevel, a1, 0, 2)'
    BY <1>3, <1>4, <1>5, <2>1, <2>2 DEF ConnectPoint, Point
  <2>3. CASE Point(KeepAlive, a2, 0, 3)'
    BY <1>3, <1>4, <1>5, <2>1, <2>3 DEF ConnectPoint, Point
  <2>4. CASE Point(OneByte, a3, v, 3)'
    BY <1>high, <1>3, <1>4, <1>5, <2>1, <2>4 DEF ConnectPoint, Point
  <2>5. CASE Point(<<>>, a4, 0, 4)'
    BY <2>5 DEF Point
  <2> QED
    BY <1>8, <2>2, <2>3, <2>4, <2>5
<1> QED
  BY <1>8, <1>9

LEMMA ConnectLength ==
  ASSUME NEW body \in Nat, NEW end \in Nat, end <= Len(stream.bytes),
         IsConnect(stream, body, end), ConnectPoint(body), Reading("string"), LengthRead(end)
  PROVE  FoundSoFar(end)' /\ (todo' = <<>> \/ ConnectPoint(body)')
<1>1. Types /\ stream' = stream /\ body + 2 <= end
  BY DEF LengthRead, IsConnect
<1> PICK name \in Nat : name = WordAt(stream, body)
  BY <1>1, WordFacts
<1>2. todo \notin {Text(name, AfterName), AfterName, AfterLevel, KeepAlive, OneByte}
  BY NextRead, ConnectLists, TextLists, Kinds
<1>3. Point(ConnectFields, body, 0, 0)
  BY <1>2 DEF ConnectPoint, Point
<1>4. name <= NameSize => FieldIs(stream, end, 1, name)
  BY DEF IsConnect
<1>5. PICK a2 : a2 = body + 2
  OBVIOUS
<1>6. /\ FoundSoFar(end)'
      /\ name > NameSize => todo' = <<>>
      /\ ~ name > NameSize => Point(Text(name, AfterName), a2, 0, 1)'
  <2>1. Begins(ConnectFields, String(NameSize), AfterName) /\ 1 = 0 + 1
    BY ConnectLists
  <2> QED
    BY ONLY LengthRead(end), name = WordAt(stream, body), <1>3, <1>4, <1>5, <2>1, LengthAtPoint
<1>7. ASSUME Point(Text(name, AfterName), a2, 0, 1)', ~ name > NameSize
      PROVE  ConnectPoint(body)'
  <2>1. name <= NameSize /\ WordAt(stream, body)' = name
    BY <1>1, <1>7, FormatAssumption DEF WordAt
  <2> QED
    BY <1>5, <1>7, <2>1 DEF ConnectPoint, Point
<1> QED
  BY <1>6, <1>7

LEMMA ConnectChars ==
  ASSUME NEW body \in Nat, NEW end \in Nat, end <= Len(stream.bytes),
         IsConnect(stream, body, end), ConnectPoint(body), Reading("chars"),
         Types, UNCHANGED <<stream, record>>, FoundSoFar(end),
         position' = position + Head(todo).n, Continue(<<>>)
  PROVE  FoundSoFar(end)' /\ ConnectPoint(body)'
<1>1. Types /\ stream' = stream /\ body + 2 <= end
  BY DEF IsConnect
<1> PICK name \in Nat : name = WordAt(stream, body)
  BY <1>1, WordFacts
<1>2. todo \notin {ConnectFields, AfterName, AfterLevel, KeepAlive, OneByte}
  BY NextRead, ConnectLists, Kinds
<1>3. PICK a2, a3 : a2 = body + 2 /\ a3 = a2 + name
  OBVIOUS
<1>4. name <= NameSize /\ Point(Text(name, AfterName), a2, 0, 1)
  BY <1>2, <1>3 DEF ConnectPoint, Point
<1>5. FoundSoFar(end)' /\ Point(AfterName, a3, 0, 1)'
  <2>1. Begins(Text(name, AfterName), Chars(name), AfterName)
    BY TextLists
  <2> QED
    BY <1>3, <1>4, <2>1, CharsAtPoint
<1>6. WordAt(stream, body)' = name
  BY <1>1 DEF WordAt
<1> QED
  BY <1>3, <1>4, <1>5, <1>6 DEF ConnectPoint, Point

-----------------------------------------------------------------------------
(* CONNACK and SUBACK                                                      *)

LEMMA ConnectAckByte ==
  ASSUME NEW body \in Nat, NEW end \in Nat, end <= Len(stream.bytes),
         IsConnectAck(stream, body, end), ConnectAckPoint(body), ByteRead(end)
  PROVE  FoundSoFar(end)' /\ (todo' = <<>> \/ ConnectAckPoint(body)')
<1>1. Types /\ body + 2 <= end
  BY DEF ByteRead, IsConnectAck
<1>2. PICK b1, b2 \in Nat : b1 = body + 1 /\ b2 = body + 2
  OBVIOUS
<1>3. /\ stream.bytes[b1] \in Nat /\ FieldIs(stream, end, 1, stream.bytes[b1])
      /\ stream.bytes[b2] \in Nat /\ FieldIs(stream, end, 2, stream.bytes[b2])
  BY <1>1, <1>2, AByte DEF IsConnectAck
<1>4. CASE Point(ConnectAckFields, body, 0, 0)
  <2>1. /\ b1 = body + 1 /\ 1 = 0 + 1 /\ Begins(ConnectAckFields, Number(1), OneByte)
        /\ stream.bytes[b1] \in Nat /\ FieldIs(stream, end, 1, stream.bytes[b1])
    BY <1>2, <1>3, AckLists
  <2>2. FoundSoFar(end)' /\ Point(OneByte, b1, 0, 1)'
    BY ONLY ByteRead(end), <1>4, <2>1, ByteAtPoint
  <2> QED
    BY <1>2, <2>2 DEF ConnectAckPoint, Point
<1>5. CASE Point(OneByte, b1, 0, 1)
  <2>1. /\ b2 = b1 + 1 /\ 2 = 1 + 1 /\ Begins(OneByte, Number(1), <<>>)
        /\ stream.bytes[b2] \in Nat /\ FieldIs(stream, end, 2, stream.bytes[b2])
    BY <1>2, <1>3, AckLists
  <2>2. FoundSoFar(end)' /\ Point(<<>>, b2, 0, 2)'
    BY ONLY ByteRead(end), <1>5, <2>1, ByteAtPoint
  <2> QED
    BY <2>2 DEF Point
<1> QED
  BY <1>2, <1>4, <1>5 DEF ConnectAckPoint, Point

LEMMA SubscribeAckByte ==
  ASSUME NEW body \in Nat, NEW end \in Nat, end <= Len(stream.bytes),
         IsSubscribeAck(stream, body, end), SubscribeAckPoint(body), ByteRead(end)
  PROVE  FoundSoFar(end)' /\ (todo' = <<>> \/ SubscribeAckPoint(body)')
<1>1. Types /\ stream' = stream /\ body + 3 <= end
  BY DEF ByteRead, IsSubscribeAck
<1>2. PICK b1, b2, b3 \in Nat : b1 = body + 1 /\ b2 = body + 2 /\ b3 = body + 3
  OBVIOUS
<1>3. /\ FieldIs(stream, end, 1, WordAt(stream, body))
      /\ FieldIs(stream, end, 2, stream.bytes[b3])
      /\ stream.bytes[b1] \in Nat /\ stream.bytes[b2] \in Nat /\ stream.bytes[b3] \in Nat
  BY <1>1, <1>2, AByte DEF IsSubscribeAck
<1>4. PICK v : v = stream.bytes[b1] * 256
  OBVIOUS
<1>5. CASE Point(SubscribeAckFields, body, 0, 0)
  <2>1. /\ b1 = body + 1 /\ v = stream.bytes[b1] * 256 /\ stream.bytes[b1] \in Nat
        /\ Begins(SubscribeAckFields, Number(2), OneByte)
        /\ <<Number(1)>> \o OneByte = ConnectAckFields
    BY <1>2, <1>3, <1>4, AckLists
  <2>2. FoundSoFar(end)' /\ Point(ConnectAckFields, b1, v, 0)'
    BY ONLY ByteRead(end), <1>5, <2>1, FirstAtPoint, ZenonT(60)
  <2> QED
    BY <1>1, <1>2, <1>4, <2>2 DEF SubscribeAckPoint, Point
<1>6. CASE Point(ConnectAckFields, b1, v, 0)
  <2>1. /\ b1 = body + 1 /\ b2 = body + 2 /\ 1 = 0 + 1 /\ v = stream.bytes[b1] * 256
        /\ Begins(ConnectAckFields, Number(1), OneByte)
        /\ stream.bytes[b2] \in Nat /\ FieldIs(stream, end, 1, WordAt(stream, body))
    BY <1>2, <1>3, <1>4, AckLists
  <2>2. FoundSoFar(end)' /\ Point(OneByte, b2, 0, 1)'
    BY ONLY ByteRead(end), body \in Nat, <1>6, <2>1, SecondAtPoint
  <2> QED
    BY <1>2, <2>2 DEF SubscribeAckPoint, Point
<1>7. CASE Point(OneByte, b2, 0, 1)
  <2>1. /\ b3 = b2 + 1 /\ 2 = 1 + 1 /\ Begins(OneByte, Number(1), <<>>)
        /\ stream.bytes[b3] \in Nat /\ FieldIs(stream, end, 2, stream.bytes[b3])
    BY <1>2, <1>3, AckLists
  <2>2. FoundSoFar(end)' /\ Point(<<>>, b3, 0, 2)'
    BY ONLY ByteRead(end), <1>7, <2>1, ByteAtPoint
  <2> QED
    BY <2>2 DEF Point
<1>8. \/ Point(SubscribeAckFields, body, 0, 0)
      \/ Point(ConnectAckFields, b1, v, 0)
      \/ Point(OneByte, b2, 0, 1)
  BY <1>2, <1>4 DEF SubscribeAckPoint, Point
<1> QED
  BY <1>5, <1>6, <1>7, <1>8

-----------------------------------------------------------------------------
(* PUBLISH                                                                 *)

(* What a reader of a PUBLISH can rely on, whether it is whole or not.     *)
NoField(end) == \A f \in stream.fields : f.end # end

SomePublish(body, end) ==
  \/ IsPublish(stream, QoSOf(control), body, end)
  \/ /\ IsCutPublish(stream, QoSOf(control), body, end)
     /\ NoField(end) /\ HasPayloads(stream, end, {})

(* After the length of the topic, that was there.                          *)
LEMMA PublishPosition ==
  ASSUME NEW body \in Nat, NEW end \in Nat, position \in Nat, position <= end,
         PublishPoint(body), todo # PublishFields(QoSOf(control))
  PROVE  body + 2 <= end
BY DEF PublishPoint, Point

LEMMA PublishLength ==
  ASSUME NEW body \in Nat, NEW end \in Nat, end <= Len(stream.bytes), position' <= end,
         SomePublish(body, end), PublishPoint(body),
         Reading("string"), LengthRead(end), UNCHANGED control
  PROVE  /\ FoundSoFar(end)'
         /\ \/ todo' = <<>> /\ HasPayloads(stream, end, {})
            \/ PublishPoint(body)'
<1>0. todo = PublishFields(QoSOf(control)) /\ position = body
  <2>1. todo \notin {ToPayload, AfterTopic, HalfId}
    BY NextRead, PublishLists, Kinds
  <2>2. \A n : todo # Text(n, ToPayload) /\ todo # Text(n, AfterTopic)
    BY NextRead, TextLists, Kinds
  <2> QED
    BY <2>1, <2>2 DEF PublishPoint, Point
<1>1. Types /\ stream' = stream /\ body + 2 <= end
  BY <1>0 DEF LengthRead
<1> PICK topic \in Nat : topic = WordAt(stream, body)
  BY <1>1, WordFacts
<1> PICK qos : qos = QoSOf(control) /\ qos = QoSOf(control')
  OBVIOUS
<1>2. todo \notin {Text(topic, ToPayload), Text(topic, AfterTopic), ToPayload, AfterTopic, HalfId}
  BY NextRead, PublishLists, TextLists, Kinds
<1>3. Point(PublishFields(qos), body, 0, 0)
  BY <1>2 DEF PublishPoint, Point
<1>4. /\ topic > TopicSize => HasPayloads(stream, end, {})
      /\ topic <= TopicSize => FieldIs(stream, end, 1, topic)
  BY FormatAssumption DEF SomePublish, IsPublish, NoField, FieldIs
<1>5. PICK a2, rest : a2 = body + 2 /\ rest = IF qos = 0 THEN ToPayload ELSE AfterTopic
  OBVIOUS
<1>6. /\ FoundSoFar(end)'
      /\ topic > TopicSize => todo' = <<>>
      /\ ~ topic > TopicSize => Point(Text(topic, rest), a2, 0, 1)'
  <2>1. Begins(PublishFields(qos), String(TopicSize), rest) /\ 1 = 0 + 1 /\ a2 = body + 2
    BY <1>5, PublishLists
  <2> QED
    BY ONLY LengthRead(end), topic = WordAt(stream, body), topic \in Nat,
       <1>3, <1>4, <2>1, LengthAtPoint
<1>7. ASSUME Point(Text(topic, rest), a2, 0, 1)', ~ topic > TopicSize
      PROVE  PublishPoint(body)'
  <2>1. topic \in 0 .. TopicSize /\ WordAt(stream, body)' = topic /\ QoSOf(control)' = qos
    BY <1>1, <1>7, FormatAssumption DEF WordAt
  <2> QED
    BY <1>5, <1>7, <2>1 DEF PublishPoint, Point
<1> QED
  BY <1>4, <1>6, <1>7

LEMMA PublishChars ==
  ASSUME NEW body \in Nat, NEW end \in Nat, end <= Len(stream.bytes),
         position \in Nat, position <= end, PublishPoint(body), Reading("chars"),
         Types, UNCHANGED <<stream, control, record>>, FoundSoFar(end),
         position' = position + Head(todo).n, Continue(<<>>)
  PROVE  FoundSoFar(end)' /\ PublishPoint(body)'
<1>1. Types /\ stream' = stream /\ body + 2 <= end
  <2>1. todo # PublishFields(QoSOf(control))
    BY NextRead, PublishLists, Kinds
  <2> QED
    BY <2>1, PublishPosition
<1> PICK topic \in Nat : topic = WordAt(stream, body)
  BY <1>1, WordFacts
<1> PICK qos : qos = QoSOf(control) /\ qos = QoSOf(control')
  OBVIOUS
<1>2. /\ todo # PublishFields(qos) /\ todo # ToPayload
      /\ todo # AfterTopic /\ todo # HalfId
  <2>1. todo # PublishFields(qos)
    BY NextRead, PublishLists, Kinds
  <2>2. todo # ToPayload
    BY NextRead, PublishLists, Kinds
  <2>3. todo # AfterTopic
    BY NextRead, PublishLists, Kinds
  <2>4. todo # HalfId
    BY NextRead, PublishLists, Kinds
  <2> QED
    BY <2>1, <2>2, <2>3, <2>4
<1>3. PICK a2, a3, rest :
        a2 = body + 2 /\ a3 = a2 + topic /\ rest = IF qos = 0 THEN ToPayload ELSE AfterTopic
  OBVIOUS
<1>4. topic \in 0 .. TopicSize /\ Point(Text(topic, rest), a2, 0, 1)
  BY <1>2, <1>3 DEF PublishPoint, Point
<1>5. FoundSoFar(end)' /\ Point(rest, a3, 0, 1)'
  <2>1. Begins(Text(topic, rest), Chars(topic), rest)
    BY <1>3, TextLists
  <2> QED
    BY <1>3, <1>4, <2>1, CharsAtPoint
<1>6. WordAt(stream, body)' = topic /\ QoSOf(control)' = qos
  BY <1>1 DEF WordAt
<1> QED
  BY <1>3, <1>4, <1>5, <1>6 DEF PublishPoint, Point

(* The two bytes of the packet id.                                         *)
LEMMA PublishByte ==
  ASSUME NEW body \in Nat, NEW end \in Nat, end <= Len(stream.bytes),
         position \in Nat, position' <= end, SomePublish(body, end), PublishPoint(body),
         Reading("bytes"), ByteRead(end), UNCHANGED control
  PROVE  FoundSoFar(end)' /\ PublishPoint(body)'
<1>1. Types /\ stream' = stream /\ body + 2 <= end /\ position' = position + 1
  <2>1. todo # PublishFields(QoSOf(control))
    BY NextRead, PublishLists, Kinds
  <2>2. position' = position + 1 /\ position <= end
    BY DEF ByteRead
  <2> QED
    BY <2>1, <2>2, PublishPosition DEF ByteRead
<1> PICK topic \in Nat : topic = WordAt(stream, body)
  BY <1>1, WordFacts
<1> PICK qos : qos = QoSOf(control) /\ qos = QoSOf(control')
  OBVIOUS
<1>2. /\ todo # PublishFields(qos) /\ todo # ToPayload
      /\ todo # Text(topic, ToPayload) /\ todo # Text(topic, AfterTopic)
  BY NextRead, PublishLists, TextLists, Kinds
<1>3. PICK id \in Nat : id = body + 2 + topic
  OBVIOUS
<1>4. PICK i1, i2 \in Nat : i1 = id + 1 /\ i2 = id + 2
  OBVIOUS
<1>5. PICK v : v = stream.bytes[i1] * 256
  OBVIOUS
<1>6. topic \in 0 .. TopicSize /\ qos # 0
  BY <1>2 DEF PublishPoint, Point
<1>7. FieldIs(stream, end, 2, WordAt(stream, id))
  BY <1>3, <1>6, FormatAssumption DEF SomePublish, IsPublish, NoField, FieldIs
<1>8. ASSUME NEW i \in {i1, i2}, i <= end PROVE stream.bytes[i] \in Nat
  <2>1. i \in Nat /\ i >= 1
    BY <1>4
  <2> QED
    BY <1>1, <1>8, <2>1, AByte
<1>9. Point(AfterTopic, id, 0, 1) \/ Point(HalfId, i1, v, 1)
  BY <1>2, <1>3, <1>4, <1>5, <1>6 DEF PublishPoint, Point
<1>10. WordAt(stream, body)' = topic /\ QoSOf(control)' = qos
  BY <1>1 DEF WordAt
<1>11. CASE Point(AfterTopic, id, 0, 1)
  <2>0. i1 <= end
    BY <1>1, <1>4, <1>11 DEF Point
  <2>1. /\ i1 = id + 1 /\ v = stream.bytes[i1] * 256 /\ stream.bytes[i1] \in Nat
        /\ Begins(AfterTopic, Number(2), ToPayload) /\ <<Number(1)>> \o ToPayload = HalfId
    <3>1. stream.bytes[i1] \in Nat
      BY <1>8, <2>0
    <3> QED
      BY <1>4, <1>5, <3>1, PublishLists
  <2>2. FoundSoFar(end)' /\ Point(HalfId, i1, v, 1)'
    BY ONLY ByteRead(end), <1>11, <2>1, FirstAtPoint, ZenonT(60)
  <2>3. /\ i1 = body + 2 + topic + 1 /\ v = stream'.bytes[body + 2 + topic + 1] * 256
        /\ topic \in 0 .. TopicSize /\ WordAt(stream', body) = topic
    BY <1>1, <1>3, <1>4, <1>5, <1>6, <1>10
  <2> QED
    BY <1>6, <1>10, <2>2, <2>3 DEF PublishPoint
<1>12. CASE Point(HalfId, i1, v, 1)
  <2>0. i2 <= end
    BY <1>1, <1>4, <1>12 DEF Point
  <2>1. /\ i1 = id + 1 /\ i2 = id + 2 /\ 2 = 1 + 1 /\ v = stream.bytes[i1] * 256
        /\ Begins(HalfId, Number(1), ToPayload)
        /\ stream.bytes[i2] \in Nat /\ FieldIs(stream, end, 2, WordAt(stream, id))
    <3>1. stream.bytes[i2] \in Nat
      BY <1>8, <2>0
    <3> QED
      BY <1>4, <1>5, <1>7, <3>1, PublishLists
  <2>2. FoundSoFar(end)' /\ Point(ToPayload, i2, 0, 2)'
    BY ONLY ByteRead(end), id \in Nat, <1>12, <2>1, SecondAtPoint
  <2> QED
    BY <1>1, <1>3, <1>4, <1>6, <1>10, <2>2 DEF PublishPoint, Point
<1> QED
  BY <1>9, <1>11, <1>12

(* When nothing but the payload is left, what remains is the payload.      *)
LEMMA PublishPayload ==
  ASSUME NEW body \in Nat, NEW end \in Nat, end <= Len(stream.bytes), Types,
         position \in Nat, position <= end, SomePublish(body, end), PublishPoint(body),
         Reading("payload")
  PROVE  HasPayloads(stream, end,
           {[end |-> end, bytes |-> SubSeq(stream.bytes, position + 1, end)]})
<1>1. body + 2 <= end
  <2>1. todo # PublishFields(QoSOf(control))
    BY NextRead, PublishLists, Kinds
  <2> QED
    BY <2>1, PublishPosition
<1> PICK topic \in Nat : topic = WordAt(stream, body)
  BY <1>1, WordFacts
<1> PICK qos : qos = QoSOf(control)
  OBVIOUS
<1>2. /\ todo # PublishFields(qos) /\ todo # AfterTopic /\ todo # HalfId
      /\ todo # Text(topic, ToPayload) /\ todo # Text(topic, AfterTopic)
  <2>1. todo # PublishFields(qos)
    BY NextRead, PublishLists, Kinds
  <2>2. todo # AfterTopic /\ todo # HalfId
    BY NextRead, PublishLists, Kinds
  <2>3. todo # Text(topic, ToPayload) /\ todo # Text(topic, AfterTopic)
    BY NextRead, TextLists, Kinds
  <2> QED
    BY <2>1, <2>2, <2>3
<1>3. topic <= TopicSize
  BY <1>2 DEF PublishPoint, Point
<1>4. position = IF qos = 0 THEN body + 2 + topic ELSE body + 2 + topic + 2
  BY <1>2 DEF PublishPoint, Point
<1>5. ~ IsCutPublish(stream, QoSOf(control), body, end)
  BY <1>1, <1>3, <1>4, FormatAssumption DEF IsCutPublish
<1> QED
  BY <1>3, <1>4, <1>5, FormatAssumption DEF SomePublish, IsPublish

-----------------------------------------------------------------------------
(* SUBSCRIBE                                                               *)

(* Where topic k, its text, its flags and what follows it are.             *)
TopicLies(end, count, at, k, here, topic, flags, next) ==
  /\ here = at[k] /\ topic = WordAt(stream, here) /\ topic <= TopicSize
  /\ flags = here + 2 + topic /\ next = flags + 1
  /\ k + 1 \in 1 .. count /\ next = at[k + 1] /\ next <= end
  /\ FieldIs(stream, end, 2 * k, topic)
  /\ stream.bytes[next] \in Nat
  /\ FieldIs(stream, end, 2 * k + 1, stream.bytes[next])

LEMMA TopicFacts ==
  ASSUME Types, NEW body \in Nat, NEW end \in Nat, end <= Len(stream.bytes),
         NEW count \in 1 .. end, NEW at \in [1 .. count -> body .. end],
         AreTopics(stream, body, end, count, at), NEW k \in 1 .. count, k < count
  PROVE  \E here, topic, flags, next \in Nat :
           TopicLies(end, count, at, k, here, topic, flags, next)
<1>1. k \in 1 .. count - 1 /\ k + 1 \in 1 .. count
  OBVIOUS
<1>2. at[k] \in body .. end /\ at[k + 1] \in body .. end
  BY <1>1
<1>3. /\ at[k] + 2 <= end
      /\ WordAt(stream, at[k]) <= TopicSize
      /\ at[k + 1] = at[k] + 2 + WordAt(stream, at[k]) + 1
      /\ FieldIs(stream, end, 2 * k, WordAt(stream, at[k]))
      /\ FieldIs(stream, end, 2 * k + 1, stream.bytes[at[k + 1]])
  BY <1>1 DEF AreTopics
<1>4. PICK here, next \in Nat : here = at[k] /\ next = at[k + 1]
  BY <1>2
<1>5. PICK topic \in Nat : topic = WordAt(stream, here)
  <2>1. here + 2 <= end
    BY <1>3, <1>4
  <2> QED
    BY <2>1, WordFacts
<1>6. PICK flags \in Nat : flags = here + 2 + topic
  OBVIOUS
<1>7. next = flags + 1 /\ next <= end /\ next >= 1
  BY <1>2, <1>3, <1>4, <1>5, <1>6
<1>8. stream.bytes[next] \in Nat
  BY <1>7, AByte
<1>9. /\ topic <= TopicSize /\ FieldIs(stream, end, 2 * k, topic)
      /\ FieldIs(stream, end, 2 * k + 1, stream.bytes[next])
  BY <1>3, <1>4, <1>5
<1> QED
  BY <1>1, <1>4, <1>5, <1>6, <1>7, <1>8, <1>9 DEF TopicLies

LEMMA BackToTopics ==
  ASSUME UNCHANGED stream, NEW body \in Nat, NEW end \in Nat,
         NEW count \in 1 .. end, NEW at \in [1 .. count -> body .. end],
         AreTopics(stream, body, end, count, at), NEW k \in 1 .. count,
         TopicPoint(end, count, at, k)'
  PROVE  SubscribePoint(body, end)'
<1>1. AreTopics(stream, body, end, count, at)'
  OBVIOUS
<1> QED
  BY <1>1 DEF SubscribePoint

LEMMA SubscribeLength ==
  ASSUME NEW body \in Nat, NEW end \in Nat, end <= Len(stream.bytes),
         SubscribePoint(body, end), Reading("string"), LengthRead(end)
  PROVE  FoundSoFar(end)' /\ (todo' = <<>> \/ SubscribePoint(body, end)')
<1>1. Types /\ stream' = stream
  BY DEF LengthRead
<1>2. todo \notin {SubscribeFields, OneThenTopics, ToTopics, AfterText}
  BY NextRead, SubscribeLists, Kinds
<1>3. PICK count \in 1 .. end : \E at \in [1 .. count -> body .. end] :
        /\ AreTopics(stream, body, end, count, at)
        /\ \E k \in 1 .. count : TopicPoint(end, count, at, k)
  BY <1>2 DEF SubscribePoint, Point
<1>4. PICK at \in [1 .. count -> body .. end] :
        /\ AreTopics(stream, body, end, count, at)
        /\ \E k \in 1 .. count : TopicPoint(end, count, at, k)
  BY <1>3
<1>5. PICK k \in 1 .. count : TopicPoint(end, count, at, k)
  BY <1>4
<1>6. \A n \in Nat : todo # Text(n, AfterText)
  BY NextRead, TextLists, Kinds
<1>7. CASE k < count
  <2>1. PICK here, topic, flags, next \in Nat :
          TopicLies(end, count, at, k, here, topic, flags, next)
    <3>1. /\ count \in 1 .. end /\ at \in [1 .. count -> body .. end] /\ k \in 1 .. count
          /\ AreTopics(stream, body, end, count, at)
      BY <1>3, <1>4, <1>5
    <3> QED
      BY <1>1, <1>7, <3>1, TopicFacts
  <2>here. /\ here = at[k] /\ topic = WordAt(stream, here) /\ topic <= TopicSize
        /\ FieldIs(stream, end, 2 * k, topic)
    BY <2>1 DEF TopicLies
  <2>2. PICK j, j2, here2 \in Nat : j = 2 * k - 1 /\ j2 = 2 * k /\ here2 = here + 2
    OBVIOUS
  <2>3. Point(TopicFields, here, 0, j)
    BY <1>2, <1>5, <1>6, <2>here, <2>2 DEF TopicPoint, Point
  <2>4. /\ topic \in Nat /\ topic = WordAt(stream, here)
        /\ topic <= TopicSize => FieldIs(stream, end, j2, topic)
        /\ Begins(TopicFields, String(TopicSize), AfterText)
        /\ j2 = j + 1 /\ here2 = here + 2
    BY <2>here, <2>2, SubscribeLists
  <2>5. /\ FoundSoFar(end)'
        /\ ~ topic > TopicSize => Point(Text(topic, AfterText), here2, 0, j2)'
    BY ONLY LengthRead(end), <2>3, <2>4, LengthAtPoint
  <2>6. Point(Text(topic, AfterText), here2, 0, j2)'
    <3>1. ~ topic > TopicSize
      BY <2>here, FormatAssumption
    <3> QED
      BY <2>5, <3>1
  <2>7. WordAt(stream, at[k])' = topic
    BY <1>1, <2>here DEF WordAt
  <2>8. TopicPoint(end, count, at, k)'
    BY <1>7, <2>here, <2>2, <2>6, <2>7 DEF TopicPoint, Point
  <2>9. SubscribePoint(body, end)'
    BY <1>1, <1>4, <2>8, BackToTopics
  <2> QED
    BY <2>5, <2>9
<1>8. CASE k = count
  <2>1. PICK here, here2 \in Nat : here = at[k] /\ here2 = here + 2
    BY <1>4
  <2>2. PICK j, j2 \in Nat : j = 2 * k - 1 /\ j2 = j + 1
    OBVIOUS
  <2>3. here # end /\ Point(TopicFields, here, 0, j)
    BY <1>2, <1>5, <1>8, <2>1, <2>2 DEF TopicPoint, Point
  <2>4. here + 2 <= end /\ WordAt(stream, here) > TopicSize
    BY <1>4, <1>8, <2>1, <2>3 DEF AreTopics
  <2>5. PICK topic \in Nat : topic = WordAt(stream, here)
    BY <1>1, <2>4, WordFacts
  <2>6. /\ topic \in Nat /\ topic = WordAt(stream, here)
        /\ topic <= TopicSize => FieldIs(stream, end, j2, topic)
        /\ Begins(TopicFields, String(TopicSize), AfterText)
        /\ j2 = j + 1 /\ here2 = here + 2
    BY <2>1, <2>2, <2>4, <2>5, FormatAssumption, SubscribeLists
  <2>7. FoundSoFar(end)' /\ (topic > TopicSize => todo' = <<>>)
    BY ONLY LengthRead(end), <2>3, <2>6, LengthAtPoint
  <2> QED
    BY <2>4, <2>5, <2>7
<1> QED
  BY <1>7, <1>8

(* The reader is between the length of a topic and its flags.              *)
InTopic(body, end, count, at, k, here, topic, flags, next) ==
  /\ count \in 1 .. end /\ at \in [1 .. count -> body .. end]
  /\ AreTopics(stream, body, end, count, at)
  /\ k \in 1 .. count /\ k < count
  /\ here \in Nat /\ topic \in Nat /\ flags \in Nat /\ next \in Nat
  /\ TopicLies(end, count, at, k, here, topic, flags, next)
  /\ \/ Point(Text(topic, AfterText), here + 2, 0, 2 * k)
     \/ Point(AfterText, flags, 0, 2 * k)
     \/ Point(OneThenTopics, flags, 0, 2 * k)

LEMMA WhichTopic ==
  ASSUME Types,
         NEW body \in Nat, NEW end \in Nat, end <= Len(stream.bytes),
         SubscribePoint(body, end),
         ~ Point(SubscribeFields, body, 0, 0),
         ~ Point(OneThenTopics, body + 1, stream.bytes[body + 1] * 256, 0),
         todo \notin {ToTopics, TopicFields}
  PROVE  \E count, at, k, here, topic, flags, next :
           InTopic(body, end, count, at, k, here, topic, flags, next)
<1>2. PICK count \in 1 .. end : \E at \in [1 .. count -> body .. end] :
        /\ AreTopics(stream, body, end, count, at)
        /\ \E k \in 1 .. count : TopicPoint(end, count, at, k)
  BY DEF SubscribePoint
<1>3. PICK at \in [1 .. count -> body .. end] :
        /\ AreTopics(stream, body, end, count, at)
        /\ \E k \in 1 .. count : TopicPoint(end, count, at, k)
  BY <1>2
<1>4. PICK k \in 1 .. count : TopicPoint(end, count, at, k)
  BY <1>3
<1>5. k < count
  BY <1>4 DEF TopicPoint, Point
<1>6. PICK here, topic, flags, next \in Nat :
        TopicLies(end, count, at, k, here, topic, flags, next)
  <2>1. /\ count \in 1 .. end /\ at \in [1 .. count -> body .. end] /\ k \in 1 .. count
        /\ AreTopics(stream, body, end, count, at)
    BY <1>2, <1>3, <1>4
  <2> QED
    BY <1>5, <2>1, TopicFacts
<1>7. here = at[k] /\ topic = WordAt(stream, here) /\ flags = here + 2 + topic
  BY <1>6 DEF TopicLies
<1>8. \/ Point(Text(topic, AfterText), here + 2, 0, 2 * k)
      \/ Point(AfterText, flags, 0, 2 * k)
      \/ Point(OneThenTopics, flags, 0, 2 * k)
  BY <1>4, <1>7 DEF TopicPoint, Point
<1> QED
  <2>1. InTopic(body, end, count, at, k, here, topic, flags, next)
    BY <1>2, <1>3, <1>4, <1>5, <1>6, <1>8 DEF InTopic
  <2> QED
    BY <2>1

LEMMA SubscribeChars ==
  ASSUME NEW body \in Nat, NEW end \in Nat, end <= Len(stream.bytes),
         SubscribePoint(body, end), Reading("chars"),
         Types, UNCHANGED <<stream, record>>, FoundSoFar(end),
         position' = position + Head(todo).n, Continue(<<>>)
  PROVE  FoundSoFar(end)' /\ SubscribePoint(body, end)'
<1>1. todo \notin {SubscribeFields, ToTopics, TopicFields, AfterText, OneThenTopics}
  BY NextRead, SubscribeLists, Kinds
<1>2. PICK count, at, k, here, topic, flags, next :
        InTopic(body, end, count, at, k, here, topic, flags, next)
  BY <1>1, WhichTopic DEF Point
<1>3. /\ count \in 1 .. end /\ at \in [1 .. count -> body .. end] /\ k \in 1 .. count
      /\ AreTopics(stream, body, end, count, at) /\ k < count
      /\ here \in Nat /\ topic \in Nat
      /\ here = at[k] /\ topic = WordAt(stream, here) /\ flags = here + 2 + topic
  BY <1>2 DEF InTopic, TopicLies
<1>4. PICK here2, j : here2 = here + 2 /\ j = 2 * k
  OBVIOUS
<1>5. Point(Text(topic, AfterText), here2, 0, j) /\ flags = here2 + topic
  BY <1>1, <1>2, <1>3, <1>4 DEF InTopic, Point
<1>6. FoundSoFar(end)' /\ Point(AfterText, flags, 0, j)'
  <2>1. Begins(Text(topic, AfterText), Chars(topic), AfterText)
    BY <1>3, TextLists
  <2> QED
    BY <1>3, <1>5, <2>1, CharsAtPoint
<1>7. WordAt(stream, at[k])' = topic
  BY <1>3 DEF WordAt
<1>8. TopicPoint(end, count, at, k)'
  BY <1>3, <1>4, <1>6, <1>7 DEF TopicPoint, Point
<1> QED
  BY <1>3, <1>6, <1>8, BackToTopics

LEMMA SubscribeCallback ==
  ASSUME NEW body \in Nat, NEW end \in Nat, end <= Len(stream.bytes),
         SubscribePoint(body, end), Reading("callback"),
         Types, UNCHANGED <<stream, position, record>>, FoundSoFar(end), Continue(<<>>)
  PROVE  FoundSoFar(end)' /\ SubscribePoint(body, end)'
<1>1. /\ todo \notin {SubscribeFields, ToTopics, TopicFields, OneThenTopics}
      /\ \A n \in Nat : todo # Text(n, AfterText)
  <2>1. todo \notin {SubscribeFields, ToTopics, TopicFields, OneThenTopics}
    BY NextRead, SubscribeLists, Kinds
  <2>2. \A n \in Nat : todo # Text(n, AfterText)
    BY NextRead, TextLists, Kinds
  <2> QED
    BY <2>1, <2>2
<1>2. PICK count, at, k, here, topic, flags, next :
        InTopic(body, end, count, at, k, here, topic, flags, next)
  BY <1>1, WhichTopic DEF Point
<1>3. /\ count \in 1 .. end /\ at \in [1 .. count -> body .. end] /\ k \in 1 .. count
      /\ AreTopics(stream, body, end, count, at) /\ k < count
      /\ here \in Nat /\ topic \in Nat
      /\ here = at[k] /\ topic = WordAt(stream, here) /\ flags = here + 2 + topic
  BY <1>2 DEF InTopic, TopicLies
<1>4. Point(AfterText, flags, 0, 2 * k)
  BY <1>1, <1>2, <1>3 DEF InTopic, Point
<1>5. todo' = OneThenTopics
  <2>1. todo # <<>> /\ Tail(todo) = OneThenTopics
    BY <1>4, SubscribeLists DEF Point, Begins
  <2> QED
    BY <2>1, NextField DEF Continue
<1>6. Point(OneThenTopics, flags, 0, 2 * k)'
  BY <1>4, <1>5 DEF Point, record
<1>7. WordAt(stream, at[k])' = topic
  BY <1>3 DEF WordAt
<1>8. TopicPoint(end, count, at, k)'
  BY <1>3, <1>6, <1>7 DEF TopicPoint, Point
<1>9. FoundSoFar(end)'
  BY FoundSame DEF record
<1> QED
  BY <1>3, <1>8, <1>9, BackToTopics

(* The loop has more to read unless the packet has no more.                *)
LEMMA SubscribeLoop ==
  ASSUME NEW body \in Nat, NEW end \in Nat, end <= Len(stream.bytes),
         SubscribePoint(body, end), Reading("topics"),
         Types, UNCHANGED <<stream, position, record>>, FoundSoFar(end),
         NEW n, n > 0 <=> position # end,
         Continue(IF n > 0 THEN TopicFields ELSE <<>>)
  PROVE  FoundSoFar(end)' /\ (todo' = <<>> \/ SubscribePoint(body, end)')
<1>1. todo \notin {SubscribeFields, TopicFields, AfterText, OneThenTopics}
  BY NextRead, SubscribeLists, Kinds
<1>2. \A m \in Nat : todo # Text(m, AfterText)
  BY NextRead, TextLists, Kinds
<1>3. PICK count \in 1 .. end : \E at \in [1 .. count -> body .. end] :
        /\ AreTopics(stream, body, end, count, at)
        /\ \E k \in 1 .. count : TopicPoint(end, count, at, k)
  BY <1>1 DEF SubscribePoint, Point
<1>4. PICK at \in [1 .. count -> body .. end] :
        /\ AreTopics(stream, body, end, count, at)
        /\ \E k \in 1 .. count : TopicPoint(end, count, at, k)
  BY <1>3
<1>5. PICK k \in 1 .. count : TopicPoint(end, count, at, k)
  BY <1>4
<1>6. Point(ToTopics, at[k], 0, 2 * k - 1)
  <2>1. CASE k < count
    <3>1. /\ count \in 1 .. end /\ at \in [1 .. count -> body .. end] /\ k \in 1 .. count
          /\ AreTopics(stream, body, end, count, at)
      BY <1>3, <1>4, <1>5
    <3>2. PICK here, topic, flags, next \in Nat :
            TopicLies(end, count, at, k, here, topic, flags, next)
      BY <2>1, <3>1, TopicFacts
    <3>3. WordAt(stream, at[k]) \in Nat
      BY <3>2 DEF TopicLies
    <3> QED
      BY <1>1, <1>2, <1>5, <3>3 DEF TopicPoint, Point
  <2>2. CASE ~ k < count
    BY <1>1, <1>5, <2>2 DEF TopicPoint, Point
  <2> QED
    BY <2>1, <2>2
<1>7. todo # <<>> /\ Tail(todo) = <<>>
  BY <1>6, SubscribeLists DEF Point, Begins
<1>8. FoundSoFar(end)'
  BY FoundSame DEF record
<1>9. CASE n > 0
  <2>1. todo' = TopicFields
    <3>1. TopicFields \o <<>> = TopicFields
      BY Concats DEF TopicFields
    <3> QED
      BY <1>7, <1>9, <3>1 DEF Continue
  <2>2. at[k] # end /\ Point(TopicFields, at[k], 0, 2 * k - 1)'
    BY <1>6, <1>9, <2>1 DEF Point, record
  <2>3. TopicPoint(end, count, at, k)'
    BY <2>2 DEF TopicPoint
  <2> QED
    BY <1>3, <1>4, <1>5, <1>8, <2>3, BackToTopics
<1>10. CASE ~ n > 0
  <2>1. todo' = <<>> \o <<>>
    BY <1>7, <1>10 DEF Continue
  <2> QED
    BY <1>8, <2>1
<1> QED
  BY <1>9, <1>10

LEMMA SubscribeByte ==
  ASSUME NEW body \in Nat, NEW end \in Nat, end <= Len(stream.bytes),
         IsSubscribe(stream, body, end), SubscribePoint(body, end),
         Reading("bytes"), ByteRead(end)
  PROVE  FoundSoFar(end)' /\ SubscribePoint(body, end)'
<1>1. Types /\ FoundSoFar(end) /\ stream' = stream /\ body + 2 <= end
  BY DEF ByteRead, IsSubscribe
<1>2. PICK b1, b2 \in Nat : b1 = body + 1 /\ b2 = body + 2
  OBVIOUS
<1>3. stream.bytes[b1] \in Nat /\ stream.bytes[b2] \in Nat
  BY <1>1, <1>2, AByte
<1>4. PICK v : v = stream.bytes[b1] * 256
  OBVIOUS
<1>5. CASE Point(SubscribeFields, body, 0, 0)
  <2>1. /\ b1 = body + 1 /\ v = stream.bytes[b1] * 256 /\ stream.bytes[b1] \in Nat
        /\ Begins(SubscribeFields, Number(2), ToTopics)
        /\ <<Number(1)>> \o ToTopics = OneThenTopics
    BY <1>2, <1>3, <1>4, SubscribeLists
  <2>2. FoundSoFar(end)' /\ Point(OneThenTopics, b1, v, 0)'
    BY ONLY ByteRead(end), <1>5, <2>1, FirstAtPoint, ZenonT(60)
  <2> QED
    BY <1>1, <1>2, <1>4, <2>2 DEF SubscribePoint, Point
<1>6. CASE Point(OneThenTopics, b1, v, 0)
  <2>1. PICK count \in 1 .. end : \E at \in [1 .. count -> body .. end] :
          AreTopics(stream, body, end, count, at)
    BY DEF IsSubscribe
  <2>2. PICK at \in [1 .. count -> body .. end] : AreTopics(stream, body, end, count, at)
    BY <2>1
  <2>3. at[1] = b2 /\ FieldIs(stream, end, 1, WordAt(stream, body))
    BY <1>2, <2>2 DEF AreTopics
  <2>4. /\ b1 = body + 1 /\ b2 = body + 2 /\ 1 = 0 + 1 /\ v = stream.bytes[b1] * 256
        /\ Begins(OneThenTopics, Number(1), ToTopics)
        /\ stream.bytes[b2] \in Nat /\ FieldIs(stream, end, 1, WordAt(stream, body))
    BY <1>2, <1>3, <1>4, <2>3, SubscribeLists
  <2>5. FoundSoFar(end)' /\ Point(ToTopics, b2, 0, 1)'
    BY ONLY ByteRead(end), body \in Nat, <1>6, <2>4, SecondAtPoint
  <2>6. 1 \in 1 .. count
    BY <2>1
  <2>7. TopicPoint(end, count, at, 1)'
    BY <2>3, <2>5 DEF TopicPoint, Point
  <2> QED
    BY <1>1, <2>1, <2>2, <2>5, <2>6, <2>7, BackToTopics
<1>7. CASE ~ Point(SubscribeFields, body, 0, 0) /\ ~ Point(OneThenTopics, b1, v, 0)
  <2>1. todo \notin {ToTopics, TopicFields, AfterText}
    BY NextRead, SubscribeLists, Kinds
  <2>2. \A n \in Nat : todo # Text(n, AfterText)
    BY NextRead, TextLists, Kinds
  <2>3. /\ ~ Point(SubscribeFields, body, 0, 0)
        /\ ~ Point(OneThenTopics, body + 1, stream.bytes[body + 1] * 256, 0)
    BY <1>2, <1>4, <1>7
  <2>4. PICK count, at, k, here, topic, flags, next :
          InTopic(body, end, count, at, k, here, topic, flags, next)
    BY <1>1, <2>1, <2>3, WhichTopic
  <2>5. /\ count \in 1 .. end /\ at \in [1 .. count -> body .. end] /\ k \in 1 .. count
        /\ AreTopics(stream, body, end, count, at) /\ k < count
        /\ topic \in Nat /\ flags \in Nat /\ next \in Nat
        /\ next = flags + 1 /\ k + 1 \in 1 .. count /\ next = at[k + 1]
        /\ stream.bytes[next] \in Nat /\ FieldIs(stream, end, 2 * k + 1, stream.bytes[next])
    BY <2>4 DEF InTopic, TopicLies
  <2>6. PICK j, j2, k2 \in Nat : j = 2 * k /\ j2 = 2 * k + 1 /\ k2 = k + 1
    BY <2>5
  <2>7. Point(OneThenTopics, flags, 0, j)
    BY <2>1, <2>2, <2>4, <2>5, <2>6 DEF InTopic, Point
  <2>8. /\ next = flags + 1 /\ j2 = j + 1 /\ Begins(OneThenTopics, Number(1), ToTopics)
        /\ stream.bytes[next] \in Nat /\ FieldIs(stream, end, j2, stream.bytes[next])
    BY <2>5, <2>6, SubscribeLists
  <2>9. FoundSoFar(end)' /\ Point(ToTopics, next, 0, j2)'
    BY ONLY ByteRead(end), <2>7, <2>8, ByteAtPoint
  <2>10. k2 \in 1 .. count /\ TopicPoint(end, count, at, k2)'
    BY <2>5, <2>6, <2>9 DEF TopicPoint, Point
  <2> QED
    BY <1>1, <2>5, <2>9, <2>10, BackToTopics
<1> QED
  BY <1>5, <1>6, <1>7

-----------------------------------------------------------------------------
(* The steps of a handler                                                  *)

LEMMA TypesDiffer ==
  PUBLISH \notin {CONNECT, CONNACK, SUBSCRIBE, SUBACK}
BY DEF PUBLISH, CONNECT, CONNACK, SUBSCRIBE, SUBACK

LEMMA DoneWithoutPayload ==
  ASSUME Types, NEW start \in Nat, NEW body \in Nat, NEW end \in Nat,
         InPacket(start, body, end), UNCHANGED <<stream, link, stored>>, todo' = <<>>,
         HasPayloads(stream, end, {})
  PROVE  Done(end)'
<1>1. stream \in Streams /\ IsPacket(stream, start, body, end)
  BY DEF Types, TypeOK, InPacket
<1>2. link = "up" => StoredUpTo(end)
  BY <1>1, NothingToStore DEF InPacket
<1> QED
  BY <1>2 DEF Done, StoredUpTo

(* Nobody reads the fields of the other packets.                           *)
LEMMA OtherKinds ==
  ASSUME OtherPoint, NEW kind, Reading(kind)
  PROVE  kind \in {"dump", "drain"}
BY DEF OtherPoint, Point, Reading, Field

LEMMA BrokenFacts ==
  ASSUME NEW body, NEW end, IsBroken(stream, control, body, end)
  PROVE  /\ NoField(end) /\ HasPayloads(stream, end, {})
         /\ TypeOf(control) = PUBLISH => IsCutPublish(stream, QoSOf(control), body, end)
BY TypesDiffer DEF IsBroken, NoField

LEMMA PacketInBytes ==
  ASSUME Types, NEW start \in Nat, NEW body \in Nat, NEW end \in Nat,
         InPacket(start, body, end)
  PROVE  /\ end <= Len(stream.bytes)
         /\ TypeOf(control) # PUBLISH => HasPayloads(stream, end, {})
         /\ Known(body, end) =>
              /\ TypeOf(control) = CONNECT   => IsConnect(stream, body, end)
              /\ TypeOf(control) = CONNACK   => IsConnectAck(stream, body, end)
              /\ TypeOf(control) = PUBLISH   => SomePublish(body, end)
              /\ TypeOf(control) = SUBSCRIBE => IsSubscribe(stream, body, end)
              /\ TypeOf(control) = SUBACK    => IsSubscribeAck(stream, body, end)
<1>1. stream \in Streams /\ IsPacket(stream, start, body, end)
  BY DEF Types, TypeOK, InPacket
<1>2. end <= Len(stream.bytes)
  BY <1>1, PacketFacts
<1>3. TypeOf(control) # PUBLISH => HasPayloads(stream, end, {})
  BY BrokenFacts DEF InPacket, IsBody
<1>4. TypeOf(control) = PUBLISH /\ Known(body, end) => SomePublish(body, end)
  BY BrokenFacts DEF Known, SomePublish, IsBody
<1>5. TypeOf(control) # PUBLISH /\ Known(body, end) => IsBody(stream, control, body, end)
  BY DEF Known
<1> QED
  BY <1>2, <1>3, <1>4, <1>5, TypesDiffer DEF IsBody

(* A read that is off the track stays so.                                  *)
LEMMA StaysOff ==
  ASSUME Types, NEW body, NEW end, OffTrack(body, end), todo # <<>>,
         UNCHANGED <<stream, control>>,
         NEW next \in Seq(NoPayload), Continue(next) \/ Fail
  PROVE  OffTrack(body, end)'
<1>1. Tail(todo) \in Seq(NoPayload) /\ <<>> \in Seq(NoPayload)
  BY HeadTailProperties DEF OffTrack
<1>2. next \o Tail(todo) \in Seq(NoPayload)
  BY <1>1, ConcatProperties
<1> QED
  BY <1>1, <1>2 DEF OffTrack, Continue, Fail

LEMMA NotPayloads ==
  /\ <<>> \in Seq(NoPayload) /\ TopicFields \in Seq(NoPayload)
  /\ <<Number(1)>> \in Seq(NoPayload)
  /\ \A n \in Nat : <<Chars(n)>> \in Seq(NoPayload)
<1>1. /\ String(TopicSize) \in NoPayload /\ Field("callback", 0) \in NoPayload
      /\ Number(1) \in NoPayload /\ Field("topics", 0) \in NoPayload
      /\ \A n \in Nat : Chars(n) \in NoPayload
  BY FormatAssumption DEF NoPayload, FieldType, String, Number, Chars, Field
<1> QED
  BY <1>1 DEF TopicFields

LEMMA ByteOnTrack ==
  ASSUME Reading("bytes"), UNCHANGED <<link, control, stored>>,
         NEW start \in Nat, NEW body \in Nat, NEW end \in Nat,
         InPacket(start, body, end), OnTrack(body, end), ByteRead(end),
         position \in Nat, position' <= end
  PROVE  OnTrack(body, end)'
<1> DEFINE type == TypeOf(control)
<1>1. Types /\ stream' = stream /\ todo # <<>> /\ TypeOf(control)' = type
  BY DEF ByteRead, Reading
<1>known. Known(body, end) /\ Known(body, end)'
  BY <1>1 DEF OnTrack, Known
<1>2. end <= Len(stream.bytes)
  BY <1>1, PacketInBytes
<1>3. ASSUME todo' = <<>>, type # PUBLISH PROVE Done(end)'
  BY <1>1, <1>3, PacketInBytes, DoneWithoutPayload
<1>4. AtPoint(body, end)
  BY <1>1 DEF OnTrack, Done
<1>5. CASE type = CONNECT /\ ConnectPoint(body)
  <2>1. IsConnect(stream, body, end)
    BY <1>1, <1>5, <1>known, PacketInBytes
  <2>2. FoundSoFar(end)' /\ (todo' = <<>> \/ ConnectPoint(body)')
    BY <1>2, <1>5, <2>1, ConnectByte
  <2> QED
    BY <1>1, <1>known, <1>3, <1>5, <2>2, TypesDiffer DEF OnTrack, AtPoint
<1>6. CASE type = CONNACK /\ ConnectAckPoint(body)
  <2>1. IsConnectAck(stream, body, end)
    BY <1>1, <1>6, <1>known, PacketInBytes
  <2>2. FoundSoFar(end)' /\ (todo' = <<>> \/ ConnectAckPoint(body)')
    BY <1>2, <1>6, <2>1, ConnectAckByte
  <2> QED
    BY <1>1, <1>known, <1>3, <1>6, <2>2, TypesDiffer DEF OnTrack, AtPoint
<1>7. CASE type = PUBLISH /\ PublishPoint(body)
  <2>1. SomePublish(body, end)
    BY <1>1, <1>7, <1>known, PacketInBytes
  <2>2. FoundSoFar(end)' /\ PublishPoint(body)'
    BY <1>1, <1>2, <1>7, <2>1, PublishByte
  <2> QED
    BY <1>1, <1>known, <1>7, <2>2 DEF OnTrack, AtPoint
<1>8. CASE type = SUBSCRIBE /\ SubscribePoint(body, end)
  <2>1. IsSubscribe(stream, body, end)
    BY <1>1, <1>8, <1>known, PacketInBytes
  <2>2. FoundSoFar(end)' /\ SubscribePoint(body, end)'
    BY <1>2, <1>8, <2>1, SubscribeByte
  <2> QED
    BY <1>1, <1>known, <1>8, <2>2 DEF OnTrack, AtPoint
<1>9. CASE type = SUBACK /\ SubscribeAckPoint(body)
  <2>1. IsSubscribeAck(stream, body, end)
    BY <1>1, <1>9, <1>known, PacketInBytes
  <2>2. FoundSoFar(end)' /\ (todo' = <<>> \/ SubscribeAckPoint(body)')
    BY <1>2, <1>9, <2>1, SubscribeAckByte
  <2> QED
    BY <1>1, <1>known, <1>3, <1>9, <2>2, TypesDiffer DEF OnTrack, AtPoint
<1>10. ~ OtherPoint
  BY OtherKinds
<1> QED
  BY <1>4, <1>5, <1>6, <1>7, <1>8, <1>9, <1>10 DEF AtPoint

LEMMA ReadByteKeeps ==
  ASSUME Inv, ReadByte
  PROVE  Inv'
<1>1. /\ Types /\ remaining # <<>> /\ Reading("bytes") /\ pc = "reading"
      /\ UNCHANGED <<stream, link, pc, header, stored>>
  BY DEF Inv, Remains, ReadByte, Reading
<1>2. PICK start, body, end \in Nat : InPacket(start, body, end)
  BY <1>1 DEF Inv, InSomePacket
<1>3. bytes_remaining \in Nat /\ position \in Nat /\ end <= Len(stream.bytes)
  BY <1>1, <1>2, BytesRemainingFacts, PacketInBytes
<1>4. position + bytes_remaining = end
  BY <1>1, <1>2 DEF InPacket, InBody
<1>5. CASE Take(1) /\ PutByte(stream.bytes[position + 1])
  <2>1. stream.bytes[position + 1] \in Nat
    <3>1. position + 1 \in Nat /\ position + 1 >= 1 /\ position + 1 <= end
      BY <1>3, <1>4, <1>5 DEF Take
    <3> QED
      BY <1>1, <1>3, <3>1, AByte
  <2>2. todo' \in Seq(FieldType) /\ value' \in Nat /\ fields' \in Seq(Nat)
    BY <1>1, <1>5, <2>1, NumberTypes
  <2>3. Lost \/ OnTrack(body, end)' \/ OffTrack(body, end)'
    <3>0. CASE OffTrack(body, end)
      <4>1. Continue(<<>>) \/ Continue(<<Number(1)>>)
        <5>1. Head(todo).n \in {1, 2}
          BY <1>1, NextField DEF Reading, FieldType
        <5>2. Head(todo).n - 1 = 0 \/ Head(todo).n - 1 = 1
          BY <5>1
        <5> QED
          BY <1>5, <5>2 DEF PutByte
      <4> QED
        BY <1>1, <3>0, <4>1, StaysOff, NotPayloads DEF header, Reading
    <3>1. SUFFICES ASSUME OnTrack(body, end) PROVE OnTrack(body, end)'
      BY <1>1, <1>2, <3>0 DEF InPacket, InBody
    <3>2. ByteRead(end)
      BY <1>1, <1>5, <3>1 DEF ByteRead, OnTrack, Take
    <3> QED
      <4>1. position' <= end
        BY <1>3, <1>4, <1>5 DEF Take
      <4> QED
        BY <1>1, <1>2, <1>3, <3>1, <3>2, <4>1, ByteOnTrack DEF header
  <2> QED
    BY <1>1, <1>2, <1>5, <2>2, <2>3, ReadingStep DEF Types
<1>6. CASE TakeFails(1) /\ PutByte(0)
  <2>1. todo' \in Seq(FieldType) /\ value' \in Nat /\ fields' \in Seq(Nat)
    BY <1>1, <1>6, NumberTypes
  <2>2. Lost'
    BY <1>1, <1>6, FailingIsLost
  <2> QED
    BY <1>1, <1>2, <1>6, <2>1, <2>2, ReadingStep DEF Types
<1> QED
  BY <1>5, <1>6 DEF ReadByte, Bytes

LEMMA LengthOnTrack ==
  ASSUME Reading("string"), UNCHANGED <<link, control, stored>>,
         NEW start \in Nat, NEW body \in Nat, NEW end \in Nat,
         InPacket(start, body, end), OnTrack(body, end), LengthRead(end),
         position' <= end
  PROVE  OnTrack(body, end)'
<1> DEFINE type == TypeOf(control)
<1>1. Types /\ stream' = stream /\ todo # <<>> /\ TypeOf(control)' = type
  BY DEF LengthRead, Reading
<1>known. Known(body, end) /\ Known(body, end)'
  BY <1>1 DEF OnTrack, Known
<1>2. end <= Len(stream.bytes)
  BY <1>1, PacketInBytes
<1>3. ASSUME todo' = <<>>, HasPayloads(stream, end, {}) PROVE Done(end)'
  BY <1>1, <1>3, DoneWithoutPayload
<1>4. AtPoint(body, end)
  BY <1>1 DEF OnTrack, Done
<1>5. CASE type = CONNECT /\ ConnectPoint(body)
  <2>1. IsConnect(stream, body, end) /\ HasPayloads(stream, end, {})
    BY <1>1, <1>5, <1>known, PacketInBytes, TypesDiffer
  <2>2. FoundSoFar(end)' /\ (todo' = <<>> \/ ConnectPoint(body)')
    BY <1>2, <1>5, <2>1, ConnectLength
  <2> QED
    BY <1>1, <1>known, <1>3, <1>5, <2>1, <2>2 DEF OnTrack, AtPoint
<1>6. CASE type = CONNACK /\ ConnectAckPoint(body)
  BY <1>6, NextRead, AckLists, Kinds DEF ConnectAckPoint, Point
<1>7. CASE type = PUBLISH /\ PublishPoint(body)
  <2>1. SomePublish(body, end)
    BY <1>1, <1>7, <1>known, PacketInBytes
  <2>2. /\ FoundSoFar(end)'
        /\ \/ todo' = <<>> /\ HasPayloads(stream, end, {})
           \/ PublishPoint(body)'
    BY <1>2, <1>7, <2>1, PublishLength
  <2> QED
    BY <1>1, <1>known, <1>3, <1>7, <2>2 DEF OnTrack, AtPoint
<1>8. CASE type = SUBSCRIBE /\ SubscribePoint(body, end)
  <2>1. HasPayloads(stream, end, {})
    BY <1>1, <1>8, <1>known, PacketInBytes, TypesDiffer
  <2>2. FoundSoFar(end)' /\ (todo' = <<>> \/ SubscribePoint(body, end)')
    BY <1>2, <1>8, SubscribeLength
  <2> QED
    BY <1>1, <1>known, <1>3, <1>8, <2>1, <2>2 DEF OnTrack, AtPoint
<1>9. CASE type = SUBACK /\ SubscribeAckPoint(body)
  BY <1>9, NextRead, AckLists, Kinds DEF SubscribeAckPoint, Point
<1>10. ~ OtherPoint
  BY OtherKinds
<1> QED
  BY <1>4, <1>5, <1>6, <1>7, <1>8, <1>9, <1>10 DEF AtPoint

LEMMA CharsOnTrack ==
  ASSUME Reading("chars"), UNCHANGED <<stream, link, control, record, stored>>, Types,
         NEW start \in Nat, NEW body \in Nat, NEW end \in Nat,
         InPacket(start, body, end), OnTrack(body, end), position \in Nat, position <= end,
         position' = position + Head(todo).n, Continue(<<>>)
  PROVE  OnTrack(body, end)'
<1> DEFINE type == TypeOf(control)
<1>1. todo # <<>> /\ TypeOf(control)' = type /\ FoundSoFar(end)
  BY DEF OnTrack, Reading
<1>known. Known(body, end) /\ Known(body, end)'
  BY <1>1 DEF OnTrack, Known
<1>2. end <= Len(stream.bytes)
  BY PacketInBytes
<1>3. AtPoint(body, end)
  BY <1>1 DEF OnTrack, Done
<1>4. CASE type = CONNECT /\ ConnectPoint(body)
  <2>1. IsConnect(stream, body, end)
    BY <1>4, <1>known, PacketInBytes
  <2>2. FoundSoFar(end)' /\ ConnectPoint(body)'
    BY <1>1, <1>2, <1>4, <2>1, ConnectChars
  <2> QED
    BY <1>1, <1>known, <1>4, <2>2 DEF OnTrack, AtPoint
<1>5. CASE type = CONNACK /\ ConnectAckPoint(body)
  BY <1>5, NextRead, AckLists, Kinds DEF ConnectAckPoint, Point
<1>6. CASE type = PUBLISH /\ PublishPoint(body)
  <2>2. FoundSoFar(end)' /\ PublishPoint(body)'
    BY <1>1, <1>2, <1>6, PublishChars
  <2> QED
    BY <1>1, <1>known, <1>6, <2>2 DEF OnTrack, AtPoint
<1>7. CASE type = SUBSCRIBE /\ SubscribePoint(body, end)
  <2>1. FoundSoFar(end)' /\ SubscribePoint(body, end)'
    BY <1>1, <1>2, <1>7, SubscribeChars
  <2> QED
    BY <1>1, <1>known, <1>7, <2>1 DEF OnTrack, AtPoint
<1>8. CASE type = SUBACK /\ SubscribeAckPoint(body)
  <2>1. todo \notin {SubscribeAckFields, ConnectAckFields, OneByte}
    BY NextRead, AckLists, Kinds
  <2> QED
    BY <1>8, <2>1 DEF SubscribeAckPoint, Point
<1>9. ~ OtherPoint
  BY OtherKinds
<1> QED
  BY <1>3, <1>4, <1>5, <1>6, <1>7, <1>8, <1>9 DEF AtPoint

LEMMA ReadLengthKeeps ==
  ASSUME Inv, ReadLength
  PROVE  Inv'
<1> DEFINE length == stream.bytes[position + 1] * 256 + stream.bytes[position + 2]
<1>1. /\ Types /\ remaining # <<>> /\ Reading("string") /\ pc = "reading" /\ todo # <<>>
      /\ UNCHANGED <<stream, link, pc, header, stored>>
  BY DEF Inv, Remains, ReadLength, Reading
<1>2. PICK start, body, end \in Nat : InPacket(start, body, end)
  BY <1>1 DEF Inv, InSomePacket
<1>3. bytes_remaining \in Nat /\ position \in Nat /\ end <= Len(stream.bytes)
  BY <1>1, <1>2, BytesRemainingFacts, PacketInBytes
<1>4. position + bytes_remaining = end
  BY <1>1, <1>2 DEF InPacket, InBody
<1>5. value \in Nat /\ fields \in Seq(Nat) /\ <<>> \in Seq(FieldType)
  BY <1>1 DEF Types, TypeOK
<1>6. ASSUME Take(2),
             IF length > Head(todo).n THEN Fail /\ UNCHANGED record
             ELSE Continue(<<Chars(length)>>) /\ Found(length)
      PROVE  Inv'
  <2>1. length \in Nat
    <3>1. position + 1 <= end /\ position + 2 <= end
      BY <1>3, <1>4, <1>6 DEF Take
    <3>2. stream.bytes[position + 1] \in Nat /\ stream.bytes[position + 2] \in Nat
      BY <1>1, <1>3, <3>1, AByte
    <3> QED
      BY <3>2
  <2>2. Lost \/ OnTrack(body, end)' \/ OffTrack(body, end)'
    <3>0. CASE OffTrack(body, end)
      <4>1. Fail \/ Continue(<<Chars(length)>>)
        BY <1>6
      <4>2. <<>> \in Seq(NoPayload) /\ <<Chars(length)>> \in Seq(NoPayload)
        BY <2>1, NotPayloads
      <4> QED
        BY <1>1, <3>0, <4>1, <4>2, StaysOff DEF header
    <3>1. SUFFICES ASSUME OnTrack(body, end) PROVE OnTrack(body, end)'
      BY <1>1, <1>2, <3>0 DEF InPacket, InBody
    <3>2. LengthRead(end)
      BY <1>1, <1>6, <3>1 DEF LengthRead, OnTrack, Take
    <3> QED
      <4>1. position' <= end
        BY <1>3, <1>4, <1>6 DEF Take
      <4> QED
        BY <1>1, <1>2, <3>1, <3>2, <4>1, LengthOnTrack DEF header
  <2> HIDE DEF length
  <2>3. todo' \in Seq(FieldType) /\ value' \in Nat /\ fields' \in Seq(Nat)
    <3>1. CASE length > Head(todo).n
      BY <1>5, <1>6, <3>1 DEF Fail, record
    <3>2. CASE ~ length > Head(todo).n
      <4>1. <<Chars(length)>> \in Seq(FieldType)
        BY <2>1 DEF Chars, Field, FieldType
      <4>2. todo' \in Seq(FieldType)
        BY <1>1, <1>6, <3>2, <4>1, NextField, ConcatProperties DEF Continue
      <4>3. value' \in Nat /\ fields' \in Seq(Nat)
        <5>1. fields' = Append(fields, length) /\ value' = value
          BY <1>6, <3>2 DEF Found
        <5> QED
          BY <1>5, <2>1, <5>1, AppendProperties
      <4> QED
        BY <4>2, <4>3
    <3> QED
      BY <3>1, <3>2
  <2> QED
    BY <1>1, <1>2, <1>6, <2>2, <2>3, ReadingStep DEF Types
<1>7. CASE TakeFails(2) /\ Fail /\ UNCHANGED record
  <2>1. Lost'
    BY <1>1, <1>7, FailingIsLost
  <2>2. todo' \in Seq(FieldType) /\ value' \in Nat /\ fields' \in Seq(Nat)
    BY <1>5, <1>7 DEF Fail, record
  <2> QED
    BY <1>1, <1>2, <1>7, <2>1, <2>2, ReadingStep DEF Types
<1> QED
  BY <1>6, <1>7 DEF ReadLength, Bytes, Chars

LEMMA ReadCharsKeeps ==
  ASSUME Inv, ReadChars
  PROVE  Inv'
<1>1. /\ Types /\ remaining # <<>> /\ Reading("chars") /\ pc = "reading" /\ todo # <<>>
      /\ UNCHANGED <<stream, link, pc, header, record, stored>>
  BY DEF Inv, Remains, ReadChars, Reading
<1>2. PICK start, body, end \in Nat : InPacket(start, body, end)
  BY <1>1 DEF Inv, InSomePacket
<1>3. Head(todo).n \in Nat /\ <<>> \o Tail(todo) = Tail(todo) /\ Tail(todo) \in Seq(FieldType)
  BY <1>1, NextField
<1>4. value' \in Nat /\ fields' \in Seq(Nat) /\ <<>> \in Seq(FieldType)
  BY <1>1 DEF Types, TypeOK, record
<1>5. CASE Take(Head(todo).n) /\ Continue(<<>>)
  <2>1. Lost \/ OnTrack(body, end)' \/ OffTrack(body, end)'
    <3>0. CASE OffTrack(body, end)
      BY <1>1, <1>5, <3>0, StaysOff, NotPayloads DEF header
    <3>1. SUFFICES ASSUME OnTrack(body, end) PROVE OnTrack(body, end)'
      BY <1>1, <1>2, <3>0 DEF InPacket, InBody
    <3>2. position \in Nat /\ position <= end
      <4>1. position \in Nat /\ bytes_remaining \in Nat
        BY <1>1, BytesRemainingFacts
      <4>2. position + bytes_remaining = end
        BY <1>1, <1>2 DEF InPacket, InBody
      <4> QED
        BY <4>1, <4>2
    <3> QED
      BY <1>1, <1>2, <1>5, <3>1, <3>2, CharsOnTrack DEF header, Take
  <2>2. todo' \in Seq(FieldType)
    BY <1>3, <1>5 DEF Continue
  <2> QED
    BY <1>1, <1>2, <1>3, <1>4, <1>5, <2>1, <2>2, ReadingStep DEF Types
<1>6. CASE TakeFails(Head(todo).n) /\ Fail
  <2>1. Lost'
    BY <1>1, <1>3, <1>6, FailingIsLost
  <2>2. todo' \in Seq(FieldType)
    BY <1>4, <1>6 DEF Fail
  <2> QED
    BY <1>1, <1>2, <1>3, <1>4, <1>6, <2>1, <2>2, ReadingStep DEF Types
<1> QED
  BY <1>5, <1>6 DEF ReadChars

(* What a handler of each type may be reading.                             *)
LEMMA PointKinds ==
  ASSUME NEW body, NEW kind, Reading(kind)
  PROVE  /\ ConnectPoint(body) => kind \in {"string", "chars", "bytes"}
         /\ ConnectAckPoint(body) \/ SubscribeAckPoint(body) => kind = "bytes"
         /\ PublishPoint(body) => kind \in {"string", "chars", "bytes", "payload"}
         /\ \A end : SubscribePoint(body, end) =>
              kind \in {"string", "chars", "bytes", "topics", "callback"}
         /\ OtherPoint => kind \in {"dump", "drain"}
<1>1. ASSUME ConnectPoint(body) PROVE kind \in {"string", "chars", "bytes"}
  <2>1. todo \in {AfterName, AfterLevel, KeepAlive, OneByte} => kind = "bytes"
    BY NextRead, ConnectLists, Kinds
  <2>2. todo = ConnectFields => kind = "string"
    BY NextRead, ConnectLists, Kinds
  <2>3. \A n : todo = Text(n, AfterName) => kind = "chars"
    BY NextRead, TextLists, Kinds
  <2> QED
    BY <1>1, <2>1, <2>2, <2>3 DEF ConnectPoint, Point
<1>2. ASSUME ConnectAckPoint(body) \/ SubscribeAckPoint(body) PROVE kind = "bytes"
  <2>1. todo \in {ConnectAckFields, SubscribeAckFields, OneByte} => kind = "bytes"
    BY NextRead, AckLists, Kinds
  <2> QED
    BY <1>2, <2>1 DEF ConnectAckPoint, SubscribeAckPoint, Point
<1>3. ASSUME PublishPoint(body) PROVE kind \in {"string", "chars", "bytes", "payload"}
  <2>1. todo \in {AfterTopic, HalfId} => kind = "bytes"
    BY NextRead, PublishLists, Kinds
  <2>2. todo = ToPayload => kind = "payload"
    BY NextRead, PublishLists, Kinds
  <2>3. \A qos : todo = PublishFields(qos) => kind = "string"
    BY NextRead, PublishLists, Kinds
  <2>4. \A n, rest : rest \in {AfterTopic, ToPayload} /\ todo = Text(n, rest) => kind = "chars"
    BY NextRead, TextLists, Kinds
  <2> QED
    BY <1>3, <2>1, <2>2, <2>3, <2>4 DEF PublishPoint, Point
<1>4. ASSUME NEW end, SubscribePoint(body, end)
      PROVE  kind \in {"string", "chars", "bytes", "topics", "callback"}
  <2>1. todo \in {SubscribeFields, OneThenTopics} => kind = "bytes"
    BY NextRead, SubscribeLists, Kinds
  <2>2. todo = ToTopics => kind = "topics"
    BY NextRead, SubscribeLists, Kinds
  <2>3. todo = TopicFields => kind = "string"
    BY NextRead, SubscribeLists, Kinds
  <2>4. todo = AfterText => kind = "callback"
    BY NextRead, SubscribeLists, Kinds
  <2>5. \A n : todo = Text(n, AfterText) => kind = "chars"
    BY NextRead, TextLists, Kinds
  <2> QED
    BY <1>4, <2>1, <2>2, <2>3, <2>4, <2>5 DEF SubscribePoint, TopicPoint, Point
<1>5. OtherPoint => kind \in {"dump", "drain"}
  BY OtherKinds
<1> QED
  BY <1>1, <1>2, <1>3, <1>4, <1>5

LEMMA MoreTopicsKeeps ==
  ASSUME Inv, MoreTopics
  PROVE  Inv'
<1>1. /\ Types /\ remaining # <<>> /\ Reading("topics") /\ pc = "reading" /\ todo # <<>>
      /\ UNCHANGED <<stream, link, pc, header, record, stored, position, remaining>>
      /\ Continue(IF bytes_remaining > 0 THEN TopicFields ELSE <<>>)
  BY DEF Inv, Remains, MoreTopics, Reading
<1>2. PICK start, body, end \in Nat : InPacket(start, body, end)
  BY <1>1 DEF Inv, InSomePacket
<1>3. bytes_remaining \in Nat /\ position \in Nat /\ end <= Len(stream.bytes)
  BY <1>1, <1>2, BytesRemainingFacts, PacketInBytes
<1>4. position + bytes_remaining = end
  BY <1>1, <1>2 DEF InPacket, InBody
<1>5. bytes_remaining > 0 <=> position # end
  BY <1>3, <1>4
<1>6. todo' \in Seq(FieldType)
  <2>1. TopicFields \in Seq(FieldType)
    <3>1. /\ String(TopicSize) \in FieldType /\ Field("callback", 0) \in FieldType
          /\ Number(1) \in FieldType /\ Field("topics", 0) \in FieldType
      BY FormatAssumption DEF FieldType, String, Number, Field
    <3> QED
      BY <3>1 DEF TopicFields
  <2>2. Tail(todo) \in Seq(FieldType) /\ <<>> \in Seq(FieldType)
    BY <1>1, NextField
  <2> QED
    BY <1>1, <2>1, <2>2, ConcatProperties DEF Continue
<1>7. value' \in Nat /\ fields' \in Seq(Nat)
  BY <1>1 DEF Types, TypeOK, record
<1>8. Lost \/ OnTrack(body, end)' \/ OffTrack(body, end)'
  <2>0. CASE OffTrack(body, end)
    BY <1>1, <2>0, StaysOff, NotPayloads DEF header
  <2>1. SUFFICES ASSUME OnTrack(body, end) PROVE OnTrack(body, end)'
    BY <1>1, <1>2, <2>0 DEF InPacket, InBody
  <2>2. TypeOf(control) = SUBSCRIBE /\ SubscribePoint(body, end)
    <3>1. AtPoint(body, end)
      BY <1>1, <2>1 DEF OnTrack, Done
    <3>2. /\ ~ ConnectPoint(body) /\ ~ ConnectAckPoint(body) /\ ~ PublishPoint(body)
          /\ ~ SubscribeAckPoint(body) /\ ~ OtherPoint
      <4>1. Reading("topics")
        BY <1>1
      <4> QED
        BY ONLY <4>1, PointKinds
    <3> QED
      BY <3>1, <3>2 DEF AtPoint
  <2>3. FoundSoFar(end)' /\ (todo' = <<>> \/ SubscribePoint(body, end)')
    BY <1>1, <1>3, <1>5, <2>1, <2>2, SubscribeLoop DEF OnTrack
  <2>4. todo' = <<>> => Done(end)'
    BY <1>1, <1>2, <2>2, DoneWithoutPayload, PacketInBytes, TypesDiffer
  <2>5. TypeOf(control)' = SUBSCRIBE
    BY <1>1, <2>2 DEF header
  <2>6. Known(body, end)'
    BY <1>1, <2>1 DEF OnTrack, Known, header
  <2> QED
    BY <2>1, <2>3, <2>4, <2>5, <2>6 DEF OnTrack, AtPoint
<1> QED
  BY <1>1, <1>2, <1>6, <1>7, <1>8, ReadingStep DEF Types

LEMMA CallTopicCallbackKeeps ==
  ASSUME Inv, CallTopicCallback
  PROVE  Inv'
<1>1. /\ Types /\ remaining # <<>> /\ Reading("callback") /\ pc = "reading" /\ todo # <<>>
      /\ UNCHANGED <<stream, link, pc, header, record, stored, position, remaining>>
      /\ Continue(<<>>) \/ Fail
  BY DEF Inv, Remains, CallTopicCallback, Reading
<1>2. PICK start, body, end \in Nat : InPacket(start, body, end)
  BY <1>1 DEF Inv, InSomePacket
<1>3. end <= Len(stream.bytes)
  BY <1>1, <1>2, PacketInBytes
<1>4. todo' \in Seq(FieldType)
  <2>1. Tail(todo) \in Seq(FieldType) /\ <<>> \o Tail(todo) = Tail(todo)
    BY <1>1, NextField
  <2>2. <<>> \in Seq(FieldType)
    OBVIOUS
  <2> QED
    BY <1>1, <2>1, <2>2 DEF Continue, Fail
<1>5. value' \in Nat /\ fields' \in Seq(Nat)
  BY <1>1 DEF Types, TypeOK, record
<1>6. Lost \/ OnTrack(body, end)' \/ OffTrack(body, end)'
  <2>0. CASE OffTrack(body, end)
    BY <1>1, <2>0, StaysOff, NotPayloads DEF header
  <2>1. SUFFICES ASSUME OnTrack(body, end) PROVE OnTrack(body, end)'
    BY <1>1, <1>2, <2>0 DEF InPacket, InBody
  <2>2. TypeOf(control) = SUBSCRIBE /\ SubscribePoint(body, end)
    <3>1. AtPoint(body, end)
      BY <1>1, <2>1 DEF OnTrack, Done
    <3>2. /\ ~ ConnectPoint(body) /\ ~ ConnectAckPoint(body) /\ ~ PublishPoint(body)
          /\ ~ SubscribeAckPoint(body) /\ ~ OtherPoint
      <4>1. Reading("callback")
        BY <1>1
      <4> QED
        BY ONLY <4>1, PointKinds
    <3> QED
      BY <3>1, <3>2 DEF AtPoint
  <2>3. TypeOf(control)' = SUBSCRIBE /\ Known(body, end)'
    BY <1>1, <2>1, <2>2 DEF OnTrack, Known, header
  <2>4. CASE Continue(<<>>)
    <3>1. FoundSoFar(end)' /\ SubscribePoint(body, end)'
      BY <1>1, <1>3, <2>1, <2>2, <2>4, SubscribeCallback DEF OnTrack
    <3> QED
      BY <2>3, <3>1 DEF OnTrack, AtPoint
  <2>5. CASE Fail
    <3>1. Done(end)'
      BY <1>1, <1>2, <2>2, <2>5, DoneWithoutPayload, PacketInBytes, TypesDiffer DEF Fail
    <3>2. FoundSoFar(end)'
      BY <1>1, <2>1, FoundSame DEF OnTrack, record
    <3> QED
      BY <2>3, <3>1, <3>2 DEF OnTrack
  <2> QED
    BY <1>1, <2>4, <2>5
<1> QED
  BY <1>1, <1>2, <1>4, <1>5, <1>6, ReadingStep DEF Types

LEMMA PayloadStored ==
  ASSUME Types, NEW start \in Nat, NEW body \in Nat, NEW end \in Nat,
         InPacket(start, body, end), UNCHANGED stream,
         NEW payload, HasPayloads(stream, end, {payload}), stored' = stored \cup {payload}
  PROVE  stored' \subseteq stream.payloads /\ (link = "up" => StoredUpTo(end)')
<1>1. /\ stream \in Streams /\ IsPacket(stream, start, body, end)
      /\ stored \subseteq stream.payloads /\ (link = "up" => StoredUpTo(start))
  BY DEF Types, TypeOK, InPacket
<1>2. payload \in stream.payloads
  BY DEF HasPayloads
<1>3. ASSUME link = "up", NEW p \in stream.payloads, p.end <= end PROVE p \in stored'
  <2>1. CASE p.end = end
    BY <2>1 DEF HasPayloads
  <2>2. CASE p.end # end
    <3>1. p.end \in stream.ends
      BY <1>1, StreamFacts
    <3>2. p.end <= start
      BY <1>1, <1>3, <2>2, <3>1, PacketFacts, StreamFacts
    <3> QED
      BY <1>1, <1>3, <3>2 DEF StoredUpTo
  <2> QED
    BY <2>1, <2>2
<1> QED
  BY <1>1, <1>2, <1>3 DEF StoredUpTo

LEMMA ReadPayloadKeeps ==
  ASSUME Inv, ReadPayload
  PROVE  Inv'
<1>1. /\ Types /\ remaining # <<>> /\ Reading("payload") /\ pc = "reading" /\ todo # <<>>
      /\ UNCHANGED <<stream, link, pc, header, record>>
      /\ todo' = <<>>
  BY DEF Inv, Remains, ReadPayload, Reading, Fail
<1>2. PICK start, body, end \in Nat : InPacket(start, body, end)
  BY <1>1 DEF Inv, InSomePacket
<1>3. bytes_remaining \in Nat /\ position \in Nat /\ end <= Len(stream.bytes)
  BY <1>1, <1>2, BytesRemainingFacts, PacketInBytes
<1>4. position + bytes_remaining = end /\ (Lost \/ OnTrack(body, end) \/ OffTrack(body, end))
  BY <1>1, <1>2 DEF InPacket, InBody
<1>5. value' \in Nat /\ fields' \in Seq(Nat) /\ todo' \in Seq(FieldType)
  BY <1>1 DEF Types, TypeOK, record
<1> PICK payload : payload = [end |-> end, bytes |-> SubSeq(stream.bytes, position + 1, end)]
  OBVIOUS
<1>6. CASE Take(bytes_remaining) /\ stored' = stored \cup {payload}
  <2>0. ~ OffTrack(body, end)
    <3>1. todo \in Seq(NoPayload) => Head(todo) \in NoPayload
      BY <1>1, HeadTailProperties
    <3> QED
      BY <1>1, <3>1 DEF OffTrack, NoPayload, Reading
  <2>1. OnTrack(body, end)
    BY <1>3, <1>4, <1>6, <2>0 DEF Lost, Take, CanRead
  <2>2. TypeOf(control) = PUBLISH /\ PublishPoint(body)
    <3>1. AtPoint(body, end)
      BY <1>1, <2>1 DEF OnTrack, Done
    <3>2. /\ ~ ConnectPoint(body) /\ ~ ConnectAckPoint(body) /\ ~ SubscribePoint(body, end)
          /\ ~ SubscribeAckPoint(body) /\ ~ OtherPoint
      <4>1. Reading("payload")
        BY <1>1
      <4> QED
        BY ONLY <4>1, PointKinds
    <3> QED
      BY <3>1, <3>2 DEF AtPoint
  <2>3. SomePublish(body, end) /\ position <= end
    BY <1>1, <1>2, <1>3, <1>4, <2>1, <2>2, PacketInBytes DEF OnTrack
  <2>4. HasPayloads(stream, end, {payload})
    BY <1>1, <1>3, <2>2, <2>3, PublishPayload
  <2>5. stored' \subseteq stream.payloads /\ (link = "up" => StoredUpTo(end)')
    BY <1>1, <1>2, <1>6, <2>4, PayloadStored
  <2>6. OnTrack(body, end)'
    <3>1. Known(body, end)'
      BY <1>1, <2>1 DEF OnTrack, Known, header
    <3> QED
      BY <1>1, <2>1, <2>5, <3>1, FoundSame DEF OnTrack, Done, record
  <2> QED
    BY <1>1, <1>2, <1>3, <1>5, <1>6, <2>5, <2>6, ReadingStep
<1>7. CASE TakeFails(bytes_remaining) /\ UNCHANGED stored
  <2>1. Lost'
    BY <1>1, <1>3, <1>7, FailingIsLost
  <2> QED
    BY <1>1, <1>2, <1>3, <1>5, <1>7, <2>1, ReadingStep DEF Types
<1> QED
  BY <1>4, <1>6, <1>7 DEF ReadPayload, Bytes

(* Whatever is skipped of a packet that nobody reads.                      *)
LEMMA SkippingKeeps ==
  ASSUME Inv, NEW kind \in {"dump", "drain"}, Reading(kind), Continue(<<>>),
         UNCHANGED <<stream, link, pc, header, record, stored>>,
         NEW n \in Nat, Take(n) \/ TakeFails(n) \/ UNCHANGED <<position, remaining>>
  PROVE  Inv'
<1>1. Types /\ remaining # <<>> /\ pc = "reading" /\ todo # <<>>
  BY DEF Inv, Remains, Reading
<1>2. PICK start, body, end \in Nat : InPacket(start, body, end)
  BY <1>1 DEF Inv, InSomePacket
<1>3. todo' = Tail(todo) /\ todo' \in Seq(FieldType)
  BY <1>1, NextField DEF Continue
<1>4. value' \in Nat /\ fields' \in Seq(Nat)
  BY <1>1 DEF Types, TypeOK, record
<1>5. Lost \/ OnTrack(body, end)' \/ OffTrack(body, end)'
  <2>0. CASE OffTrack(body, end)
    BY <1>1, <2>0, StaysOff, NotPayloads DEF header
  <2>1. SUFFICES ASSUME OnTrack(body, end) PROVE OnTrack(body, end)'
    BY <1>1, <1>2, <2>0 DEF InPacket, InBody
  <2>2. TypeOf(control) # PUBLISH /\ OtherPoint
    <3>1. AtPoint(body, end)
      BY <1>1, <2>1 DEF OnTrack, Done
    <3>2. /\ ~ ConnectPoint(body) /\ ~ ConnectAckPoint(body) /\ ~ SubscribePoint(body, end)
          /\ ~ SubscribeAckPoint(body) /\ ~ PublishPoint(body)
      BY ONLY Reading(kind), kind \in {"dump", "drain"}, PointKinds
    <3> QED
      BY <3>1, <3>2 DEF AtPoint
  <2>3. todo' = <<>>
    BY <1>3, <2>2 DEF OtherPoint, Point
  <2>4. Done(end)'
    BY <1>1, <1>2, <2>2, <2>3, DoneWithoutPayload, PacketInBytes
  <2>5. FoundSoFar(end)' /\ Known(body, end)'
    BY <2>1, FoundSame DEF OnTrack, Known, record, header
  <2> QED
    BY <2>4, <2>5 DEF OnTrack
<1> QED
  BY <1>1, <1>2, <1>3, <1>4, <1>5, ReadingStep DEF Types

LEMMA DumpKeeps ==
  ASSUME Inv, Dump
  PROVE  Inv'
<1>1. Types /\ remaining # <<>>
  BY DEF Inv, Remains, Dump, Reading
<1>2. bytes_remaining \in Nat
  BY <1>1, BytesRemainingFacts
<1> QED
  BY <1>2, SkippingKeeps DEF Dump

LEMMA DrainKeeps ==
  ASSUME Inv, Drain
  PROVE  Inv'
<1>1. Types /\ todo # <<>>
  BY DEF Inv, Drain, Reading
<1>2. Head(todo).n \in Nat
  BY <1>1, NextField
<1> QED
  BY <1>2, SkippingKeeps DEF Drain

-----------------------------------------------------------------------------
(* The steps that read nothing                                             *)

LEMMA SamePoint ==
  ASSUME UNCHANGED <<stream, position, control, todo, value, fields>>,
         NEW body, NEW end
  PROVE  AtPoint(body, end)' <=> AtPoint(body, end)
<1>1. ConnectPoint(body)' <=> ConnectPoint(body)
  BY DEF ConnectPoint, Point, WordAt
<1>2. ConnectAckPoint(body)' <=> ConnectAckPoint(body)
  BY DEF ConnectAckPoint, Point
<1>3. PublishPoint(body)' <=> PublishPoint(body)
  BY DEF PublishPoint, Point, WordAt
<1>4. SubscribePoint(body, end)' <=> SubscribePoint(body, end)
  <2>1. ASSUME NEW count, NEW at, NEW k
        PROVE  TopicPoint(end, count, at, k)' <=> TopicPoint(end, count, at, k)
    BY DEF TopicPoint, Point, WordAt
  <2>2. ASSUME NEW count, NEW at
        PROVE  AreTopics(stream, body, end, count, at)' <=> AreTopics(stream, body, end, count, at)
    OBVIOUS
  <2>3. ASSUME NEW list, NEW at, NEW v PROVE Point(list, at, v, 0)' <=> Point(list, at, v, 0)
    BY DEF Point
  <2> QED
    BY <2>1, <2>2, <2>3 DEF SubscribePoint
<1>5. SubscribeAckPoint(body)' <=> SubscribeAckPoint(body)
  BY DEF SubscribeAckPoint, Point
<1>6. OtherPoint' <=> OtherPoint
  BY DEF OtherPoint, Point
<1> QED
  BY <1>1, <1>2, <1>3, <1>4, <1>5, <1>6 DEF AtPoint

(* Nothing moves but, perhaps, the client is lost.                         *)
LEMMA LosingKeeps ==
  ASSUME Inv, UNCHANGED <<stream, position, pc, header, remaining, todo, record, stored>>,
         link' = "down" \/ UNCHANGED link
  PROVE  Inv'
<1>1. Types' /\ Remains'
  BY DEF Inv, Types, TypeOK, Bound, Bytes, Remains, bytes_remaining, header, record
<1>2. Between' /\ AbortExplained'
  BY DEF Inv, Between, AbortExplained, StoredUpTo, header
<1>3. InSomePacket'
  <2>1. SUFFICES ASSUME pc \in {"size", "returning", "ready", "reading"} PROVE InSomePacket'
    BY DEF InSomePacket
  <2>2. PICK start, body, end \in Nat : InPacket(start, body, end)
    BY <2>1 DEF Inv, InSomePacket
  <2>3. (link = "up" => StoredUpTo(start))'
    BY <2>2 DEF InPacket, StoredUpTo
  <2>4. InSize(start, body, end) => InSize(start, body, end)'
    BY DEF InSize, header
  <2>5. InBody(body, end) => InBody(body, end)'
    <3>1. SUFFICES ASSUME InBody(body, end) PROVE InBody(body, end)'
      OBVIOUS
    <3>2. Lost => Lost'
      BY DEF Lost, bytes_remaining
    <3>3. FoundSoFar(end) => FoundSoFar(end)'
      BY FoundSame DEF record
    <3>4. Done(end) => Done(end)'
      BY DEF Done, StoredUpTo
    <3>5. AtPoint(body, end) => AtPoint(body, end)'
      BY SamePoint DEF header, record
    <3>6. Known(body, end) => Known(body, end)'
      BY DEF Known, header
    <3>7. OffTrack(body, end) => OffTrack(body, end)'
      BY DEF OffTrack, header
    <3> QED
      BY <3>1, <3>2, <3>3, <3>4, <3>5, <3>6, <3>7 DEF InBody, OnTrack, bytes_remaining
  <2>6. InPacket(start, body, end)'
    BY <2>2, <2>3, <2>4, <2>5 DEF InPacket, header, bytes_remaining
  <2> QED
    BY <2>6 DEF InSomePacket
<1> QED
  BY <1>1, <1>2, <1>3 DEF Inv

LEMMA InitInv ==
  ASSUME Init
  PROVE  Inv
<1>1. stream \in Streams
  BY DEF Init
<1>2. /\ Bound \in Nat /\ {0, Len(stream.bytes)} \subseteq stream.ends
      /\ stream.payloads \subseteq [end : stream.ends \ {0}, bytes : Seq(Nat)]
      /\ stream.ends \subseteq 0 .. Len(stream.bytes)
  BY <1>1, StreamFacts DEF Bound, Bytes
<1>3. Types
  BY <1>1, <1>2 DEF Init, Types, TypeOK
<1>4. Remains
  BY DEF Init, Remains
<1>5. Between
  BY <1>2 DEF Init, Between, StoredUpTo
<1> QED
  BY <1>3, <1>4, <1>5 DEF Init, Inv, InSomePacket, AbortExplained

LEMMA ReadControlKeeps ==
  ASSUME Inv, ReadControl
  PROVE  Inv'
<1>1. /\ Types /\ Remains /\ stream \in Streams /\ position \in Nat
      /\ position \in stream.ends /\ StoredUpTo(position)
      /\ position + 1 <= Len(stream.bytes)
      /\ UNCHANGED <<stream, link, remaining, todo, record, stored>>
      /\ position' = position + 1 /\ control' = stream.bytes[position + 1]
      /\ size' = 0 /\ multiplier' = 1 /\ pc' = "size" /\ pc = "idle"
  BY StreamFacts DEF Inv, Types, TypeOK, Between, ReadControl, CanRead, Bytes, Bound
<1>2. PICK end \in stream.ends : \E body \in position .. end :
        /\ IsPacket(stream, position, body, end)
        /\ \/ IsBody(stream, stream.bytes[position + 1], body, end)
           \/ IsBroken(stream, stream.bytes[position + 1], body, end)
  <2>1. position # Len(stream.bytes)
    BY <1>1, StreamFacts
  <2> QED
    BY <1>1, <2>1, PacketExists
<1>3. PICK body \in position .. end :
        /\ IsPacket(stream, position, body, end)
        /\ \/ IsBody(stream, stream.bytes[position + 1], body, end)
           \/ IsBroken(stream, stream.bytes[position + 1], body, end)
  BY <1>2
<1>ends. body \in Nat /\ end \in Nat
  BY <1>1, <1>2, <1>3, StreamFacts
<1>4. Types'
  <2>1. Len(stream.bytes) \in Nat /\ stream.bytes[position + 1] \in Nat
    BY <1>1, StreamFacts, ByteFacts
  <2> QED
    BY <1>1, <2>1 DEF Types, TypeOK, Bound, Bytes, record
<1>5. Remains'
  BY <1>1 DEF Remains
<1>6. Between' /\ AbortExplained'
  BY <1>1 DEF Between, AbortExplained
<1>start. PICK start \in Nat : start = position
  BY <1>1
<1>7. InPacket(start, body, end)'
  <2>1. IsPacket(stream, start, body, end)'
        /\ (IsBody(stream, control, body, end) \/ IsBroken(stream, control, body, end))'
    BY <1>1, <1>3, <1>start
  <2>2. (link = "up" => StoredUpTo(start))'
    BY <1>1, <1>start DEF StoredUpTo
  <2>3. InSize(start, body, end)'
    <3>1. body - (start + 1) \in 1 .. 4
      BY <1>1, <1>3, <1>ends, <1>start, PacketFacts
    <3>2. Rests(end - body)[1] = end - body
      BY DEF Rests
    <3>3. position' = start + 1 /\ size' + multiplier' * Rests(end - body)[1] = end - body
      BY <1>1, <1>ends, <1>start, <3>2
    <3>4. 1 \in 1 .. body - (start + 1)
      BY <3>1
    <3> QED
      BY <3>3, <3>4 DEF InSize
  <2> QED
    BY <1>1, <2>1, <2>2, <2>3 DEF InPacket
<1> QED
  BY <1>ends, <1>4, <1>5, <1>6, <1>7 DEF Inv, InSomePacket

LEMMA FailHeaderKeeps ==
  ASSUME Inv, FailHeader
  PROVE  Inv'
<1>1. /\ UNCHANGED <<stream, position, link, header, remaining, todo, record, stored>>
      /\ pc = "size" /\ pc' = "idle" /\ link = "down"
  BY DEF FailHeader, ReadFails
<1>2. Types'
  BY <1>1 DEF Inv, Types, TypeOK, Bound, Bytes, header, record
<1>3. Remains'
  BY <1>1 DEF Inv, Remains
<1> QED
  BY <1>1, <1>2, <1>3 DEF Inv, Between, InSomePacket, AbortExplained

LEMMA MoveKeeps ==
  ASSUME Inv, Move
  PROVE  Inv'
<1>1. /\ UNCHANGED <<stream, position, link, pc, header, todo, record, stored>>
      /\ (pc = "returning" /\ Len(remaining) = 1) \/ pc = "ready"
      /\ remaining' = [remaining EXCEPT ![Len(remaining)] = 0] \o <<bytes_remaining>>
  BY DEF Move, CanMove
<1>2. Types /\ Remains /\ remaining # <<>>
  BY <1>1 DEF Inv, Remains
<1>3. /\ Bound \in Nat /\ remaining \in Seq(0 .. Bound) /\ Len(remaining) \in Nat \ {0}
      /\ bytes_remaining \in 0 .. Bound
  BY <1>2, BytesRemainingFacts
<1>4. PICK last \in Nat \ {0} : last = Len(remaining)
  BY <1>3
<1>5. PICK emptied : emptied = [remaining EXCEPT ![last] = 0]
  OBVIOUS
<1>6. PICK one : one = <<bytes_remaining>>
  OBVIOUS
<1>7. /\ emptied \in Seq(0 .. Bound) /\ Len(emptied) = last
      /\ \A i \in 1 .. last : emptied[i] = 0
  <2>1. last \in 1 .. Len(remaining)
    BY <1>3, <1>4
  <2>2. emptied \in Seq(0 .. Bound) /\ Len(emptied) = last
    BY <1>3, <1>4, <1>5, <2>1, ExceptSeq
  <2>3. \A i \in 1 .. last : emptied[i] = IF i = last THEN 0 ELSE remaining[i]
    BY <1>3, <1>4, <1>5, <2>1, ExceptSeq
  <2>4. \A i \in 1 .. last - 1 : remaining[i] = 0
    BY <1>2, <1>4 DEF Remains
  <2>5. \A i \in 1 .. last : emptied[i] = 0
    BY <2>3, <2>4
  <2> QED
    BY <2>2, <2>5
<1>8. /\ remaining' \in Seq(0 .. Bound) /\ Len(remaining') = last + 1
      /\ \A i \in 1 .. last + 1 : remaining'[i] = IF i <= last THEN emptied[i] ELSE one[i - last]
      /\ one[1] = bytes_remaining
  <2>1. one \in Seq(0 .. Bound) /\ Len(one) = 1 /\ one[1] = bytes_remaining
    BY <1>3, <1>6
  <2>2. remaining' = emptied \o one
    BY <1>1, <1>4, <1>5, <1>6
  <2>3. PICK S : S = 0 .. Bound
    OBVIOUS
  <2>4. /\ emptied \o one \in Seq(S) /\ Len(emptied \o one) = Len(emptied) + Len(one)
        /\ \A i \in 1 .. Len(emptied) + Len(one) :
             (emptied \o one)[i] = IF i <= Len(emptied) THEN emptied[i] ELSE one[i - Len(emptied)]
    BY ONLY <1>7, <2>1, <2>3, ConcatProperties
  <2> QED
    BY ONLY <1>7, <2>1, <2>2, <2>3, <2>4
<1>9. /\ \A i \in 1 .. last : remaining'[i] = 0
      /\ remaining'[last + 1] = bytes_remaining
  BY ONLY last \in Nat \ {0}, <1>7, <1>8
<1>10. bytes_remaining' = bytes_remaining
  BY <1>8, <1>9 DEF bytes_remaining
<1>11. Types'
  BY <1>1, <1>2, <1>8 DEF Types, TypeOK, Bound, Bytes, header, record
<1>12. Remains'
  <2>1. remaining' # <<>>
    BY <1>3, <1>8, EmptySeq
  <2>2. Len(remaining') - 1 = last
    BY <1>3, <1>8
  <2> QED
    BY <1>1, <1>4, <1>8, <1>9, <2>1, <2>2 DEF Remains
<1>13. Between' /\ AbortExplained'
  BY <1>1 DEF Inv, Between, AbortExplained, StoredUpTo
<1>14. InSomePacket'
  <2>1. PICK start, body, end \in Nat : InPacket(start, body, end)
    BY <1>1 DEF Inv, InSomePacket
  <2>2. (link = "up" => StoredUpTo(start))'
    BY <1>1, <2>1 DEF InPacket, StoredUpTo
  <2>3. InPacket(start, body, end)'
    BY <1>1, <1>10, <2>1, <2>2 DEF InPacket, header
  <2> QED
    BY <2>3 DEF InSomePacket
<1> QED
  BY <1>11, <1>12, <1>13, <1>14 DEF Inv

LEMMA DigitFacts ==
  ASSUME NEW n \in Nat
  PROVE  /\ \A i \in 1 .. 4 : Rests(n)[i] \in Nat
         /\ \A i \in 1 .. 3 : Rests(n)[i + 1] = Rests(n)[i] \div Base
         /\ Rests(n)[1] = n
<1>1. Base \in Nat /\ Base > 1
  BY FormatAssumption
<1>2. PICK a, b, c \in Nat : a = n \div Base /\ b = a \div Base /\ c = b \div Base
  BY <1>1
<1>3. Rests(n) = <<n, a, b, c>>
  BY <1>2 DEF Rests
<1> QED
  BY <1>2, <1>3

(* The i-th digit of a size, and whether there are more.                   *)
Digit(s, start, body, end, digits, i, rest) ==
  /\ rest = Rests(end - body)[i]
  /\ s.bytes[start + 1 + i] % Base = rest % Base
  /\ s.bytes[start + 1 + i] >= Base <=> i < digits
  /\ i = digits => rest < Base
  /\ i < digits => i + 1 \in 1 .. digits /\ Rests(end - body)[i + 1] = rest \div Base

(* The digit that is read next.                                            *)
LEMMA NextDigit ==
  ASSUME NEW s \in Streams, NEW start \in Nat, NEW body \in Nat, NEW end \in Nat,
         IsPacket(s, start, body, end), NEW digits, digits = body - (start + 1),
         NEW i \in 1 .. digits
  PROVE  \E rest \in Nat : Digit(s, start, body, end, digits, i, rest)
<1>1. digits \in 1 .. 4 /\ i \in 1 .. 4 /\ end - body \in Nat
  BY PacketFacts
<1>2. PICK rest \in Nat : rest = Rests(end - body)[i]
  BY <1>1, DigitFacts
<1>3. Base \in Nat /\ Base > 1
  BY FormatAssumption
<1>4. PICK y \in Nat : y = rest % Base /\ y < Base
  BY <1>3
<1>5. s.bytes[start + 1 + i] = y + (IF i < digits THEN Base ELSE 0)
  BY <1>2, <1>4 DEF IsPacket, IsSize
<1>6. (y + Base) % Base = y /\ y % Base = y
  BY <1>3, <1>4
<1>7. i = digits => rest < Base
  BY <1>2 DEF IsPacket, IsSize
<1>8. i < digits => i + 1 \in 1 .. digits /\ Rests(end - body)[i + 1] = rest \div Base
  BY <1>1, <1>2, DigitFacts
<1>9. CASE i < digits
  BY <1>2, <1>3, <1>4, <1>5, <1>6, <1>8, <1>9 DEF Digit
<1>10. CASE i = digits
  BY <1>1, <1>2, <1>3, <1>4, <1>5, <1>6, <1>7, <1>10 DEF Digit
<1> QED
  BY <1>1, <1>9, <1>10

LEMMA ReadSizeKeeps ==
  ASSUME Inv, ReadSize
  PROVE  Inv'
<1>1. /\ pc = "size" /\ UNCHANGED <<stream, link, control, todo, record, stored>>
      /\ position' = position + 1
      /\ size' = size + (stream.bytes[position + 1] % Base) * multiplier
      /\ multiplier' = multiplier * Base
      /\ link = "up" /\ position + 1 <= Len(stream.bytes)
      /\ IF stream.bytes[position + 1] >= Base THEN UNCHANGED <<pc, remaining>>
         ELSE pc' = "returning" /\ remaining' = <<size'>>
  BY DEF ReadSize, Bytes, CanRead
<1>2. Types /\ Remains /\ stream \in Streams
  BY DEF Inv, Types, TypeOK
<1>3. /\ position \in Nat /\ size \in Nat /\ multiplier \in Nat /\ Len(stream.bytes) \in Nat
      /\ remaining = <<>>
  BY <1>1, <1>2, StreamFacts DEF Types, TypeOK, Bound, Bytes, Remains
<1>4. PICK start, body, end \in Nat : InPacket(start, body, end)
  BY <1>1 DEF Inv, InSomePacket
<1>5. IsPacket(stream, start, body, end) /\ InSize(start, body, end)
  BY <1>1, <1>4 DEF InPacket
<1>6. PICK digits \in 1 .. 4 : digits = body - (start + 1)
  BY <1>2, <1>5, PacketFacts
<1>7. PICK i \in 1 .. digits :
        position = start + i /\ size + multiplier * Rests(end - body)[i] = end - body
  BY <1>5, <1>6 DEF InSize
<1>8. PICK rest \in Nat :
           /\ rest = Rests(end - body)[i]
           /\ stream.bytes[start + 1 + i] % Base = rest % Base
           /\ stream.bytes[start + 1 + i] >= Base <=> i < digits
           /\ i = digits => rest < Base
           /\ i < digits => i + 1 \in 1 .. digits /\ Rests(end - body)[i + 1] = rest \div Base
  <2>1. \E r \in Nat : Digit(stream, start, body, end, digits, i, r)
    BY ONLY start \in Nat, body \in Nat, end \in Nat, <1>2, <1>5, <1>6, <1>7, NextDigit
  <2> QED
    BY ONLY <2>1 DEF Digit
<1>9. position + 1 = start + 1 + i
  BY <1>7
<1>10. /\ size' = size + (rest % Base) * multiplier
       /\ stream.bytes[position + 1] >= Base <=> i < digits
  BY <1>1, <1>8, <1>9
<1>11. /\ size' \in Nat /\ multiplier' \in Nat
       /\ size' + multiplier' * (rest \div Base) = size + multiplier * rest
       /\ rest < Base => rest % Base = rest
  <2>1. Base \in Nat /\ Base > 1
    BY FormatAssumption
  <2>2. /\ size + (rest % Base) * multiplier \in Nat /\ multiplier * Base \in Nat
        /\ (size + (rest % Base) * multiplier) + (multiplier * Base) * (rest \div Base)
             = size + multiplier * rest
        /\ rest < Base => rest % Base = rest
    <3>1. PICK b, s, m \in Nat : b = Base /\ b > 1 /\ s = size /\ m = multiplier
      BY <1>3, <2>1
    <3>2. PICK x, y \in Nat : x = rest \div b /\ y = rest % b /\ rest = b * x + y
      BY <3>1
    <3>3. /\ (s + y * m) + (m * b) * x = s + m * (b * x + y)
          /\ s + y * m \in Nat /\ m * b \in Nat
      <4>1. s \in Nat /\ m \in Nat /\ b \in Nat /\ x \in Nat /\ y \in Nat
        BY <3>1, <3>2
      <4>2. (s + y * m) + (m * b) * x = s + m * (b * x + y)
        BY ONLY <4>1
      <4>3. y * m \in Nat /\ m * b \in Nat
        BY ONLY <4>1
      <4> QED
        BY <4>1, <4>2, <4>3
    <3>4. rest < b => rest % b = rest
      BY <3>1
    <3> QED
      BY <3>1, <3>2, <3>3, <3>4
  <2>3. multiplier' = multiplier * Base
    BY <1>1
  <2> QED
    BY ONLY <1>10, <2>2, <2>3
<1>12. size + multiplier * rest = end - body
  BY <1>7, <1>8
<1>13. /\ body <= end /\ end <= Len(stream.bytes) /\ start + 1 < body
  BY <1>2, <1>5, PacketFacts
<1>14. (link = "up" => StoredUpTo(start))'
  BY <1>1, <1>4 DEF InPacket, StoredUpTo
<1>15. AbortExplained' /\ Between'
  BY <1>1 DEF AbortExplained, Between
<1>16. /\ IsPacket(stream, start, body, end)'
       /\ (IsBody(stream, control, body, end) \/ IsBroken(stream, control, body, end))'
  BY <1>1, <1>4 DEF InPacket
<1>17. CASE i < digits
  <2>1. UNCHANGED <<pc, remaining>>
    BY <1>1, <1>10, <1>17
  <2>2. Types' /\ Remains'
    BY <1>1, <1>2, <1>3, <1>11, <2>1
       DEF Types, TypeOK, Bound, Bytes, record, Remains
  <2>3. InSize(start, body, end)'
    <3>1. PICK i2 : i2 = i + 1
      OBVIOUS
    <3>2. i2 \in 1 .. body - (start + 1) /\ position' = start + i2
      BY <1>1, <1>6, <1>7, <1>8, <1>17, <3>1
    <3>3. size' + multiplier' * Rests(end - body)[i2] = end - body
      BY <1>8, <1>11, <1>12, <1>17, <3>1
    <3> QED
      BY <3>2, <3>3 DEF InSize
  <2>4. InPacket(start, body, end)'
    BY <1>1, <1>14, <1>16, <2>1, <2>3 DEF InPacket
  <2> QED
    BY <1>15, <2>2, <2>4 DEF Inv, InSomePacket
<1>18. CASE i = digits
  <2>1. pc' = "returning" /\ remaining' = <<size'>>
    BY <1>1, <1>10, <1>18
  <2>2. size' = end - body
    <3>1. rest % Base = rest
      BY <1>8, <1>11, <1>18
    <3>2. (rest % Base) * multiplier = multiplier * rest
      BY <1>3, <3>1
    <3> QED
      BY <1>10, <1>12, <3>2
  <2>3. position' = body
    BY <1>1, <1>6, <1>7, <1>18
  <2>4. size' \in 0 .. Len(stream.bytes)
    BY <1>11, <1>13, <2>2
  <2>5. /\ remaining' \in Seq(0 .. Len(stream.bytes)) /\ Len(remaining') = 1
        /\ remaining' # <<>> /\ remaining'[1] = size'
    BY <2>1, <2>4
  <2>6. Types'
    BY <1>1, <1>2, <1>3, <1>11, <2>1, <2>5 DEF Types, TypeOK, Bound, Bytes, record
  <2>7. Remains'
    BY <2>1, <2>5 DEF Remains
  <2>8. bytes_remaining' = end - body
    BY <2>2, <2>5 DEF bytes_remaining
  <2>9. InPacket(start, body, end)'
    BY <1>14, <1>16, <2>1, <2>3, <2>8 DEF InPacket
  <2> QED
    BY <1>15, <2>6, <2>7, <2>9 DEF Inv, InSomePacket
<1> QED
  BY <1>6, <1>17, <1>18

LEMMA HandlersAre ==
  ASSUME NEW list, NEW type, NEW qos, list \in Handlers(type, qos)
  PROVE  \/ type = CONNECT   /\ list = ConnectFields
         \/ type = CONNACK   /\ list = ConnectAckFields
         \/ type = PUBLISH   /\ list = PublishFields(qos)
         \/ type = SUBSCRIBE /\ list = SubscribeFields
         \/ type = SUBACK    /\ list = SubscribeAckFields
         \/ /\ type \notin {CONNECT, CONNACK, PUBLISH, SUBSCRIBE, SUBACK}
            /\ \/ list = <<>> \/ list = <<Field("dump", 0)>>
               \/ \E n \in Skip : list = <<Field("drain", n)>>
BY DEF Handlers, CONNECT, CONNACK, PUBLISH, SUBSCRIBE, SUBACK

LEMMA HandlersTyped ==
  ASSUME NEW list, NEW type, NEW qos, list \in Handlers(type, qos)
  PROVE  list \in Seq(FieldType)
<1>1. /\ String(NameSize) \in FieldType /\ String(TopicSize) \in FieldType
      /\ Number(1) \in FieldType /\ Number(2) \in FieldType
      /\ Field("payload", 0) \in FieldType /\ Field("topics", 0) \in FieldType
      /\ Field("dump", 0) \in FieldType
      /\ \A n \in Skip : Field("drain", n) \in FieldType
  BY FormatAssumption, PacketAssumption DEF FieldType, String, Number, Field
<1>2. ConnectFields \in Seq(FieldType)
  BY <1>1 DEF ConnectFields
<1>3. ConnectAckFields \in Seq(FieldType) /\ SubscribeAckFields \in Seq(FieldType)
  BY <1>1 DEF ConnectAckFields, SubscribeAckFields
<1>4. SubscribeFields \in Seq(FieldType)
  BY <1>1 DEF SubscribeFields
<1>5. PublishFields(qos) \in Seq(FieldType)
  <2>1. <<String(TopicSize)>> \in Seq(FieldType) /\ <<Field("payload", 0)>> \in Seq(FieldType)
    BY <1>1
  <2>2. (IF qos # 0 THEN <<Number(2)>> ELSE <<>>) \in Seq(FieldType)
    BY <1>1
  <2> QED
    BY <2>1, <2>2, ConcatProperties DEF PublishFields
<1>6. <<>> \in Seq(FieldType) /\ <<Field("dump", 0)>> \in Seq(FieldType)
  BY <1>1
<1>7. \A n \in Skip : <<Field("drain", n)>> \in Seq(FieldType)
  BY <1>1
<1> QED
  BY <1>2, <1>3, <1>4, <1>5, <1>6, <1>7, HandlersAre, Zenon

(* Only a PUBLISH has a payload to be read.                                *)
LEMMA HandlersReadNoPayload ==
  ASSUME NEW list, NEW type, NEW qos, list \in Handlers(type, qos), type # PUBLISH
  PROVE  list \in Seq(NoPayload)
<1>1. /\ String(NameSize) \in NoPayload /\ Field("topics", 0) \in NoPayload
      /\ Number(1) \in NoPayload /\ Number(2) \in NoPayload
      /\ Field("dump", 0) \in NoPayload
      /\ \A n \in Skip : Field("drain", n) \in NoPayload
  BY FormatAssumption, PacketAssumption DEF NoPayload, FieldType, String, Number, Field
<1>2. ConnectFields \in Seq(NoPayload)
  BY <1>1 DEF ConnectFields
<1>3. ConnectAckFields \in Seq(NoPayload) /\ SubscribeAckFields \in Seq(NoPayload)
  BY <1>1 DEF ConnectAckFields, SubscribeAckFields
<1>4. SubscribeFields \in Seq(NoPayload)
  BY <1>1 DEF SubscribeFields
<1>5. <<>> \in Seq(NoPayload) /\ <<Field("dump", 0)>> \in Seq(NoPayload)
  BY <1>1
<1>6. \A n \in Skip : <<Field("drain", n)>> \in Seq(NoPayload)
  BY <1>1
<1> QED
  BY <1>2, <1>3, <1>4, <1>5, <1>6, HandlersAre, Zenon

LEMMA HandleMessageKeeps ==
  ASSUME Inv, HandleMessage
  PROVE  Inv'
<1>1. /\ pc = "ready" /\ pc' = "reading" /\ todo' \in Handlers(TypeOf(control), QoSOf(control))
      /\ value' = 0 /\ fields' = <<>>
      /\ UNCHANGED <<stream, position, link, header, remaining, stored>>
  BY DEF HandleMessage
<1>2. Types /\ Remains
  BY DEF Inv
<1>3. PICK start, body, end \in Nat : InPacket(start, body, end)
  BY <1>1 DEF Inv, InSomePacket
<1>4. position = body /\ bytes_remaining = end - body
  BY <1>1, <1>3 DEF InPacket
<1>5. control' = control /\ TypeOf(control)' = TypeOf(control)
  BY <1>1 DEF header
<1>6. /\ todo' \in Seq(FieldType)
      /\ FoundSoFar(end)' /\ (Done(end)' \/ AtPoint(body, end)')
  <2>1. todo' \in Seq(FieldType)
    BY <1>1, HandlersTyped
  <2>2. FoundSoFar(end)'
    <3>1. stream \in Streams /\ stream' = stream
      BY <1>1, <1>2 DEF Types, TypeOK
    <3>2. \A f \in stream.fields : f.values \in Seq(Nat) /\ Len(f.values) \in Nat
      BY <3>1, StreamFacts
    <3>3. Len(fields') = 0
      BY <1>1
    <3> QED
      BY <3>1, <3>2, <3>3 DEF FoundSoFar
  <2>3. Len(fields') = 0 /\ value' = 0 /\ position' = body
    BY <1>1, <1>4
  <2>4. ASSUME TypeOf(control) = CONNECT /\ todo' = ConnectFields
        PROVE  Done(end)' \/ AtPoint(body, end)'
    BY <1>5, <2>3, <2>4 DEF AtPoint, ConnectPoint, Point
  <2>5. ASSUME TypeOf(control) = CONNACK /\ todo' = ConnectAckFields
        PROVE  Done(end)' \/ AtPoint(body, end)'
    BY <1>5, <2>3, <2>5 DEF AtPoint, ConnectAckPoint, Point
  <2>6. ASSUME TypeOf(control) = PUBLISH /\ todo' = PublishFields(QoSOf(control))
        PROVE  Done(end)' \/ AtPoint(body, end)'
    BY <1>5, <2>3, <2>6 DEF AtPoint, PublishPoint, Point
  <2>7. ASSUME TypeOf(control) = SUBSCRIBE /\ todo' = SubscribeFields
        PROVE  Done(end)' \/ AtPoint(body, end)'
    BY <1>5, <2>3, <2>7 DEF AtPoint, SubscribePoint, Point
  <2>8. ASSUME TypeOf(control) = SUBACK /\ todo' = SubscribeAckFields
        PROVE  Done(end)' \/ AtPoint(body, end)'
    BY <1>5, <2>3, <2>8 DEF AtPoint, SubscribeAckPoint, Point
  <2>9. ASSUME /\ TypeOf(control) \notin {CONNECT, CONNACK, PUBLISH, SUBSCRIBE, SUBACK}
               /\ \/ todo' = <<>> \/ todo' = <<Field("dump", 0)>>
                  \/ \E n \in Skip : todo' = <<Field("drain", n)>>
        PROVE  Done(end)' \/ AtPoint(body, end)'
    <3>1. todo' = <<>> => Done(end)'
      BY <1>1, <1>2, <1>3, <2>9, DoneWithoutPayload, PacketInBytes
    <3>2. todo' = <<Field("dump", 0)>> => OtherPoint'
      BY <2>3 DEF OtherPoint, Point
    <3>3. ASSUME NEW n \in Skip, todo' = <<Field("drain", n)>> PROVE OtherPoint'
      BY <2>3, <3>3 DEF OtherPoint, Point
    <3> QED
      BY <1>5, <2>9, <3>1, <3>2, <3>3 DEF AtPoint
  <2> QED
    BY <1>1, <2>1, <2>2, <2>4, <2>5, <2>6, <2>7, <2>8, <2>9, HandlersAre
<1>7. Types'
  BY <1>1, <1>2, <1>6, FieldSeqs DEF Types, TypeOK, Bound, Bytes, header
<1>8. Remains'
  BY <1>1, <1>2 DEF Remains
<1>9. Between' /\ AbortExplained'
  BY <1>1 DEF Between, AbortExplained
<1>10. InBody(body, end)'
  <2>1. CASE Known(body, end)
    <3>1. Known(body, end)'
      BY <1>1, <2>1 DEF Known, header
    <3> QED
      BY <1>1, <1>4, <1>6, <3>1 DEF InBody, OnTrack, bytes_remaining
  <2>2. CASE ~ Known(body, end)
    <3>1. IsBroken(stream, control, body, end) /\ TypeOf(control) # PUBLISH
      BY <1>3, <2>2 DEF InPacket, Known
    <3>2. todo' \in Seq(NoPayload)
      BY <1>1, <3>1, HandlersReadNoPayload
    <3>3. OffTrack(body, end)'
      BY <1>1, <3>1, <3>2 DEF OffTrack, header
    <3> QED
      BY <1>1, <1>4, <3>3 DEF InBody, bytes_remaining
  <2> QED
    BY <2>1, <2>2
<1>11. InPacket(start, body, end)'
  <2>1. (link = "up" => StoredUpTo(start))'
    BY <1>1, <1>3 DEF InPacket, StoredUpTo
  <2> QED
    BY <1>1, <1>3, <1>10, <2>1 DEF InPacket, header
<1> QED
  BY <1>7, <1>8, <1>9, <1>11 DEF Inv, InSomePacket

-----------------------------------------------------------------------------
(* On track, what is read next is there (the assertion of Packet::Read).   *)
Fits(end) ==
  /\ Reading("bytes") => position + 1 <= end
  /\ Reading("string") => position + 2 <= end
  /\ Reading("chars") => position + Head(todo).n <= end

LEMMA ConnectFits ==
  ASSUME Types, NEW body \in Nat, NEW end \in Nat, end <= Len(stream.bytes),
         IsConnect(stream, body, end), ConnectPoint(body)
  PROVE  Fits(end)
<1>1. stream \in Streams /\ body + 2 <= end
  BY DEF Types, TypeOK, IsConnect
<1>2. PICK name \in Nat : name = WordAt(stream, body)
  BY <1>1, WordFacts
<1>3. name <= NameSize => body + 2 + name + 4 <= end
  BY <1>2 DEF IsConnect
<1>4. ASSUME Reading("bytes") PROVE position + 1 <= end
  <2>1. todo # ConnectFields /\ todo # Text(name, AfterName)
    BY <1>4, NextRead, ConnectLists, TextLists, Kinds
  <2>2. name <= NameSize /\ position <= body + 2 + name + 3
    BY <1>2, <2>1 DEF ConnectPoint, Point
  <2>3. position \in Nat
    BY <1>1, StreamFacts DEF Types, TypeOK, Bound, Bytes
  <2> QED
    BY <1>3, <2>2, <2>3
<1>5. ASSUME Reading("string") PROVE position + 2 <= end
  <2>1. todo \notin {AfterName, AfterLevel, KeepAlive, OneByte} /\ todo # Text(name, AfterName)
    BY <1>5, NextRead, ConnectLists, TextLists, Kinds
  <2> QED
    BY <1>1, <1>2, <2>1 DEF ConnectPoint, Point
<1>6. ASSUME Reading("chars") PROVE position + Head(todo).n <= end
  <2>1. todo \notin {ConnectFields, AfterName, AfterLevel, KeepAlive, OneByte}
    BY <1>6, NextRead, ConnectLists, Kinds
  <2>2. name <= NameSize /\ position = body + 2 /\ todo = Text(name, AfterName)
    BY <1>2, <2>1 DEF ConnectPoint, Point
  <2>3. Head(todo) = Chars(name)
    BY <2>2, TextLists DEF Begins
  <2>4. Head(todo).n = name
    BY <2>3, Kinds
  <2> QED
    BY <1>3, <2>2, <2>4
<1> QED
  BY <1>4, <1>5, <1>6 DEF Fits

LEMMA AcksFit ==
  ASSUME Types, NEW body \in Nat, NEW end \in Nat,
         \/ IsConnectAck(stream, body, end) /\ ConnectAckPoint(body)
         \/ IsSubscribeAck(stream, body, end) /\ SubscribeAckPoint(body)
  PROVE  Fits(end)
<1>1. ~ Reading("string") /\ ~ Reading("chars")
  <2>1. ASSUME Reading("string") PROVE FALSE
    BY <2>1, PointKinds
  <2>2. ASSUME Reading("chars") PROVE FALSE
    BY <2>2, PointKinds
  <2> QED
    BY <2>1, <2>2
<1>2. position + 1 <= end
  BY DEF IsConnectAck, IsSubscribeAck, ConnectAckPoint, SubscribeAckPoint, Point
<1> QED
  BY <1>1, <1>2 DEF Fits

LEMMA PublishFits ==
  ASSUME Types, NEW body \in Nat, NEW end \in Nat, end <= Len(stream.bytes),
         IsPublish(stream, QoSOf(control), body, end), PublishPoint(body)
  PROVE  Fits(end)
<1>1. stream \in Streams /\ body + 2 <= end
  BY DEF Types, TypeOK, IsPublish
<1>2. PICK topic \in Nat : topic = WordAt(stream, body)
  BY <1>1, WordFacts
<1>3. PICK qos : qos = QoSOf(control)
  OBVIOUS
<1>4. topic <= TopicSize =>
        body + 2 + topic <= end /\ (qos # 0 => body + 2 + topic + 2 <= end)
  BY <1>2, <1>3, FormatAssumption DEF IsPublish
<1>5. ASSUME Reading("bytes") PROVE position + 1 <= end
  <2>1. todo # PublishFields(qos) /\ todo # ToPayload
    BY <1>5, NextRead, PublishLists, Kinds
  <2>2. todo # Text(topic, ToPayload) /\ todo # Text(topic, AfterTopic)
    BY <1>5, NextRead, TextLists, Kinds
  <2> QED
    BY <1>2, <1>3, <1>4, <2>1, <2>2 DEF PublishPoint, Point
<1>6. ASSUME Reading("string") PROVE position + 2 <= end
  <2>1. todo \notin {ToPayload, AfterTopic, HalfId}
    BY <1>6, NextRead, PublishLists, Kinds
  <2>2. todo # Text(topic, ToPayload) /\ todo # Text(topic, AfterTopic)
    BY <1>6, NextRead, TextLists, Kinds
  <2> QED
    BY <1>1, <1>2, <2>1, <2>2 DEF PublishPoint, Point
<1>7. ASSUME Reading("chars") PROVE position + Head(todo).n <= end
  <2>1. todo # PublishFields(qos)
    BY <1>7, NextRead, PublishLists, Kinds
  <2>2. todo # ToPayload /\ todo # AfterTopic /\ todo # HalfId
    BY <1>7, NextRead, PublishLists, Kinds
  <2>3. /\ topic <= TopicSize /\ position = body + 2
        /\ todo = Text(topic, ToPayload) \/ todo = Text(topic, AfterTopic)
    BY <1>2, <1>3, <2>1, <2>2 DEF PublishPoint, Point
  <2>4. Head(todo) = Chars(topic)
    BY <2>3, TextLists DEF Begins
  <2>5. Head(todo).n = topic
    BY <2>4, Kinds
  <2> QED
    BY <1>4, <2>3, <2>5
<1> QED
  BY <1>5, <1>6, <1>7 DEF Fits

LEMMA SubscribeFits ==
  ASSUME Types, NEW body \in Nat, NEW end \in Nat, end <= Len(stream.bytes),
         IsSubscribe(stream, body, end), SubscribePoint(body, end)
  PROVE  Fits(end)
<1>1. stream \in Streams /\ body + 2 <= end
  BY DEF Types, TypeOK, IsSubscribe
<1>2. ASSUME Reading("bytes") PROVE position + 1 <= end
  <2>1. todo \notin {ToTopics, TopicFields, AfterText}
    BY <1>2, NextRead, SubscribeLists, Kinds
  <2>2. \A n : todo # Text(n, AfterText)
    BY <1>2, NextRead, TextLists, Kinds
  <2>3. CASE position \in {body, body + 1}
    BY <1>1, <2>3
  <2>4. CASE position \notin {body, body + 1}
    <3>1. /\ ~ Point(SubscribeFields, body, 0, 0)
          /\ ~ Point(OneThenTopics, body + 1, stream.bytes[body + 1] * 256, 0)
      BY <2>4 DEF Point
    <3>2. PICK count, at, k, here, topic, flags, next :
            InTopic(body, end, count, at, k, here, topic, flags, next)
      BY <2>1, <3>1, WhichTopic
    <3>3. position = flags /\ next = flags + 1 /\ next <= end
      BY <2>1, <2>2, <3>2 DEF InTopic, TopicLies, Point
    <3> QED
      BY <3>3
  <2> QED
    BY <2>3, <2>4
<1>3. ASSUME Reading("string") PROVE position + 2 <= end
  <2>1. todo \notin {SubscribeFields, OneThenTopics, ToTopics, AfterText}
    BY <1>3, NextRead, SubscribeLists, Kinds
  <2>2. \A n : todo # Text(n, AfterText)
    BY <1>3, NextRead, TextLists, Kinds
  <2>3. PICK count \in 1 .. end : \E at \in [1 .. count -> body .. end] :
          /\ AreTopics(stream, body, end, count, at)
        /\ \E k \in 1 .. count : TopicPoint(end, count, at, k)
    BY <2>1 DEF SubscribePoint, Point
  <2>4. PICK at \in [1 .. count -> body .. end] :
          /\ AreTopics(stream, body, end, count, at)
        /\ \E k \in 1 .. count : TopicPoint(end, count, at, k)
    BY <2>3
  <2>5. PICK k \in 1 .. count : TopicPoint(end, count, at, k)
    BY <2>4
  <2>6. position = at[k] /\ at[k] # end
    BY <2>1, <2>2, <2>5 DEF TopicPoint, Point
  <2>7. k < count => k \in 1 .. count - 1
    BY <2>3, <2>5
  <2>8. k = count \/ k < count
    BY <2>3, <2>5
  <2> QED
    BY <2>4, <2>6, <2>7, <2>8 DEF AreTopics
<1>4. ASSUME Reading("chars") PROVE position + Head(todo).n <= end
  <2>1. todo \notin {SubscribeFields, ToTopics, TopicFields, AfterText, OneThenTopics}
    BY <1>4, NextRead, SubscribeLists, Kinds
  <2>2. PICK count, at, k, here, topic, flags, next :
          InTopic(body, end, count, at, k, here, topic, flags, next)
    BY <2>1, WhichTopic DEF Point
  <2>3. /\ position = here + 2 /\ todo = Text(topic, AfterText)
        /\ here \in Nat /\ topic \in Nat
        /\ flags = here + 2 + topic /\ next = flags + 1 /\ next <= end
    BY <2>1, <2>2 DEF InTopic, TopicLies, Point
  <2>4. Head(todo) = Chars(topic)
    BY <2>3, TextLists DEF Begins
  <2>5. Head(todo).n = topic
    BY <2>4, Kinds
  <2> QED
    BY <2>3, <2>5
<1> QED
  BY <1>2, <1>3, <1>4 DEF Fits

LEMMA OnTrackFits ==
  ASSUME Types, NEW start \in Nat, NEW body \in Nat, NEW end \in Nat,
         InPacket(start, body, end), OnTrack(body, end),
         ~ IsBroken(stream, control, body, end)
  PROVE  Fits(end)
<1>known. /\ Known(body, end)
          /\ TypeOf(control) = PUBLISH => IsPublish(stream, QoSOf(control), body, end)
  BY DEF OnTrack, Known, IsBody
<1>1. CASE todo = <<>>
  BY <1>1 DEF Fits, Reading
<1>2. CASE OtherPoint
  <2>1. ~ Reading("bytes") /\ ~ Reading("string") /\ ~ Reading("chars")
    BY <1>2, OtherKinds
  <2> QED
    BY <2>1 DEF Fits
<1> QED
  BY <1>known, <1>1, <1>2, PacketInBytes, ConnectFits, AcksFit, PublishFits, SubscribeFits
     DEF OnTrack, Done, AtPoint

LEMMA AbortKeeps ==
  ASSUME Inv, Abort
  PROVE  Inv'
<1>1. /\ UNCHANGED <<stream, position, link, header, remaining, todo, record, stored>>
      /\ pc = "reading" /\ pc' = "aborted"
      /\ \/ Reading("bytes") /\ 1 > bytes_remaining
         \/ Reading("string") /\ 2 > bytes_remaining
         \/ Reading("chars") /\ Head(todo).n > bytes_remaining
  BY DEF Abort, Reading
<1>2. Types /\ Remains /\ remaining # <<>>
  BY <1>1 DEF Inv, Remains
<1>3. PICK start, body, end \in Nat : InPacket(start, body, end)
  BY <1>1 DEF Inv, InSomePacket
<1>4. /\ position + bytes_remaining = end /\ position >= body
      /\ Lost \/ OnTrack(body, end) \/ OffTrack(body, end)
  BY <1>1, <1>3 DEF InPacket, InBody
<1>5. position \in Nat /\ bytes_remaining \in Nat
  BY <1>2, BytesRemainingFacts
<1>6. link = "down" \/ IsBroken(stream, control, body, end)
  <2>1. ~ Fits(end)
    <3>1. Reading("chars") => Head(todo).n \in Nat
      BY <1>2, NextField DEF Reading
    <3> QED
      BY <1>1, <1>4, <1>5, <3>1 DEF Fits
  <2> QED
    BY <1>2, <1>3, <1>4, <2>1, OnTrackFits DEF Lost, OffTrack
<1>7. Types'
  BY <1>1, <1>2 DEF Types, TypeOK, Bound, Bytes, header, record
<1>8. Remains'
  BY <1>1, <1>2 DEF Remains
<1>9. AbortExplained'
  <2>1. SUFFICES ASSUME link = "up"
                 PROVE  \E s, e \in stream.ends : \E b \in s .. position :
                          /\ position <= e /\ IsPacket(stream, s, b, e)
                          /\ IsBroken(stream, control, b, e)
    BY <1>1 DEF AbortExplained, header
  <2>2. IsPacket(stream, start, body, end) /\ IsBroken(stream, control, body, end)
    BY <1>3, <1>6, <2>1 DEF InPacket
  <2>3. stream \in Streams
    BY <1>2 DEF Types, TypeOK
  <2>4. /\ start \in stream.ends /\ end \in stream.ends
        /\ body \in start .. position /\ position <= end
    BY <1>4, <1>5, <2>2, <2>3, PacketFacts
  <2> QED
    BY <2>2, <2>4
<1> QED
  BY <1>1, <1>7, <1>8, <1>9 DEF Inv, Between, InSomePacket

-----------------------------------------------------------------------------
(* The destructors                                                         *)

(* A reader has something to read, unless it is done.                      *)
LEMMA NothingToRead ==
  ASSUME todo = <<>>, NEW body, NEW end
  PROVE  ~ AtPoint(body, end)
<1>1. \A n, rest : rest \in {AfterName, AfterTopic, ToPayload, AfterText} => todo # Text(n, rest)
  BY TextLists DEF Begins
<1>2. ~ ConnectPoint(body)
  BY <1>1, ConnectLists DEF ConnectPoint, Point, Begins
<1>3. ~ ConnectAckPoint(body) /\ ~ SubscribeAckPoint(body)
  BY AckLists DEF ConnectAckPoint, SubscribeAckPoint, Point, Begins
<1>4. ~ PublishPoint(body)
  <2>1. \A qos : todo # PublishFields(qos)
    BY PublishLists DEF Begins
  <2>2. todo \notin {ToPayload, AfterTopic, HalfId}
    BY PublishLists DEF Begins
  <2> QED
    BY <1>1, <2>1, <2>2 DEF PublishPoint, Point
<1>5. ~ SubscribePoint(body, end)
  <2>1. todo \notin {SubscribeFields, OneThenTopics, ToTopics, TopicFields, AfterText}
    BY SubscribeLists DEF Begins
  <2> QED
    BY <1>1, <2>1 DEF SubscribePoint, TopicPoint, Point
<1>6. ~ OtherPoint
  BY DEF OtherPoint, Point
<1> QED
  BY <1>2, <1>3, <1>4, <1>5, <1>6 DEF AtPoint

LEMMA DestroyKeeps ==
  ASSUME Inv, Destroy
  PROVE  Inv'
<1>1. /\ pc = "reading" /\ todo = <<>> /\ DrainRest(bytes_remaining)
      /\ pc' = IF Len(remaining) = 1 THEN "idle" ELSE "leaving"
      /\ remaining' = SubSeq(remaining, 1, Len(remaining) - 1)
      /\ UNCHANGED <<stream, link, header, todo, record, stored>>
  BY DEF Destroy, LeaveScope
<1>2. Types /\ Remains /\ remaining # <<>> /\ stream \in Streams
  BY <1>1 DEF Inv, Remains, Types, TypeOK
<1>3. /\ Bound \in Nat /\ Bound = Len(stream.bytes) /\ position \in 0 .. Bound
      /\ remaining \in Seq(0 .. Bound)
      /\ Len(remaining) \in Nat \ {0} /\ bytes_remaining \in 0 .. Bound
  BY <1>2, BytesRemainingFacts DEF Bound, Bytes
<1>4. PICK last \in Nat \ {0} : last = Len(remaining)
  BY <1>3
<1>5. PICK start, body, end \in Nat : InPacket(start, body, end)
  BY <1>1 DEF Inv, InSomePacket
<1>6. position + bytes_remaining = end /\ (Lost \/ OnTrack(body, end) \/ OffTrack(body, end))
  BY <1>1, <1>5 DEF InPacket, InBody
<1>7. end \in stream.ends /\ end <= Len(stream.bytes)
  BY <1>2, <1>5, PacketFacts DEF InPacket
<1>8. position' \in 0 .. Bound /\ (link = "up" => position' = end)
  <2>1. CASE position' = position + bytes_remaining
    BY <1>3, <1>6, <1>7, <2>1
  <2>2. CASE link = "down" /\ position' = position
    BY <1>3, <2>2
  <2> QED
    BY <1>1, <2>1, <2>2 DEF DrainRest, ReadFails
<1>9. /\ remaining' \in Seq(0 .. Bound) /\ Len(remaining') = last - 1
      /\ \A i \in 1 .. last - 1 : remaining'[i] = remaining[i]
  <2>1. PICK S : S = 0 .. Bound
    OBVIOUS
  <2>2. \A i \in 1 .. last - 1 : remaining[i] \in S
    BY <1>3, <1>4, <2>1, ElementOfSeq
  <2>3. /\ SubSeq(remaining, 1, last - 1) \in Seq(S)
        /\ Len(SubSeq(remaining, 1, last - 1)) = last - 1
        /\ \A i \in 1 .. last - 1 : SubSeq(remaining, 1, last - 1)[i] = remaining[i]
    BY <1>4, <2>2
  <2> QED
    BY <1>1, <1>4, <2>1, <2>3
<1>10. \A i \in 1 .. last - 1 : remaining'[i] = 0
  BY <1>2, <1>4, <1>9 DEF Remains
<1>11. Types'
  BY <1>1, <1>2, <1>8, <1>9 DEF Types, TypeOK, Bound, Bytes, header, record
<1>12. Remains'
  <2>1. remaining' = <<>> <=> last = 1
    BY <1>9, EmptySeq
  <2>2. pc' = "leaving" => bytes_remaining' = 0
    BY <1>1, <1>4, <1>9, <1>10 DEF bytes_remaining
  <2> QED
    BY <1>1, <1>4, <1>9, <1>10, <2>1, <2>2 DEF Remains
<1>13. Between'
  <2>1. SUFFICES ASSUME link = "up" PROVE position' \in stream'.ends /\ StoredUpTo(position)'
    BY <1>1 DEF Between
  <2>2. Done(end)
    <3>1. CASE OnTrack(body, end)
      BY <1>1, <3>1, NothingToRead DEF OnTrack
    <3>2. CASE OffTrack(body, end)
      <4>1. HasPayloads(stream, end, {})
        BY <3>2, BrokenFacts DEF OffTrack
      <4> QED
        BY <1>1, <1>2, <1>5, <2>1, <4>1, NothingToStore DEF Done, InPacket
    <3> QED
      BY <1>6, <2>1, <3>1, <3>2 DEF Lost
  <2> QED
    BY <1>1, <1>7, <1>8, <2>1, <2>2 DEF Done, StoredUpTo
<1>14. AbortExplained' /\ InSomePacket'
  BY <1>1 DEF AbortExplained, InSomePacket
<1> QED
  BY <1>11, <1>12, <1>13, <1>14 DEF Inv

(* The Packets moved from have nothing to drain.                           *)
LEMMA DestroyMovedFromKeeps ==
  ASSUME Inv, DestroyMovedFrom
  PROVE  Inv'
<1>1. /\ pc = "leaving" \/ (pc = "returning" /\ Len(remaining) = 2)
      /\ DrainRest(remaining[1])
      /\ pc' = IF pc = "returning" THEN "ready"
               ELSE IF Len(remaining) = 1 THEN "idle" ELSE "leaving"
      /\ remaining' = Tail(remaining)
      /\ UNCHANGED <<stream, link, header, todo, record, stored>>
  BY DEF DestroyMovedFrom, LeaveScope
<1>2. Types /\ Remains /\ remaining # <<>>
  BY <1>1 DEF Inv, Remains
<1>3. /\ Bound \in Nat /\ position \in 0 .. Bound
      /\ remaining \in Seq(0 .. Bound) /\ Len(remaining) \in Nat \ {0}
  BY <1>2, BytesRemainingFacts
<1>4. PICK last \in Nat \ {0} : last = Len(remaining)
  BY <1>3
<1>5. remaining[1] = 0
  BY <1>1, <1>2, <1>4 DEF Remains, bytes_remaining
<1>6. position' = position
  BY <1>1, <1>3, <1>5 DEF DrainRest, ReadFails
<1>7. /\ remaining' \in Seq(0 .. Bound) /\ Len(remaining') = last - 1
      /\ \A i \in 1 .. last - 1 : remaining'[i] = remaining[i + 1]
  BY <1>1, <1>2, <1>3, <1>4, HeadTailProperties
<1>8. Types'
  BY <1>1, <1>2, <1>6, <1>7 DEF Types, TypeOK, Bound, Bytes, header, record
<1>9. /\ remaining' = <<>> <=> last = 1
      /\ last > 1 => bytes_remaining' = bytes_remaining
  <2>1. remaining' = <<>> <=> last = 1
    BY <1>7, EmptySeq
  <2>2. ASSUME last > 1 PROVE bytes_remaining' = bytes_remaining
    <3>1. last - 1 \in 1 .. last - 1 /\ (last - 1) + 1 = last
      BY <2>2
    <3> QED
      BY <1>4, <1>7, <3>1 DEF bytes_remaining
  <2> QED
    BY <2>1, <2>2
<1>10. Remains'
  <2>1. \A i \in 1 .. last - 2 : remaining'[i] = 0
    BY <1>2, <1>4, <1>7 DEF Remains
  <2>2. Len(remaining') - 1 = last - 2
    BY <1>7
  <2>3. pc' = "leaving" => bytes_remaining' = 0
    BY <1>1, <1>2, <1>4, <1>9 DEF Remains
  <2> QED
    BY <1>1, <1>4, <1>9, <2>1, <2>2, <2>3 DEF Remains
<1>11. Between'
  <2>1. CASE pc = "leaving"
    BY <1>1, <1>6, <2>1 DEF Inv, Between, StoredUpTo
  <2>2. CASE pc = "returning"
    BY <1>1, <2>2 DEF Between
  <2> QED
    BY <1>1, <2>1, <2>2
<1>12. AbortExplained'
  BY <1>1 DEF AbortExplained
<1>13. InSomePacket'
  <2>1. CASE pc = "leaving"
    BY <1>1, <2>1 DEF InSomePacket
  <2>2. CASE pc = "returning"
    <3>1. PICK start, body, end \in Nat : InPacket(start, body, end)
      BY <2>2 DEF Inv, InSomePacket
    <3>2. bytes_remaining' = bytes_remaining
      BY <1>1, <1>4, <1>9, <2>2
    <3>3. (link = "up" => StoredUpTo(start))'
      BY <1>1, <3>1 DEF InPacket, StoredUpTo
    <3>4. InPacket(start, body, end)'
      BY <1>1, <1>6, <2>2, <3>1, <3>2, <3>3 DEF InPacket, header
    <3> QED
      BY <3>4 DEF InSomePacket
  <2> QED
    BY <1>1, <2>1, <2>2
<1> QED
  BY <1>8, <1>10, <1>11, <1>12, <1>13 DEF Inv

LEMMA NextKeeps ==
  ASSUME Inv, [Next]_vars
  PROVE  Inv'
<1>1. CASE Step
  BY <1>1, ReadSizeKeeps, FailHeaderKeeps, MoveKeeps, HandleMessageKeeps, ReadByteKeeps,
     ReadLengthKeeps, ReadCharsKeeps, MoreTopicsKeeps, CallTopicCallbackKeeps,
     ReadPayloadKeeps, DumpKeeps, DrainKeeps, AbortKeeps, DestroyKeeps,
     DestroyMovedFromKeeps DEF Step
<1>2. CASE ReadControl
  BY <1>2, ReadControlKeeps
<1>3. CASE Lose
  BY <1>3, LosingKeeps DEF Lose
<1>4. CASE UNCHANGED vars
  BY <1>4, LosingKeeps DEF vars, header, record
<1> QED
  BY <1>1, <1>2, <1>3, <1>4 DEF Next

-----------------------------------------------------------------------------
LEMMA SpecInv == Spec => []Inv
<1>1. Init => Inv
  BY InitInv
<1>2. Inv /\ [Next]_vars => Inv'
  BY NextKeeps
<1> QED
  BY <1>1, <1>2, PTL DEF Spec

(* Every variable keeps its type, whatever stream of packets comes: no     *)
(* count goes below 0 and nothing is read beyond the stream.               *)
THEOREM TypeCorrect == Spec => []TypeOK
<1>1. Inv => TypeOK
  BY DEF Inv, Types
<1> QED
  BY <1>1, SpecInv, PTL

(* A Packet that is gone leaves the connection at the first byte of the    *)
(* next one: its destructor drains what its handler left, and those it was *)
(* moved from drain nothing.                                               *)
THEOREM PacketsFramed == Spec => []Framed
<1>1. Inv => Framed
  BY DEF Inv, Between, Framed
<1> QED
  BY <1>1, SpecInv, PTL

(* While a handler reads, bytes_remaining is what is left of its packet.   *)
THEOREM NoByteOfTheNext == Spec => []BytesLeft
<1>1. ASSUME Inv PROVE BytesLeft
  <2>1. SUFFICES ASSUME pc = "reading" PROVE
          /\ position + bytes_remaining \in stream.ends
          /\ \A end \in stream.ends : position <= end => position + bytes_remaining <= end
    BY DEF BytesLeft
  <2>2. PICK start, body, end \in Nat : InPacket(start, body, end)
    BY <1>1, <2>1 DEF Inv, InSomePacket
  <2>3. stream \in Streams /\ position \in Nat
    BY <1>1, BytesRemainingFacts, StreamFacts DEF Inv, Types, TypeOK, Bound, Bytes
  <2>4. IsPacket(stream, start, body, end) /\ position >= body /\ position + bytes_remaining = end
    BY <2>1, <2>2 DEF InPacket, InBody
  <2>5. /\ end \in stream.ends /\ start + 1 < body
        /\ \A e \in stream.ends : e <= start \/ end <= e
    BY <2>3, <2>4, PacketFacts
  <2>6. stream.ends \subseteq Nat
    BY <2>3, StreamFacts
  <2> QED
    BY <2>3, <2>4, <2>5, <2>6
<1> QED
  BY <1>1, SpecInv, PTL

(* What is stored was sent as a payload, whole, and while the client is    *)
(* there nothing sent is missing.                                          *)
THEOREM PayloadsWhole == Spec => []PayloadsStored
<1>1. Inv => PayloadsStored
  BY DEF Inv, Types, Between, StoredUpTo, PayloadsStored
<1> QED
  BY <1>1, SpecInv, PTL

(* While the client is there, the assertion of Packet::Read fails on no    *)
(* packet whose lengths and fields fit into it, whatever came before.      *)
THEOREM AssertionExplained == Spec => []AbortExplained
<1>1. Inv => AbortExplained
  BY DEF Inv
<1> QED
  BY <1>1, SpecInv, PTL

(* The numbers and lengths that a handler reads are those the sender put   *)
(* into this packet, in that order.                                        *)
THEOREM FieldsAsSent == Spec => []FieldsIntact
<1>1. ASSUME Inv PROVE FieldsIntact
  <2>1. SUFFICES ASSUME pc = "reading", link = "up", NEW f \in stream.fields,
                        f.end = position + bytes_remaining
                 PROVE  fields = SubSeq(f.values, 1, Len(fields))
    BY DEF FieldsIntact
  <2>2. PICK start, body, end \in Nat : InPacket(start, body, end)
    BY <1>1, <2>1 DEF Inv, InSomePacket
  <2>3. FoundSoFar(end) /\ f.end = end
    <3>1. f.end = end /\ (OnTrack(body, end) \/ OffTrack(body, end))
      BY <2>1, <2>2 DEF InPacket, InBody, Lost
    <3>2. ~ OffTrack(body, end)
      BY <3>1, BrokenFacts DEF OffTrack, NoField
    <3> QED
      BY <3>1, <3>2 DEF OnTrack
  <2>4. /\ fields \in Seq(Nat) /\ Len(fields) \in Nat /\ f.values \in Seq(Nat)
        /\ Len(f.values) \in Nat
    BY <1>1, StreamFacts DEF Inv, Types, TypeOK
  <2>5. PICK n \in Nat : n = Len(fields)
    BY <2>4
  <2>6. /\ n <= Len(f.values)
        /\ \A i \in 1 .. n : fields[i] = f.values[i]
    BY <2>3, <2>5 DEF FoundSoFar
  <2>7. \A i \in 1 .. n : f.values[i] \in Nat
    BY <2>4, <2>6, ElementOfSeq
  <2>8. PICK t : t = SubSeq(f.values, 1, n)
    OBVIOUS
  <2>9. t \in Seq(Nat) /\ Len(t) = n /\ \A i \in 1 .. n : t[i] = f.values[i]
    BY <2>5, <2>7, <2>8
  <2>10. \A i \in 1 .. Len(fields) : fields[i] = t[i]
    BY <2>5, <2>6, <2>9
  <2>11. fields = t
    BY <2>4, <2>5, <2>9, <2>10, SeqEqual
  <2> QED
    BY <2>5, <2>8, <2>11
<1> QED
  BY <1>1, SpecInv, PTL

=============================================================================
