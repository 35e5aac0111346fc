------------------------------ MODULE MCPacket ------------------------------
(***************************************************************************)
(* Connections of two packets, the second a PUBLISH that is stored only if *)
(* the first one is read to its end.  Sizes are written to base 4, so that *)
(* packets of a few bytes need one to three digits.                        *)
(***************************************************************************)
EXTENDS Packet

F == INSTANCE Frames

PINGREQ == 12

(* A number whose two bytes differ.                                        *)
Id == 259

Connects ==
  {F!kDefaultConnect,
   [F!kDefaultConnect EXCEPT !.protocol_level = 3, !.keep_alive = Id, !.client_id = 1],
   [F!kDefaultConnect EXCEPT !.protocol_name = NameSize + 1]}

(* Topics and names that fit and some that do not, no payload and some,    *)
(* any QoS, no topic, one and two, one response and two, bodies that       *)
(* nobody reads, and packets of MQTT 5.                                    *)
MCFrames ==
  {F!ConnectFrame(c) : c \in Connects} \cup
  {F!ConnectAckFrame(e) : e \in BOOLEAN} \cup
  {F!PublishFrame(q, t, Id, p) :
     q \in {0, 1}, t \in {1, TopicSize + 1}, p \in {<<>>, <<5, 6, 9>>}} \cup
  {F!SubscribeFrame(Id, t) : t \in {<<>>, <<1>>, <<0, TopicSize>>, <<TopicSize + 1, 1>>}} \cup
  {F!SubscribeAckFrame(Id, r) : r \in {<<0>>, <<128, 0>>}} \cup
  {F!ConnectFrame5(F!kDefaultConnect)} \cup
  {F!PublishFrame5(q, 1, Id, <<5>>) : q \in {0, 1}} \cup
  {F!SubscribeFrame5(Id, t) : t \in 1 .. TopicSize} \cup
  {F!PingRespFrame, F!OtherFrame(PINGREQ, <<>>), F!OtherFrame(PINGREQ, <<3, 3>>)}

(* Of every type that is read, packets that end before their fields do,    *)
(* among them a PUBLISH of nothing but the length of a topic that would    *)
(* fit the buffer (for the program 30 02 00 05 is one).                    *)
BrokenFrame(type, flags, body) == F!Frame(type, flags, body, <<>>, {})

BrokenFrames ==
  {BrokenFrame(CONNECT, 0, b) : b \in {<<>>, <<0, 4, 1>>, <<0, 1, 1, 4, 2, 0>>}} \cup
  {BrokenFrame(CONNACK, 0, <<0>>)} \cup
  {BrokenFrame(PUBLISH, 0, b) : b \in {<<0>>, <<0, 2>>, <<0, 2, 1>>}} \cup
  {BrokenFrame(PUBLISH, 2, b) : b \in {<<0, 1, 1>>, <<0, 1, 1, 1>>}} \cup
  {BrokenFrame(SUBSCRIBE, 2, b) :
     b \in {<<1>>, <<1, 3, 0>>, <<1, 3, 0, 0>>, <<1, 3, 0, 0, 0, 0, 1>>}} \cup
  {BrokenFrame(SUBACK, 0, <<1, 3>>)}

BeforePublish(first) == {F!Stream(<<f, F!PublishFrame(0, 1, Id, <<8>>)>>) : f \in first}

WholeStreams == BeforePublish(MCFrames)

MCStreams == BeforePublish(MCFrames \cup BrokenFrames)

=============================================================================
