---------------------------- MODULE ServerProofs ----------------------------
(***************************************************************************)
(* Proofs about Server, for every set of connections, topics and packets,  *)
(* any number of calls and every key type that KeyTypeAssumption admits.   *)
(***************************************************************************)
EXTENDS Server, SequenceTheorems, TLAPS

Acked == [conn : Conn, filters : Seq(Filter)]

(* The list has a node for every acknowledged subscription that was not    *)
(* removed, but for the last one, which is still to be added.              *)
Nodes ==
  /\ \A i \in DOMAIN acked : acked[i].filters # <<>>
  /\ Len(acked) = IF pc = "observe" THEN created + 1 ELSE created
  /\ observers = {Node(i) : i \in {j \in Current : j <= created}}

(* A loop of the store only runs while the call that started it does.      *)
Loops == pc # "notify" => pending = {}

(* What a call knows between two of its steps.                             *)
InCall ==
  pc \in {"handle", "connack", "suback", "observe"} =>
    conn \in Conn /\ packet \in Packet /\ link[conn] # "closed"

Bounds ==
  /\ pc = "handle" /\ packet.type = "PUBLISH" => Len(pubs) < MaxPublishes
  /\ pc = "handle" /\ packet.type = "SUBSCRIBE" => created < MaxObservers
  /\ pc \in {"suback", "observe"} => created < MaxObservers

Subscribing ==
  /\ pc = "suback" =>
       /\ packet.type = "SUBSCRIBE"
       /\ observer = IF packet.filters = <<>> THEN Nothing ELSE LastObserver
  /\ pc = "observe" =>
       /\ observer = Subscription(created + 1) /\ observer.conn = conn
       /\ created + 1 \notin removed

(* What CONNECT is about to answer, if it still can.                       *)
Connecting ==
  pc = "connack" =>
    /\ packet.type = "CONNECT"
    /\ link[conn] = "up" =>
         IF packet.name = "too long" \/ LevelType(packet.level) = "unsupported"
         THEN error ELSE ~error /\ connection_type = LevelType(packet.level)

(* The entry of a key is the last payload published on a topic that has    *)
(* the key.                                                                *)
Latest ==
  \A k \in Key :
    /\ entries[k] <= Len(pubs)
    /\ entries[k] # 0 => EncodeKey(pubs[entries[k]]) = k
    /\ \A n \in 1 .. Len(pubs) : EncodeKey(pubs[n]) = k => n <= entries[k]

(* A subscription of a client selects a key.                               *)
Asked(c, k) ==
  \E i \in DOMAIN acked : Subscription(i).conn = c /\ KeyMatch(Subscription(i).filter, k)

(* What a client holds for a key is no later than the entry, was published *)
(* on a topic with that key, is named by the key, and one of the client's  *)
(* subscriptions selects it.                                               *)
Views ==
  \A c \in Conn, k \in Key :
    /\ view[c][k].payload <= entries[k]
    /\ view[c][k] # Unheard =>
         /\ view[c][k].topic = DecodeKey(k)
         /\ EncodeKey(pubs[view[c][k].payload]) = k
         /\ Asked(c, k)

(* An observer with no call to come for a key has passed on its entry.     *)
Delivered ==
  \A o \in observers, k \in Key :
    /\ <<o.id, k>> \notin pending
    /\ link[o.handler.conn] = "up"
    /\ KeyMatch(o.handler.filter, k)
    => view[o.handler.conn][k].payload >= entries[k]

(* A loop only has calls to make for keys that have an entry.              *)
Calls == \A call \in pending : entries[call[2]] # 0

Locals == InCall /\ Bounds /\ Subscribing /\ Connecting /\ ConnectAnswered

Inv ==
  /\ TypeOK /\ Nodes /\ Loops /\ Calls /\ Locals
  /\ Latest /\ Views /\ Delivered

-----------------------------------------------------------------------------
LEMMA Keys == \A t \in Topic : EncodeKey(t) \in Key
  BY DEF Key

(* The matchers miss no topic that a filter asks for.                      *)
LEMMA MatchersComplete ==
  ASSUME NEW f \in Filter, NEW t \in Topic, TopicMatches(f, t)
  PROVE  KeyMatch(f, EncodeKey(t))
  BY KeyTypeAssumption DEF Filter, TopicMatches, KeyMatch

LEMMA PacketFacts ==
  ASSUME NEW p \in Packet, p.type = "SUBSCRIBE"
  PROVE  p.filters \in Seq(Filter)
  BY ServerAssumption DEF PacketType

LEMMA PublishFacts ==
  ASSUME NEW p \in Packet, p.type = "PUBLISH"
  PROVE  p.topic \in Topic
  BY ServerAssumption DEF PacketType

LEMMA LastOfFilters ==
  ASSUME NEW filters \in Seq(Filter), filters # <<>>
  PROVE  Last(filters) \in Filter
<1>1. Len(filters) \in Nat /\ Len(filters) # 0
  BY LenProperties, EmptySeq
<1>2. Len(filters) \in 1 .. Len(filters)
  BY <1>1
<1> QED
  BY <1>2, ElementOfSeq DEF Last

(* The subscriptions are what handlers are told apart by.                  *)
LEMMA Subscriptions ==
  ASSUME TypeOK, Nodes
  PROVE  /\ Len(acked) \in Nat /\ DOMAIN acked = 1 .. Len(acked)
         /\ \A i \in DOMAIN acked :
              /\ acked[i].conn \in Conn /\ Subscription(i).conn = acked[i].conn
              /\ Subscription(i) \in Handler
<1>1. acked \in Seq(Acked)
  BY DEF TypeOK, Acked
<1>2. Len(acked) \in Nat /\ DOMAIN acked = 1 .. Len(acked)
  BY <1>1, LenProperties
<1>3. ASSUME NEW i \in DOMAIN acked
      PROVE  /\ acked[i].conn \in Conn /\ Subscription(i).conn = acked[i].conn
             /\ Subscription(i) \in Handler
  <2>1. acked[i] \in Acked
    BY <1>1, <1>2, ElementOfSeq
  <2>2. acked[i].filters \in Seq(Filter) /\ acked[i].filters # <<>>
    BY <2>1 DEF Nodes, Acked
  <2>3. Last(acked[i].filters) \in Filter
    BY <2>2, LastOfFilters
  <2> QED
    BY <2>1, <2>3 DEF Subscription, Handler, Acked
<1> QED
  BY <1>2, <1>3

(* A node is known by its id.                                              *)
LEMMA NodeFacts ==
  ASSUME TypeOK, Nodes, NEW o \in observers
  PROVE  /\ o.id \in Current /\ o.id <= created /\ o.id \in DOMAIN acked
         /\ o = Node(o.id) /\ o.handler = Subscription(o.id)
         /\ o.client_id = IdOf[acked[o.id].conn]
         /\ o.handler.conn \in Conn /\ o.handler.filter \in Filter
<1>1. PICK i \in Current : i <= created /\ o = Node(i)
  BY DEF Nodes
<1>2. o.id = i /\ o.handler = Subscription(i) /\ o.client_id = IdOf[acked[i].conn]
  BY <1>1 DEF Node
<1>3. i \in DOMAIN acked
  BY DEF Current
<1> QED
  BY <1>1, <1>2, <1>3, Subscriptions DEF Handler

LEMMA PayloadFacts ==
  ASSUME TypeOK
  PROVE  /\ Len(pubs) \in Nat
         /\ \A k \in Key : entries[k] \in Nat /\ entries[k] \in Payload \cup {0}
         /\ \A c \in Conn, k \in Key :
              /\ view[c][k] \in Message \cup {Unheard}
              /\ view[c][k].payload \in Nat
              /\ view[c][k] # Unheard => view[c][k].payload # 0
<1>1. Len(pubs) \in Nat
  BY LenProperties DEF TypeOK
<1>2. \A k \in Key : entries[k] \in Nat /\ entries[k] \in Payload \cup {0}
  BY DEF TypeOK, DS!TypeOK, Payload
<1>3. \A c \in Conn, k \in Key : view[c][k] \in Message \cup {Unheard}
  BY DEF TypeOK
<1>4. ASSUME NEW m \in Message \cup {Unheard}
      PROVE  m.payload \in Nat /\ (m # Unheard => m.payload # 0)
  BY DEF Message, Unheard, Payload
<1> QED
  BY <1>1, <1>2, <1>3, <1>4

(* What a step leaves of the nodes and the loops when it leaves these      *)
(* variables.                                                              *)
LEMMA NodesKept ==
  ASSUME Nodes, UNCHANGED <<observers, created, acked, removed>>,
         pc = "observe" <=> pc' = "observe"
  PROVE  Nodes'
  BY DEF Nodes, Node, Subscription, Current

LEMMA AskedKept ==
  ASSUME UNCHANGED acked, NEW c, NEW k
  PROVE  Asked(c, k)' <=> Asked(c, k)
  BY DEF Asked, KeyMatch, Subscription

LEMMA PayloadsKept ==
  ASSUME Latest, Views, UNCHANGED <<entries, acked, pubs, view>>
  PROVE  Latest' /\ Views'
  BY AskedKept DEF Latest, Views

LEMMA DeliveredKept ==
  ASSUME TypeOK, Nodes, Delivered, UNCHANGED <<entries, pending, view>>,
         observers' \subseteq observers,
         \A c \in Conn : link'[c] = "up" => link[c] = "up"
  PROVE  Delivered'
<1> SUFFICES ASSUME NEW o \in observers', NEW k \in Key,
                    <<o.id, k>> \notin pending,
                    link'[o.handler.conn] = "up",
                    KeyMatch(o.handler.filter, k)
             PROVE  view[o.handler.conn][k].payload >= entries[k]
  BY DEF Delivered, KeyMatch
<1>1. o \in observers /\ o.handler.conn \in Conn
  BY NodeFacts
<1> QED
  BY <1>1 DEF Delivered

-----------------------------------------------------------------------------
LEMMA InvInit == Init => Inv
<1> SUFFICES ASSUME Init PROVE Inv
  OBVIOUS
<1> USE DEF Init, DS!Init
<1>1. TypeOK
  <2>1. acked \in Seq([conn : Conn, filters : Seq(Filter)]) /\ pubs \in Seq(Topic)
    BY EmptySeq
  <2>2. DS!TypeOK
    BY ServerAssumption DEF DS!TypeOK, DS!Id, Payload
  <2>3. Len(pubs) <= MaxPublishes
    BY ServerAssumption
  <2>4. view \in [Conn -> [Key -> Message \cup {Unheard}]] /\ removed \subseteq DOMAIN acked
    OBVIOUS
  <2> QED
    BY <2>1, <2>2, <2>3, <2>4 DEF TypeOK, ConnectionType
<1>2. Nodes /\ Loops /\ Calls
  BY EmptySeq DEF Nodes, Loops, Calls, Current
<1>3. Locals
  BY DEF Locals, InCall, Bounds, Subscribing, Connecting, ConnectAnswered
<1>4. Latest /\ Views /\ Delivered
  BY EmptySeq DEF Latest, Views, Delivered, Unheard
<1> QED
  BY <1>1, <1>2, <1>3, <1>4 DEF Inv

(* A peer that goes away or stalls changes nothing but its link.           *)
LEMMA LinkInv ==
  ASSUME Inv, NEW c \in Conn, Disconnect(c) \/ Stall(c)
  PROVE  Inv'
<1> USE DEF Inv, storeVars, callVars, localVars, clientVars
<1>1. /\ UNCHANGED <<storeVars, callVars, clientVars, pubs>>
      /\ link' \in [Conn -> {"up", "closed", "down"}] /\ stalled' \subseteq Conn
      /\ \A d \in Conn : link'[d] = link[d] \/ link'[d] = "down"
  BY DEF Disconnect, Stall, TypeOK
<1>2. TypeOK'
  BY <1>1 DEF TypeOK, DS!TypeOK
<1>3. Nodes' /\ Loops' /\ Calls'
  BY <1>1, NodesKept DEF Loops, Calls
<1>4. Locals'
  BY <1>1 DEF Locals, InCall, Bounds, Subscribing, Subscription, LastObserver, Connecting,
     ConnectAnswered
<1>5. Latest' /\ Views' /\ Delivered'
  BY <1>1, PayloadsKept, DeliveredKept
<1> QED
  BY <1>2, <1>3, <1>4, <1>5

(* The start of a call.                                                    *)
LEMMA HandleMessageInv ==
  ASSUME Inv, NEW c \in Conn, NEW p \in Packet, HandleMessage(c, p)
  PROVE  Inv'
<1> USE DEF Inv, HandleMessage, storeVars, clientVars, linkVars, localVars
<1>1. TypeOK'
  BY DEF TypeOK, DS!TypeOK
<1>2. Nodes' /\ Loops' /\ Calls'
  BY NodesKept DEF Loops, Calls
<1>3. Locals'
  BY DEF Locals, InCall, Bounds, Subscribing, Connecting, ConnectAnswered
<1>4. Latest' /\ Views' /\ Delivered'
  BY PayloadsKept, DeliveredKept
<1> QED
  BY <1>1, <1>2, <1>3, <1>4

(* Observers and subscriptions of a client are dropped together.           *)
LEMMA RemoveInv ==
  ASSUME Inv, NEW id \in ClientId, RemoveObserversForClient(id)
  PROVE  Inv'
<1> USE DEF Inv, RemoveObserversForClient, DS!RemoveObserversForClient, DS!AllOf,
            callVars, localVars, linkVars
<1>1. TypeOK'
  BY DEF TypeOK, DS!TypeOK
<1>2. Loops' /\ Calls'
  BY DEF Loops, Calls
<1>3. Locals'
  BY DEF Locals, InCall, Bounds, Subscribing, Connecting, ConnectAnswered
<1>4. Nodes'
  <2>1. \A i : Node(i)' = Node(i)
    BY DEF Node, Subscription
  <2>2. ASSUME NEW o PROVE o \in observers' <=> \E i \in Current' : i <= created /\ o = Node(i)
    <3>1. ASSUME o \in observers' PROVE \E i \in Current' : i <= created /\ o = Node(i)
      <4>1. o \in observers /\ o.client_id # id
        BY <3>1
      <4>2. o.id \in Current /\ o.id <= created /\ o = Node(o.id)
            /\ o.client_id = IdOf[acked[o.id].conn]
        BY <4>1, NodeFacts
      <4> QED
        BY <4>1, <4>2 DEF Current
    <3>2. ASSUME NEW i \in Current', i <= created, o = Node(i) PROVE o \in observers'
      <4>1. i \in Current /\ IdOf[acked[i].conn] # id
        BY DEF Current
      <4>2. o \in observers
        BY <3>2, <4>1 DEF Nodes
      <4>3. o.client_id # id
        BY <3>2, <4>1 DEF Node
      <4> QED
        BY <4>2, <4>3
    <3> QED
      BY <3>1, <3>2
  <2>3. observers' = {Node(i) : i \in {j \in Current' : j <= created}}
    BY <2>2
  <2> QED
    BY <2>1, <2>3 DEF Nodes
<1>5. Latest' /\ Views' /\ Delivered'
  BY PayloadsKept, DeliveredKept
<1> QED
  BY <1>1, <1>2, <1>3, <1>4, <1>5

-----------------------------------------------------------------------------
(* The steps that touch neither the store nor what the clients hold.       *)
ConnectStep == ReadConnect \/ SendConnAck \/ FailConnAck

ReturnStep ==
  \/ FailPublish \/ Notified \/ FailSubscribe \/ FailSubAck
  \/ HandlePing \/ HandleDisconnect \/ HandleUnsupported

QuietStep == ConnectStep \/ ReturnStep \/ ReadSubscribe

(* What they leave alone, and where they lead.                             *)
LEMMA QuietFrame ==
  ASSUME Inv, QuietStep
  PROVE  /\ UNCHANGED <<storeVars, acked, removed, view, stalled, pubs>>
         /\ pc # "observe" /\ pc' \in {"idle", "connack", "suback"}
         /\ pc = "notify" => pending = {}
         /\ \A c \in Conn : link'[c] = "up" => link[c] = "up"
<1> USE DEF Inv, TypeOK, Handling, Return, storeVars, callVars, clientVars, linkVars
<1>1. CASE ConnectStep
  BY <1>1 DEF ConnectStep, ReadConnect, SendConnAck, FailConnAck
<1>2. CASE ReadSubscribe
  BY <1>2 DEF ReadSubscribe
<1>3. CASE FailPublish \/ FailSubscribe \/ FailSubAck \/ Notified \/ HandleUnsupported
  BY <1>3 DEF FailPublish, FailSubscribe, FailSubAck, Notified, HandleUnsupported
<1>4. CASE HandlePing \/ HandleDisconnect
  BY <1>4 DEF HandlePing, HandleDisconnect
<1> QED
  BY <1>1, <1>2, <1>3, <1>4 DEF QuietStep, ReturnStep

(* The local variables and histories of a call.                            *)
LocalTypes ==
  /\ pc \in {"idle", "handle", "connack", "notify", "suback", "observe"}
  /\ conn \in Conn \cup {Nothing}
  /\ packet \in Packet \cup {Nothing}
  /\ connection_type \in ConnectionType
  /\ error \in BOOLEAN
  /\ observer \in Handler \cup {Nothing}
  /\ status \in {"OK", "FAILURE"}
  /\ link \in [Conn -> {"up", "closed", "down"}]
  /\ connack \in {Nothing} \cup
       [packet : Packet, connection_type : ConnectionType, answer : {"accepted", "refused"}]

LEMMA ConnectLocals ==
  ASSUME Inv, ConnectStep
  PROVE  LocalTypes' /\ Locals'
<1> USE DEF Inv, TypeOK, Return, clientVars, linkVars
<1>1. conn \in Conn /\ packet \in Packet /\ link[conn] # "closed" /\ packet.type = "CONNECT"
  BY DEF ConnectStep, ReadConnect, SendConnAck, FailConnAck, Handling, Locals, InCall, Connecting
<1>2. CASE ReadConnect
  <2>1. PICK read \in BOOLEAN, version \in Version :
          /\ read => packet.name # "too long"
          /\ ~read => packet.name = "too long" \/ link[conn] = "down"
          /\ read /\ link[conn] = "up" => version = LevelType(packet.level)
          /\ connection_type' = SetType(version)
          /\ error' = ErrorOf(read, version)
    BY <1>2 DEF ReadConnect
  <2>2. connection_type' \in ConnectionType /\ error' \in BOOLEAN
    BY <2>1 DEF SetType, ErrorOf, WrongName, NameEquals, Version
  <2>3. LocalTypes'
    BY <1>2, <2>2 DEF ReadConnect, LocalTypes
  <2>4. ~WrongName
    BY DEF WrongName, NameEquals
  <2>5. Connecting'
    BY <1>1, <1>2, <2>1, <2>4 DEF ReadConnect, Connecting, SetType, ErrorOf
  <2>6. InCall' /\ Bounds' /\ Subscribing' /\ ConnectAnswered'
    BY <1>1, <1>2
    DEF ReadConnect, Locals, InCall, Bounds, Subscribing, ConnectAnswered
  <2> QED
    BY <2>3, <2>5, <2>6 DEF Locals
<1>3. CASE SendConnAck
  <2>1. link[conn] = "up"
    BY <1>1, <1>3 DEF SendConnAck, WriteOk
  <2>2. ConnectAnswered'
    BY <1>3, <2>1 DEF SendConnAck, Locals, Connecting, ConnectAnswered
  <2>3. LocalTypes'
    BY <1>1, <1>3 DEF SendConnAck, LocalTypes, ConnectionType
  <2>4. InCall' /\ Bounds' /\ Subscribing' /\ Connecting'
    BY <1>3 DEF SendConnAck, InCall, Bounds, Subscribing, Connecting
  <2> QED
    BY <2>2, <2>3, <2>4 DEF Locals
<1>4. CASE FailConnAck
  BY <1>4 DEF FailConnAck, LocalTypes, ConnectionType, Locals, InCall, Bounds, Subscribing,
     Connecting, ConnectAnswered
<1> QED
  BY <1>2, <1>3, <1>4 DEF ConnectStep

LEMMA ReturnLocals ==
  ASSUME Inv, ReturnStep
  PROVE  LocalTypes' /\ Locals'
<1> USE DEF Inv, TypeOK, Return, clientVars, linkVars
<1>1. /\ \E result \in {"OK", "FAILURE"} : Return(result)
      /\ UNCHANGED connack
      /\ link' \in [Conn -> {"up", "closed", "down"}]
  <2>1. CASE FailPublish \/ FailSubscribe \/ FailSubAck \/ Notified \/ HandleUnsupported
    BY <2>1 DEF FailPublish, FailSubscribe, FailSubAck, Notified, HandleUnsupported
  <2>2. CASE HandlePing \/ HandleDisconnect
    BY <2>2 DEF HandlePing, HandleDisconnect
  <2> QED
    BY <2>1, <2>2 DEF ReturnStep
<1> QED
  BY <1>1 DEF LocalTypes, ConnectionType, Locals, InCall, Bounds, Subscribing, Connecting,
     ConnectAnswered

LEMMA ReadSubscribeLocals ==
  ASSUME Inv, ReadSubscribe
  PROVE  LocalTypes' /\ Locals'
<1> USE DEF Inv, TypeOK, ReadSubscribe, Handling, clientVars, linkVars
<1>1. conn \in Conn /\ packet \in Packet /\ link[conn] # "closed" /\ created < MaxObservers
  BY DEF Locals, InCall, Bounds
<1>2. packet.filters \in Seq(Filter)
  BY <1>1, PacketFacts
<1>3. packet.filters # <<>> => LastObserver \in Handler
  BY <1>1, <1>2, LastOfFilters DEF LastObserver, Handler
<1>4. observer' = IF packet.filters = <<>> THEN Nothing ELSE LastObserver
  OBVIOUS
<1>5. LocalTypes'
  BY <1>3, <1>4 DEF LocalTypes
<1>6. Subscribing'
  BY <1>4 DEF Subscribing, LastObserver
<1>7. InCall' /\ Bounds'
  BY <1>1 DEF InCall, Bounds, storeVars
<1>8. Connecting' /\ ConnectAnswered'
  BY DEF Locals, Connecting, ConnectAnswered
<1> QED
  BY <1>5, <1>6, <1>7, <1>8 DEF Locals

LEMMA QuietInv ==
  ASSUME Inv, QuietStep
  PROVE  Inv'
<1> USE QuietFrame DEF Inv, storeVars
<1>1. LocalTypes' /\ Locals'
  BY ConnectLocals, ReturnLocals, ReadSubscribeLocals DEF QuietStep
<1>2. TypeOK'
  BY <1>1 DEF LocalTypes, TypeOK, DS!TypeOK
<1>3. Nodes' /\ Loops' /\ Calls'
  BY NodesKept DEF Loops, Calls
<1>4. Latest' /\ Views' /\ Delivered'
  BY PayloadsKept, DeliveredKept
<1> QED
  BY <1>1, <1>2, <1>3, <1>4

-----------------------------------------------------------------------------
(* The steps that do.                                                      *)

(* A payload is stored, a client's or the program's.                       *)
LEMMA StoreInv ==
  ASSUME Inv, NEW topic \in Topic, Len(pubs) < MaxPublishes, pc \in {"idle", "handle"},
         Store(topic), UNCHANGED packet
  PROVE  Inv'
<1> USE DEF Inv, Store, DS!Set, DS!EraseAndEmplace, clientVars, localVars, linkVars
<1> DEFINE key == EncodeKey(topic)
<1> DEFINE payload == Len(pubs) + 1
<1>1. key \in Key
  BY Keys
<1>2. Len(pubs) \in Nat /\ payload \in Payload
  BY PayloadFacts, ServerAssumption DEF Payload
<1>3. /\ entries'[key] = payload
      /\ \A k \in Key : k # key => entries'[k] = entries[k]
  BY <1>1 DEF TypeOK, DS!TypeOK
<1>4. /\ pubs' \in Seq(Topic) /\ Len(pubs') = payload /\ pubs'[payload] = topic
      /\ \A n \in 1 .. Len(pubs) : pubs'[n] = pubs[n]
  BY AppendProperties DEF TypeOK
<1>5. TypeOK'
  <2>1. DS!TypeOK'
    BY <1>1, <1>2 DEF TypeOK, DS!TypeOK, DS!ObserverEntry
  <2> QED
    BY <1>2, <1>4, <2>1, ServerAssumption DEF TypeOK, Payload
<1>6. Nodes' /\ Loops' /\ Calls'
  BY <1>2, <1>3, NodesKept DEF Loops, Calls, Payload
<1>7. Locals'
  BY DEF Locals, InCall, Bounds, Subscribing, Connecting, ConnectAnswered
<1>8. Latest'
  <2> SUFFICES ASSUME NEW k \in Key
               PROVE  /\ entries'[k] <= Len(pubs')
                      /\ entries'[k] # 0 => EncodeKey(pubs'[entries'[k]]) = k
                      /\ \A n \in 1 .. Len(pubs') : EncodeKey(pubs'[n]) = k => n <= entries'[k]
    BY DEF Latest
  <2>1. CASE k = key
    BY <1>2, <1>3, <1>4, <2>1
  <2>2. CASE k # key
    <3>1. entries[k] \in Nat /\ entries[k] <= Len(pubs)
      BY PayloadFacts DEF Latest
    <3> QED
      BY <1>2, <1>3, <1>4, <2>2, <3>1 DEF Latest
  <2> QED
    BY <2>1, <2>2
<1>9. Views'
  <2> SUFFICES ASSUME NEW c \in Conn, NEW k \in Key
               PROVE  /\ view[c][k].payload <= entries'[k]
                      /\ view[c][k] # Unheard =>
                           /\ view[c][k].topic = DecodeKey(k)
                           /\ EncodeKey(pubs'[view[c][k].payload]) = k
                           /\ Asked(c, k)
    BY AskedKept DEF Views
  <2>1. /\ view[c][k].payload \in Nat /\ entries[k] \in Nat
        /\ view[c][k] # Unheard => view[c][k].payload # 0
        /\ view[c][k].payload <= entries[k] /\ entries[k] <= Len(pubs)
    BY PayloadFacts DEF Views, Latest
  <2> QED
    BY <1>2, <1>3, <1>4, <2>1 DEF Views
<1>10. Delivered'
  <2> SUFFICES ASSUME NEW o \in observers, NEW k \in Key,
                      <<o.id, k>> \notin pending',
                      link[o.handler.conn] = "up",
                      KeyMatch(o.handler.filter, k)
               PROVE  view[o.handler.conn][k].payload >= entries'[k]
    BY DEF Delivered, KeyMatch
  <2>1. k # key /\ <<o.id, k>> \notin pending
    OBVIOUS
  <2> QED
    BY <1>3, <2>1 DEF Delivered
<1> QED
  BY <1>5, <1>6, <1>7, <1>8, <1>9, <1>10

LEMMA StorePublishInv ==
  ASSUME Inv, StorePublish
  PROVE  Inv'
<1>1. packet.topic \in Topic /\ Len(pubs) < MaxPublishes
  BY PublishFacts DEF Inv, StorePublish, Handling, Locals, InCall, Bounds
<1> QED
  BY <1>1, StoreInv DEF StorePublish, Handling

LEMMA ProgramSetInv ==
  ASSUME Inv, NEW topic \in Topic, ProgramSet(topic)
  PROVE  Inv'
  BY StoreInv DEF ProgramSet

(* What the handler of an observer does to the histories of the clients.   *)
PassedOn(o, key) ==
  LET m == [topic |-> DecodeKey(key), payload |-> entries[key]]
  IN  /\ \A c \in Conn, k \in Key :
           \/ view'[c][k] = view[c][k]
           \/ /\ c = o.handler.conn /\ k = key
              /\ Matches(o, key) /\ WriteOk(c)
              /\ view'[c][k] = m
      /\ view' = view \/ view' = [view EXCEPT ![o.handler.conn][key] = m]
      /\ Matches(o, key) /\ link[o.handler.conn] = "up" =>
           view'[o.handler.conn][key].payload = entries[key]

(* A handler call passes the entry of the key on, or does nothing that a   *)
(* client sees.                                                            *)
LEMMA Observed ==
  ASSUME Inv, NEW id \in 1 .. MaxObservers, NEW key \in Key, Observe(id, key)
  PROVE  \E o \in observers : o.id = id /\ PassedOn(o, key)
<1> USE DEF Inv
<1>1. PICK o \in observers :
        /\ o.id = id
        /\ \/ /\ Matches(o, key) /\ WriteOk(o.handler.conn)
              /\ view' = [view EXCEPT ![o.handler.conn][key] =
                                        [topic |-> DecodeKey(key), payload |-> entries[key]]]
           \/ /\ Matches(o, key) => WriteFails(o.handler.conn)
              /\ UNCHANGED view
  BY DEF Observe, EntryPayload, MessageName
<1>2. o.handler.conn \in Conn
  BY NodeFacts
<1>3. view \in [Conn -> [Key -> Message \cup {Unheard}]]
  BY DEF TypeOK
<1>4. \A c \in Conn, k \in Key :
        \/ view'[c][k] = view[c][k]
        \/ /\ c = o.handler.conn /\ k = key
           /\ Matches(o, key) /\ WriteOk(c)
           /\ view'[c][k] = [topic |-> DecodeKey(key), payload |-> entries[key]]
  BY <1>1, <1>2, <1>3
<1>5. Matches(o, key) /\ link[o.handler.conn] = "up" =>
        view'[o.handler.conn][key].payload = entries[key]
  BY <1>1, <1>2, <1>3 DEF WriteFails
<1> QED
  BY <1>1, <1>4, <1>5 DEF PassedOn

LEMMA ObserveInv ==
  ASSUME Inv, NEW id \in 1 .. MaxObservers, NEW key \in Key, Observe(id, key)
  PROVE  Inv'
<1> USE DEF Inv, Observe, DS!CallHandler, PassedOn, callVars, localVars, linkVars
<1>1. PICK o \in observers : o.id = id /\ PassedOn(o, key)
  BY Observed
<1>2. /\ o.handler.conn \in Conn /\ o.handler = Subscription(id) /\ id \in DOMAIN acked
  BY <1>1, NodeFacts
<1>3. entries[key] \in Payload
  <2>1. <<id, key>> \in pending
    OBVIOUS
  <2> QED
    BY <2>1, PayloadFacts DEF Calls
<1> DEFINE m == [topic |-> DecodeKey(key), payload |-> entries[key]]
<1>4. m \in Message
  BY <1>3 DEF Message
<1>5. TypeOK'
  <2>1. DS!TypeOK'
    BY <1>3 DEF TypeOK, DS!TypeOK, DS!Id
  <2>2. view' \in [Conn -> [Key -> Message \cup {Unheard}]]
    <3>1. CASE view' = [view EXCEPT ![o.handler.conn][key] = m]
      <4> HIDE DEF m
      <4>1. [view[o.handler.conn] EXCEPT ![key] = m] \in [Key -> Message \cup {Unheard}]
        BY <1>2, <1>4 DEF TypeOK
      <4> QED
        BY <1>2, <3>1, <4>1 DEF TypeOK
    <3>2. CASE view' = view
      BY <3>2 DEF TypeOK
    <3> QED
      BY <1>1, <3>1, <3>2
  <2> QED
    BY <2>1, <2>2 DEF TypeOK
<1>6. Nodes' /\ Loops' /\ Calls'
  BY NodesKept DEF Loops, Calls
<1>7. Locals'
  BY DEF Locals, InCall, Bounds, Subscribing, Connecting, ConnectAnswered
<1>8. Latest'
  BY DEF Latest
<1>9. Views'
  <2> SUFFICES ASSUME NEW c \in Conn, NEW k \in Key
               PROVE  /\ view'[c][k].payload <= entries[k]
                      /\ view'[c][k] # Unheard =>
                           /\ view'[c][k].topic = DecodeKey(k)
                           /\ EncodeKey(pubs[view'[c][k].payload]) = k
                           /\ Asked(c, k)
    BY AskedKept DEF Views
  <2>1. CASE view'[c][k] = view[c][k]
    BY <2>1 DEF Views
  <2>2. CASE c = o.handler.conn /\ k = key /\ Matches(o, key) /\ view'[c][k] = m
    <3>1. m.topic = DecodeKey(key) /\ m.payload = entries[key]
      OBVIOUS
    <3>2. entries[key] # 0 /\ entries[key] \in Nat
      BY <1>3 DEF Payload
    <3>3. EncodeKey(pubs[entries[key]]) = key
      BY <3>2 DEF Latest
    <3>4. Subscription(id).conn = c /\ KeyMatch(Subscription(id).filter, k)
      BY <1>2, <2>2 DEF Matches
    <3>5. Asked(c, k)
      BY <1>2, <3>4 DEF Asked
    <3> QED
      BY <2>2, <3>1, <3>2, <3>3, <3>5
  <2> QED
    BY <1>1, <2>1, <2>2
<1>10. Delivered'
  <2> SUFFICES ASSUME NEW p \in observers, NEW k \in Key,
                      <<p.id, k>> \notin pending',
                      link[p.handler.conn] = "up",
                      KeyMatch(p.handler.filter, k)
               PROVE  view'[p.handler.conn][k].payload >= entries[k]
    BY DEF Delivered, KeyMatch
  <2>1. p.handler.conn \in Conn /\ entries[k] \in Nat /\ p = Node(p.id) /\ o = Node(o.id)
    BY NodeFacts, PayloadFacts
  <2>2. CASE <<p.id, k>> \in pending
    <3>1. p = o /\ k = key
      BY <1>1, <2>1, <2>2
    <3>2. view'[o.handler.conn][key].payload = entries[key]
      BY <1>1, <3>1 DEF Matches
    <3> QED
      BY <2>1, <3>1, <3>2
  <2>3. CASE <<p.id, k>> \notin pending
    <3>1. view[p.handler.conn][k].payload >= entries[k]
      BY <2>3 DEF Delivered
    <3>2. \/ view'[p.handler.conn][k] = view[p.handler.conn][k]
          \/ view'[p.handler.conn][k].payload = entries[k]
      BY <1>1, <2>1
    <3> QED
      BY <2>1, <3>1, <3>2
  <2> QED
    BY <2>2, <2>3
<1> QED
  BY <1>5, <1>6, <1>7, <1>8, <1>9, <1>10

(* The SUBACK of a SUBSCRIBE with topics makes a subscription of it.       *)
LEMMA Acknowledged ==
  ASSUME Inv, SendSubAck, packet.filters # <<>>
  PROVE  /\ conn \in Conn /\ packet.filters \in Seq(Filter)
         /\ created < MaxObservers /\ created \in Nat /\ Len(acked) = created
         /\ observer = LastObserver /\ observer \in Handler /\ observer # Nothing
         /\ acked' \in Seq(Acked) /\ Len(acked') = created + 1
         /\ acked'[created + 1] = [conn |-> conn, filters |-> packet.filters]
         /\ \A i \in DOMAIN acked : acked'[i] = acked[i] /\ Subscription(i)' = Subscription(i)
         /\ Subscription(created + 1)' = observer
         /\ Current' = Current \cup {created + 1} /\ created + 1 \notin removed
         /\ pc' = "observe" /\ UNCHANGED <<conn, packet, localVars, status, removed>>
<1> USE DEF Inv, SendSubAck
<1>1. conn \in Conn /\ packet \in Packet /\ created < MaxObservers /\ packet.type = "SUBSCRIBE"
      /\ observer = LastObserver
  BY DEF Locals, InCall, Bounds, Subscribing
<1>2. packet.filters \in Seq(Filter)
  BY <1>1, PacketFacts
<1>3. observer \in Handler
  BY <1>1, <1>2, LastOfFilters DEF LastObserver, Handler
<1>4. observer # Nothing
  BY <1>3 DEF Handler, Nothing
<1>5. created \in Nat /\ Len(acked) = created /\ DOMAIN acked = 1 .. created
  BY Subscriptions DEF TypeOK, DS!TypeOK, Nodes
<1> DEFINE answered == [conn |-> conn, filters |-> packet.filters]
<1>6. acked \in Seq(Acked) /\ answered \in Acked /\ acked' = Append(acked, answered)
  BY <1>1, <1>2 DEF TypeOK, Acked
<1> HIDE DEF answered
<1>7. /\ acked' \in Seq(Acked) /\ Len(acked') = created + 1
      /\ acked'[created + 1] = answered
      /\ \A i \in 1 .. created : acked'[i] = acked[i]
  BY <1>5, <1>6, AppendProperties
<1>8. DOMAIN acked' = 1 .. created + 1
  BY <1>7, LenProperties
<1>9. \A i \in DOMAIN acked : Subscription(i)' = Subscription(i)
  BY <1>5, <1>7 DEF Subscription
<1>10. Subscription(created + 1)' = observer
  BY <1>1, <1>7 DEF Subscription, LastObserver, answered, storeVars
<1>11. created + 1 \notin removed
  BY <1>5 DEF TypeOK
<1>12. Current' = Current \cup {created + 1}
  BY <1>5, <1>8, <1>11 DEF Current
<1>13. pc' = "observe" /\ UNCHANGED <<conn, packet, localVars, status, removed>>
  BY <1>4 DEF GoTo
<1> QED
  BY <1>1, <1>2, <1>3, <1>4, <1>5, <1>7, <1>9, <1>10, <1>11, <1>12, <1>13 DEF answered

LEMMA SendSubAckInv ==
  ASSUME Inv, SendSubAck
  PROVE  Inv'
<1> USE DEF Inv, storeVars, linkVars
<1>1. CASE packet.filters = <<>>
  <2> USE <1>1 DEF SendSubAck, Return
  <2>1. observer = Nothing
    BY DEF Locals, Subscribing
  <2>2. TypeOK'
    BY <2>1 DEF TypeOK, DS!TypeOK, ConnectionType
  <2>3. Nodes' /\ Loops' /\ Calls'
    BY <2>1, NodesKept DEF Loops, Calls
  <2>4. Locals'
    BY <2>1 DEF Locals, InCall, Bounds, Subscribing, Connecting, ConnectAnswered
  <2>5. Latest' /\ Views' /\ Delivered'
    BY PayloadsKept, DeliveredKept
  <2> QED
    BY <2>2, <2>3, <2>4, <2>5
<1>2. CASE packet.filters # <<>>
  <2> USE <1>2, Acknowledged
  <2>1. UNCHANGED <<storeVars, connack, view, linkVars, pubs>>
    BY DEF SendSubAck
  <2>2. TypeOK'
    <3>1. removed' \subseteq DOMAIN acked'
      <4>1. DOMAIN acked = 1 .. Len(acked) /\ DOMAIN acked' = 1 .. Len(acked')
        BY Subscriptions, LenProperties
      <4> QED
        BY <4>1 DEF TypeOK
    <3> QED
      BY <2>1, <3>1 DEF TypeOK, DS!TypeOK, Acked, localVars
  <2>3. Nodes'
    <3>1. \A i \in DOMAIN acked : Node(i)' = Node(i)
      BY DEF Node
    <3>2. DOMAIN acked = 1 .. created /\ DOMAIN acked' = 1 .. created + 1
      BY Subscriptions, LenProperties
    <3>3. \A i \in DOMAIN acked' : acked'[i].filters # <<>>
      BY <3>2 DEF Nodes
    <3>4. {j \in Current' : j <= created} = {j \in Current : j <= created}
      BY DEF Current
    <3>5. {j \in Current : j <= created} \subseteq DOMAIN acked
      BY DEF Current
    <3>6. observers = {Node(i) : i \in {j \in Current : j <= created}}
      BY DEF Nodes
    <3>7. observers' = {Node(i)' : i \in {j \in Current' : j <= created}}
      BY <2>1, <3>1, <3>4, <3>5, <3>6
    <3> QED
      BY <2>1, <3>3, <3>7 DEF Nodes
  <2>4. Loops' /\ Calls'
    BY <2>1 DEF Loops, Calls, SendSubAck
  <2>5. Locals'
    <3>1. Subscribing'
      BY <2>1 DEF Subscribing, localVars, LastObserver
    <3> QED
      BY <2>1, <3>1
      DEF Locals, InCall, Bounds, Connecting, ConnectAnswered, SendSubAck
  <2>6. Latest' /\ Delivered'
    BY <2>1, DeliveredKept DEF Latest
  <2>7. Views'
    <3>1. ASSUME NEW c \in Conn, NEW k \in Key, Asked(c, k) PROVE Asked(c, k)'
      <4>1. PICK i \in DOMAIN acked :
              Subscription(i).conn = c /\ KeyMatch(Subscription(i).filter, k)
        BY <3>1 DEF Asked
      <4>2. i \in DOMAIN acked'
        <5>1. DOMAIN acked = 1 .. Len(acked) /\ DOMAIN acked' = 1 .. Len(acked')
          BY Subscriptions, LenProperties
        <5> QED
          BY <5>1
      <4> QED
        BY <4>1, <4>2 DEF Asked, KeyMatch
    <3> QED
      BY <2>1, <3>1 DEF Views
  <2> QED
    BY <2>2, <2>3, <2>4, <2>5, <2>6, <2>7
<1> QED
  BY <1>1, <1>2

LEMMA AddObserverInv ==
  ASSUME Inv, AddObserver
  PROVE  Inv'
<1> USE DEF Inv, AddObserver, DS!AddObserver, DS!CallsForAll, GoTo, clientVars, localVars,
            linkVars
<1> DEFINE node == [id |-> created + 1, client_id |-> IdOf[conn], handler |-> observer]
<1>1. /\ conn \in Conn /\ observer = Subscription(created + 1) /\ observer.conn = conn
      /\ created < MaxObservers /\ created + 1 \notin removed
  BY DEF Locals, InCall, Bounds, Subscribing
<1>2. /\ created \in Nat /\ Len(acked) = created + 1 /\ DOMAIN acked = 1 .. created + 1
      /\ created + 1 \in DOMAIN acked
  BY Subscriptions DEF TypeOK, DS!TypeOK, Nodes
<1>3. observer \in Handler /\ acked[created + 1].conn = conn /\ IdOf[conn] \in ClientId
  BY <1>1, <1>2, Subscriptions, ServerAssumption
<1>4. created + 1 \in 1 .. MaxObservers /\ node \in DS!ObserverEntry
  BY <1>1, <1>2, <1>3, ServerAssumption DEF DS!ObserverEntry, DS!Id
<1>5. TypeOK'
  BY <1>4 DEF TypeOK, DS!TypeOK, DS!Id, DS!Stored
<1>6. Nodes'
  <2>1. \A i : Node(i)' = Node(i)
    BY DEF Node, Subscription
  <2>2. node = Node(created + 1)
    BY <1>1, <1>3 DEF Node
  <2>3. {j \in Current : j <= created + 1} = {j \in Current : j <= created} \cup {created + 1}
    BY <1>1, <1>2 DEF Current
  <2>4. observers' = {Node(i) : i \in {j \in Current : j <= created + 1}}
    <3>1. observers' = observers \cup {node}
      OBVIOUS
    <3>2. observers = {Node(i) : i \in {j \in Current : j <= created}}
      BY DEF Nodes
    <3> HIDE DEF node
    <3> QED
      BY <2>2, <2>3, <3>1, <3>2
  <2>5. Current' = Current
    BY DEF Current
  <2> QED
    BY <1>2, <2>1, <2>4, <2>5 DEF Nodes
<1>7. Loops' /\ Calls'
  BY DEF Loops, Calls, DS!Stored
<1>8. Locals'
  BY DEF Locals, InCall, Bounds, Subscribing, Connecting, ConnectAnswered
<1>9. Latest' /\ Views'
  BY PayloadsKept
<1>10. Delivered'
  <2> SUFFICES ASSUME NEW o \in observers', NEW k \in Key,
                      <<o.id, k>> \notin pending',
                      link[o.handler.conn] = "up",
                      KeyMatch(o.handler.filter, k)
               PROVE  view[o.handler.conn][k].payload >= entries[k]
    BY DEF Delivered, KeyMatch
  <2>1. CASE o \in observers
    BY <2>1 DEF Delivered
  <2>2. CASE o = node
    <3>1. entries[k] = 0
      BY <2>2 DEF DS!Stored
    <3>2. view[conn][k].payload \in Nat
      BY <1>1, PayloadFacts
    <3> QED
      BY <1>1, <2>2, <3>1, <3>2
  <2> QED
    BY <2>1, <2>2
<1> QED
  BY <1>5, <1>6, <1>7, <1>8, <1>9, <1>10

LEMMA InvNext == Inv /\ [Next]_vars => Inv'
<1> SUFFICES ASSUME Inv, [Next]_vars PROVE Inv'
  OBVIOUS
<1>1. CASE Environment
  BY <1>1, HandleMessageInv, LinkInv, ProgramSetInv, RemoveInv DEF Environment
<1>2. CASE Step
  BY <1>2, QuietInv, StorePublishInv, ObserveInv, SendSubAckInv, AddObserverInv
  DEF Step, QuietStep, ConnectStep, ReturnStep
<1>3. CASE UNCHANGED vars
  <2> USE <1>3 DEF vars, storeVars, callVars, localVars, linkVars, clientVars, Inv
  <2>1. TypeOK' /\ Nodes' /\ Loops' /\ Calls'
    BY NodesKept DEF TypeOK, DS!TypeOK, Loops, Calls
  <2>2. Locals'
    BY DEF Locals, InCall, Bounds, Subscribing, Subscription, LastObserver, Connecting,
       ConnectAnswered
  <2>3. Latest' /\ Views' /\ Delivered'
    BY PayloadsKept, DeliveredKept
  <2> QED
    BY <2>1, <2>2, <2>3
<1> QED
  BY <1>1, <1>2, <1>3 DEF Next

(* The invariant of the server and its store.                              *)
THEOREM Invariance == Spec => []Inv
  BY InvInit, InvNext, PTL DEF Spec

-----------------------------------------------------------------------------
(* Every variable of the server keeps to its type.                         *)
THEOREM TypeCorrect == Spec => []TypeOK
<1>1. Inv => TypeOK
  BY DEF Inv
<1> QED
  BY <1>1, Invariance, PTL

LEMMA InvConverged == Inv => Converged
<1> SUFFICES ASSUME Inv, pc = "idle", NEW i \in Current, NEW n \in 1 .. Len(pubs),
                    link[Subscription(i).conn] = "up",
                    TopicMatches(Subscription(i).filter, pubs[n])
             PROVE  view[Subscription(i).conn][EncodeKey(pubs[n])].payload >= n
  BY DEF Converged
<1> USE DEF Inv
<1> DEFINE k == EncodeKey(pubs[n])
<1> DEFINE s == Subscription(i)
<1>1. pubs[n] \in Topic /\ k \in Key
  BY ElementOfSeq, Keys DEF TypeOK
<1>2. s.conn \in Conn /\ s.filter \in Filter
  BY Subscriptions DEF Current, Handler
<1>3. i <= created
  BY Subscriptions DEF Nodes, Current
<1>4. Node(i) \in observers /\ Node(i).id = i /\ Node(i).handler = s
  BY <1>3 DEF Nodes, Node
<1>5. pending = {}
  BY DEF Loops
<1>6. KeyMatch(s.filter, k)
  BY <1>1, <1>2, MatchersComplete
<1>7. view[s.conn][k].payload >= entries[k]
  BY <1>1, <1>4, <1>5, <1>6 DEF Delivered
<1>8. n <= entries[k]
  BY <1>1 DEF Latest
<1>9. view[s.conn][k].payload \in Nat /\ entries[k] \in Nat
  BY <1>1, <1>2, PayloadFacts
<1> QED
  BY <1>7, <1>8, <1>9

(* server.h over datastore.h: between calls a connected client holds the   *)
(* newest payload of every topic that the last topic of an acknowledged    *)
(* SUBSCRIBE of its asks for, whatever the other clients do and whenever   *)
(* any of them is lost.                                                    *)
THEOREM ConvergedHolds == Spec => []Converged
  BY Invariance, InvConverged, PTL

(* server.h: no data before the SUBACK and none that the matcher of no     *)
(* acknowledged subscription selects.                                      *)
THEOREM OnlySubscribedHolds == Spec => []OnlySubscribed
<1>1. Inv => OnlySubscribed
  BY DEF Inv, Views, Asked, OnlySubscribed
<1> QED
  BY <1>1, Invariance, PTL

(* server.h: a client is told the topic of a payload as the key of the     *)
(* topic it was published on has it.                                       *)
THEOREM RightTopicHolds == Spec => []RightTopic
<1>1. Inv => RightTopic
  <2> SUFFICES ASSUME Inv, NEW c \in Conn, NEW k \in Key, view[c][k] # Unheard
               PROVE  /\ view[c][k].payload <= Len(pubs)
                      /\ view[c][k].topic = DecodeKey(EncodeKey(pubs[view[c][k].payload]))
    BY DEF RightTopic
  <2>1. view[c][k].payload \in Nat /\ entries[k] \in Nat /\ Len(pubs) \in Nat
    BY PayloadFacts DEF Inv
  <2> QED
    BY <2>1 DEF Inv, Views, Latest
<1> QED
  BY <1>1, Invariance, PTL

(* server.h: one observer for every acknowledged SUBSCRIBE with topics     *)
(* whose client was not removed, and no others.                            *)
THEOREM ObserversAreAckedHolds == Spec => []ObserversAreAcked
<1>1. Inv => ObserversAreAcked
  <2> SUFFICES ASSUME Inv, pc # "observe" PROVE observers = {Node(i) : i \in Current}
    BY DEF ObserversAreAcked
  <2>1. \A i \in Current : i <= created
    BY Subscriptions DEF Inv, Nodes, Current
  <2>2. {j \in Current : j <= created} = Current
    BY <2>1
  <2> QED
    BY <2>2 DEF Inv, Nodes
<1> QED
  BY <1>1, Invariance, PTL

(* server.h: "accepted" is the answer to a CONNECT exactly if its header   *)
(* was read whole and its version is known, and then the type is set to    *)
(* that version.                                                           *)
THEOREM ConnectAnsweredHolds == Spec => []ConnectAnswered
<1>1. Inv => ConnectAnswered
  BY DEF Inv, Locals
<1> QED
  BY <1>1, Invariance, PTL

-----------------------------------------------------------------------------
(* server.h: for no key does a client go back to an older payload.         *)
THEOREM NeverStaleHolds == Spec => NeverStale
<1>1. ASSUME Inv, [Next]_vars
      PROVE  \A c \in Conn, k \in Key : view'[c][k].payload >= view[c][k].payload
  <2> TAKE c \in Conn, k \in Key
  <2> USE <1>1
  <2>1. /\ view[c][k].payload \in Nat /\ entries[k] \in Nat
        /\ view[c][k].payload <= entries[k]
    BY PayloadFacts DEF Inv, Views
  <2>2. CASE \E id \in 1 .. MaxObservers, key \in Key : Observe(id, key)
    <3>1. PICK id \in 1 .. MaxObservers, key \in Key : Observe(id, key)
      BY <2>2
    <3>2. PICK o \in observers : PassedOn(o, key)
      BY <3>1, Observed
    <3> QED
      BY <2>1, <3>2 DEF PassedOn
  <2>3. CASE UNCHANGED view
    BY <2>1, <2>3
  <2>4. CASE Environment
    BY <2>3, <2>4
    DEF Environment, HandleMessage, Disconnect, Stall, ProgramSet, Store,
        RemoveObserversForClient, clientVars
  <2>5. CASE QuietStep
    BY <2>3, <2>5, QuietFrame
  <2>6. CASE StorePublish \/ SendSubAck \/ AddObserver
    BY <2>3, <2>6 DEF StorePublish, Store, SendSubAck, AddObserver, clientVars
  <2>7. CASE UNCHANGED vars
    BY <2>3, <2>7 DEF vars, clientVars
  <2> QED
    BY <2>2, <2>4, <2>5, <2>6, <2>7 DEF Next, Step, QuietStep, ConnectStep, ReturnStep
<1>2. ASSUME Inv, [Next]_vars
      PROVE  [\A c \in Conn, k \in Key : view'[c][k].payload >= view[c][k].payload]_vars
  BY <1>1, <1>2
<1> QED
  BY <1>2, Invariance, PTL DEF Spec, NeverStale

-----------------------------------------------------------------------------
(* The server keeps to the store's specification, which starts no          *)
(* operation while a loop is running and none on a full list: each step is *)
(* one operation of the store, one call of a loop, or none.                *)
THEOREM StoreRefined == Spec => DS!Init /\ [][DS!Next]_(DS!vars)
<1>1. Init => DS!Init
  BY DEF Init
<1>2. Inv /\ [Next]_vars => [DS!Next]_(DS!vars)
  <2> SUFFICES ASSUME Inv, [Next]_vars PROVE DS!Next \/ UNCHANGED DS!vars
    OBVIOUS
  <2> USE DEF Inv, DS!vars, storeVars
  <2>1. CASE StorePublish \/ \E t \in Topic : ProgramSet(t)
    <3>1. PICK t \in Topic : Store(t) /\ Len(pubs) < MaxPublishes
      BY <2>1, PublishFacts DEF StorePublish, ProgramSet, Handling, Locals, InCall, Bounds
    <3>2. EncodeKey(t) \in Key /\ Len(pubs) + 1 \in Payload
      BY <3>1, Keys, PayloadFacts, ServerAssumption DEF Payload
    <3>3. pending = {}
      BY <2>1 DEF StorePublish, ProgramSet, Handling, Loops
    <3> QED
      BY <3>1, <3>2, <3>3 DEF Store, DS!Next, DS!Operation
  <2>2. CASE AddObserver
    <3>1. observer \in Handler /\ IdOf[conn] \in ClientId /\ created < MaxObservers
      <4>1. conn \in Conn /\ observer = Subscription(created + 1) /\ created < MaxObservers
        BY <2>2 DEF AddObserver, Locals, InCall, Bounds, Subscribing
      <4>2. created + 1 \in DOMAIN acked
        BY <2>2, Subscriptions DEF AddObserver, Nodes, TypeOK, DS!TypeOK
      <4> QED
        BY <4>1, <4>2, Subscriptions, ServerAssumption
    <3>2. pending = {}
      BY <2>2 DEF AddObserver, Loops
    <3> QED
      BY <2>2, <3>1, <3>2 DEF AddObserver, DS!Next, DS!Operation
  <2>3. CASE \E id \in 1 .. MaxObservers, key \in Key : Observe(id, key)
    BY <2>3 DEF Observe, DS!Next, DS!Id
  <2>4. CASE \E id \in ClientId : RemoveObserversForClient(id)
    <3>1. pending = {}
      BY <2>4 DEF RemoveObserversForClient, Loops
    <3> QED
      BY <2>4, <3>1 DEF RemoveObserversForClient, DS!Next, DS!Operation
  <2>5. CASE \/ \E c \in Conn, p \in Packet : HandleMessage(c, p)
             \/ \E c \in Conn : Disconnect(c) \/ Stall(c)
    BY <2>5 DEF HandleMessage, Disconnect, Stall
  <2>6. CASE QuietStep
    BY <2>6, QuietFrame
  <2>7. CASE SendSubAck \/ UNCHANGED vars
    BY <2>7 DEF SendSubAck, vars
  <2> QED
    BY <2>1, <2>2, <2>3, <2>4, <2>5, <2>6, <2>7
    DEF Next, Step, Environment, QuietStep, ConnectStep, ReturnStep
<1> QED
  BY <1>1, <1>2, Invariance, PTL DEF Spec

-----------------------------------------------------------------------------
(* What the broker sees as the subscriptions of a client.                  *)
Filters(c) == {Subscription(i).filter : i \in {j \in Current : acked[j].conn = c}}

Payloads == [c \in Conn |-> [k \in Key |-> view[c][k].payload]]

(* A quiet step leaves the links alone, unless it is a DISCONNECT.         *)
LEMMA QuietLink ==
  ASSUME QuietStep
  PROVE  UNCHANGED link \/ HandleDisconnect
<1> USE DEF linkVars
<1>1. CASE ConnectStep
  BY <1>1 DEF ConnectStep, ReadConnect, SendConnAck, FailConnAck
<1>2. CASE ReadSubscribe
  BY <1>2 DEF ReadSubscribe
<1>3. CASE FailPublish \/ FailSubscribe \/ FailSubAck \/ Notified \/ HandleUnsupported \/ HandlePing
  BY <1>3 DEF FailPublish, FailSubscribe, FailSubAck, Notified, HandleUnsupported, HandlePing
<1> QED
  BY <1>1, <1>2, <1>3 DEF QuietStep, ReturnStep

(* A handler call is a delivery to a subscriber, or the client sees        *)
(* nothing of it.                                                          *)
LEMMA ObserveDelivers ==
  ASSUME Inv, NEW id \in 1 .. MaxObservers, NEW key \in Key, Observe(id, key)
  PROVE  \/ \E c \in Conn : B!Deliver(c, key)
         \/ UNCHANGED B!vars
<1> USE DEF Inv
<1>1. UNCHANGED <<entries, acked, removed, link, stalled>>
  BY DEF Observe, DS!CallHandler, linkVars
<1>2. UNCHANGED [c \in Conn |->
                   {Subscription(i).filter : i \in {j \in Current : acked[j].conn = c}}]
  BY <1>1 DEF Subscription, Current
<1>3. PICK o \in observers :
        /\ o.id = id
        /\ \/ /\ Matches(o, key) /\ WriteOk(o.handler.conn)
              /\ view' = [view EXCEPT ![o.handler.conn][key] =
                                        [topic |-> DecodeKey(key), payload |-> entries[key]]]
           \/ UNCHANGED view
  BY DEF Observe, EntryPayload, MessageName
<1>4. CASE UNCHANGED view
  BY <1>1, <1>2, <1>4 DEF B!vars
<1>5. CASE /\ Matches(o, key) /\ WriteOk(o.handler.conn)
           /\ view' = [view EXCEPT ![o.handler.conn][key] =
                                     [topic |-> DecodeKey(key), payload |-> entries[key]]]
  <2> DEFINE c == o.handler.conn
  <2>1. /\ c \in Conn /\ o.id \in Current /\ acked[o.id].conn = c
        /\ o.handler = Subscription(o.id)
    BY NodeFacts, Subscriptions
  <2>2. o.handler.filter \in Filters(c)
    BY <2>1 DEF Filters
  <2>3. B!Selected(c, key)
    BY <1>5, <2>1, <2>2 DEF B!Selected, Filters, Matches
  <2>4. entries[key] # 0
    BY DEF Observe, DS!CallHandler, Calls
  <2>5. [d \in Conn |-> [k \in Key |-> view[d][k].payload]]' =
          [Payloads EXCEPT ![c][key] = entries[key]]
    <3>1. view \in [Conn -> [Key -> Message \cup {Unheard}]]
      BY DEF TypeOK
    <3>2. \A d \in Conn, k \in Key :
            view'[d][k].payload =
              IF d = c /\ k = key THEN entries[key] ELSE view[d][k].payload
      BY <1>5, <2>1, <3>1
    <3>3. Payloads' = [d \in Conn |-> [k \in Key |->
                         IF d = c /\ k = key THEN entries[key] ELSE Payloads[d][k]]]
      BY <3>2 DEF Payloads
    <3> HIDE DEF c
    <3>4. Payloads \in [Conn -> [Key -> Nat]]
      BY PayloadFacts DEF Payloads
    <3>5. Payloads' = [Payloads EXCEPT ![c][key] = entries[key]]
      BY <2>1, <3>3, <3>4
    <3> QED
      BY <3>5 DEF Payloads
  <2>6. B!Deliver(c, key)
    BY <1>1, <1>2, <1>5, <2>3, <2>4, <2>5 DEF B!Deliver, WriteOk, Payloads
  <2> QED
    BY <2>1, <2>6
<1> QED
  BY <1>3, <1>4, <1>5

(* A SUBACK is the beginning of the subscription to the last topic.        *)
LEMMA SubAckSubscribes ==
  ASSUME Inv, SendSubAck
  PROVE  \/ \E c \in Conn, f \in Filter : B!Subscribe(c, f)
         \/ UNCHANGED B!vars
<1> USE DEF Inv
<1>1. UNCHANGED <<entries, removed, view, link, stalled>>
  BY DEF SendSubAck, storeVars, linkVars
<1>2. CASE packet.filters = <<>>
  <2>1. UNCHANGED acked
    BY <1>2 DEF SendSubAck
  <2> QED
    BY <1>1, <2>1 DEF B!vars, Subscription, Current
<1>3. CASE packet.filters # <<>>
  <2> DEFINE f == Last(packet.filters)
  <2>1. /\ conn \in Conn /\ packet \in Packet /\ packet.type = "SUBSCRIBE"
    BY DEF SendSubAck, Locals, InCall, Subscribing
  <2>2. f \in Filter
    BY <1>3, <2>1, PacketFacts, LastOfFilters
  <2>3. PICK c \in Conn, filter \in Filter : c = conn /\ filter = f
    BY <2>1, <2>2
  <2>4. B!Subscribe(c, filter)
    <3>1. ASSUME NEW d \in Conn
          PROVE  Filters(d)' = IF d = conn THEN Filters(d) \cup {f} ELSE Filters(d)
      <4>1. \A i : i \in Current' /\ acked'[i].conn = d
                     <=> \/ i \in Current /\ acked[i].conn = d
                         \/ i = created + 1 /\ d = conn
        BY <1>3, Acknowledged DEF Current
      <4>2. \A i \in Current : Subscription(i)' = Subscription(i)
        BY <1>3, Acknowledged DEF Current
      <4>3. \A i : i = created + 1 => Subscription(i)'.filter = f
        BY <1>3, Acknowledged DEF SendSubAck, storeVars, LastObserver
      <4> HIDE DEF f
      <4>4. ASSUME NEW x PROVE x \in Filters(d)' <=> (x \in Filters(d) \/ (d = conn /\ x = f))
        <5>1. x \in Filters(d)' <=>
                \E i \in Current' : acked'[i].conn = d /\ x = Subscription(i)'.filter
          BY DEF Filters
        <5>2. x \in Filters(d) <=>
                \E i \in Current : acked[i].conn = d /\ x = Subscription(i).filter
          BY DEF Filters
        <5> QED
          BY <4>1, <4>2, <4>3, <5>1, <5>2
      <4> QED
        BY <4>4
    <3>2. link[conn] # "down"
      BY DEF SendSubAck, WriteOk
    <3> HIDE DEF f
    <3>3. [e \in Conn |-> Filters(e)]' = [[e \in Conn |-> Filters(e)] EXCEPT ![conn] = @ \cup {f}]
      BY <2>1, <3>1
    <3>4. UNCHANGED <<entries, Payloads, link, stalled>>
      BY <1>1 DEF Payloads
    <3> QED
      BY <2>3, <3>2, <3>3, <3>4 DEF B!Subscribe, Filters, Payloads
  <2> HIDE DEF f
  <2> QED
    BY <2>4
<1> QED
  BY <1>2, <1>3

(* server.h over datastore.h implements what Broker promises, but for its  *)
(* liveness: every step of the server is one of the broker or none.        *)
THEOREM BrokerImplemented == Spec => B!Init /\ [][B!Next]_(B!vars)
<1>1. Init => B!Init
  BY EmptySeq DEF Init, DS!Init, B!Init, Current, Unheard
<1>2. Inv /\ [Next]_vars => [B!Next]_(B!vars)
  <2> SUFFICES ASSUME Inv, [Next]_vars PROVE B!Next \/ UNCHANGED B!vars
    OBVIOUS
  <2> USE DEF Inv
  <2>1. CASE StorePublish \/ \E t \in Topic : ProgramSet(t)
    <3>1. PICK t \in Topic : Store(t) /\ Len(pubs) < MaxPublishes
      BY <2>1, PublishFacts DEF StorePublish, ProgramSet, Handling, Locals, InCall, Bounds
    <3>2. PICK payload \in Payload : payload = Len(pubs) + 1
      BY <3>1, PayloadFacts, ServerAssumption DEF Payload
    <3>3. PICK key \in Key : key = EncodeKey(t)
      BY Keys
    <3>4. /\ entries' = [entries EXCEPT ![key] = payload]
          /\ UNCHANGED <<acked, removed, view, link, stalled>>
      BY <3>1, <3>2, <3>3 DEF Store, DS!Set, DS!EraseAndEmplace, clientVars, linkVars
    <3>5. B!Publish(key, payload)
      BY <3>4 DEF B!Publish, Subscription, Current
    <3> QED
      BY <3>5 DEF B!Next
  <2>2. CASE SendSubAck
    BY <2>2, SubAckSubscribes DEF B!Next
  <2>3. CASE \E id \in ClientId : RemoveObserversForClient(id)
    <3>1. PICK id \in ClientId : RemoveObserversForClient(id)
      BY <2>3
    <3> DEFINE forgotten == {c \in Conn : IdOf[c] = id}
    <3>2. /\ UNCHANGED <<entries, acked, view, link, stalled>>
          /\ removed' = removed \cup {i \in DOMAIN acked : IdOf[acked[i].conn] = id}
      BY <3>1 DEF RemoveObserversForClient, DS!RemoveObserversForClient, linkVars
    <3>3. \A c \in Conn : Filters(c)' = IF c \in forgotten THEN {} ELSE Filters(c)
      BY <3>2 DEF Filters, Subscription, Current
    <3>4. B!Unsubscribe(forgotten)
      <4> HIDE DEF forgotten
      <4> QED
        BY <3>2, <3>3 DEF B!Unsubscribe, Filters
    <3> QED
      BY <3>4 DEF B!Next
  <2>4. CASE \E id \in 1 .. MaxObservers, key \in Key : Observe(id, key)
    BY <2>4, ObserveDelivers DEF B!Next
  <2>5. CASE \E c \in Conn : Disconnect(c) \/ Stall(c)
    <3>1. PICK c \in Conn : Disconnect(c) \/ Stall(c)
      BY <2>5
    <3>2. UNCHANGED <<entries, acked, removed, view>>
      BY <3>1 DEF Disconnect, Stall, storeVars, clientVars
    <3>3. B!Lose(c) \/ B!Stall(c)
      BY <3>1, <3>2 DEF Disconnect, Stall, B!Lose, B!Stall, Subscription, Current
    <3> QED
      BY <3>3 DEF B!Next
  <2>6. CASE HandleDisconnect
    <3>1. UNCHANGED <<entries, acked, removed, view, stalled>>
      BY <2>6 DEF HandleDisconnect, storeVars, clientVars
    <3>2. PICK c \in Conn : c = conn
      BY <2>6 DEF HandleDisconnect, Handling, Locals, InCall
    <3>3. UNCHANGED link \/ B!Close(c)
      BY <2>6, <3>1, <3>2 DEF HandleDisconnect, B!Close, Subscription, Current
    <3> QED
      BY <3>1, <3>3 DEF B!Next, B!vars, Subscription, Current
  <2>7. CASE QuietStep /\ UNCHANGED link
    BY <2>7, QuietFrame DEF storeVars, B!vars, Subscription, Current
  <2>8. CASE \/ \E c \in Conn, p \in Packet : HandleMessage(c, p)
             \/ AddObserver \/ UNCHANGED vars
    <3>1. UNCHANGED <<entries, acked, removed, view, link, stalled>>
      BY <2>8 DEF HandleMessage, AddObserver, DS!AddObserver, vars, storeVars, clientVars, linkVars
    <3> QED
      BY <3>1 DEF B!vars, Subscription, Current
  <2> QED
    BY <2>1, <2>2, <2>3, <2>4, <2>5, <2>6, <2>7, <2>8, QuietLink
    DEF Next, Step, Environment, QuietStep, ConnectStep, ReturnStep
<1> QED
  BY <1>1, <1>2, Invariance, PTL DEF Spec

=============================================================================
