------------------------------- MODULE Server -------------------------------
(***************************************************************************)
(* Server::HandleMessage (server.h) over the store of DataStore and the    *)
(* connections of its clients.                                             *)
(*                                                                         *)
(* The program that embeds the library accepts connections, reads the next *)
(* packet of one of them and calls HandleMessage, on one thread: calls do  *)
(* not overlap.  Within a call every write to a connection is a step of    *)
(* its own, because a peer can be lost or can stall between any two of     *)
(* them.                                                                   *)
(*                                                                         *)
(* A payload is the number of the PUBLISH that carried it: the code never  *)
(* looks into one, so the number stands for whatever was sent, and an      *)
(* older payload can be told from a newer one.                             *)
(***************************************************************************)
EXTENDS Integers, SequencesExt

CONSTANTS
  Conn,          \* connections
  ClientId,      \* values of ClientConnection::id()
  IdOf,          \* [Conn -> ClientId]: an id (a file descriptor) can be used again
  Topic,         \* topics of PUBLISH packets, up to what its buffer holds
  FilterTopic,   \* what SUBSCRIBE topics name, without the '#' of a wildcard
  Packet,        \* packets the clients send
  MaxPublishes,  \* bound: PUBLISH packets in a behaviour
  MaxObservers   \* bound: SUBSCRIBE packets in a behaviour

CONSTANTS        \* DataStore<KeyType>
  EncodeKey(_),
  DecodeKey(_),
  FullKeyMatcher(_, _),
  PrefixKeyMatcher(_, _),
  IsTopicPrefix(_, _)  \* whether a topic starts with another, as texts

Filter == [topic : FilterTopic, kind : {"full", "prefix", "plus"}]

ProtocolName == {"MQTT", "MQIsdp", "other", "too long"}

(* A packet as its ReadFrom decodes it; fits is whether its topics fit the *)
(* StringBuffer they are read into.                                        *)
PacketType ==
  [type : {"CONNECT"}, name : ProtocolName, level : Nat] \cup
  [type : {"PUBLISH"}, topic : Topic, fits : BOOLEAN] \cup
  [type : {"SUBSCRIBE"}, filters : Seq(Filter), fits : BOOLEAN] \cup
  [type : {"PINGREQ", "DISCONNECT", "other"}]

Key     == {EncodeKey(t) : t \in Topic}
Payload == 1 .. MaxPublishes
Handler == [conn : Conn, filter : Filter]

(* What a client receives: a name for the topic, and a payload.            *)
Message == [topic : {DecodeKey(k) : k \in Key}, payload : Payload]
Unheard == [payload |-> 0]

(* What a KeyType must offer: a matcher misses no topic it is for.  Topics *)
(* may share a key, and a key may decode to another topic.                 *)
ASSUME KeyTypeAssumption ==
  \A t \in Topic :
    /\ FullKeyMatcher(EncodeKey(t), EncodeKey(t))
    /\ \A f \in FilterTopic :
         IsTopicPrefix(f, t) => PrefixKeyMatcher(EncodeKey(f), EncodeKey(t))

ASSUME ServerAssumption ==
  /\ IdOf \in [Conn -> ClientId]
  /\ Packet \subseteq PacketType
  /\ MaxPublishes \in Nat
  /\ MaxObservers \in Nat

ConnectionType == {"UNKNOWN", "MQTT_31", "MQTT_311", "MQTT_5"}

Nothing == [type |-> "none"]       \* no packet, no observer

-----------------------------------------------------------------------------
VARIABLES
  entries, observers, created, pending, seen,   \* of DataStore
  pc,               \* where HandleMessage is: "idle" between calls
  conn,             \* the connection of the packet
  packet,           \* the packet HandleMessage is called with
  connection_type,  \* of the packet's own copy of the connection
  error,            \* the local variable ack.error of CONNECT
  observer,         \* the local variable observer: what SUBSCRIBE will register
  status,           \* what the last call returned
  link,             \* "up", "closed" by this side, or "down": lost
  stalled,          \* the connections whose peer may take no byte and send
                    \* none any more, though it is not lost
  connack,          \* history: the last CONNACK a client received
  acked,            \* history: the SUBSCRIBE packets that had topics and were
                    \* answered by a SUBACK, in order
  removed,          \* history: the ranks in acked of those whose client was
                    \* removed since
  pubs,             \* history: the topics of the payloads, in order
  view              \* history: what a client received last for each key

storeVars  == <<entries, observers, created, pending, seen>>
localVars  == <<connection_type, error, observer>>
callVars   == <<pc, conn, packet, localVars, status>>
linkVars   == <<link, stalled>>
clientVars == <<connack, acked, removed, view>>
vars == <<storeVars, callVars, clientVars, linkVars, pubs>>

DS == INSTANCE DataStore WITH Entry <- Payload, NoEntry <- 0

(* The matcher a SUBSCRIBE topic is given: by prefix if it has a '#'.      *)
KeyMatch(filter, key) ==
  IF filter.kind = "prefix" THEN PrefixKeyMatcher(EncodeKey(filter.topic), key)
                            ELSE FullKeyMatcher(EncodeKey(filter.topic), key)

(* What an acknowledged SUBSCRIBE asks for, in effect: its last topic.     *)
Subscription(i) == [conn |-> acked[i].conn, filter |-> Last(acked[i].filters)]

(* The subscriptions there are, by their ranks.                            *)
Current == DOMAIN acked \ removed

-----------------------------------------------------------------------------
(* A write to a connection.  On a lost one it fails; on one this side has  *)
(* closed, the copies CreateHeapCopy made may or may not be usable still.  *)
WriteOk(c)    == link[c] \in {"up", "closed"}
WriteFails(c) == link[c] \in {"closed", "down"}

Return(result) ==
  /\ pc' = "idle"
  /\ conn' = Nothing
  /\ packet' = Nothing
  /\ connection_type' = "UNKNOWN"
  /\ error' = FALSE
  /\ observer' = Nothing
  /\ status' = result

GoTo(next) == pc' = next /\ UNCHANGED <<conn, packet, localVars, status>>

(* DataStore::Set of a new payload; its observers are to be notified.      *)
Store(topic) ==
  /\ DS!Set(EncodeKey(topic), Len(pubs) + 1)
  /\ pubs' = Append(pubs, topic)
  /\ pc' = "notify"
  /\ UNCHANGED <<clientVars, linkVars, conn, localVars, status>>

Handling(type) == pc = "handle" /\ packet.type = type

Init ==
  /\ DS!Init
  /\ pc = "idle"
  /\ conn = Nothing
  /\ packet = Nothing
  /\ connection_type = "UNKNOWN"
  /\ error = FALSE
  /\ observer = Nothing
  /\ status = "OK"
  /\ link = [c \in Conn |-> "up"]
  /\ stalled = {}
  /\ connack = Nothing
  /\ acked = <<>>
  /\ removed = {}
  /\ pubs = <<>>
  /\ view = [c \in Conn |-> [k \in Key |-> Unheard]]

-----------------------------------------------------------------------------
(* The world outside.                                                      *)

(* A connection has a packet to read and the program calls HandleMessage.  *)
(* The packet holds a connection made for it, of no type yet, and both are *)
(* gone after the call.                                                    *)
HandleMessage(c, p) ==
  /\ pc = "idle"
  /\ link[c] = "up"
  /\ p.type = "PUBLISH" => Len(pubs) < MaxPublishes
  /\ p.type = "SUBSCRIBE" => created < MaxObservers
  /\ pc' = "handle"
  /\ conn' = c
  /\ packet' = p
  /\ UNCHANGED <<storeVars, clientVars, linkVars, localVars, status, pubs>>

(* The peer goes away, at any moment.                                      *)
Disconnect(c) ==
  /\ link[c] # "down"
  /\ link' = [link EXCEPT ![c] = "down"]
  /\ stalled' = stalled \ {c}
  /\ UNCHANGED <<storeVars, callVars, clientVars, pubs>>

(* The peer is there still, but from now on a read or a write may wait for *)
(* it for ever.                                                            *)
Stall(c) ==
  /\ link[c] # "down"
  /\ stalled' = stalled \cup {c}
  /\ UNCHANGED <<storeVars, callVars, clientVars, link, pubs>>

(* The program sets a topic of its own in the store it gave the server.    *)
ProgramSet(topic) ==
  /\ pc = "idle"
  /\ Len(pubs) < MaxPublishes
  /\ Store(topic)
  /\ UNCHANGED packet

(* The program drops the observers of a client; nothing in the library     *)
(* does.                                                                   *)
RemoveObserversForClient(id) ==
  /\ pc = "idle"
  /\ DS!RemoveObserversForClient(id)
  /\ removed' = removed \cup {i \in DOMAIN acked : IdOf[acked[i].conn] = id}
  /\ UNCHANGED <<callVars, linkVars, connack, acked, pubs, view>>

-----------------------------------------------------------------------------
(* CONNECT                                                                 *)

(* strcmp with the name as it was read.  "MQIsdp" fills its buffer and     *)
(* leaves no room for the NUL, so it compares unequal even to itself.      *)
NameEquals(literal) == packet.name = literal /\ literal # "MQIsdp"

WrongName == NameEquals("MQTT") /\ NameEquals("MQIsdp")

LevelType(level) == CASE level = 3 -> "MQTT_31"
                      [] level = 4 -> "MQTT_311"
                      [] level = 5 -> "MQTT_5"
                      [] OTHER -> "unsupported"

Version == (ConnectionType \ {"UNKNOWN"}) \cup {"unsupported"}

(* Mutation: a version that is not supported is set all the same.          *)
SetTypeAnyLevel(version) == version

(* set_connection_type, for the versions there are.                        *)
SetType(version) == IF version = "unsupported" THEN connection_type ELSE version

(* Mutation: a header that could not be read is not an error.              *)
ErrorOfLevel(read, version) == WrongName \/ version = "unsupported"

(* What sets ack.error.                                                    *)
ErrorOf(read, version) == ~read \/ WrongName \/ version = "unsupported"

(* The header is read; a name that does not fit, or a peer that is lost,   *)
(* leaves none.  The level is looked at all the same: without a header, or *)
(* with one cut off behind the name, that is uninitialized memory.         *)
ReadConnect ==
  /\ Handling("CONNECT")
  /\ \E read \in BOOLEAN, version \in Version :
       /\ read => packet.name # "too long"
       /\ ~read => packet.name = "too long" \/ link[conn] = "down"
       /\ read /\ link[conn] = "up" => version = LevelType(packet.level)
       /\ connection_type' = SetType(version)
       /\ error' = ErrorOf(read, version)
  /\ pc' = "connack"
  /\ UNCHANGED <<storeVars, clientVars, linkVars, conn, packet, observer, status, pubs>>

SendConnAck ==
  /\ pc = "connack"
  /\ WriteOk(conn)
  /\ connack' = [packet |-> packet, connection_type |-> connection_type,
                 answer |-> IF error THEN "refused" ELSE "accepted"]
  /\ Return("OK")
  /\ UNCHANGED <<storeVars, acked, removed, view, linkVars, pubs>>

(* "Unable to send response."                                              *)
FailConnAck ==
  /\ pc = "connack"
  /\ WriteFails(conn)
  /\ Return("FAILURE")
  /\ UNCHANGED <<storeVars, clientVars, linkVars, pubs>>

-----------------------------------------------------------------------------
(* PUBLISH                                                                 *)

(* Header and payload are read and stored, whatever the packet's flags     *)
(* say, and the observers are to be notified.                              *)
StorePublish ==
  /\ Handling("PUBLISH")
  /\ link[conn] = "up" /\ packet.fits
  /\ Store(packet.topic)
  /\ UNCHANGED packet

(* Mutation: what could not be read is stored, as an empty payload.        *)
FailPublishStores ==
  /\ Handling("PUBLISH")
  /\ link[conn] # "up" \/ ~packet.fits
  /\ DS!Set(EncodeKey(packet.topic), 0)
  /\ GoTo("notify")
  /\ UNCHANGED <<clientVars, linkVars, pubs>>

(* "No publish header!" or "Unable to complete read."                      *)
FailPublish ==
  /\ Handling("PUBLISH")
  /\ link[conn] # "up" \/ ~packet.fits
  /\ Return("FAILURE")
  /\ UNCHANGED <<storeVars, clientVars, linkVars, pubs>>

(* entry.data: what the handler sends.                                     *)
EntryPayload(key) == entries[key]

(* Mutation: the handler does not ask its matcher.                         *)
AnyKey(o, key) == TRUE

(* The condition of the handler.                                           *)
Matches(o, key) == KeyMatch(o.handler.filter, key)

(* Mutation: the handler names the topic it was made for.                  *)
FilterName(o, key) == DecodeKey(EncodeKey(o.handler.filter.topic))

(* The topic of the message the handler sends.                             *)
MessageName(o, key) == DecodeKey(key)

(* The handler of one observer: a PUBLISH to the observer's own connection *)
(* if the key matches.                                                     *)
Observe(id, key) ==
  /\ pc = "notify"
  /\ DS!CallHandler(id, key)
  /\ \E o \in observers :
       LET c == o.handler.conn
           m == [topic |-> MessageName(o, key), payload |-> EntryPayload(key)]
       IN  /\ o.id = id
           /\ \/ /\ Matches(o, key) /\ WriteOk(c)
                 /\ view' = [view EXCEPT ![c][key] = m]
              \/ /\ Matches(o, key) => WriteFails(c)
                 /\ UNCHANGED view
  /\ UNCHANGED <<callVars, linkVars, connack, acked, removed, pubs>>

(* Mutation: the first observer's result ends the loop.                    *)
NotifiedEarly ==
  /\ pc = "notify"
  /\ Return("OK")
  /\ UNCHANGED <<storeVars, clientVars, linkVars, pubs>>

(* The loop is done, and with it the call; a Set of the program's own      *)
(* returns nothing.                                                        *)
Notified ==
  /\ pc = "notify"
  /\ pending = {}
  /\ Return(IF packet = Nothing THEN status ELSE "OK")
  /\ UNCHANGED <<storeVars, clientVars, linkVars, pubs>>

-----------------------------------------------------------------------------
(* SUBSCRIBE                                                               *)

(* Mutation: the first topic's observer stays.                             *)
FirstObserver == [conn |-> conn, filter |-> Head(packet.filters)]

(* Each topic read makes the observer anew: the last one is what remains.  *)
LastObserver == [conn |-> conn, filter |-> Last(packet.filters)]

(* The topics are read.                                                    *)
ReadSubscribe ==
  /\ Handling("SUBSCRIBE")
  /\ link[conn] = "up" /\ packet.fits
  /\ \A i \in 1 .. Len(packet.filters) : packet.filters[i].kind # "plus"
  /\ observer' = IF packet.filters = <<>> THEN Nothing ELSE LastObserver
  /\ pc' = "suback"
  /\ UNCHANGED <<storeVars, clientVars, linkVars, conn, packet, connection_type, error, status,
                 pubs>>

(* A topic with a '+' or one that cannot be read: no answer.               *)
FailSubscribe ==
  /\ Handling("SUBSCRIBE")
  /\ \/ link[conn] # "up" \/ ~packet.fits
     \/ \E i \in 1 .. Len(packet.filters) : packet.filters[i].kind = "plus"
  /\ Return("FAILURE")
  /\ UNCHANGED <<storeVars, clientVars, linkVars, pubs>>

(* One SUBACK answers the packet, all of its topics.                       *)
SendSubAck ==
  /\ pc = "suback"
  /\ WriteOk(conn)
  /\ IF observer = Nothing THEN Return("OK") ELSE GoTo("observe")
  /\ acked' = IF packet.filters = <<>> THEN acked
              ELSE Append(acked, [conn |-> conn, filters |-> packet.filters])
  /\ UNCHANGED <<storeVars, connack, removed, view, linkVars, pubs>>

(* "Unable to send response."                                              *)
FailSubAck ==
  /\ pc = "suback"
  /\ WriteFails(conn)
  /\ Return("FAILURE")
  /\ UNCHANGED <<storeVars, clientVars, linkVars, pubs>>

(* The observer is added and is to be given every entry there is.          *)
AddObserver ==
  /\ pc = "observe"
  /\ DS!AddObserver(IdOf[conn], observer)
  /\ GoTo("notify")
  /\ UNCHANGED <<clientVars, linkVars, pubs>>

-----------------------------------------------------------------------------
(* The other packets.                                                      *)

(* Mutation: a response that cannot be sent is tried again.                *)
HandlePingRetries ==
  /\ Handling("PINGREQ")
  /\ \/ WriteOk(conn) /\ Return("OK")
     \/ WriteFails(conn) /\ GoTo("handle")
  /\ UNCHANGED <<storeVars, clientVars, linkVars, pubs>>

(* PINGRESP, or "Unable to send response."                                 *)
HandlePing ==
  /\ Handling("PINGREQ")
  /\ \/ WriteOk(conn) /\ Return("OK")
     \/ WriteFails(conn) /\ Return("FAILURE")
  /\ UNCHANGED <<storeVars, clientVars, linkVars, pubs>>

(* Close is all it does: the observers of the client stay.                 *)
HandleDisconnect ==
  /\ Handling("DISCONNECT")
  /\ link' = IF link[conn] = "up" THEN [link EXCEPT ![conn] = "closed"] ELSE link
  /\ Return("OK")
  /\ UNCHANGED <<storeVars, clientVars, stalled, pubs>>

HandleUnsupported ==
  /\ Handling("other")
  /\ Return("FAILURE")
  /\ UNCHANGED <<storeVars, clientVars, linkVars, pubs>>

-----------------------------------------------------------------------------
(* The steps of a call in progress.                                        *)
Step ==
  \/ ReadConnect \/ SendConnAck \/ FailConnAck
  \/ StorePublish \/ FailPublish
  \/ ReadSubscribe \/ FailSubscribe \/ SendSubAck \/ FailSubAck \/ AddObserver
  \/ \E id \in 1 .. MaxObservers, key \in Key : Observe(id, key)
  \/ Notified
  \/ HandlePing \/ HandleDisconnect \/ HandleUnsupported

Environment ==
  \/ \E c \in Conn, p \in Packet : HandleMessage(c, p)
  \/ \E c \in Conn : Disconnect(c) \/ Stall(c)
  \/ \E t \in Topic : ProgramSet(t)
  \/ \E id \in ClientId : RemoveObserversForClient(id)

Next == Step \/ Environment

(* The connections the next step of the call reads from or writes to.      *)
Uses(c) ==
  \/ /\ pc = "handle" /\ packet.type \in {"CONNECT", "PUBLISH", "SUBSCRIBE", "PINGREQ"}
     /\ c = conn
  \/ pc \in {"connack", "suback"} /\ c = conn
  \/ /\ pc = "notify"
     /\ \E o \in observers, key \in Key :
          <<o.id, key>> \in pending /\ o.handler.conn = c /\ Matches(o, key)

(* Connection::Read and Write wait and retry without end for a peer that   *)
(* is connected: the call makes no progress that it could be held to.      *)
WaitsFor(c) == c \in stalled /\ Uses(c)

Progress == Step /\ \A c \in Conn : ~WaitsFor(c)

Spec == Init /\ [][Next]_vars /\ WF_vars(Progress)

-----------------------------------------------------------------------------
TypeOK ==
  /\ DS!TypeOK
  /\ pc \in {"idle", "handle", "connack", "notify", "suback", "observe"}
  /\ conn \in Conn \cup {Nothing}
  /\ packet \in Packet \cup {Nothing}
  /\ connection_type \in ConnectionType
  /\ error \in BOOLEAN
  /\ observer \in Handler \cup {Nothing}
  /\ status \in {"OK", "FAILURE"}
  /\ link \in [Conn -> {"up", "closed", "down"}]
  /\ stalled \subseteq Conn
  /\ connack \in {Nothing} \cup
       [packet : Packet, connection_type : ConnectionType, answer : {"accepted", "refused"}]
  /\ acked \in Seq([conn : Conn, filters : Seq(Filter)])
  /\ removed \subseteq DOMAIN acked
  /\ pubs \in Seq(Topic)
  /\ Len(pubs) <= MaxPublishes
  /\ view \in [Conn -> [Key -> Message \cup {Unheard}]]

(* What a subscription asks for, read as a topic and not as a key.         *)
TopicMatches(filter, topic) ==
  \/ filter.kind = "full" /\ filter.topic = topic
  \/ filter.kind = "prefix" /\ IsTopicPrefix(filter.topic, topic)

(* Between two calls every connected client holds, for every topic that    *)
(* the last topic of a SUBSCRIBE of its asks for, the newest payload       *)
(* published on it (or on another topic with its key): what was there when *)
(* it subscribed and all that came since, whichever other subscriber was   *)
(* lost on the way (AddObserver and NotifyObservers).                      *)
Converged ==
  pc = "idle" =>
    \A i \in Current, n \in 1 .. Len(pubs) :
      LET s == Subscription(i)
      IN  link[s.conn] = "up" /\ TopicMatches(s.filter, pubs[n])
            => view[s.conn][EncodeKey(pubs[n])].payload >= n

(* A client is never sent a topic before the SUBACK of a subscription that *)
(* selects it ("We also don't want to send any data until the client has   *)
(* received the suback"), nor one that no subscription of its selects, by  *)
(* the test that the matchers make.                                        *)
OnlySubscribed ==
  \A c \in Conn, k \in Key :
    view[c][k] # Unheard =>
      \E i \in DOMAIN acked : Subscription(i).conn = c /\ KeyMatch(Subscription(i).filter, k)

(* A client is told the topic of a payload as its key has it, whatever     *)
(* subscription the payload comes by: the topic it was published on, if    *)
(* that one comes back from its key.                                       *)
RightTopic ==
  \A c \in Conn, k \in Key :
    LET m == view[c][k]
    IN  m # Unheard =>
          m.payload <= Len(pubs) /\ m.topic = DecodeKey(EncodeKey(pubs[m.payload]))

(* For no key does a client go back to an older payload, though it may     *)
(* hold several subscriptions that select it, or make them late.           *)
NeverStale ==
  [][\A c \in Conn, k \in Key : view'[c][k].payload >= view[c][k].payload]_vars

(* The node of the list that the observer of a subscription is.            *)
Node(i) == [id |-> i, client_id |-> IdOf[acked[i].conn], handler |-> Subscription(i)]

(* The list of observers has one node for every SUBSCRIBE that was         *)
(* acknowledged and whose client was not removed, in that order: for the   *)
(* last of its topics, none for the others, and none for a SUBSCRIBE that  *)
(* failed ("if subscribe failed we don't want it").  It grows with every   *)
(* one that repeats a subscription, and loses the nodes of all connections *)
(* that have used an id together.                                          *)
ObserversAreAcked == pc # "observe" => observers = {Node(i) : i \in Current}

(* A client is told that its CONNECT is accepted if all of its header was  *)
(* read and its version is one of the three, and then the connection has   *)
(* that version; and is told an error otherwise, whatever was in the       *)
(* memory the version was then read from.                                  *)
ConnectAnswered ==
  connack # Nothing =>
    IF connack.packet.name = "too long" \/ LevelType(connack.packet.level) = "unsupported"
    THEN connack.answer = "refused"
    ELSE /\ connack.answer = "accepted"
         /\ connack.connection_type = LevelType(connack.packet.level)

(* A call comes to an end, whatever the packet and whoever is lost, unless *)
(* it waits for ever for one client that is connected but stalled.         *)
CallReturns == []<>(pc = "idle") \/ \E c \in Conn : <>[]WaitsFor(c)

(* The store is used as DataStore specifies: one operation at a time, each *)
(* with its loop run to the end, or to a client it waits for.              *)
UsesStore ==
  /\ DS!Init /\ [][DS!Next]_(DS!vars)
  /\ []<>(pending = {}) \/ \E c \in Conn : <>[]WaitsFor(c)

B == INSTANCE Broker
       WITH Client <- Conn, Topic <- Key, NoPayload <- 0, Selects <- KeyMatch,
            newest <- entries,
            subscriptions <-
              [c \in Conn |->
                 {Subscription(i).filter : i \in {j \in Current : acked[j].conn = c}}],
            received <- [c \in Conn |-> [k \in Key |-> view[c][k].payload]]

(* All that the clients see of packets, keys, observers and loops is a     *)
(* broker: retained payloads, subscriptions that begin with their SUBACK,  *)
(* and a delivery to every connected subscriber in the end, unless some    *)
(* client stalls.                                                          *)
ImplementsBroker == B!Spec

(* "Connect packet has wrong header or wrong protocol." (server.h): what   *)
(* HandleMessage logs for a protocol name that is not MQTT's, and then     *)
(* answers with an error.                                                  *)
WrongProtocolRefused ==
  connack # Nothing /\ connack.packet.name \notin {"MQTT", "MQIsdp"} => connack.answer = "refused"

(* "Send observer all existing data so it can filter by matching topics."  *)
(* (datastore.h): a client gets no payload of a topic that no topic of its *)
(* SUBSCRIBE packets asks for.                                             *)
OnlyMatchingTopics ==
  \A c \in Conn, k \in Key :
    view[c][k] # Unheard =>
      \E i \in DOMAIN acked : \E j \in DOMAIN acked[i].filters :
        acked[i].conn = c /\ TopicMatches(acked[i].filters[j], pubs[view[c][k].payload])

=============================================================================
