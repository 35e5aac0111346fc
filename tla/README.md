# TLA+ models of gnat

gnat is a header-only MQTT broker for microcontrollers: it reads a packet from
a client's connection, answers it, keeps the last payload of every topic and
forwards payloads to the clients that subscribed. This directory holds TLA+
models of its parts, the TLC configurations that check them on small instances,
and TLAPS proofs of their main properties. Paths such as `server.h:134` are
relative to `src/include/gnat/`.

## 1. The system

| Component | State | Operations | Model |
|---|---|---|---|
| `DataStore<KeyType>` (`datastore.h`) | a map from keys to entries; a list of observers | `Set`, `Get`, `AddObserver`, `RemoveObserversForClient`, and the matchers and codecs of the two key types | `DataStore` |
| `uint64_t` keys (`key.h`, `datastore.h:84-110`) | none | `Encode`, `EncodeString`, `Decode`, `DecodeString`, `FullKeyMatcher`, `PrefixKeyMatcher` | `Uint64Key`, `KeyCodec` |
| `std::string` keys (`datastore.h:112-141`) | none | the same | `StringKey` |
| `Server` (`server.h`) | a pointer to the store; the local variables of `HandleMessage` | `HandleMessage` for CONNECT, PUBLISH, SUBSCRIBE, PINGREQ, DISCONNECT, others | `Server` |
| `Packet` and the `ReadFrom`s (`packets.h`) | control byte, bytes left, connection | `ReadNext`, move, `Read`, `Drain`, `Dump`, destructor | `Packet` |
| the `SendOn`s (`packets.h`) | none | encode one packet each | `Frames` |
| `arduino::Connection` (`arduino-connection.h`) | a `WiFiClient`, owned or borrowed; the connection type | `Read`, `Drain`, `Write`, `WritePartial` | `ArduinoConnection` |
| | | constructors, copy, move, `CreateHeapCopy`, `Close`, `id` | `ConnectionCopies` |
| `optional` (`optional.hpp`) | a flag and a storage | construct, assign, `emplace`, `swap`, `reset`, destroy | `Optional` |
| `Clock`, `Status`, `log.h` | | | not modelled, see section 7 |

**How they interact.** The embedding program accepts connections and, on one
thread, calls `Packet::ReadNext` on one of them and `Server::HandleMessage` on
the result. The server reads the fields of the packet through it, writes
answers to the connection, and calls the store. A PUBLISH becomes
`DataStore::Set`, which calls every observer; a SUBSCRIBE becomes
`DataStore::AddObserver`, which calls the new observer for every stored entry.
An observer is a closure of the server: it holds a copy of the subscriber's
connection and a key matcher, and writes a PUBLISH to that connection if the
matcher takes the key. So one client's packet ends in writes to other clients'
connections, each of which may be lost at any moment or be connected and take
nothing, and what a handler returns is dropped by the store. A SUBSCRIBE may ask
for several topics; each of them makes the one local `observer` anew
(`server.h:104`), so that of an acknowledged SUBSCRIBE only the last topic is
observed.

**What is hard.** There are no threads; the difficulties are peers that vanish
or stall between any two writes of one call, the order of SUBACK, replay and
forwarding, loops over a list and a map while the world outside changes, paths
on which an error is ignored, a byte stream that must stay aligned whatever a
handler reads and whatever lengths a packet claims, the arithmetic of keys, and
lifetimes: copies of a connection outlive the packet and the program's own
client, and an `optional` has to be whole after any exception. `PROJECT.json`
lists the hazards at their lines with the properties that are about them.

**What makes each part correct.**

- *DataStore*: no observer misses an entry, whether it joined before or after
  it was set; no loop runs for ever.
- *Keys*: a topic that fits comes back from its key; decoding writes no more
  than a word; a `#` subscription misses no topic below it; a literal in a
  program and a topic on the wire agree.
- *Server*: between two calls a connected subscriber holds, for every topic that
  the *last* topic of one of its SUBSCRIBE packets asks for, the newest payload
  published on it or on another topic with the same key; it is sent nothing
  before its SUBACK, nothing that no subscription of its selects, nothing older
  than what it has for that key, and under the name the key has; the list of
  observers is what the SUBACKs leave of it, failed subscriptions leave nothing
  behind; a CONNECT is answered for what it is; a call returns unless it waits
  for a stalled client.
- *Server as a whole*: to its clients it is a broker that retains the newest
  payload of each key and delivers it, in the end, to every connected client
  with a subscription for it, as long as no client stalls.
- *Packet*: after any handler and any number of moves the stream is at the
  start of the next packet; payloads are whole; a reader finds the numbers and
  lengths the sender wrote; the assertion in `Read` fails on no packet but one
  that is itself too short, unless the client is lost.
- *Connection*: a read or drain that succeeds takes exactly what was asked; a
  write delivers its bytes in order; a lost peer ends every call. An observer
  writes to the connection that subscribed, whatever becomes of the packet's and
  the program's clients, and no client made for a copy is left behind.
- *optional*: there is an object in the storage of exactly the variables that say
  so, after every call, one that threw included; none is made over another,
  destroyed twice or used when it is not there.

## 2. The modules

```
Uint64Key <- KeyCodec <- KeyCodecProofs    WireFormat <- Packet <- PacketProofs
     |           ^ MCKeyCodec                  Frames <- MCPacket -^
     v
 MCServer -> Server -> DataStore <- DataStoreProofs
 MCServerString -> StringKey   \     ArduinoConnection <- ArduinoConnectionProofs
             ServerProofs ------+    ConnectionCopies  <- ConnectionCopiesProofs
   Server -> Broker (abstract)       Optional         <- OptionalProofs
   StringKey <- StringKeyProofs
```

**`Uint64Key`** gives the operators of `key.h` and the two `uint64_t` matchers.
A word is the set of its bits, a bit being a pair of byte and position, so `|`
is union, `&` is intersection, and shifting by whole characters moves the byte.
`SignedChar` says whether `char` is signed (a character with its top bit set is
then extended over the bytes above), and `WideShift` what a shift by the word's
width or more does: the C++ standard leaves it open; `"zero"` and `"mod"` (the
count taken modulo the width) are the two outcomes modelled.
**`KeyCodec`** runs the loops over the characters step by step, from the topic
of a PUBLISH to the topic a subscriber is sent. `strlen` stops at a NUL in the
word or, if the word has none, anywhere in the memory behind it (`ScanByte`, up
to `MaxOverrun`); it is `CutSize`, the `std::min` of `key.h:43`, that keeps what
is copied in the word. **`StringKey`** is the other key type. Its `DecodeKey`
copies a key of any length into the buffer of a topic: of one that is too long,
what is in the buffer afterwards is unknown (`Overrun`).

**`DataStore`** has the map (`entries`), the list (`observers`, nodes numbered
by age), and `pending`, the handler calls the loop in progress has yet to make.
`Set` and `AddObserver` change the map or the list and fill `pending`;
`CallHandler` is one round of either loop. Handler calls are steps of their own
because peers are lost between them. The operations themselves have no guard, as
in the code; `Next` is how the store is to be used, an operation when no loop is
running. A program that called the store from inside a handler would break that
rule; that the server keeps it is `UsesStore`. `seen` is a history variable: what
each observer was last given.

**`Broker`** is the abstract specification of the whole: retained payloads,
subscriptions, what each client received last, and the links. `Deliver` brings a
client the newest payload of a topic it selects, at any time; payloads in between
may be skipped, others never come. `Delivery` says that no delivery stays due for
ever to a connected client, unless some client stalls: the broker has one thread,
and a client that takes nothing can hold up all others.

**`Server`** instantiates `DataStore` and adds `HandleMessage`. `ProgramSet` is
the other way into the store: the embedding program sets a topic of its own
between two calls, and the observers are told as after a PUBLISH. `pc` says how
far the call is; an action ends where the code has written to a connection or
called the store, so that `Disconnect` and `Stall` can come between any two
writes. The packet is what its `ReadFrom` would decode (that it does is
`Packet`'s part). Connections are `up`, `closed` by this side, or `down`; a write
on a closed one may succeed or fail, because it depends on the copies the
observers hold. A connection may also be `stalled`: still there, but a read or
write may wait for it for ever (`WaitsFor`). Ids are a function of connections
and need not be distinct (`id()` is a file descriptor).

A Packet holds a connection of its own (`packets.h:494`, `packets.h:539`), so
`connection_type` is a variable of the call, UNKNOWN when it begins and gone when
it ends. `ReadConnect` reads the header and sets the type and `ack.error`; where
there is no header, or only part of it, the level is uninitialized memory and any
version may be found.

The key type is a set of constant operators with one assumption,
`KeyTypeAssumption`: matchers miss no topic they are for. Two topics may have one
key, as topics longer than a word do over `uint64_t`, and a key may decode to
another topic than the one that was encoded; so payloads and views are kept by
key, as in the store, and a message carries the name that `DecodeKey` gives it.

`connack`, `acked`, `removed`, `pubs` and `view` are history variables: what the
clients were told. `acked` records whole SUBSCRIBE packets, because a SUBACK
answers all topics of one; that only the last topic counts (`Subscription`) is
then a statement about the code, and `ObserversAreAcked` checks it against the
list of observers.

`Server` also instantiates `Broker`, with keys for topics and the mapping
*newest* = the entry of the key, *subscriptions* = the last topics of the
SUBSCRIBEs acknowledged and not removed, *received* = the payloads of the
clients' views. Under it a publish is the `Set`, a subscription begins with its
SUBACK, and every handler call is a delivery or nothing. **`MCServer`** plugs in
`Uint64Key`, **`MCServerString`** plugs in `StringKey`.

**`Packet`** reads a stream of bytes: `ReadControl` and `ReadSize` are
`ReadNext`; `Move`, `Destroy` and `DestroyMovedFrom` are the move constructor
and the destructor, for `ReadNext`'s temporary and the variables of the program;
`todo` is the list of fields the handler has yet to read, set by `HandleMessage`
from the `ReadFrom` of the packet's type. `Abort` is the assertion of
`Packet::Read`, which is compiled in (the Makefile does not set `NDEBUG`).
`value` and `fields` are what the readers find: numbers byte by byte, high ones
first, and the lengths of texts. What a connection carries is a parameter,
`Streams`. **`WireFormat`** says what a stream of packets is (`IsStream`): where
packets end, how a size is written in at most four digits, which fields and
payloads the body of each type has, and which of them are to be found by a
reader; and which packets have the size they say they have but are too short for
their fields or for a length in them (`IsBroken`). `PacketAssumption` asks no
more of `Streams` than that each packet is one or the other. In **`MCPacket`**
the bytes come from **`Frames`**, which follows the six `SendOn` functions
(CONNECT, CONNACK, PUBLISH, SUBSCRIBE, SUBACK, PINGRESP) and adds what other
MQTT clients send: packet ids, several topics or responses, topics that do not
fit, packets nobody reads, packets that break off before their fields do
(`BrokenFrames`), and the packets of MQTT 5, whose level the server accepts and
whose properties the readers do not know. A CONNACK or SUBACK is read as a
program that is itself a client reads it. Each stream comes with the places
where its packets end, their payloads and the fields a reader should find; TLC
evaluates `PacketAssumption` on all of them, so `IsStream` does describe what
the encoders write.

**`ArduinoConnection`** has the loops of `Read`, `Drain` and `Write` over a
socket, one step per round, with any number of bytes at a time, retries, errors
and the loss of the peer in between.

**`ConnectionCopies`** is about the two members `client_` and `owned_client_`.
`WiFiClient` objects are addresses, each with the socket it is for; a Connection
is an address and whether it owns it. `Become` is every assignment, copy, move
and destruction: an object goes when the last Connection that owns it does. The
places are the program's Connection, the packet's, the local `connection_heap`
and `observer` of `HandleMessage`, and the observers in the store. The program
accepts sockets into its variable and lends it, or into new objects, and may use
either again while observers of earlier packets are in the store.

**`Optional`** is `optional.hpp`, which `optional_fill.h` takes where there is no
`<optional>`. A call is a list of steps, built from the state of its operands as
the code's conditions do: each makes, assigns or destroys an object in a storage,
or sets `has_value_`. Steps that copy or move may throw; what the call has made
for itself is then destroyed (`Unwound`), or the program ends if the operation is
declared `noexcept`. An implicit conversion from another optional is a copy or
move like that from the same type.

Definitions commented `Mutation:` are not part of any specification. Each is
another, wrong form of a definition next to it; put in its place it makes a
property fail, which shows that the property depends on that code.

## 3. The runs

All are run with `tlc -config X.cfg M`; `PROJECT.json` names the
module, the configuration and the properties of each.

| Run | What it shows | Bounds |
|---|---|---|
| `key_codec` | round trip, decoding stays in the word, completeness of prefixes, literals and wire topics agree | words of 3 bytes of 3 bits, all texts of 0 to 4 characters, signed `char`, a shift that wraps, a `strlen` up to 2 bytes behind the word |
| `datastore` | no observer misses an entry, loops end | 2 keys, 2 entries, 2 clients, 3 observers |
| `server_pubsub` | convergence, SUBACK before data, no stale payload, names of topics; the server implements `DataStore!Spec` and `Broker!Spec`, the delivery in the end included | 2 connections, 3 topics of which two share a key, 2 subscription packets, one of two topics, 2 publishes by clients or the program, 2 observers |
| `server_string` | every packet type, the refused ones included, over string keys and two connections with one id: the list of observers, answers to CONNECT, calls return | 2 connections, 13 packets, 1 publish, 2 observers |
| `packet` | framing, count of bytes left, whole payloads, fields as they were sent, when the assertion can fail, packets end | one of 41 packets, 14 of them too short for their fields, then a PUBLISH; up to 2 moves |
| `arduino_connection` | exact reads and drains, ordered writes, calls end when the peer is lost | calls of 0 to 5 bytes, 6 bytes from the peer, a drain buffer of 2 |
| `connection_copies` | observers write to the right peer, ids are sockets, no client leaks | 2 sockets, 5 heap addresses, 2 observers |
| `optional` | flag and storage agree, lifetimes, effects of calls, what an exception leaves | 2 variables, 2 values, types whose copies, or copies and moves, may throw |

*Why the bounds are enough.* A missed or stale payload needs one observer, two
publishes on one topic, and one registration in between: `server_pubsub` has two
of each, plus a second connection to be lost or to stall. Its topics are `a`,
`cb` and `abb`, the last longer than the word and with the key of `cb`; one of
its SUBSCRIBEs asks for `#` and then `a`, so that what the dropped topic would
have brought is missing from what the client gets. The list of observers needs
two connections with one id and two observers, of packets with two topics:
`server_string`. Over-wide shifts need one character more than the word. A
misaligned stream shows in the first packet after the one that was misread. Sizes are written to base 4 instead of 128, so
that packets of a few bytes have one to three digits. A drain of 5 with a buffer
of 2 has a full, another full and a shorter round. Five heap addresses are one
for each place that can own a client at once: the program's, the local copy or
observer, two in the store, and one to be used again. An operation of `optional`
has at most two operands, and every pair of their states is reached. The
proofs (section 5) lift the bounds of every run for its safety properties.

`CHECK_DEADLOCK FALSE` is given where the system may really stop: `KeyCodec`
ends with its result, a server whose clients are all gone has nothing to do, and
so has a packet loop whose client is lost.

### Disagreements between the code and what it says

Four runs state a sentence of the code, and TLC shows a behaviour against it.

| Run | The sentence | What happens |
|---|---|---|
| `wrong_protocol` | `server.h:49` "Connect packet has wrong header or wrong protocol." | the test joins two comparisons with `&&`; no name satisfies both, so no name is refused |
| `only_matching_topics` | `datastore.h:65` "so it can filter by matching topics", `datastore.h:106` "the prefix" | `(target & other) == target` holds for keys that are not below the prefix, so `a#` also gets topics starting with `c` |
| `assert_holds` | `packets.h:556` `assert(size <= bytes_remaining_)` | fields of bytes ignore failed reads; a client lost at the right byte of a SUBSCRIBE makes the next read fail the assertion (a packet too short for its own lengths does so too, with the client there: the run `packet` has such packets) |
| `read_fills_buffer` | `server.h:23` `bool Read(char* buffer, size_t bytes);` | the buffer pointer does not move on; bytes that arrive in two pieces overwrite each other and `Read` succeeds |

## 4. Fairness

The only fairness is weak fairness of the program's own steps (`Progress` in
`Server`, `Step` in `Packet` and `ArduinoConnection`, `Notify` in `DataStore`):
one thread runs them and nothing else competes with it. Clients owe nothing: they
may fall silent, stall, and may be lost or not.

- In `Server` a write is one step. While the peer is connected and its socket
  takes no byte, `Write` retries without end (`arduino-connection.h:87`), and
  `Read` waits without a timeout (line 40). So `Progress` is a step that waits
  for no stalled client: one that does may be taken or never be, and
  `CallReturns`, `UsesStore` and `Delivery` say so, each with the alternative
  that a client stalls. That a lost peer ends every wait is `LostCallReturns` of
  `ArduinoConnection`.
- In `Packet`, bytes a client has sent arrive, or the client is lost. A client
  that stays connected and silent in the middle of a packet blocks the broker;
  that a call is then stuck is in `Server` (`Stall`).
- In `ArduinoConnection` no step of the peer is fair; hence the liveness
  property starts from a lost peer.
- In `DataStore`, alone, a handler is a call that returns.

A step of `Server` may be taken when a link is down: then it is the one that fails.

## 5. The proofs

TLAPS checks them for every value of the constants that satisfies the
assumptions of the modules (`StoreAssumption`, `ServerAssumption`,
`KeyTypeAssumption`, `ConnectionAssumption`, `CopiesAssumption`,
`FormatAssumption`, `PacketAssumption`, `OptionalAssumption`, and those of
`Uint64Key` and `KeyCodec`).

**`KeyCodecProofs`**: `TypeOK`, `RoundTrip`, `DecodedFits`, `PrefixComplete` and
`LiteralAgrees`, for words and characters of any size, signed and unsigned, and
every outcome of an over-wide shift modelled. The inductive invariant ties the
loop counter to the word: while encoding, the word is the union of the
characters so far (`EncodePrefix(text, index)`); while scanning, no byte of the
word before the index is NUL, and the index may be behind the word. From there
the properties are facts about sets of bits: a character that fits occupies its
own byte, and the encoding is monotone in the length of the text. The same facts
give `Uint64KeyType`: what `Server` assumes of a key type, for topics of any
length, and that topics that fit a word come back from their keys, so that no
two of these share a key.

**`StringKeyProofs`**: `StringKeyType`, the same for string keys: matchers miss
nothing, and a topic comes back if it fits the buffer it is decoded to;
and `PrefixKeyMatchExact`: the comparison up to the shorter length also takes the
topics that the prefix itself starts with, and nothing else.

**`DataStoreProofs`**: `TypeOK` and `Fresh`. The invariant adds that a node's id
is at most `created` and that a node not yet created has been given nothing,
which is what makes keys without an entry right for a new one. `Fresh` is
inductive with it because `Set` puts a call for every node and `AddObserver` a
call for every stored key into `pending`, and only `CallHandler` removes one.

**`ServerProofs`**: `TypeOK`, `Converged`, `OnlySubscribed`, `RightTopic`,
`ObserversAreAcked`, `ConnectAnswered`, `NeverStale`, and `StoreRefined`, that the
server uses the store as its specification says. None of them is inductive
alone. The strengthening says: the entry of a key is the number of the last
publish on a topic with that key (`Latest`); what a client holds for a key is no
newer than the entry, was published on a topic with the key, is named by the key,
and one of its subscriptions selects it (`Views`); an observer with no call to
come for a key has passed on its entry, if its connection is up and its matcher
takes the key (`Delivered`); the nodes of the list are, by rank, the SUBSCRIBEs
acknowledged and not removed, but for one that is acknowledged and not yet
registered (`Nodes`); and what a call knows between two of its steps (`Locals`),
among that what CONNECT is about to answer (`Connecting`). `StoreRefined` needs
`Loops` (a loop only runs while the call that started it does, so an operation
finds none) and `Bounds`. `KeyTypeAssumption` is used only where a matcher must
not miss a topic (`Converged`); nothing is assumed of what keys share or decode
to. It is proved of both key types (`Uint64KeyType`, `StringKeyType`), and
evaluated by TLC for the instances that are run.

`BrokerImplemented` is the safety part of the refinement of `Broker`: the initial
states map to its initial states, and each step of the server to one of its
actions or to a stutter. The step that needs the invariant is the handler call:
it is a `Deliver` because the observer is the node of a current subscription of
its connection (`Nodes`), its matcher has taken the key, and a call that is
pending is for an entry that exists (`Calls`).

**`ArduinoConnectionProofs`**: `TypeOK`, `TakesExactly` and `WritesInOrder`, for
calls, buffers and streams of any length. The properties speak of the end of a
call; the invariant adds what holds in its loops: in a read or drain, what is
taken, what this read has left and what the drain has left sum up to what was
asked for, and something is left (`Taking`); in a write, what the socket has and
what is left sum up to the call's bytes (`Writing`).

**`ConnectionCopiesProofs`**: `TypeOK`, `RightPeer` and `NothingLeaks`, for any
number of objects, sockets and observers. The invariant: every copy made for an
observer owns an object on the heap that is for the socket it was made for
(`Copies`); the originals own or borrow one that is for theirs or closed
(`Originals`); no copy shares its object with an original, so that no original's
`Close` or reuse reaches it (`Apart`); every object on the heap has an owner
(`Heaped`); and which places are in use at which point of a call (`Calls`).

**`PacketProofs`**: `TypeOK`, `Framed`, `BytesLeft`, `PayloadsStored`,
`FieldsIntact` and `AbortExplained` (as `TypeCorrect`, `PacketsFramed`,
`NoByteOfTheNext`, `PayloadsWhole`, `FieldsAsSent`, `AssertionExplained`), for
any number of packets and moves, all bases and sizes of buffers. They are about
clients whose streams are packets (`IsStream`), each whole or too short for its
fields; of a stream whose sizes do not add up to its end, or that has a size of
more than four digits, they say nothing. `Framed` says where the reader is
between two packets only, so the invariant says where it is at every other
moment (`InSomePacket`). While the size is read, the digits so far and those to
come add up to the length of the body (`InSize`). In the body, position and
bytes left add up to the packet's end (`InBody`), and a handler is `OnTrack`,
`OffTrack` or `Lost`. On track it is `Known` what is in the packet, and the
handler is at one of the points its `ReadFrom` passes through: for each list of
fields it may yet have to read there is one `Point`, with the position, the
half-read number and the count of fields found that belong to it; for SUBSCRIBE
there is one for each topic. Off track it reads a packet that is too short,
where lengths mean nothing: it may be anywhere in it, but it has no payload to
store. A PUBLISH that is too short is the one that has, so there the reader is
followed point by point as far as it gets: it runs into the end before its
payload. Lost means that the client is gone with bytes left to drain: fields of
bytes ignore a failed read, the list goes on from a wrong position, and nothing
more can be read. Lost and off track are the ways to the assertion, and there
are no others. `Remains` says that of the `Packet` objects only the one last
moved to has anything to drain.

**`OptionalProofs`**: `TypeOK`, `Engaged`, `Lifetimes`, `Effect` and
`ThrowKeeps` (as `TypeCorrect`, `EngagedHolds`, `LifetimesHold`, `EffectHolds`,
`ThrowKeepsHolds`), for any variables and values and every type, whichever of
its copies and moves throw. In the middle of a call flag and storage disagree,
so the invariant looks ahead (`OnCourse`): from the present state there is a
`Course` through the steps that are left, a state for each, in which every step
is `Legal` (it makes an object in a raw storage, and assigns, copies or destroys
only where there is one) and the last state is what the call is for (`Over`). A
step that may throw is only taken in a state that is `Safe`, one in which an
exception keeps what it has to; the `Unwound` steps lead from there to the end
of a call that threw. The program's step is then one along the course, and what
is left is to follow each list of steps of the code to its end, once. What an
object holds that was moved to itself is `Unknown`, since the code leaves it to
the type.

**Only model-checked**: liveness (`LoopEnds`, `CallReturns`, `PacketEnds`,
`LostCallReturns`, the fairness part of `UsesStore` and the delivery of
`ImplementsBroker`), since TLAPS does not do `ENABLED` or fairness here; and that
the encoders of `Frames` write streams as `IsStream` describes them: the size is a
recursive operator and a stream a fold, whose results need induction over data.

## 6. Plan

Done: keys, store, server and broker, connection and its copies, packets and
`optional`, each model-checked, and every safety property of these runs proved.

1. *A session module* that composes `Packet` with `Server`, so that packets left
   half-read and the failing assertion meet the store.
2. *An abstract connection* (a read takes its bytes or fails) that
   `ArduinoConnection` implements but for the contents of the buffer, and that
   `Packet` uses.
3. *Encoders*: with sizes written digit by digit without recursion, that each
   frame of `Frames` is a packet of `WireFormat`.

## 7. What is not modelled

- `Clock` and timestamps: stored and never read. `Status`: a value; the server
  keeps only OK or FAILURE. `log.h`: output.
- `DataStore::Get`: reads the map and changes nothing; the reference it returns
  is the caller's to drop before the next `Set`.
- `optional`: `operator->`, `value`, `value_or`, comparisons, hashing and
  `make_optional` only read or build on the constructors; an initializer list is
  a value like any other. C++98 variants do the same steps. The `swap` of two
  values is taken to be `std::swap`.
- Contents of payloads and the wording of messages. In `Server` a payload is
  the number of the PUBLISH that carried it, which is what makes it possible to
  tell newer from older.
- Copies made by `CreateHeapCopy` start with connection type UNKNOWN; the type of
  an observer's copy is nowhere read.
- `keep_alive`: read and, in the code as in the model, never acted upon.
- Properties of MQTT 5 other than an empty list: the code has no readers for
  them. Sizes of more than four digits, and packets longer than `Dump`'s buffer.
- What is overwritten by a topic of the program's own that does not fit a
  PUBLISH.
- The topics of an acknowledged SUBSCRIBE but the last have no effect in the code
  and none in the model. The single response code of their SUBACK is not modelled
  further.
- A handler other than the server's, and programs that call the store from
  inside one.
