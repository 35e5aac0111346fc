--------------------------- MODULE ConnectionCopies ---------------------------
(***************************************************************************)
(* Who owns the WiFiClient of an arduino::Connection.  A Connection owns   *)
(* its client, together with its copies, or borrows it from the program.   *)
(* The observer of a SUBSCRIBE gets a copy of the packet's (Server) and    *)
(* keeps it in the store, when the packet and what the program had are     *)
(* long gone.                                                              *)
(*                                                                         *)
(* WiFiClient objects are their addresses, which are used again after a    *)
(* delete.  Copies of one are for the same socket; stop() closes it for    *)
(* the object it is called on.                                             *)
(***************************************************************************)
CONSTANTS
  Heap,         \* addresses of WiFiClient objects made with new
  Socket,       \* sockets of accepted connections
  Closed,       \* what a client that was stopped is for
  NoObject,     \* where there is no object
  Observer      \* nodes for the list observers_ of the store; bounds its length

Variable == "variable"  \* the program's own WiFiClient, which it uses again
Object   == Heap \cup {Variable}

(* Where there are Connections: the program's, the Packet's, the local     *)
(* connection_heap of a topic's callback, the one in the local observer,   *)
(* and those in the store's observers.                                     *)
Local == {"program", "packet", "connection_heap", "observer"}
Place == Local \cup Observer

ASSUME CopiesAssumption ==
  /\ Variable \notin Heap
  /\ Observer \cap Local = {}
  /\ {Closed, NoObject} \cap Socket = {} /\ Closed # NoObject
  /\ NoObject \notin Object

VARIABLES
  pc,          \* "idle", "handle", "topic", "observe" or "return"
  socket,      \* of each object
  connection,  \* the Connection at each place
  peer         \* history: the socket it was made for, of an observer in the
               \* store its client_id

vars == <<pc, socket, connection, peer>>

None       == [client |-> NoObject, owned |-> FALSE]
Borrowed(o) == [client |-> o, owned |-> FALSE]
Owned(o)    == [client |-> o, owned |-> TRUE]

Connection == [client : Object \cup {NoObject}, owned : BOOLEAN]

(* An object goes with the last Connection that owns it.                   *)
Owns(connections, o) == \E p \in Place : connections[p] = Owned(o)

Released(sockets, connections) ==
  [o \in Object |-> IF Owns(connection, o) /\ ~Owns(connections, o) THEN NoObject
                                                                   ELSE sockets[o]]

(* Connections change, and objects with them.                              *)
Become(sockets, connections) ==
  /\ connection' = connections
  /\ socket' = Released(sockets, connections)

Free(o) == o \in Heap /\ socket[o] = NoObject

Client(place) == connection[place].client

Init ==
  /\ pc = "idle"
  /\ socket = [o \in Object |-> NoObject]
  /\ connection = [p \in Place |-> None]
  /\ peer = [p \in Place |-> Closed]

-----------------------------------------------------------------------------
(* The program.                                                            *)

(* It accepts a socket into its variable, and lends that to a Connection.  *)
Borrow(s) ==
  /\ pc = "idle"
  /\ Become([socket EXCEPT ![Variable] = s],
            [connection EXCEPT !["program"] = Borrowed(Variable)])
  /\ peer' = [peer EXCEPT !["program"] = s]
  /\ UNCHANGED pc

(* Or into a new object that the Connection is to own.                     *)
Own(s) ==
  /\ pc = "idle"
  /\ \E o \in Heap :
       /\ Free(o)
       /\ Become([socket EXCEPT ![o] = s], [connection EXCEPT !["program"] = Owned(o)])
  /\ peer' = [peer EXCEPT !["program"] = s]
  /\ UNCHANGED pc

(* It is done with the socket.                                             *)
Forget ==
  /\ pc = "idle"
  /\ Become([socket EXCEPT ![Variable] = NoObject], [connection EXCEPT !["program"] = None])
  /\ UNCHANGED <<pc, peer>>

(* RemoveObserversForClient.                                               *)
RemoveObservers(s) ==
  /\ pc = "idle"
  /\ Become(socket, [p \in Place |-> IF p \in Observer /\ peer[p] = s THEN None
                                                                      ELSE connection[p]])
  /\ UNCHANGED <<pc, peer>>

(* ReadNext takes a copy of the program's Connection, or all of it, into   *)
(* the Packet.  The program calls HandleMessage.                           *)
ReadNext ==
  /\ pc = "idle"
  /\ Client("program") # NoObject /\ socket[Client("program")] # Closed
  /\ \E rest \in {connection["program"], None} :
       Become(socket, [connection EXCEPT !["packet"] = connection["program"],
                                         !["program"] = rest])
  /\ peer' = [peer EXCEPT !["packet"] = peer["program"]]
  /\ pc' = "handle"

-----------------------------------------------------------------------------
(* HandleMessage.                                                          *)

(* DISCONNECT: client_->stop().                                            *)
Close ==
  /\ pc = "handle"
  /\ socket' = [socket EXCEPT ![Client("packet")] = Closed]
  /\ pc' = "return"
  /\ UNCHANGED <<connection, peer>>

(* Mutation: the copy borrows the client of the original.                  *)
BorrowingCopy ==
  /\ pc = "handle"
  /\ Become(socket, [connection EXCEPT !["connection_heap"] = Borrowed(Client("packet"))])
  /\ peer' = [peer EXCEPT !["connection_heap"] = peer["packet"]]
  /\ pc' = "topic"

(* Mutation: the copy does not own the client made for it.                 *)
UnownedCopy ==
  /\ pc = "handle"
  /\ \E o \in Heap :
       /\ Free(o)
       /\ Become([socket EXCEPT ![o] = socket[Client("packet")]],
                 [connection EXCEPT !["connection_heap"] = Borrowed(o)])
  /\ peer' = [peer EXCEPT !["connection_heap"] = peer["packet"]]
  /\ pc' = "topic"

(* A topic of a SUBSCRIBE: a new client, assigned the one of the packet,   *)
(* and a Connection that owns it.                                          *)
CreateHeapCopy ==
  /\ pc = "handle"
  /\ \E o \in Heap :
       /\ Free(o)
       /\ Become([socket EXCEPT ![o] = socket[Client("packet")]],
                 [connection EXCEPT !["connection_heap"] = Owned(o)])
  /\ peer' = [peer EXCEPT !["connection_heap"] = peer["packet"]]
  /\ pc' = "topic"

(* The topic has a '+': the callback returns, and so does HandleMessage.   *)
RefuseTopic ==
  /\ pc = "topic"
  /\ Become(socket, [connection EXCEPT !["connection_heap"] = None])
  /\ pc' = "return"
  /\ UNCHANGED peer

(* The copy is moved into the observer, in place of that of a topic before *)
(* it.  There may be more topics.                                          *)
SetObserver ==
  /\ pc = "topic"
  /\ Become(socket, [connection EXCEPT !["observer"] = connection["connection_heap"],
                                       !["connection_heap"] = None])
  /\ peer' = [peer EXCEPT !["observer"] = peer["connection_heap"]]
  /\ pc' \in {"handle", "observe"}

(* Mutation: id() is the address of the client and not its socket.         *)
AddObserverByAddress ==
  /\ pc = "observe"
  /\ \E i \in Observer :
       /\ connection[i] = None
       /\ Become(socket, [connection EXCEPT ![i] = connection["observer"]])
       /\ peer' = [peer EXCEPT ![i] = Client("packet")]
  /\ pc' = "return"

(* The observer is copied into the store, with the id of the packet's      *)
(* connection.                                                             *)
AddObserver ==
  /\ pc = "observe"
  /\ \E i \in Observer :
       /\ connection[i] = None
       /\ Become(socket, [connection EXCEPT ![i] = connection["observer"]])
       /\ peer' = [peer EXCEPT ![i] = socket[Client("packet")]]
  /\ pc' = "return"

(* Any other packet, and one that fails on the way.                        *)
Done ==
  /\ pc \in {"handle", "observe"}
  /\ pc' = "return"
  /\ UNCHANGED <<socket, connection, peer>>

(* The locals of HandleMessage go, and then the Packet.                    *)
Return ==
  /\ pc = "return"
  /\ Become(socket, [connection EXCEPT !["observer"] = None, !["packet"] = None])
  /\ pc' = "idle"
  /\ UNCHANGED peer

Next ==
  \/ \E s \in Socket : Borrow(s) \/ Own(s) \/ RemoveObservers(s)
  \/ Forget \/ ReadNext
  \/ Close \/ CreateHeapCopy \/ RefuseTopic \/ SetObserver \/ AddObserver \/ Done \/ Return

Spec == Init /\ [][Next]_vars

-----------------------------------------------------------------------------
TypeOK ==
  /\ pc \in {"idle", "handle", "topic", "observe", "return"}
  /\ socket \in [Object -> Socket \cup {Closed, NoObject}]
  /\ connection \in [Place -> Connection]
  /\ peer \in [Place -> Socket \cup {Closed}]

(* An observer in the store writes to the connection that subscribed,      *)
(* whatever became of the packet, of the other topics it had, and of the   *)
(* client the program had, lent or used again for another connection; so   *)
(* does a handler with the packet it is given, until it closes it.         *)
RightPeer ==
  /\ \A i \in Observer : connection[i] # None => socket[Client(i)] = peer[i]
  /\ pc \in {"handle", "topic", "observe"} => socket[Client("packet")] = peer["packet"]

(* Between two calls every client made with new belongs to the program's   *)
(* Connection or to an observer in the store: topics that were refused or  *)
(* replaced leave none behind.                                             *)
NothingLeaks ==
  pc = "idle" =>
    \A o \in Heap :
      socket[o] # NoObject => \E p \in Observer \cup {"program"} : connection[p] = Owned(o)

=============================================================================
