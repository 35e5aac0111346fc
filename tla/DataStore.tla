----------------------------- MODULE DataStore -----------------------------
(***************************************************************************)
(* The store of datastore.h: the latest entry of every key, and a list of  *)
(* observers that are to be told of every entry.                           *)
(*                                                                         *)
(* Set and AddObserver call handlers in a loop, and between two calls of a *)
(* loop the world outside the store moves on (a peer disconnects).  So a   *)
(* loop is a set of handler calls still to be made, and each call a step   *)
(* of its own.  Next is how the store is to be used: an operation starts   *)
(* when the loop of the last one is done (one thread, and handlers that do *)
(* not call the store).  That the server uses it so is shown of Server.    *)
(***************************************************************************)
EXTENDS Integers

CONSTANTS
  Key,          \* KeyType
  Entry,        \* contents of a DataStoreEntry
  NoEntry,      \* what a key without an entry maps to
  ClientId,     \* values of client_id
  Handler,      \* handler functions, told apart by what they capture
  MaxObservers  \* bound: list nodes ever created

ASSUME StoreAssumption ==
  /\ NoEntry \notin Entry
  /\ MaxObservers \in Nat

VARIABLES
  entries,    \* the map
  observers,  \* the nodes of the list
  created,    \* how many nodes the list has ever had; a node's id is its rank
              \* by age, hence its order in the list
  pending,    \* the calls <<id, key>> the loop in progress has yet to make
  seen        \* history: the last entry each observer's handler was given for
              \* each key

vars == <<entries, observers, created, pending, seen>>

Id == 1 .. MaxObservers
ObserverEntry == [id : Id, client_id : ClientId, handler : Handler]

Stored == {k \in Key : entries[k] # NoEntry}

-----------------------------------------------------------------------------
Init ==
  /\ entries = [k \in Key |-> NoEntry]
  /\ observers = {}
  /\ created = 0
  /\ pending = {}
  /\ seen = [id \in Id |-> [k \in Key |-> NoEntry]]

(* Mutation: emplace alone, which leaves an entry that is there as it is.  *)
EmplaceOnly(key, entry) ==
  IF key \in Stored THEN entries ELSE [entries EXCEPT ![key] = entry]

EraseAndEmplace(key, entry) == [entries EXCEPT ![key] = entry]

(* erase and emplace, then NotifyObservers starts on the list.             *)
Set(key, entry) ==
  /\ entries' = EraseAndEmplace(key, entry)
  /\ pending' = pending \cup {<<o.id, key>> : o \in observers}
  /\ UNCHANGED <<observers, created, seen>>

(* Mutation: observers_.back() is taken before the node is there.          *)
CallsForOlder(id) == {<<id - 1, k>> : k \in Stored}

(* Mutation: existing entries are not sent.                                *)
NoCalls(id) == {}

(* The calls that send all existing entries to a node.                     *)
CallsForAll(id) == {<<id, k>> : k \in Stored}

(* emplace_back, then the loop over entries_ starts for the new node.      *)
AddObserver(client_id, handler) ==
  /\ created' = created + 1
  /\ observers' =
       observers \cup {[id |-> created + 1, client_id |-> client_id, handler |-> handler]}
  /\ pending' = pending \cup CallsForAll(created + 1)
  /\ UNCHANGED <<entries, seen>>

(* Mutation: the loop does not advance.                                    *)
CallHandlerAgain(id, key) ==
  /\ <<id, key>> \in pending
  /\ \A call \in pending : id <= call[1]
  /\ seen' = [seen EXCEPT ![id][key] = entries[key]]
  /\ UNCHANGED <<entries, observers, created, pending>>

(* One round of either loop: the list is walked from its oldest node, the  *)
(* map in any order.  What the handler returns is dropped.                 *)
CallHandler(id, key) ==
  /\ <<id, key>> \in pending
  /\ \A call \in pending : id <= call[1]
  /\ pending' = pending \ {<<id, key>>}
  /\ seen' = [seen EXCEPT ![id][key] = entries[key]]
  /\ UNCHANGED <<entries, observers, created>>

(* Mutation: the oldest node of the client only.                           *)
OldestOf(client_id) ==
  {o \in observers : /\ o.client_id = client_id
                     /\ \A p \in observers : p.client_id = client_id => o.id <= p.id}

(* The nodes of a client.                                                  *)
AllOf(client_id) == {o \in observers : o.client_id = client_id}

(* remove_if over the list.                                                *)
RemoveObserversForClient(client_id) ==
  /\ observers' = observers \ AllOf(client_id)
  /\ UNCHANGED <<entries, created, pending, seen>>

(* The operations, the list being bounded.                                 *)
Operation ==
  \/ \E key \in Key, entry \in Entry : Set(key, entry)
  \/ /\ created < MaxObservers
     /\ \E client_id \in ClientId, handler \in Handler : AddObserver(client_id, handler)
  \/ \E client_id \in ClientId : RemoveObserversForClient(client_id)

Next ==
  \/ pending = {} /\ Operation
  \/ \E id \in Id, key \in Key : CallHandler(id, key)

Notify == \E id \in Id, key \in Key : CallHandler(id, key)

Spec == Init /\ [][Next]_vars /\ WF_vars(Notify)

-----------------------------------------------------------------------------
TypeOK ==
  /\ entries \in [Key -> Entry \cup {NoEntry}]
  /\ observers \subseteq ObserverEntry
  /\ created \in 0 .. MaxObservers
  /\ pending \subseteq Id \X Key
  /\ seen \in [Id -> [Key -> Entry \cup {NoEntry}]]

(* No observer ever misses an entry: but for the calls a loop has yet to   *)
(* make, every observer was last given, for every key, the entry the store *)
(* holds, whether it joined before or after the key was set.               *)
Fresh ==
  \A o \in observers, k \in Key : <<o.id, k>> \notin pending => seen[o.id][k] = entries[k]

(* Every loop comes to an end, whatever the handlers return.               *)
LoopEnds == pending # {} ~> pending = {}

=============================================================================
