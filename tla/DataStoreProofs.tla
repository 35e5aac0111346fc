-------------------------- MODULE DataStoreProofs ---------------------------
(***************************************************************************)
(* Proofs about DataStore, for every set of keys, entries and handlers and *)
(* any number of observers.                                                *)
(***************************************************************************)
EXTENDS DataStore, TLAPS

(* The nodes of the list are among those created so far, and a node that   *)
(* is not created yet has been given nothing: what makes the keys without  *)
(* an entry right for a new observer.                                      *)
Created ==
  /\ \A o \in observers : o.id <= created
  /\ \A id \in Id, k \in Key : created < id => seen[id][k] = NoEntry

(* A loop only calls nodes that are in the list, and only for keys that    *)
(* are in the map.                                                         *)
NoDanglingCall ==
  \A call \in pending : call[2] \in Stored /\ \E o \in observers : o.id = call[1]

Inv == TypeOK /\ Created /\ Fresh /\ NoDanglingCall

-----------------------------------------------------------------------------
LEMMA InvInit == Init => Inv
  BY StoreAssumption
  DEF Init, Inv, TypeOK, Created, Fresh, NoDanglingCall, Id

LEMMA SetInv ==
  ASSUME Inv, NEW key \in Key, NEW entry \in Entry, pending = {}, Set(key, entry)
  PROVE  Inv'
<1> USE DEF Inv, TypeOK, Set, EraseAndEmplace
<1>1. TypeOK'
  BY DEF ObserverEntry
<1>2. entries'[key] = entry /\ \A k \in Key \ {key} : entries'[k] = entries[k]
  OBVIOUS
<1>3. Created'
  BY DEF Created
<1>4. Fresh'
  BY <1>2 DEF Fresh
<1>5. NoDanglingCall'
  BY <1>2, StoreAssumption DEF NoDanglingCall, Stored
<1> QED
  BY <1>1, <1>3, <1>4, <1>5

LEMMA AddObserverInv ==
  ASSUME Inv, NEW client_id \in ClientId, NEW handler \in Handler,
         pending = {}, created < MaxObservers, AddObserver(client_id, handler)
  PROVE  Inv'
<1> USE DEF Inv, TypeOK, AddObserver, CallsForAll
<1> DEFINE node == [id |-> created + 1, client_id |-> client_id, handler |-> handler]
<1>1. created + 1 \in Id /\ node \in ObserverEntry
  BY StoreAssumption DEF Id, ObserverEntry
<1>2. TypeOK'
  BY <1>1 DEF Id, Stored
<1>3. Created'
  <2>1. ASSUME NEW o \in observers' PROVE o.id <= created + 1
    BY <1>1, <2>1 DEF Created, ObserverEntry, Id
  <2>2. ASSUME NEW id \in Id, NEW k \in Key, created + 1 < id PROVE seen[id][k] = NoEntry
    BY <2>2 DEF Created, Id
  <2> QED
    BY <2>1, <2>2 DEF Created
<1>4. Fresh'
  <2> SUFFICES ASSUME NEW o \in observers', NEW k \in Key, <<o.id, k>> \notin pending'
               PROVE  seen[o.id][k] = entries[k]
    BY DEF Fresh
  <2>1. CASE o \in observers
    BY <2>1 DEF Fresh
  <2>2. CASE o = node
    <3>1. k \notin Stored
      BY <2>2
    <3> QED
      BY <1>1, <2>2, <3>1 DEF Created, Stored, Id
  <2> QED
    BY <2>1, <2>2
<1>5. NoDanglingCall'
  <2> SUFFICES ASSUME NEW call \in pending'
               PROVE  call[2] \in Stored' /\ \E o \in observers' : o.id = call[1]
    BY DEF NoDanglingCall
  <2>1. call[1] = node.id /\ call[2] \in Stored /\ node \in observers'
    OBVIOUS
  <2> QED
    BY <2>1 DEF Stored
<1> QED
  BY <1>2, <1>3, <1>4, <1>5

LEMMA CallHandlerInv ==
  ASSUME Inv, NEW id \in Id, NEW key \in Key, CallHandler(id, key)
  PROVE  Inv'
<1> USE DEF Inv, TypeOK, CallHandler
<1>1. TypeOK'
  OBVIOUS
<1>2. /\ seen'[id][key] = entries[key]
      /\ \A i \in Id, k \in Key : <<i, k>> # <<id, key>> => seen'[i][k] = seen[i][k]
  OBVIOUS
<1>3. Created'
  <2>1. id <= created
    BY DEF NoDanglingCall, Created, Id
  <2> QED
    BY <1>2, <2>1 DEF Created, Id
<1>4. Fresh'
  BY <1>2 DEF Fresh, ObserverEntry
<1>5. NoDanglingCall'
  BY DEF NoDanglingCall, Stored
<1> QED
  BY <1>1, <1>3, <1>4, <1>5

LEMMA RemoveInv ==
  ASSUME Inv, NEW client_id \in ClientId, pending = {},
         RemoveObserversForClient(client_id)
  PROVE  Inv'
  BY DEF Inv, TypeOK, Created, Fresh, NoDanglingCall, RemoveObserversForClient, AllOf

LEMMA InvNext == Inv /\ [Next]_vars => Inv'
<1> SUFFICES ASSUME Inv, [Next]_vars PROVE Inv'
  OBVIOUS
<1>1. CASE pending = {} /\ \E key \in Key, entry \in Entry : Set(key, entry)
  BY <1>1, SetInv
<1>2. CASE /\ pending = {} /\ created < MaxObservers
           /\ \E client_id \in ClientId, handler \in Handler : AddObserver(client_id, handler)
  BY <1>2, AddObserverInv
<1>3. CASE \E id \in Id, key \in Key : CallHandler(id, key)
  BY <1>3, CallHandlerInv
<1>4. CASE pending = {} /\ \E client_id \in ClientId : RemoveObserversForClient(client_id)
  BY <1>4, RemoveInv
<1>5. CASE UNCHANGED vars
  BY <1>5 DEF vars, Inv, TypeOK, Created, Fresh, NoDanglingCall, Stored
<1> QED
  BY <1>1, <1>2, <1>3, <1>4, <1>5 DEF Next, Operation

THEOREM Invariance == Spec => []Inv
  BY InvInit, InvNext, PTL DEF Spec

-----------------------------------------------------------------------------
(* The store stays what its declarations say.                              *)
THEOREM TypeCorrect == Spec => []TypeOK
<1>1. Inv => TypeOK
  BY DEF Inv
<1> QED
  BY <1>1, Invariance, PTL

(* datastore.h: between AddObserver's replay and NotifyObservers' loop no  *)
(* observer misses an entry, for any keys and any number of observers.     *)
THEOREM FreshHolds == Spec => []Fresh
<1>1. Inv => Fresh
  BY DEF Inv
<1> QED
  BY <1>1, Invariance, PTL

=============================================================================
