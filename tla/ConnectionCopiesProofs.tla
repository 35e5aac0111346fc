------------------------ MODULE ConnectionCopiesProofs ------------------------
(***************************************************************************)
(* Proofs about ConnectionCopies, for any number of sockets, clients and   *)
(* observers.                                                              *)
(***************************************************************************)
EXTENDS ConnectionCopies, TLAPS

(* The copies made for observers, and what they were made from.            *)
Copy     == Observer \cup {"connection_heap", "observer"}
Original == {"program", "packet"}

(* A copy owns a client of its own, for the socket it was made for.        *)
Copies ==
  \A p \in Copy : connection[p] # None =>
    \E o \in Heap : connection[p] = Owned(o) /\ socket[o] = peer[p]

(* The program's Connection and the packet's have a client, lent or owned. *)
Originals ==
  \A p \in Original : connection[p] # None =>
    /\ connection[p] = Borrowed(Variable) \/ \E o \in Heap : connection[p] = Owned(o)
    /\ socket[Client(p)] \in {peer[p], Closed}

(* No copy shares its client with them, so that none is closed with theirs. *)
Apart ==
  \A p \in Copy, q \in Original, o \in Heap :
    ~(connection[p] = Owned(o) /\ connection[q] = Owned(o))

(* Every client made with new has an owner.                                *)
Heaped == \A o \in Heap : socket[o] # NoObject => Owns(connection, o)

(* What a call has at each of its steps.                                   *)
Calls ==
  /\ pc = "idle" => connection["packet"] = None /\ connection["observer"] = None
  /\ pc # "topic" => connection["connection_heap"] = None
  /\ pc \in {"handle", "topic", "observe"} =>
       /\ connection["packet"] # None /\ socket[Client("packet")] = peer["packet"]
       /\ \A p \in {"observer", "connection_heap"} :
            connection[p] # None => peer[p] = peer["packet"]

Inv == TypeOK /\ Copies /\ Originals /\ Apart /\ Heaped /\ Calls

-----------------------------------------------------------------------------
Sockets == [Object -> Socket \cup {Closed, NoObject}]

LEMMA Distinct ==
  /\ \A o, h : Owned(o) = Owned(h) => o = h
  /\ \A o, h : Owned(o) # Borrowed(h) /\ Owned(o) # None
  /\ Borrowed(Variable) # None
  /\ Variable \in Object /\ Variable \notin Heap /\ NoObject \notin Object
  /\ \A o : Owned(o).client = o /\ Borrowed(o).client = o
  /\ \A o \in Object : Owned(o) \in Connection /\ Borrowed(o) \in Connection
  /\ None \in Connection
<1>1. \A o : Owned(o).client = o /\ Owned(o).owned = TRUE
  BY DEF Owned
<1>2. \A o : Borrowed(o).client = o /\ Borrowed(o).owned = FALSE
  BY DEF Borrowed
<1>3. None.client = NoObject /\ None.owned = FALSE
  BY DEF None
<1>4. Variable \in Object /\ Variable \notin Heap /\ NoObject \notin Object
  BY CopiesAssumption DEF Object
<1>5. \A o \in Object : Owned(o) \in Connection /\ Borrowed(o) \in Connection
  BY DEF Owned, Borrowed, Connection
<1>6. None \in Connection
  BY DEF None, Connection
<1> QED  BY <1>1, <1>2, <1>3, <1>4, <1>5, <1>6

LEMMA Places ==
  /\ \A p \in Place : p \in Copy \/ p \in Original
  /\ \A p \in Copy : p \in Place /\ p \notin Original
  /\ \A p \in Original : p \in Place
  /\ \A p \in Observer : p \in Copy /\ p # "connection_heap" /\ p # "observer"
  /\ "program" \in Original /\ "packet" \in Original
  /\ "connection_heap" \in Copy /\ "observer" \in Copy
BY CopiesAssumption DEF Place, Local, Copy, Original

(* What a change of the Connections does to the objects: those that are    *)
(* owned afterwards are there, and so is the program's variable.           *)
LEMMA Update ==
  ASSUME Inv, NEW S \in Sockets, NEW C \in [Place -> Connection], Become(S, C),
         \A o \in Heap : S[o] # socket[o] => Owns(C, o)
  PROVE  /\ connection' = C
         /\ socket' \in Sockets
         /\ \A o \in Object : o = Variable \/ Owns(C, o) => socket'[o] = S[o]
         /\ Heaped'
<1>1. connection' = C /\ socket' = Released(S, C)
  BY DEF Become
<1>2. socket' \in Sockets
  BY <1>1 DEF Released, Sockets, Inv, TypeOK
<1>3. ~Owns(connection, Variable)
  BY Distinct, Places DEF Inv, Copies, Originals, Owns
<1>4. \A o \in Object : o = Variable \/ Owns(C, o) => socket'[o] = S[o]
  BY <1>1, <1>3 DEF Released
<1>5. ASSUME NEW o \in Heap, socket'[o] # NoObject
      PROVE  Owns(C, o)
  <2>1. CASE S[o] = socket[o]
    BY <2>1, <1>1, <1>5 DEF Released, Inv, Heaped, Object
  <2>2. CASE S[o] # socket[o]
    BY <2>2
  <2> QED  BY <2>1, <2>2
<1>6. Heaped'
  BY <1>1, <1>5 DEF Heaped, Owns
<1> QED  BY <1>1, <1>2, <1>4, <1>6

(* An address that is free is nobody's client.                             *)
LEMMA FreeUnused ==
  ASSUME Inv, NEW o \in Heap, Free(o), NEW p \in Place
  PROVE  connection[p] # Owned(o)
<1> SUFFICES ASSUME connection[p] = Owned(o)  PROVE FALSE
  OBVIOUS
<1>1. connection[p] # None /\ Client(p) = o /\ \A h : connection[p] = Owned(h) => h = o
  BY Distinct DEF Client
<1>2. CASE p \in Copy
  BY <1>1, <1>2, Places, CopiesAssumption DEF Inv, TypeOK, Copies, Free
<1>3. CASE p \in Original
  BY <1>1, <1>3, Places, CopiesAssumption DEF Inv, TypeOK, Originals, Free
<1> QED  BY <1>2, <1>3, Places

-----------------------------------------------------------------------------
(* Connections that stay as they are.                                      *)
LEMMA CopyKept ==
  ASSUME Inv, NEW S \in Sockets, NEW C \in [Place -> Connection], Become(S, C),
         \A o \in Heap : S[o] # socket[o] => Owns(C, o),
         NEW p \in Copy, C[p] = connection[p], peer'[p] = peer[p],
         \A o \in Heap : connection[p] = Owned(o) => S[o] = socket[o],
         connection'[p] # None
  PROVE  \E o \in Heap : connection'[p] = Owned(o) /\ socket'[o] = peer'[p]
<1>1. /\ connection' = C
      /\ \A o \in Object : o = Variable \/ Owns(C, o) => socket'[o] = S[o]
  BY Update
<1>2. PICK o \in Heap : connection[p] = Owned(o) /\ socket[o] = peer[p]
  BY <1>1 DEF Inv, Copies
<1>3. Owns(C, o) /\ o \in Object
  BY <1>2, Places DEF Owns, Object
<1> QED  BY <1>1, <1>2, <1>3

LEMMA OriginalKept ==
  ASSUME Inv, NEW S \in Sockets, NEW C \in [Place -> Connection], Become(S, C),
         \A o \in Heap : S[o] # socket[o] => Owns(C, o),
         NEW p \in Original, C[p] = connection[p], peer'[p] = peer[p],
         connection[p] # None => S[Client(p)] = socket[Client(p)],
         connection'[p] # None
  PROVE  /\ connection'[p] = connection[p]
         /\ connection'[p] = Borrowed(Variable) \/ \E o \in Heap : connection'[p] = Owned(o)
         /\ Client(p)' = Client(p)
         /\ socket'[Client(p)] = socket[Client(p)]
         /\ socket'[Client(p)] \in {peer'[p], Closed}
<1>1. /\ connection' = C
      /\ \A o \in Object : o = Variable \/ Owns(C, o) => socket'[o] = S[o]
  BY Update
<1>2. /\ connection[p] = Borrowed(Variable) \/ \E o \in Heap : connection[p] = Owned(o)
      /\ socket[Client(p)] \in {peer[p], Closed}
  BY <1>1 DEF Inv, Originals
<1>3. Client(p) \in Object /\ (Client(p) = Variable \/ Owns(C, Client(p)))
  BY <1>2, Places, Distinct DEF Owns, Object, Client
<1> QED  BY <1>1, <1>2, <1>3 DEF Client

(* Connections that are dropped, or those of others of their kind.         *)
LEMMA ApartKept ==
  ASSUME Inv,
         \A p \in Copy : connection'[p] = None \/ \E r \in Copy : connection'[p] = connection[r],
         \A q \in Original :
           connection'[q] = None \/ \E r \in Original : connection'[q] = connection[r]
  PROVE  Apart'
<1> SUFFICES ASSUME NEW p \in Copy, NEW q \in Original, NEW o \in Heap,
                    connection'[p] = Owned(o), connection'[q] = Owned(o)
             PROVE  FALSE
  BY DEF Apart
<1>1. PICK r \in Copy : connection[r] = Owned(o)
  BY Distinct
<1>2. PICK t \in Original : connection[t] = Owned(o)
  BY Distinct
<1> QED  BY <1>1, <1>2 DEF Inv, Apart

-----------------------------------------------------------------------------
LEMMA InitInv == Init => Inv
<1> SUFFICES ASSUME Init  PROVE Inv
  OBVIOUS
<1>1. \A p \in Place : connection[p] = None
  BY DEF Init
<1>2. TypeOK
  BY Distinct DEF Init, TypeOK
<1>3. Copies /\ Originals /\ Apart
  BY <1>1, Places, Distinct DEF Copies, Originals, Apart
<1>4. Heaped
  BY DEF Init, Heaped, Object
<1>5. Calls
  BY <1>1, Places DEF Init, Calls
<1> QED  BY <1>2, <1>3, <1>4, <1>5 DEF Inv

LEMMA BorrowInv ==
  ASSUME Inv, NEW s \in Socket, Borrow(s)
  PROVE  Inv'
<1> DEFINE S == [socket EXCEPT ![Variable] = s]
           C == [connection EXCEPT !["program"] = Borrowed(Variable)]
<1>1. S \in Sockets /\ C \in [Place -> Connection] /\ Become(S, C)
  BY Distinct DEF Inv, TypeOK, Sockets, Borrow
<1>2. \A o \in Heap : S[o] = socket[o]
  BY Distinct DEF Inv, TypeOK, Object
<1>3. /\ connection' = C /\ socket' \in Sockets /\ Heaped'
      /\ \A o \in Object : o = Variable \/ Owns(C, o) => socket'[o] = S[o]
  BY <1>1, <1>2, Update
<1>4. pc' = pc /\ pc = "idle" /\ peer' = [peer EXCEPT !["program"] = s]
  BY DEF Borrow
<1>5. \A p \in Place \ {"program"} : C[p] = connection[p] /\ peer'[p] = peer[p]
  BY <1>4 DEF Inv, TypeOK
<1>6. C["program"] = Borrowed(Variable) /\ peer'["program"] = s /\ S[Variable] = s
  BY <1>4, Places, Distinct DEF Inv, TypeOK
<1>7. TypeOK'
  BY <1>1, <1>3, <1>4 DEF Inv, TypeOK, Sockets
<1>8. Copies'
  <2>1. ASSUME NEW p \in Copy, connection'[p] # None
        PROVE  \E h \in Heap : connection'[p] = Owned(h) /\ socket'[h] = peer'[p]
    <3>1. C[p] = connection[p] /\ peer'[p] = peer[p]
      BY <1>5, Places
    <3>2. \A o \in Heap : S[o] = socket[o]
      BY <1>2
    <3> HIDE DEF S, C
    <3> QED  BY <1>1, <2>1, <3>1, <3>2, CopyKept
  <2> QED  BY <2>1 DEF Copies
<1>9. Originals'
  <2>1. connection'["packet"] = None
    BY <1>3, <1>4, <1>5, Places DEF Inv, Calls
  <2>2. connection'["program"] = Borrowed(Variable) /\ Client("program")' = Variable
    BY <1>3, <1>6, Distinct DEF Client
  <2>3. socket'[Variable] = s /\ peer'["program"] = s
    BY <1>3, <1>6, Distinct
  <2> QED  BY <2>1, <2>2, <2>3 DEF Originals, Original, Client
<1>10. Apart'
  BY <1>3, <1>5, <1>6, Distinct, Places DEF Apart, Original, Inv
<1>11. Calls'
  BY <1>3, <1>4, <1>5, Places DEF Calls, Inv
<1> QED  BY <1>3, <1>7, <1>8, <1>9, <1>10, <1>11 DEF Inv

LEMMA OwnInv ==
  ASSUME Inv, NEW s \in Socket, Own(s)
  PROVE  Inv'
<1>1. PICK o \in Heap :
        Free(o) /\ Become([socket EXCEPT ![o] = s], [connection EXCEPT !["program"] = Owned(o)])
  BY DEF Own
<1> DEFINE S == [socket EXCEPT ![o] = s]
           C == [connection EXCEPT !["program"] = Owned(o)]
<1>2. o \in Object
  BY DEF Object
<1>3. S \in Sockets /\ C \in [Place -> Connection] /\ Become(S, C)
  BY <1>1, <1>2, Distinct DEF Inv, TypeOK, Sockets
<1>4. C["program"] = Owned(o) /\ S[o] = s /\ \A h \in Object : h # o => S[h] = socket[h]
  BY <1>2, Places DEF Inv, TypeOK
<1>5. \A h \in Heap : S[h] # socket[h] => Owns(C, h)
  BY <1>4, Places DEF Owns, Object
<1>6. /\ connection' = C /\ socket' \in Sockets /\ Heaped'
      /\ \A h \in Object : h = Variable \/ Owns(C, h) => socket'[h] = S[h]
  BY <1>3, <1>5, Update
<1>7. pc' = pc /\ pc = "idle" /\ peer' = [peer EXCEPT !["program"] = s]
  BY DEF Own
<1>8. \A p \in Place \ {"program"} : C[p] = connection[p] /\ peer'[p] = peer[p]
  BY <1>7 DEF Inv, TypeOK
<1>9. \A p \in Place : connection[p] # Owned(o)
  BY <1>1, FreeUnused
<1>10. TypeOK'
  BY <1>3, <1>6, <1>7 DEF Inv, TypeOK, Sockets
<1>11. Copies'
  <2>1. ASSUME NEW p \in Copy, connection'[p] # None
        PROVE  \E h \in Heap : connection'[p] = Owned(h) /\ socket'[h] = peer'[p]
    <3>1. C[p] = connection[p] /\ peer'[p] = peer[p]
      BY <1>8, Places
    <3>2. \A h \in Heap : connection[p] = Owned(h) => S[h] = socket[h]
      BY <1>4, <1>9, Places DEF Object
    <3> HIDE DEF S, C
    <3> QED  BY <1>3, <1>5, <2>1, <3>1, <3>2, CopyKept
  <2> QED  BY <2>1 DEF Copies
<1>12. Originals'
  <2>1. connection'["packet"] = None
    BY <1>6, <1>7, <1>8, Places DEF Inv, Calls
  <2>2. Owns(C, o)
    BY <1>4, Places DEF Owns
  <2>3. connection'["program"] = Owned(o) /\ Client("program")' = o
    BY <1>4, <1>6, Distinct DEF Client
  <2>4. socket'[o] = s /\ peer'["program"] = s
    BY <1>2, <1>4, <1>6, <1>7, <2>2, Places DEF Inv, TypeOK
  <2> QED  BY <2>1, <2>3, <2>4 DEF Originals, Original, Client
<1>13. Apart'
  BY <1>4, <1>6, <1>7, <1>8, <1>9, Distinct, Places DEF Apart, Original, Inv
<1>14. Calls'
  BY <1>6, <1>7, <1>8, Places DEF Calls, Inv
<1> QED  BY <1>6, <1>10, <1>11, <1>12, <1>13, <1>14 DEF Inv

LEMMA ForgetInv ==
  ASSUME Inv, Forget
  PROVE  Inv'
<1> DEFINE S == [socket EXCEPT ![Variable] = NoObject]
           C == [connection EXCEPT !["program"] = None]
<1>1. S \in Sockets /\ C \in [Place -> Connection] /\ Become(S, C)
  BY Distinct DEF Inv, TypeOK, Sockets, Forget
<1>2. \A o \in Heap : S[o] = socket[o]
  BY Distinct DEF Inv, TypeOK, Object
<1>3. connection' = C /\ socket' \in Sockets /\ Heaped'
  BY <1>1, <1>2, Update
<1>4. pc' = pc /\ pc = "idle" /\ peer' = peer
  BY DEF Forget
<1>5. \A p \in Place \ {"program"} : C[p] = connection[p]
  BY DEF Inv, TypeOK
<1>6. C["program"] = None /\ C["packet"] = None
  BY <1>4, <1>5, Places DEF Inv, TypeOK, Calls
<1>7. TypeOK'
  BY <1>1, <1>3, <1>4 DEF Inv, TypeOK, Sockets
<1>8. Copies'
  <2>1. ASSUME NEW p \in Copy, connection'[p] # None
        PROVE  \E h \in Heap : connection'[p] = Owned(h) /\ socket'[h] = peer'[p]
    <3>1. C[p] = connection[p] /\ peer'[p] = peer[p]
      BY <1>4, <1>5, Places
    <3>2. \A o \in Heap : S[o] = socket[o]
      BY <1>2
    <3> HIDE DEF S, C
    <3> QED  BY <1>1, <2>1, <3>1, <3>2, CopyKept
  <2> QED  BY <2>1 DEF Copies
<1>9. Originals' /\ Apart'
  BY <1>3, <1>6, Distinct DEF Originals, Apart, Original
<1>10. Calls'
  BY <1>3, <1>4, <1>5, Places DEF Calls, Inv
<1> QED  BY <1>3, <1>7, <1>8, <1>9, <1>10 DEF Inv

LEMMA RemoveObserversInv ==
  ASSUME Inv, NEW s \in Socket, RemoveObservers(s)
  PROVE  Inv'
<1> DEFINE C == [p \in Place |-> IF p \in Observer /\ peer[p] = s THEN None ELSE connection[p]]
<1>1. socket \in Sockets /\ C \in [Place -> Connection] /\ Become(socket, C)
  BY Distinct DEF Inv, TypeOK, Sockets, RemoveObservers
<1>2. connection' = C /\ socket' \in Sockets /\ Heaped'
  BY <1>1, Update
<1>3. pc' = pc /\ pc = "idle" /\ peer' = peer
  BY DEF RemoveObservers
<1>4. \A p \in Place : C[p] = None \/ C[p] = connection[p]
  OBVIOUS
<1>5. \A p \in Place \ Observer : C[p] = connection[p]
  OBVIOUS
<1>6. TypeOK'
  BY <1>1, <1>2, <1>3 DEF Inv, TypeOK, Sockets
<1>7. Copies'
  <2>1. ASSUME NEW p \in Copy, connection'[p] # None
        PROVE  \E o \in Heap : connection'[p] = Owned(o) /\ socket'[o] = peer'[p]
    <3>1. C[p] = connection[p]
      BY <1>2, <1>4, <2>1, Places
    <3> HIDE DEF C
    <3> QED  BY <1>1, <1>3, <2>1, <3>1, CopyKept
  <2> QED  BY <2>1 DEF Copies
<1>8. Originals'
  <2>1. ASSUME NEW p \in Original, connection'[p] # None
        PROVE  /\ connection'[p] = Borrowed(Variable) \/ \E o \in Heap : connection'[p] = Owned(o)
               /\ socket'[Client(p)'] \in {peer'[p], Closed}
    <3>1. C[p] = connection[p]
      BY <1>5, Places
    <3> HIDE DEF C
    <3> QED  BY <1>1, <1>3, <2>1, <3>1, OriginalKept
  <2> QED  BY <2>1 DEF Originals
<1>9. Apart'
  BY <1>2, <1>4, Distinct, Places DEF Apart, Inv
<1>10. Calls'
  BY <1>2, <1>3, <1>5, Places, CopiesAssumption DEF Calls, Inv, Local
<1> QED  BY <1>2, <1>6, <1>7, <1>8, <1>9, <1>10 DEF Inv

LEMMA ReadNextInv ==
  ASSUME Inv, ReadNext
  PROVE  Inv'
<1>1. PICK rest \in {connection["program"], None} :
        Become(socket, [connection EXCEPT !["packet"] = connection["program"],
                                          !["program"] = rest])
  BY DEF ReadNext
<1> DEFINE C == [connection EXCEPT !["packet"] = connection["program"], !["program"] = rest]
<1>2. C["packet"] = connection["program"] /\ C["program"] = rest
  BY Places DEF Inv, TypeOK
<1>3. socket \in Sockets /\ C \in [Place -> Connection] /\ Become(socket, C)
  BY <1>1, Places, Distinct DEF Inv, TypeOK, Sockets
<1>4. /\ connection' = C /\ socket' \in Sockets /\ Heaped'
      /\ \A o \in Object : o = Variable \/ Owns(C, o) => socket'[o] = socket[o]
  BY <1>3, Update
<1>5. /\ pc = "idle" /\ pc' = "handle" /\ peer' = [peer EXCEPT !["packet"] = peer["program"]]
      /\ Client("program") # NoObject /\ socket[Client("program")] # Closed
  BY DEF ReadNext
<1>6. \A p \in Copy : C[p] = connection[p] /\ peer'[p] = peer[p]
  BY <1>5, Places DEF Inv, TypeOK, Original
<1>7. peer'["packet"] = peer["program"] /\ peer'["program"] = peer["program"]
  BY <1>5, Places DEF Inv, TypeOK
<1>8. /\ connection["program"] # None
      /\ connection["program"] = Borrowed(Variable)
           \/ \E o \in Heap : connection["program"] = Owned(o)
      /\ socket[Client("program")] = peer["program"]
  <2>1. connection["program"] # None
    BY <1>5 DEF Client, None
  <2> QED  BY <1>5, <2>1, Places DEF Inv, Originals
<1>9. socket'[Client("program")] = peer["program"]
  <2>1. Client("program") \in Object /\ (Client("program") = Variable \/ Owns(C, Client("program")))
    BY <1>2, <1>8, Places, Distinct DEF Owns, Object, Client
  <2> HIDE DEF C
  <2> QED  BY <1>4, <1>8, <2>1
<1>10. TypeOK'
  BY <1>3, <1>4, <1>5, Places DEF Inv, TypeOK, Sockets
<1>11. Copies'
  <2>1. ASSUME NEW p \in Copy, connection'[p] # None
        PROVE  \E o \in Heap : connection'[p] = Owned(o) /\ socket'[o] = peer'[p]
    <3>1. C[p] = connection[p] /\ peer'[p] = peer[p]
      BY <1>6
    <3> HIDE DEF C
    <3> QED  BY <1>3, <2>1, <3>1, CopyKept
  <2> QED  BY <2>1 DEF Copies
<1>12. Originals'
  BY <1>2, <1>4, <1>7, <1>8, <1>9 DEF Originals, Original, Client
<1>13. Apart'
  <2>1. \A p \in Copy : connection'[p] = connection[p]
    BY <1>4, <1>6
  <2>2. \A q \in Original : connection'[q] = None \/ connection'[q] = connection["program"]
    BY <1>2, <1>4 DEF Original
  <2> QED  BY <2>1, <2>2, Places, ApartKept
<1>14. Calls'
  BY <1>2, <1>4, <1>5, <1>6, <1>7, <1>8, <1>9, Places DEF Calls, Inv, Client
<1> QED  BY <1>4, <1>10, <1>11, <1>12, <1>13, <1>14 DEF Inv

LEMMA CloseInv ==
  ASSUME Inv, Close
  PROVE  Inv'
<1> DEFINE o == Client("packet")
<1>1. /\ pc = "handle" /\ pc' = "return" /\ connection' = connection /\ peer' = peer
      /\ socket' = [socket EXCEPT ![o] = Closed]
  BY DEF Close
<1>2. /\ o \in Object /\ socket[o] = peer["packet"] /\ socket[o] # NoObject
      /\ connection["packet"] = Borrowed(Variable)
           \/ \E h \in Heap : connection["packet"] = Owned(h)
  BY <1>1, Places, Distinct, CopiesAssumption
  DEF Inv, TypeOK, Calls, Originals, Client, Object
<1>3. socket'[o] = Closed /\ \A h \in Object : h # o => socket'[h] = socket[h]
  BY <1>1, <1>2 DEF Inv, TypeOK
<1>4. TypeOK'
  BY <1>1, <1>2 DEF Inv, TypeOK
<1>5. Copies'
  <2>1. ASSUME NEW p \in Copy, NEW h \in Heap, connection[p] = Owned(h)
        PROVE  h # o /\ h \in Object
    BY <1>2, <2>1, Places, Distinct DEF Inv, Apart, Client, Object
  <2> QED  BY <1>1, <1>3, <2>1 DEF Inv, Copies
<1>6. Originals'
  <2>1. ASSUME NEW p \in Original, connection[p] # None
        PROVE  Client(p) \in Object
    BY <2>1, Distinct DEF Inv, Originals, Client, Object
  <2> QED  BY <1>1, <1>3, <2>1 DEF Inv, Originals, Client
<1>7. Apart'
  BY <1>1 DEF Inv, Apart
<1>8. Heaped'
  BY <1>1, <1>2, <1>3 DEF Inv, Heaped, Owns, Object
<1>9. Calls'
  BY <1>1 DEF Inv, Calls
<1> QED  BY <1>4, <1>5, <1>6, <1>7, <1>8, <1>9 DEF Inv

LEMMA CreateHeapCopyInv ==
  ASSUME Inv, CreateHeapCopy
  PROVE  Inv'
<1>1. PICK o \in Heap :
        /\ Free(o)
        /\ Become([socket EXCEPT ![o] = socket[Client("packet")]],
                  [connection EXCEPT !["connection_heap"] = Owned(o)])
  BY DEF CreateHeapCopy
<1> DEFINE S == [socket EXCEPT ![o] = socket[Client("packet")]]
           C == [connection EXCEPT !["connection_heap"] = Owned(o)]
<1>2. /\ pc = "handle" /\ pc' = "topic"
      /\ peer' = [peer EXCEPT !["connection_heap"] = peer["packet"]]
  BY DEF CreateHeapCopy
<1>3. connection["packet"] # None /\ socket[Client("packet")] = peer["packet"]
  BY <1>2 DEF Inv, Calls
<1>4. o \in Object /\ peer["packet"] \in Socket \cup {Closed}
  BY Places DEF Object, Inv, TypeOK
<1>5. /\ C["connection_heap"] = Owned(o) /\ S[o] = peer["packet"]
      /\ \A h \in Object : h # o => S[h] = socket[h]
  BY <1>3, <1>4, Places DEF Inv, TypeOK
<1>6. S \in Sockets /\ C \in [Place -> Connection] /\ Become(S, C)
  BY <1>1, <1>3, <1>4, Distinct DEF Inv, TypeOK, Sockets
<1>7. \A h \in Heap : S[h] # socket[h] => Owns(C, h)
  BY <1>5, Places DEF Owns, Object
<1>8. /\ connection' = C /\ socket' \in Sockets /\ Heaped'
      /\ \A h \in Object : h = Variable \/ Owns(C, h) => socket'[h] = S[h]
  BY <1>6, <1>7, Update
<1>9. \A p \in Place \ {"connection_heap"} : C[p] = connection[p] /\ peer'[p] = peer[p]
  BY <1>2 DEF Inv, TypeOK
<1>10. \A p \in Place : connection[p] # Owned(o)
  BY <1>1, FreeUnused
<1>11. TypeOK'
  BY <1>2, <1>4, <1>6, <1>8 DEF Inv, TypeOK, Sockets
<1>12. Copies'
  <2>1. ASSUME NEW p \in Copy, p # "connection_heap", connection'[p] # None
        PROVE  \E h \in Heap : connection'[p] = Owned(h) /\ socket'[h] = peer'[p]
    <3>1. C[p] = connection[p] /\ peer'[p] = peer[p]
      BY <1>9, <2>1, Places
    <3>2. \A h \in Heap : connection[p] = Owned(h) => S[h] = socket[h]
      BY <1>5, <1>10, Places DEF Object
    <3> HIDE DEF S, C
    <3> QED  BY <1>6, <1>7, <2>1, <3>1, <3>2, CopyKept
  <2>2. connection'["connection_heap"] = Owned(o) /\ socket'[o] = peer'["connection_heap"]
    <3>1. Owns(C, o)
      BY <1>5, Places DEF Owns
    <3> QED  BY <1>2, <1>4, <1>5, <1>8, <3>1, Places DEF Inv, TypeOK
  <2> QED  BY <2>1, <2>2 DEF Copies
<1>13. ASSUME NEW p \in Original, connection'[p] # None
       PROVE  /\ connection'[p] = connection[p]
              /\ connection'[p] = Borrowed(Variable) \/ \E h \in Heap : connection'[p] = Owned(h)
              /\ Client(p)' = Client(p)
              /\ socket'[Client(p)] = socket[Client(p)]
              /\ socket'[Client(p)] \in {peer'[p], Closed}
  <2>1. C[p] = connection[p] /\ peer'[p] = peer[p]
    BY <1>9, Places
  <2>2. connection[p] # None => S[Client(p)] = socket[Client(p)]
    BY <1>5, <1>10, Places, Distinct DEF Inv, Originals, Client, Object
  <2> HIDE DEF S, C
  <2> QED  BY <1>6, <1>7, <1>13, <2>1, <2>2, OriginalKept
<1>14. Originals'
  BY <1>13 DEF Originals
<1>15. Apart'
  BY <1>5, <1>8, <1>9, <1>10, Distinct, Places DEF Apart, Inv
<1>16. Calls'
  <2>1. /\ connection'["packet"] = connection["packet"] /\ peer'["packet"] = peer["packet"]
        /\ connection'["observer"] = connection["observer"]
        /\ peer'["observer"] = peer["observer"] /\ peer'["connection_heap"] = peer["packet"]
    BY <1>2, <1>8, <1>9, Places DEF Inv, TypeOK
  <2>2. socket'[Client("packet")'] = peer'["packet"]
    BY <1>3, <1>13, <2>1, Places
  <2> QED  BY <1>2, <1>3, <2>1, <2>2 DEF Inv, Calls, Client
<1> QED  BY <1>8, <1>11, <1>12, <1>14, <1>15, <1>16 DEF Inv

(* Where no object changes and Connections are only dropped or moved.      *)
LEMMA OriginalsStay ==
  ASSUME Inv, NEW C \in [Place -> Connection], Become(socket, C),
         peer' \in [Place -> Socket \cup {Closed}],
         \A p \in Original : C[p] = connection[p] /\ peer'[p] = peer[p]
  PROVE  /\ connection' = C /\ socket' \in Sockets /\ Heaped' /\ Originals'
         /\ connection["packet"] # None =>
              connection'["packet"] = connection["packet"]
              /\ socket'[Client("packet")'] = socket[Client("packet")]
         /\ \A o \in Heap : Owns(C, o) => socket'[o] = socket[o]
<1>1. socket \in Sockets
  BY DEF Inv, TypeOK, Sockets
<1>2. /\ connection' = C /\ socket' \in Sockets /\ Heaped'
      /\ \A o \in Heap : Owns(C, o) => socket'[o] = socket[o]
  BY <1>1, Update DEF Object
<1>3. ASSUME NEW p \in Original, connection'[p] # None
      PROVE  /\ connection'[p] = connection[p]
             /\ connection'[p] = Borrowed(Variable) \/ \E o \in Heap : connection'[p] = Owned(o)
             /\ Client(p)' = Client(p)
             /\ socket'[Client(p)] = socket[Client(p)]
             /\ socket'[Client(p)] \in {peer'[p], Closed}
  BY <1>1, <1>3, OriginalKept
<1>4. Originals'
  BY <1>3 DEF Originals
<1>5. connection'["packet"] = connection["packet"]
  BY <1>2, Places
<1> QED  BY <1>2, <1>3, <1>4, <1>5, Places

LEMMA RefuseTopicInv ==
  ASSUME Inv, RefuseTopic
  PROVE  Inv'
<1> DEFINE C == [connection EXCEPT !["connection_heap"] = None]
<1>1. pc = "topic" /\ pc' = "return" /\ peer' = peer /\ Become(socket, C)
  BY DEF RefuseTopic
<1>2. C \in [Place -> Connection] /\ peer' \in [Place -> Socket \cup {Closed}]
  BY <1>1, Distinct DEF Inv, TypeOK
<1>3. /\ C["connection_heap"] = None
      /\ \A p \in Place \ {"connection_heap"} : C[p] = connection[p]
  BY Places DEF Inv, TypeOK
<1>4. \A p \in Original : C[p] = connection[p]
  BY <1>3, Places
<1>5. connection' = C /\ socket' \in Sockets /\ Heaped' /\ Originals'
  <2> HIDE DEF C
  <2> QED  BY <1>1, <1>2, <1>4, OriginalsStay
<1>6. TypeOK'
  BY <1>1, <1>2, <1>5 DEF TypeOK, Sockets
<1>7. Copies'
  <2>1. ASSUME NEW p \in Copy, connection'[p] # None
        PROVE  \E h \in Heap : connection'[p] = Owned(h) /\ socket'[h] = peer'[p]
    <3>1. C[p] = connection[p] /\ socket \in Sockets
      BY <1>3, <1>5, <2>1, Places DEF Inv, TypeOK, Sockets
    <3> HIDE DEF C
    <3> QED  BY <1>1, <1>2, <2>1, <3>1, CopyKept
  <2> QED  BY <2>1 DEF Copies
<1>8. Apart'
  <2>1. \A p \in Copy : connection'[p] = None \/ connection'[p] = connection[p]
    BY <1>3, <1>5, Places
  <2>2. \A q \in Original : connection'[q] = connection[q]
    BY <1>4, <1>5
  <2> QED  BY <2>1, <2>2, ApartKept
<1>9. Calls'
  BY <1>1, <1>3, <1>5 DEF Calls
<1> QED  BY <1>5, <1>6, <1>7, <1>8, <1>9 DEF Inv

LEMMA SetObserverInv ==
  ASSUME Inv, SetObserver
  PROVE  Inv'
<1> DEFINE C == [connection EXCEPT !["observer"] = connection["connection_heap"],
                                   !["connection_heap"] = None]
<1>1. /\ pc = "topic" /\ pc' \in {"handle", "observe"} /\ Become(socket, C)
      /\ peer' = [peer EXCEPT !["observer"] = peer["connection_heap"]]
  BY DEF SetObserver
<1>2. C \in [Place -> Connection] /\ peer' \in [Place -> Socket \cup {Closed}]
  BY <1>1, Places, Distinct DEF Inv, TypeOK
<1>3. /\ C["connection_heap"] = None /\ C["observer"] = connection["connection_heap"]
      /\ peer'["observer"] = peer["connection_heap"]
      /\ \A p \in Place \ {"connection_heap", "observer"} :
           C[p] = connection[p] /\ peer'[p] = peer[p]
  BY <1>1, Places DEF Inv, TypeOK
<1>4. \A p \in Original : C[p] = connection[p] /\ peer'[p] = peer[p]
  BY <1>3, Places
<1>5. /\ connection' = C /\ socket' \in Sockets /\ Heaped' /\ Originals'
      /\ connection["packet"] # None =>
           connection'["packet"] = connection["packet"]
           /\ socket'[Client("packet")'] = socket[Client("packet")]
      /\ \A o \in Heap : Owns(C, o) => socket'[o] = socket[o]
  <2> HIDE DEF C
  <2> QED  BY <1>1, <1>2, <1>4, OriginalsStay
<1>6. TypeOK'
  BY <1>1, <1>2, <1>5 DEF TypeOK, Sockets
<1>7. Copies'
  <2>1. ASSUME NEW p \in Copy, p # "observer", connection'[p] # None
        PROVE  \E h \in Heap : connection'[p] = Owned(h) /\ socket'[h] = peer'[p]
    <3>1. C[p] = connection[p] /\ peer'[p] = peer[p] /\ socket \in Sockets
      BY <1>3, <1>5, <2>1, Places DEF Inv, TypeOK, Sockets
    <3> HIDE DEF C
    <3> QED  BY <1>1, <1>2, <2>1, <3>1, CopyKept
  <2>2. ASSUME connection'["observer"] # None
        PROVE  \E h \in Heap : connection'["observer"] = Owned(h)
                              /\ socket'[h] = peer'["observer"]
    <3>1. PICK h \in Heap : connection["connection_heap"] = Owned(h)
                            /\ socket[h] = peer["connection_heap"]
      BY <1>3, <1>5, <2>2, Places DEF Inv, Copies
    <3>2. Owns(C, h)
      BY <1>3, <3>1, Places DEF Owns
    <3> HIDE DEF C
    <3> QED  BY <1>3, <1>5, <3>1, <3>2
  <2> QED  BY <2>1, <2>2 DEF Copies
<1>8. Apart'
  <2>1. \A p \in Copy : \/ connection'[p] = None \/ connection'[p] = connection[p]
                        \/ connection'[p] = connection["connection_heap"]
    BY <1>3, <1>5, Places
  <2>2. \A q \in Original : connection'[q] = connection[q]
    BY <1>4, <1>5
  <2> QED  BY <2>1, <2>2, Places, ApartKept
<1>9. Calls'
  <2>1. connection["packet"] # None /\ socket[Client("packet")] = peer["packet"]
    BY <1>1 DEF Inv, Calls
  <2>2. /\ connection'["packet"] # None /\ socket'[Client("packet")'] = peer'["packet"]
        /\ peer'["packet"] = peer["packet"] /\ connection'["connection_heap"] = None
    BY <1>3, <1>4, <1>5, <2>1, Places
  <2>3. connection'["observer"] # None => peer'["observer"] = peer["packet"]
    BY <1>1, <1>3, <1>5 DEF Inv, Calls
  <2> QED  BY <1>1, <2>2, <2>3 DEF Calls, Client
<1> QED  BY <1>5, <1>6, <1>7, <1>8, <1>9 DEF Inv

LEMMA AddObserverInv ==
  ASSUME Inv, AddObserver
  PROVE  Inv'
<1>1. PICK i \in Observer :
        /\ Become(socket, [connection EXCEPT ![i] = connection["observer"]])
        /\ peer' = [peer EXCEPT ![i] = socket[Client("packet")]]
  BY DEF AddObserver
<1> DEFINE C == [connection EXCEPT ![i] = connection["observer"]]
<1>2. /\ pc = "observe" /\ pc' = "return"
      /\ connection["packet"] # None /\ socket[Client("packet")] = peer["packet"]
  BY DEF AddObserver, Inv, Calls
<1>3. /\ C \in [Place -> Connection] /\ Become(socket, C)
      /\ peer' \in [Place -> Socket \cup {Closed}]
  BY <1>1, <1>2, Places, Distinct DEF Inv, TypeOK
<1>4. /\ C[i] = connection["observer"] /\ peer'[i] = peer["packet"]
      /\ \A p \in Place \ {i} : C[p] = connection[p] /\ peer'[p] = peer[p]
  BY <1>1, <1>2, Places DEF Inv, TypeOK
<1>5. \A p \in Original : C[p] = connection[p] /\ peer'[p] = peer[p]
  BY <1>4, Places
<1>6. /\ connection' = C /\ socket' \in Sockets /\ Heaped' /\ Originals'
      /\ \A o \in Heap : Owns(C, o) => socket'[o] = socket[o]
  <2> HIDE DEF C
  <2> QED  BY <1>3, <1>5, OriginalsStay
<1>7. TypeOK'
  BY <1>2, <1>3, <1>6 DEF TypeOK, Sockets
<1>8. Copies'
  <2>1. ASSUME NEW p \in Copy, p # i, connection'[p] # None
        PROVE  \E h \in Heap : connection'[p] = Owned(h) /\ socket'[h] = peer'[p]
    <3>1. C[p] = connection[p] /\ peer'[p] = peer[p] /\ socket \in Sockets
      BY <1>4, <2>1, Places DEF Inv, TypeOK, Sockets
    <3> HIDE DEF C
    <3> QED  BY <1>3, <2>1, <3>1, CopyKept
  <2>2. ASSUME connection'[i] # None
        PROVE  \E h \in Heap : connection'[i] = Owned(h) /\ socket'[h] = peer'[i]
    <3>1. PICK h \in Heap : connection["observer"] = Owned(h) /\ socket[h] = peer["observer"]
      BY <1>4, <1>6, <2>2, Places DEF Inv, Copies
    <3>2. Owns(C, h)
      BY <1>4, <3>1, Places DEF Owns
    <3>3. peer["observer"] = peer["packet"]
      BY <1>2, <1>4, <1>6, <2>2 DEF Inv, Calls
    <3> HIDE DEF C
    <3> QED  BY <1>4, <1>6, <3>1, <3>2, <3>3
  <2> QED  BY <2>1, <2>2 DEF Copies
<1>9. Apart'
  <2>1. \A p \in Copy : connection'[p] = connection["observer"] \/ connection'[p] = connection[p]
    BY <1>4, <1>6, Places
  <2>2. \A q \in Original : connection'[q] = connection[q]
    BY <1>5, <1>6
  <2> QED  BY <2>1, <2>2, Places, ApartKept
<1>10. Calls'
  BY <1>2, <1>4, <1>6, Places DEF Calls, Inv
<1> QED  BY <1>6, <1>7, <1>8, <1>9, <1>10 DEF Inv

LEMMA ReturnInv ==
  ASSUME Inv, Return
  PROVE  Inv'
<1> DEFINE C == [connection EXCEPT !["observer"] = None, !["packet"] = None]
<1>1. pc = "return" /\ pc' = "idle" /\ peer' = peer /\ Become(socket, C)
  BY DEF Return
<1>2. C \in [Place -> Connection] /\ socket \in Sockets
  BY Distinct DEF Inv, TypeOK, Sockets
<1>3. /\ C["observer"] = None /\ C["packet"] = None
      /\ \A p \in Place \ {"observer", "packet"} : C[p] = connection[p]
  BY Places DEF Inv, TypeOK
<1>4. connection' = C /\ socket' \in Sockets /\ Heaped'
  BY <1>1, <1>2, Update
<1>5. TypeOK'
  BY <1>1, <1>2, <1>4 DEF Inv, TypeOK, Sockets
<1>6. Copies'
  <2>1. ASSUME NEW p \in Copy, connection'[p] # None
        PROVE  \E h \in Heap : connection'[p] = Owned(h) /\ socket'[h] = peer'[p]
    <3>1. C[p] = connection[p]
      BY <1>3, <1>4, <2>1, Places DEF Original
    <3> HIDE DEF C
    <3> QED  BY <1>1, <1>2, <2>1, <3>1, CopyKept
  <2> QED  BY <2>1 DEF Copies
<1>7. Originals'
  <2>1. ASSUME NEW p \in Original, connection'[p] # None
        PROVE  /\ connection'[p] = Borrowed(Variable) \/ \E o \in Heap : connection'[p] = Owned(o)
               /\ socket'[Client(p)'] \in {peer'[p], Closed}
    <3>1. C[p] = connection[p]
      BY <1>3, <1>4, <2>1, Places
    <3> HIDE DEF C
    <3>2. /\ connection'[p] = Borrowed(Variable) \/ \E o \in Heap : connection'[p] = Owned(o)
          /\ Client(p)' = Client(p)
          /\ socket'[Client(p)] \in {peer'[p], Closed}
      BY <1>1, <1>2, <2>1, <3>1, OriginalKept
    <3> QED  BY <3>2
  <2> QED  BY <2>1 DEF Originals
<1>8. Apart'
  <2>1. \A p \in Copy \cup Original : connection'[p] = None \/ connection'[p] = connection[p]
    BY <1>3, <1>4, Places
  <2> QED  BY <2>1, ApartKept
<1>9. Calls'
  BY <1>1, <1>3, <1>4, Places DEF Calls, Inv
<1> QED  BY <1>4, <1>5, <1>6, <1>7, <1>8, <1>9 DEF Inv

-----------------------------------------------------------------------------
LEMMA NextInv == Inv /\ [Next]_vars => Inv'
<1> SUFFICES ASSUME Inv, [Next]_vars  PROVE Inv'
  OBVIOUS
<1>1. CASE \E s \in Socket : Borrow(s) \/ Own(s) \/ RemoveObservers(s)
  BY <1>1, BorrowInv, OwnInv, RemoveObserversInv
<1>2. CASE Forget \/ ReadNext
  BY <1>2, ForgetInv, ReadNextInv
<1>3. CASE Close \/ CreateHeapCopy \/ RefuseTopic \/ SetObserver \/ AddObserver \/ Return
  BY <1>3, CloseInv, CreateHeapCopyInv, RefuseTopicInv, SetObserverInv, AddObserverInv,
     ReturnInv
<1>4. CASE Done
  BY <1>4 DEF Done, Inv, TypeOK, Copies, Originals, Apart, Heaped, Calls, Owns, Client
<1>5. CASE UNCHANGED vars
  BY <1>5 DEF vars, Inv, TypeOK, Copies, Originals, Apart, Heaped, Calls, Owns, Client
<1> QED  BY <1>1, <1>2, <1>3, <1>4, <1>5 DEF Next

LEMMA Invariance == Spec => []Inv
BY InitInv, NextInv, PTL DEF Spec

(* Connections, objects and ids keep their types; the id of an observer is *)
(* a socket's (AddObserver).                                               *)
THEOREM TypeCorrect == Spec => []TypeOK
<1>1. Inv => TypeOK
  BY DEF Inv
<1> QED  BY <1>1, Invariance, PTL

(* Every observer in the store writes to the connection that subscribed    *)
(* (CreateHeapCopy).                                                       *)
THEOREM RightPeerHolds == Spec => []RightPeer
<1>1. ASSUME Inv  PROVE RightPeer
  <2>1. ASSUME NEW i \in Observer, connection[i] # None
        PROVE  socket[Client(i)] = peer[i]
    BY <1>1, <2>1, Places, Distinct DEF Inv, Copies, Client
  <2> QED  BY <1>1, <2>1 DEF RightPeer, Inv, Calls
<1> QED  BY <1>1, Invariance, PTL

(* No client made with new is left without an owner that will use it       *)
(* (CreateHeapCopy, and the locals of HandleMessage).                      *)
THEOREM NothingLeaksHolds == Spec => []NothingLeaks
<1>1. ASSUME Inv  PROVE NothingLeaks
  <2> SUFFICES ASSUME pc = "idle", NEW o \in Heap, socket[o] # NoObject
               PROVE  \E p \in Observer \cup {"program"} : connection[p] = Owned(o)
    BY DEF NothingLeaks
  <2>1. PICK p \in Place : connection[p] = Owned(o)
    BY <1>1 DEF Inv, Heaped, Owns
  <2>2. p \notin {"packet", "observer", "connection_heap"}
    BY <1>1, <2>1, Distinct DEF Inv, Calls
  <2> QED  BY <2>1, <2>2 DEF Place, Local
<1> QED  BY <1>1, Invariance, PTL

=============================================================================
