------------------------ MODULE ArduinoConnectionProofs ------------------------
(***************************************************************************)
(* Proofs about ArduinoConnection, for buffers, calls and streams of any   *)
(* length.                                                                 *)
(***************************************************************************)
EXTENDS ArduinoConnection, SequenceTheorems, TLAPS

(* In the middle of a Read or Drain: what it has taken from the stream and *)
(* what its loops have left is what it was asked for.                      *)
Taking ==
  pc \in {"wait", "read"} =>
    /\ call.op \in {"Read", "Drain"}
    /\ bytes > 0
    /\ position + bytes + rest = call.from + call.bytes

(* In the middle of a Write: what the socket was given and what the loop   *)
(* has left is what it was asked for.                                      *)
Writing ==
  pc \in {"write", "check"} =>
    /\ call.op = "Write"
    /\ Len(received) + bytes = call.bytes

Inv == TypeOK /\ Taking /\ TakesExactly /\ Writing /\ WritesInOrder

LEMMA AtMostSmaller ==
  \A n \in Nat, limit \in Nat :
    /\ AtMost(n, limit) \in Nat /\ AtMost(n, limit) <= n /\ AtMost(n, limit) <= limit
    /\ n > 0 /\ limit > 0 => AtMost(n, limit) > 0
BY DEF AtMost

(* A buffer as a call finds it.                                            *)
LEMMA Zeros == \A n \in Nat : MaxSent \in Nat => [i \in 1 .. n |-> 0] \in Seq(0 .. MaxSent)
<1> SUFFICES ASSUME NEW n \in Nat, MaxSent \in Nat
             PROVE  [i \in 1 .. n |-> 0] \in Seq(0 .. MaxSent)
  OBVIOUS
<1>1. [i \in 1 .. n |-> 0] \in [1 .. n -> 0 .. MaxSent]
  OBVIOUS
<1> QED  BY <1>1, SeqDef

(* The flags, which the provers take on their own.                         *)
LEMMA Flags == Inv => connected \in BOOLEAN /\ result \in BOOLEAN
BY DEF Inv, TypeOK

(* What a call begins with.                                                *)
LEMMA Begun ==
  Inv => /\ MaxCall \in Nat /\ MaxSent \in Nat /\ kBufferSize \in Nat /\ kBufferSize > 0
         /\ position \in 0 .. MaxSent
BY ConnectionAssumption DEF Inv, TypeOK

LEMMA InitInv == Init => Inv
BY ConnectionAssumption
DEF Init, Inv, TypeOK, Taking, TakesExactly, Writing, WritesInOrder, Count

-----------------------------------------------------------------------------
(* A call begins.                                                          *)
LEMMA ReadInv ==
  ASSUME Inv, NEW n \in 0 .. MaxCall, Read(n)
  PROVE  Inv'
<1>1. /\ pc = "idle" /\ call' = [op |-> "Read", bytes |-> n, from |-> position]
      /\ bytes' = n /\ rest' = 0 /\ buffer' = [i \in 1 .. n |-> 0]
      /\ UNCHANGED <<arrived, position, connected, received>>
      /\ IF n > 0 THEN pc' = "wait" /\ result' = result ELSE pc' = "idle" /\ result' = TRUE
  BY DEF Read, Begin, Return
<1>2. TypeOK'
  <2>1. call' \in [op : {"none", "Read", "Drain", "Write"}, bytes : Count, from : 0 .. MaxSent]
    BY <1>1, Begun DEF Count
  <2>2. connected' \in BOOLEAN /\ result' \in BOOLEAN
    BY <1>1, Flags
  <2>3. buffer' \in Seq(0 .. MaxSent) /\ received' \in Seq(1 .. MaxCall)
    BY <1>1, Begun, Zeros DEF Inv, TypeOK
  <2>4. arrived' \in 0 .. MaxSent /\ position' \in 0 .. arrived'
    BY <1>1 DEF Inv, TypeOK
  <2>5. bytes' \in Count /\ rest' \in Count
    BY <1>1, Begun DEF Inv, TypeOK, Count
  <2> QED  BY <1>1, <2>1, <2>2, <2>3, <2>4, <2>5 DEF TypeOK
<1>3. Taking' /\ TakesExactly' /\ Writing' /\ WritesInOrder'
  BY <1>1, ConnectionAssumption
  DEF Inv, TypeOK, Taking, TakesExactly, Writing, WritesInOrder
<1> QED  BY <1>2, <1>3 DEF Inv

LEMMA DrainCallInv ==
  ASSUME Inv, NEW n \in 0 .. MaxCall, DrainCall(n)
  PROVE  Inv'
<1> DEFINE first == AtMost(n, kBufferSize)
<1>1. /\ pc = "idle" /\ call' = [op |-> "Drain", bytes |-> n, from |-> position]
      /\ bytes' = first /\ rest' = n - first /\ buffer' = [i \in 1 .. kBufferSize |-> 0]
      /\ UNCHANGED <<arrived, position, connected, received>>
      /\ IF n > 0 THEN pc' = "wait" /\ result' = result ELSE pc' = "idle" /\ result' = TRUE
  BY DEF DrainCall, Begin, Return
<1>2. first \in 0 .. n /\ (n > 0 => first > 0)
  BY AtMostSmaller, Begun
<1> HIDE DEF first
<1>3. TypeOK'
  <2>1. call' \in [op : {"none", "Read", "Drain", "Write"}, bytes : Count, from : 0 .. MaxSent]
    BY <1>1, Begun DEF Count
  <2>2. buffer' \in Seq(0 .. MaxSent)
    BY <1>1, Begun, Zeros
  <2>3. connected' \in BOOLEAN /\ result' \in BOOLEAN
    BY <1>1, Flags
  <2>4. arrived' \in 0 .. MaxSent /\ position' \in 0 .. arrived' /\ received' \in Seq(1 .. MaxCall)
    BY <1>1 DEF Inv, TypeOK
  <2>5. bytes' \in Count /\ rest' \in Count
    BY <1>1, <1>2, Begun DEF Count
  <2> QED  BY <1>1, <2>1, <2>2, <2>3, <2>4, <2>5 DEF TypeOK
<1>4. Taking' /\ TakesExactly' /\ Writing' /\ WritesInOrder'
  BY <1>1, <1>2, ConnectionAssumption
  DEF Inv, TypeOK, Taking, TakesExactly, Writing, WritesInOrder
<1> QED  BY <1>3, <1>4 DEF Inv

LEMMA WriteInv ==
  ASSUME Inv, NEW n \in 0 .. MaxCall, Write(n)
  PROVE  Inv'
<1>1. /\ pc = "idle" /\ call' = [op |-> "Write", bytes |-> n, from |-> position]
      /\ bytes' = n /\ received' = <<>>
      /\ UNCHANGED <<arrived, position, connected, rest, buffer>>
      /\ IF n > 0 THEN pc' = "write" /\ result' = result ELSE pc' = "idle" /\ result' = TRUE
  BY DEF Write, Begin, Return
<1>2. TypeOK'
  <2>1. call' \in [op : {"none", "Read", "Drain", "Write"}, bytes : Count, from : 0 .. MaxSent]
    BY <1>1, Begun DEF Count
  <2>2. connected' \in BOOLEAN /\ result' \in BOOLEAN
    BY <1>1, Flags
  <2>3. buffer' \in Seq(0 .. MaxSent) /\ received' \in Seq(1 .. MaxCall)
    BY <1>1, Begun, Zeros DEF Inv, TypeOK
  <2>4. arrived' \in 0 .. MaxSent /\ position' \in 0 .. arrived'
    BY <1>1 DEF Inv, TypeOK
  <2>5. bytes' \in Count /\ rest' \in Count
    BY <1>1, Begun DEF Inv, TypeOK, Count
  <2> QED  BY <1>1, <2>1, <2>2, <2>3, <2>4, <2>5 DEF TypeOK
<1>3. Taking' /\ TakesExactly' /\ Writing' /\ WritesInOrder'
  BY <1>1, ConnectionAssumption
  DEF Inv, TypeOK, Taking, TakesExactly, Writing, WritesInOrder
<1> QED  BY <1>2, <1>3 DEF Inv

(* Steps that only end a wait or the call.                                 *)
LEMMA EndWaitInv ==
  ASSUME Inv, EndWait \/ ReadNothing
  PROVE  Inv'
<1>1. /\ pc \in {"wait", "read"} /\ pc' \in {"wait", "read", "idle"}
      /\ pc' = "idle" => result' = FALSE
      /\ pc' # "idle" => result' = result
      /\ UNCHANGED <<arrived, position, connected, call, bytes, rest, buffer, received>>
  BY DEF EndWait, ReadNothing, Return
<1>2. TypeOK'
  BY <1>1 DEF Inv, TypeOK, Count
<1>3. Taking' /\ TakesExactly' /\ Writing' /\ WritesInOrder'
  BY <1>1, ConnectionAssumption
  DEF Inv, TypeOK, Count, Taking, TakesExactly, Writing, WritesInOrder
<1> QED  BY <1>2, <1>3 DEF Inv

LEMMA ReadRoundInv ==
  ASSUME Inv, ReadRound
  PROVE  Inv'
<1>1. /\ pc = "read" /\ bytes > 0 /\ bytes \in Nat /\ rest \in Nat
      /\ arrived \in 0 .. MaxSent /\ position \in 0 .. arrived
      /\ call.op \in {"Read", "Drain"} /\ position + bytes + rest = call.from + call.bytes
      /\ call.from \in Nat /\ call.bytes \in Nat /\ MaxSent \in Nat /\ MaxCall \in Nat
      /\ kBufferSize \in Nat /\ kBufferSize > 0
  BY ConnectionAssumption DEF ReadRound, Inv, TypeOK, Taking, Count
<1>2. PICK k \in 1 .. AtMost(bytes, available) :
        /\ position' = position + k
        /\ buffer' = Filled(k)
        /\ IF k < bytes THEN pc' = "wait" /\ bytes' = bytes - k /\ UNCHANGED <<rest, result>>
           ELSE IF rest > 0 THEN pc' = "wait" /\ NextChunk /\ UNCHANGED result
           ELSE Return(TRUE) /\ bytes' = 0 /\ UNCHANGED rest
  BY DEF ReadRound
<1>3. UNCHANGED <<arrived, connected, call, received>>
  BY DEF ReadRound
<1>4. k \in Nat /\ 1 <= k /\ k <= bytes /\ k <= arrived - position
  BY <1>1, AtMostSmaller DEF available
<1> DEFINE next == AtMost(rest, kBufferSize)
<1>5. next \in 0 .. rest /\ next \in Nat /\ (rest > 0 => next > 0)
  <2>1. next \in Nat /\ next <= rest /\ (rest > 0 /\ kBufferSize > 0 => next > 0)
    BY <1>1, AtMostSmaller
  <2> HIDE DEF next
  <2> QED  BY <1>1, <2>1
<1> HIDE DEF next
<1>6. \/ k < bytes /\ pc' = "wait" /\ bytes' = bytes - k /\ rest' = rest /\ result' = result
      \/ k = bytes /\ rest > 0 /\ pc' = "wait" /\ bytes' = next /\ rest' = rest - next
         /\ result' = result
      \/ k = bytes /\ rest = 0 /\ pc' = "idle" /\ result' = TRUE /\ bytes' = 0 /\ rest' = rest
  BY <1>1, <1>2, <1>4 DEF NextChunk, Return, next
<1>7. buffer' \in Seq(0 .. MaxSent)
  <2>1. /\ buffer \in Seq(0 .. MaxSent) /\ Len(buffer) \in Nat
        /\ DOMAIN buffer = 1 .. Len(buffer)
        /\ \A i \in 1 .. Len(buffer) : buffer[i] \in 0 .. MaxSent
    <3>1. buffer \in Seq(0 .. MaxSent)
      BY DEF Inv, TypeOK
    <3>2. /\ Len(buffer) \in Nat /\ DOMAIN buffer = 1 .. Len(buffer)
          /\ buffer \in [1 .. Len(buffer) -> 0 .. MaxSent]
      BY <3>1, LenProperties
    <3> QED  BY <3>1, <3>2
  <2>2. \A i \in 1 .. Len(buffer) : i <= k => position + i \in 0 .. MaxSent
    BY <1>1, <1>4, <2>1
  <2>3. Filled(k) \in [1 .. Len(buffer) -> 0 .. MaxSent]
    BY <2>1, <2>2 DEF Filled
  <2>4. Filled(k) \in Seq(0 .. MaxSent)
    BY <2>1, <2>3, SeqDef
  <2> QED  BY <1>2, <2>4
<1>8. TypeOK'
  <2>1. connected' \in BOOLEAN /\ result' \in BOOLEAN
    BY <1>3, <1>6, Flags
  <2>2. /\ pc' \in {"idle", "wait", "read", "write", "check"}
        /\ arrived' \in 0 .. MaxSent /\ position' \in 0 .. arrived'
    BY <1>1, <1>2, <1>3, <1>4, <1>6
  <2>3. /\ call' \in [op : {"none", "Read", "Drain", "Write"}, bytes : Count, from : 0 .. MaxSent]
        /\ received' \in Seq(1 .. MaxCall)
    BY <1>3 DEF Inv, TypeOK
  <2>4. bytes' \in Count /\ rest' \in Count
    <3>1. bytes \in 0 .. MaxCall /\ rest \in 0 .. MaxCall
      BY DEF Inv, TypeOK, Count
    <3> QED  BY <1>1, <1>4, <1>5, <1>6, <3>1 DEF Count
  <2> QED  BY <1>7, <2>1, <2>2, <2>3, <2>4 DEF TypeOK
<1>9. Taking' /\ TakesExactly'
  BY <1>1, <1>2, <1>3, <1>4, <1>5, <1>6 DEF Taking, TakesExactly
<1>10. Writing' /\ WritesInOrder'
  BY <1>1, <1>3, <1>6 DEF Writing, WritesInOrder
<1> QED  BY <1>8, <1>9, <1>10 DEF Inv

LEMMA WriteRoundInv ==
  ASSUME Inv, WriteRound
  PROVE  Inv'
<1>1. /\ pc = "write" /\ bytes \in 0 .. MaxCall /\ MaxCall \in Nat
      /\ call.op = "Write" /\ call.bytes \in 0 .. MaxCall
      /\ Len(received) + bytes = call.bytes /\ received \in Seq(1 .. MaxCall)
      /\ received = [i \in 1 .. Len(received) |-> i]
  BY ConnectionAssumption DEF WriteRound, Inv, TypeOK, Writing, WritesInOrder, Count
<1>2. UNCHANGED <<arrived, position, connected, call, rest, buffer>>
  BY DEF WriteRound
<1>3. CASE Return(FALSE) /\ UNCHANGED <<bytes, received>>
  <2>1. pc' = "idle" /\ result' = FALSE /\ bytes' = bytes /\ received' = received
    BY <1>3 DEF Return
  <2> QED
    BY <1>1, <1>2, <2>1
    DEF Inv, TypeOK, Count, Taking, TakesExactly, Writing, WritesInOrder
<1>4. ASSUME NEW k \in 0 .. bytes, received' = received \o FromBuffer(k),
             bytes' = bytes - k, pc' = "check", result' = result
      PROVE  Inv'
  <2>1. Offset = Len(received) /\ Len(received) \in Nat
    BY <1>1 DEF Offset
  <2>2. FromBuffer(k) \in Seq(1 .. MaxCall) /\ Len(FromBuffer(k)) = k
    BY <1>1, <2>1 DEF FromBuffer
  <2>3. received' \in Seq(1 .. MaxCall) /\ Len(received') = Len(received) + k
    BY <1>1, <1>4, <2>2
  <2>4. ASSUME NEW i \in 1 .. Len(received')
        PROVE  received'[i] = i
    <3>1. CASE i <= Len(received)
      BY <1>1, <1>4, <2>1, <2>2, <2>3, <3>1
    <3>2. CASE i > Len(received)
      <4>1. received'[i] = FromBuffer(k)[i - Len(received)]
        BY <1>1, <1>4, <2>1, <2>2, <2>3, <3>2
      <4> QED  BY <2>1, <2>3, <3>2, <4>1 DEF FromBuffer
    <3> QED  BY <2>1, <2>3, <3>1, <3>2
  <2>5. received' = [i \in 1 .. Len(received') |-> i]
    BY <2>3, <2>4
  <2>6. TypeOK'
    BY <1>1, <1>2, <1>4, <2>3 DEF Inv, TypeOK, Count
  <2> QED
    BY <1>1, <1>2, <1>4, <2>1, <2>3, <2>5, <2>6
    DEF Inv, Taking, TakesExactly, Writing, WritesInOrder
<1> QED  BY <1>3, <1>4 DEF WriteRound

LEMMA EndWriteRoundInv ==
  ASSUME Inv, EndWriteRound
  PROVE  Inv'
<1>1. /\ pc = "check"
      /\ \/ bytes > 0 /\ pc' = "write" /\ result' = result
         \/ pc' = "idle" /\ result' = connected /\ (connected => ~(bytes > 0))
      /\ UNCHANGED <<arrived, position, connected, call, bytes, rest, buffer, received>>
  BY DEF EndWriteRound, Return
<1>2. TypeOK'
  BY <1>1 DEF Inv, TypeOK, Count
<1>3. Taking' /\ TakesExactly' /\ Writing'
  BY <1>1 DEF Inv, Taking, TakesExactly, Writing
<1>4. WritesInOrder'
  BY <1>1, ConnectionAssumption DEF Inv, TypeOK, Count, Writing, WritesInOrder
<1> QED  BY <1>2, <1>3, <1>4 DEF Inv

LEMMA PeerInv ==
  ASSUME Inv, Arrive \/ Disconnect \/ UNCHANGED vars
  PROVE  Inv'
<1>1. UNCHANGED <<position, pc, call, bytes, rest, buffer, result, received>>
  BY DEF Arrive, Disconnect, vars
<1>2. arrived' \in 0 .. MaxSent /\ arrived' >= arrived
  <2>1. arrived \in 0 .. MaxSent /\ MaxSent \in Nat
    BY ConnectionAssumption DEF Inv, TypeOK
  <2>2. arrived' = arrived \/ (arrived' = arrived + 1 /\ arrived < MaxSent)
    BY DEF Arrive, Disconnect, vars
  <2> QED  BY <2>1, <2>2
<1>3. connected' \in BOOLEAN
  <2>1. connected' = FALSE \/ connected' = connected
    BY DEF Arrive, Disconnect, vars
  <2> QED  BY <2>1, Flags
<1>4. TypeOK'
  BY <1>1, <1>2, <1>3, ConnectionAssumption DEF Inv, TypeOK, Count
<1> QED
  BY <1>1, <1>4 DEF Inv, Taking, TakesExactly, Writing, WritesInOrder

-----------------------------------------------------------------------------
LEMMA NextInv == Inv /\ [Next]_vars => Inv'
<1> SUFFICES ASSUME Inv, [Next]_vars  PROVE Inv'
  OBVIOUS
<1>1. CASE \E n \in 0 .. MaxCall : Read(n) \/ DrainCall(n) \/ Write(n)
  BY <1>1, ReadInv, DrainCallInv, WriteInv
<1>2. CASE Step
  BY <1>2, EndWaitInv, ReadRoundInv, WriteRoundInv, EndWriteRoundInv DEF Step
<1>3. CASE Arrive \/ Disconnect \/ UNCHANGED vars
  BY <1>3, PeerInv
<1> QED  BY <1>1, <1>2, <1>3 DEF Next

LEMMA Invariance == Spec => []Inv
BY InitInv, NextInv, PTL DEF Spec

(* The loops keep their counts within what was asked for.                  *)
THEOREM TypeCorrect == Spec => []TypeOK
<1>1. Inv => TypeOK
  BY DEF Inv
<1> QED  BY <1>1, Invariance, PTL

(* A Read or a Drain that succeeds takes exactly the bytes it was asked    *)
(* for from the stream, and one that fails fewer.                          *)
THEOREM TakesExactlyHolds == Spec => []TakesExactly
<1>1. Inv => TakesExactly
  BY DEF Inv
<1> QED  BY <1>1, Invariance, PTL

(* A Write gives the socket its bytes in order, and if it succeeds all.    *)
THEOREM WritesInOrderHolds == Spec => []WritesInOrder
<1>1. Inv => WritesInOrder
  BY DEF Inv
<1> QED  BY <1>1, Invariance, PTL

=============================================================================
