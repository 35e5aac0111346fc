------------------------- MODULE ArduinoConnection -------------------------
(***************************************************************************)
(* arduino::Connection (arduino-connection.h): Read, Drain and Write over  *)
(* a WiFiClient, which takes and gives as many bytes at a time as its      *)
(* socket has, and loses its peer at any moment.                           *)
(*                                                                         *)
(* The n-th byte a peer sends is the number n, and so is the n-th byte of  *)
(* a buffer that is written, so that a byte tells where it belongs.        *)
(***************************************************************************)
EXTENDS Integers, Sequences

CONSTANTS
  kBufferSize,  \* of Drain: 64 in the program
  MaxCall,      \* bound: bytes asked for in a call
  MaxSent       \* bound: bytes the peer sends

ASSUME ConnectionAssumption ==
  /\ kBufferSize \in Nat \ {0}
  /\ {MaxCall, MaxSent} \subseteq Nat

VARIABLES
  arrived,    \* bytes of the peer that have arrived
  position,   \* bytes of them read from the client
  connected,  \* what client_->connected() returns
  pc,         \* "idle", in Read "wait" or "read", in Write "write" or "check"
  call,       \* the last call: its operation, its bytes, and position before it
  bytes,      \* bytes, as the loop counts it down
  rest,       \* of Drain: the bytes it still has to ask Read for
  buffer,     \* where Read puts bytes
  result,     \* what the last call returned
  received    \* history: bytes of this Write the peer's socket was given

vars == <<arrived, position, connected, pc, call, bytes, rest, buffer, result, received>>

available == arrived - position

AtMost(n, limit) == IF n <= limit THEN n ELSE limit

Init ==
  /\ arrived = 0 /\ position = 0
  /\ connected = TRUE
  /\ pc = "idle"
  /\ call = [op |-> "none", bytes |-> 0, from |-> 0]
  /\ bytes = 0 /\ rest = 0
  /\ buffer = <<>>
  /\ result = TRUE
  /\ received = <<>>

-----------------------------------------------------------------------------
(* The peer.                                                               *)

Arrive ==
  /\ connected
  /\ arrived < MaxSent
  /\ arrived' = arrived + 1
  /\ UNCHANGED <<position, connected, pc, call, bytes, rest, buffer, result, received>>

Disconnect ==
  /\ connected
  /\ connected' = FALSE
  /\ UNCHANGED <<arrived, position, pc, call, bytes, rest, buffer, result, received>>

-----------------------------------------------------------------------------
(* Calls.                                                                  *)

Begin(op, n) ==
  /\ pc = "idle"
  /\ call' = [op |-> op, bytes |-> n, from |-> position]
  /\ UNCHANGED <<arrived, position, connected>>

Return(ok) == pc' = "idle" /\ result' = ok

Read(n) ==
  /\ Begin("Read", n)
  /\ bytes' = n /\ rest' = 0
  /\ buffer' = [i \in 1 .. n |-> 0]
  /\ IF n > 0 THEN pc' = "wait" /\ UNCHANGED result ELSE Return(TRUE)
  /\ UNCHANGED received

(* The first round of its loop.                                            *)
DrainCall(n) ==
  /\ Begin("Drain", n)
  /\ bytes' = AtMost(n, kBufferSize) /\ rest' = n - AtMost(n, kBufferSize)
  /\ buffer' = [i \in 1 .. kBufferSize |-> 0]
  /\ IF n > 0 THEN pc' = "wait" /\ UNCHANGED result ELSE Return(TRUE)
  /\ UNCHANGED received

(* WritePartial is the same.                                               *)
Write(n) ==
  /\ Begin("Write", n)
  /\ bytes' = n
  /\ received' = <<>>
  /\ IF n > 0 THEN pc' = "write" /\ UNCHANGED result ELSE Return(TRUE)
  /\ UNCHANGED <<rest, buffer>>

-----------------------------------------------------------------------------
(* Read                                                                    *)

(* Mutation: the wait looks for bytes only.                                *)
WaitForBytes ==
  /\ pc = "wait"
  /\ available >= 1
  /\ IF connected THEN pc' = "read" /\ UNCHANGED result ELSE Return(FALSE)
  /\ UNCHANGED <<arrived, position, connected, call, bytes, rest, buffer, received>>

(* The wait is over when there are bytes or there is no peer; without one  *)
(* the bytes that have arrived are given up.                               *)
EndWait ==
  /\ pc = "wait"
  /\ available >= 1 \/ ~connected
  /\ IF connected THEN pc' = "read" /\ UNCHANGED result ELSE Return(FALSE)
  /\ UNCHANGED <<arrived, position, connected, call, bytes, rest, buffer, received>>

(* client_->read puts k bytes at the start of the buffer: the pointer does *)
(* not move on from one round to the next.                                 *)
Filled(k) == [i \in DOMAIN buffer |-> IF i <= k THEN position + i ELSE buffer[i]]

(* Mutation: Drain counts a whole buffer for the last, shorter round.      *)
NextChunkWhole ==
  /\ bytes' = AtMost(rest, kBufferSize)
  /\ rest' = rest - kBufferSize

(* Drain's next round.                                                     *)
NextChunk ==
  /\ bytes' = AtMost(rest, kBufferSize)
  /\ rest' = rest - AtMost(rest, kBufferSize)

(* Mutation: Drain does not see that a round was its last but one.         *)
ReadRoundShort ==
  /\ pc = "read"
  /\ \E k \in 1 .. AtMost(bytes, available) :
       /\ position' = position + k
       /\ buffer' = Filled(k)
       /\ IF k < bytes THEN pc' = "wait" /\ bytes' = bytes - k /\ UNCHANGED <<rest, result>>
          ELSE IF rest > kBufferSize THEN pc' = "wait" /\ NextChunk /\ UNCHANGED result
          ELSE Return(TRUE) /\ bytes' = 0 /\ UNCHANGED rest
  /\ UNCHANGED <<arrived, connected, call, received>>

(* As many bytes as the socket has, up to those asked for.                 *)
ReadRound ==
  /\ pc = "read"
  /\ \E k \in 1 .. AtMost(bytes, available) :
       /\ position' = position + k
       /\ buffer' = Filled(k)
       /\ IF k < bytes THEN pc' = "wait" /\ bytes' = bytes - k /\ UNCHANGED <<rest, result>>
          ELSE IF rest > 0 THEN pc' = "wait" /\ NextChunk /\ UNCHANGED result
          ELSE Return(TRUE) /\ bytes' = 0 /\ UNCHANGED rest
  /\ UNCHANGED <<arrived, connected, call, received>>

(* No bytes: EAGAIN, or none and no error, is tried again; ENOTCONN or     *)
(* another error is the end.                                               *)
ReadNothing ==
  /\ pc = "read"
  /\ \/ pc' = "wait" /\ UNCHANGED result
     \/ Return(FALSE)
  /\ UNCHANGED <<arrived, position, connected, call, bytes, rest, buffer, received>>

-----------------------------------------------------------------------------
(* Write                                                                   *)

Offset == call.bytes - bytes

(* Mutation: the next round writes from the start of the buffer.           *)
FromStart(k) == [i \in 1 .. k |-> i]

(* The k bytes from where buffer points to.                                *)
FromBuffer(k) == [i \in 1 .. k |-> Offset + i]

(* client_->write takes some bytes, or none; from a lost peer it may come  *)
(* back with -1.                                                           *)
WriteRound ==
  /\ pc = "write"
  /\ \/ \E k \in 0 .. bytes :
          /\ received' = received \o FromBuffer(k)
          /\ bytes' = bytes - k
          /\ pc' = "check"
          /\ UNCHANGED result
     \/ /\ ~connected
        /\ Return(FALSE)
        /\ UNCHANGED <<bytes, received>>
  /\ UNCHANGED <<arrived, position, connected, call, rest, buffer>>

(* Without a peer the call fails, though all the bytes were taken.         *)
EndWriteRound ==
  /\ pc = "check"
  /\ IF connected /\ bytes > 0 THEN pc' = "write" /\ UNCHANGED result ELSE Return(connected)
  /\ UNCHANGED <<arrived, position, connected, call, bytes, rest, buffer, received>>

Step == EndWait \/ ReadRound \/ ReadNothing \/ WriteRound \/ EndWriteRound

Next ==
  \/ \E n \in 0 .. MaxCall : Read(n) \/ DrainCall(n) \/ Write(n)
  \/ Step
  \/ Arrive \/ Disconnect

Spec == Init /\ [][Next]_vars /\ WF_vars(Step)

-----------------------------------------------------------------------------
Count == 0 .. MaxCall

TypeOK ==
  /\ arrived \in 0 .. MaxSent
  /\ position \in 0 .. arrived
  /\ connected \in BOOLEAN
  /\ pc \in {"idle", "wait", "read", "write", "check"}
  /\ call \in [op : {"none", "Read", "Drain", "Write"}, bytes : Count, from : 0 .. MaxSent]
  /\ bytes \in Count /\ rest \in Count
  /\ buffer \in Seq(0 .. MaxSent)
  /\ result \in BOOLEAN
  /\ received \in Seq(1 .. MaxCall)

(* However the bytes come in, a Read or a Drain that succeeds has taken    *)
(* from the stream as many as it was asked for, and one that fails no      *)
(* more: what Packet counts on.                                            *)
TakesExactly ==
  pc = "idle" /\ call.op \in {"Read", "Drain"} =>
    IF result THEN position = call.from + call.bytes ELSE position < call.from + call.bytes

(* However the socket takes them, the peer is given the bytes of a Write   *)
(* in order, none twice and none left out; all of them if it succeeds.     *)
WritesInOrder ==
  call.op = "Write" =>
    /\ received = [i \in 1 .. Len(received) |-> i]
    /\ pc = "idle" /\ result => Len(received) = call.bytes

(* Once the peer is lost no call waits for it any longer.                  *)
LostCallReturns == ~connected /\ pc # "idle" ~> pc = "idle"

(* "bool Read(char* buffer, size_t bytes);" (server.h): a Read that        *)
(* succeeds has put the bytes it took into the buffer, in order.           *)
ReadFillsBuffer ==
  pc = "idle" /\ call.op = "Read" /\ result =>
    buffer = [i \in 1 .. call.bytes |-> call.from + i]

=============================================================================
