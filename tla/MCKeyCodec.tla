----------------------------- MODULE MCKeyCodec -----------------------------
(***************************************************************************)
(* Words of 3 bytes of 3 bits and every text up to one character longer    *)
(* than a word, the NUL character included.  Behind the word strlen finds   *)
(* its NUL after at most MaxOverrun bytes.                                 *)
(***************************************************************************)
EXTENDS KeyCodec

MCText == UNION {[1 .. n -> Char] : n \in 0 .. KeyBytes + 1}

=============================================================================
