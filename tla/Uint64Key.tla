----------------------------- MODULE Uint64Key -----------------------------
(***************************************************************************)
(* The key type DataStore<uint64_t>: a topic packed into one machine word, *)
(* its first character in the lowest byte (key.h and the uint64_t          *)
(* specialisations at the end of datastore.h).                             *)
(*                                                                         *)
(* A character is the set of its bits that are 1 and a word is the set of  *)
(* its <<byte, bit>> positions that are 1, so that |, & and << are union,  *)
(* intersection and a move of positions.  The program has KeyBytes = 8 and *)
(* CharBits = 8.                                                           *)
(***************************************************************************)
EXTENDS Integers, Sequences

CONSTANTS
  KeyBytes,    \* bytes in a word: sizeof(uint64_t)
  CharBits,    \* bits in a character
  SignedChar,  \* TRUE where the target's char is signed (x86), FALSE where it
               \* is not (Xtensa, ARM)
  WideShift    \* what the target makes of a shift by the width of the word or
               \* more, which C++ leaves undefined: "mod" takes the shift
               \* count modulo the width (x86), "zero" shifts every bit out

ASSUME KeyAssumption ==
  /\ KeyBytes \in Nat \ {0}
  /\ CharBits \in Nat \ {0}
  /\ SignedChar \in BOOLEAN
  /\ WideShift \in {"mod", "zero"}

Byte == 0 .. KeyBytes - 1
Bit  == 0 .. CharBits - 1
Char == SUBSET Bit
Word == SUBSET (Byte \X Bit)

Nul == {}

-----------------------------------------------------------------------------
(* static_cast<uint64_t>(c): a signed char with its top bit set extends    *)
(* that bit over the higher bytes.                                         *)
Widen(c) ==
  ({0} \X c) \cup
  (IF SignedChar /\ CharBits - 1 \in c THEN (1 .. KeyBytes - 1) \X Bit ELSE {})

(* Mutation: the result is wider than a word.                              *)
ShiftLeftWide(word, bytes) == {<<p[1] + bytes, p[2]>> : p \in word}

(* word << 8*bytes: the positions move up, those that leave are lost.      *)
ShiftLeft(word, bytes) ==
  IF bytes >= KeyBytes /\ WideShift = "zero"
  THEN {}
  ELSE {p \in Byte \X Bit : <<p[1] - (bytes % KeyBytes), p[2]>> \in word}

(* Mutation: the first character in the highest byte.                      *)
GetCharHighFirst(decoded, index) == ShiftLeft(Widen(decoded[index + 1]), KeyBytes - 1 - index)

GetChar(decoded, index) == ShiftLeft(Widen(decoded[index + 1]), index)

(* The first `bytes` characters of the text or-ed into a word, which is    *)
(* what the loop of EncodeString has computed after `bytes` rounds.        *)
EncodePrefix(decoded, bytes) == UNION {GetChar(decoded, i) : i \in 0 .. bytes - 1}

EncodeString(decoded) == EncodePrefix(decoded, Len(decoded))

(* Mutation: a byte is kept for the NUL.                                   *)
EncodeWithNul(literal) ==
  EncodePrefix(literal, IF Len(literal) < KeyBytes - 1 THEN Len(literal) ELSE KeyBytes - 1)

(* The constexpr form, for the keys a program names by a literal: the loop *)
(* runs over the array, its terminating NUL included, for at most KeyBytes *)
(* rounds.                                                                 *)
Encode(literal) ==
  LET array == Append(literal, Nul)
  IN  EncodePrefix(array, IF Len(array) < KeyBytes THEN Len(array) ELSE KeyBytes)

-----------------------------------------------------------------------------
(* A byte of the word as the char* of DecodeString reads it back, on the   *)
(* little-endian targets the code is for.                                  *)
ByteOf(word, i) == {b \in Bit : <<i, b>> \in word}

(* std::min(8, strlen(...)): the bytes before the first NUL.               *)
IsDecodedSize(word, n) ==
  /\ n \in 0 .. KeyBytes
  /\ \A i \in 0 .. n - 1 : ByteOf(word, i) # Nul
  /\ n < KeyBytes => ByteOf(word, n) = Nul

DecodedSize(word) == CHOOSE n \in 0 .. KeyBytes : IsDecodedSize(word, n)

DecodeString(word) == [i \in 1 .. DecodedSize(word) |-> ByteOf(word, i - 1)]

-----------------------------------------------------------------------------
(* Mutation: target and other in each other's place.                       *)
PrefixKeyMatchSwapped(target, other) == target \cap other = other

(* FullKeyMatcher(target)(other) and PrefixKeyMatcher(target)(other).      *)
FullKeyMatch(target, other)   == target = other
PrefixKeyMatch(target, other) == target \cap other = target

=============================================================================
