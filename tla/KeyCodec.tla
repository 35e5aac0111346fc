------------------------------ MODULE KeyCodec ------------------------------
(***************************************************************************)
(* The loops of key.h, one step per round: a topic is encoded into a word  *)
(* (EncodeString), the word is scanned for its first NUL (strlen) and      *)
(* copied out (DecodeString).  This is the way a topic takes from the      *)
(* PUBLISH that names it to the PUBLISH a subscriber is sent.              *)
(***************************************************************************)
EXTENDS Uint64Key

CONSTANTS
  Text,       \* the topics to encode
  MaxOverrun  \* bound: bytes that strlen reads behind the word

ASSUME TextAssumption == Text \subseteq Seq(Char) /\ MaxOverrun \in Nat

VARIABLES
  text,     \* decoded, the argument of EncodeString
  encoded,  \* the word
  index,    \* the loop counter i, then the length strlen has counted
  decoded,  \* decode_to
  phase     \* "encode", "strlen" or "done"

vars == <<text, encoded, index, decoded, phase>>

Init ==
  /\ text \in Text
  /\ encoded = {}
  /\ index = 0
  /\ decoded = <<>>
  /\ phase = "encode"

(* One round of the loop over the characters.                              *)
EncodeChar ==
  /\ phase = "encode"
  /\ index < Len(text)
  /\ encoded' = encoded \cup GetChar(text, index)
  /\ index' = index + 1
  /\ UNCHANGED <<text, decoded, phase>>

(* The loop ends and the word is returned; DecodeString starts on it.      *)
ReturnKey ==
  /\ phase = "encode"
  /\ index >= Len(text)
  /\ index' = 0
  /\ phase' = "strlen"
  /\ UNCHANGED <<text, encoded, decoded>>

(* strlen passes a byte that is not NUL.  If the word has none that is, it *)
(* runs on into the memory behind the word, where a byte can be anything.  *)
ScanByte ==
  /\ phase = "strlen"
  /\ IF index < KeyBytes THEN ByteOf(encoded, index) # Nul ELSE index < KeyBytes + MaxOverrun
  /\ index' = index + 1
  /\ UNCHANGED <<text, encoded, decoded, phase>>

(* Mutation: what strlen counted.                                          *)
CountedSize == index

(* *decoded_size: at most the word.                                        *)
CutSize == IF index < KeyBytes THEN index ELSE KeyBytes

(* strlen has found a NUL, in the word or behind it:                       *)
(* memcpy(decode_to, encoded_str, *decoded_size).                          *)
CopyOut ==
  /\ phase = "strlen"
  /\ index < KeyBytes => ByteOf(encoded, index) = Nul
  /\ decoded' = [i \in 1 .. CutSize |-> ByteOf(encoded, i - 1)]
  /\ phase' = "done"
  /\ UNCHANGED <<text, encoded, index>>

Next == EncodeChar \/ ReturnKey \/ ScanByte \/ CopyOut

Spec == Init /\ [][Next]_vars

-----------------------------------------------------------------------------
TypeOK ==
  /\ text \in Text
  /\ encoded \in Word
  /\ index \in Nat
  /\ decoded \in Seq(Char)
  /\ phase \in {"encode", "strlen", "done"}

(* A text the key type is made for: it fits the word, has no NUL in it,    *)
(* and no character the target would sign-extend.                          *)
Fits(t) ==
  /\ Len(t) <= KeyBytes
  /\ \A i \in 1 .. Len(t) :
       /\ t[i] # Nul
       /\ SignedChar => CharBits - 1 \notin t[i]

(* A topic that fits a key comes back from the key unchanged, so no two of *)
(* them share a key: a subscriber is told the topic that was published     *)
(* (key.h, EncodeString then DecodeString).                                *)
RoundTrip == phase = "done" /\ Fits(text) => decoded = text

(* Whatever the topic, and however far strlen runs into the memory behind  *)
(* a word with no NUL in it, DecodeString writes no more than KeyBytes     *)
(* characters, which is all the room its caller must have ("decode_to      *)
(* should be atleast 8 bytes"); and they are those of the word before its  *)
(* first NUL, nothing of what is behind it.                                *)
DecodedFits ==
  phase = "done" => Len(decoded) <= KeyBytes /\ decoded = DecodeString(encoded)

(* The key of every topic contains the key of each of its prefixes, which  *)
(* is what PrefixKeyMatcher relies on ("if the other key had the prefix we *)
(* should be left with the target key"): a '#' subscription misses no      *)
(* topic below it, even one too long for a key.                            *)
PrefixComplete ==
  phase # "encode" =>
    \A n \in 0 .. Len(text) :
      PrefixKeyMatch(EncodeString(SubSeq(text, 1, n)), encoded)

(* A key a program names by a literal is the key the wire topic of the     *)
(* same text gets, so that the device's own entries and a client's         *)
(* subscription meet (key.h, Encode and EncodeString).                     *)
LiteralAgrees ==
  phase # "encode" /\ Len(text) <= KeyBytes => encoded = Encode(text)

=============================================================================
