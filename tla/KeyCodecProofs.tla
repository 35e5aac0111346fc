--------------------------- MODULE KeyCodecProofs ---------------------------
(***************************************************************************)
(* Proofs about KeyCodec, for words and texts of every size.               *)
(***************************************************************************)
EXTENDS KeyCodec, TLAPS

(* What the loops have done so far: the word holds the first `index`       *)
(* characters, then all of them; the scan has passed no NUL of the word;   *)
(* the result is the bytes up to the first one.                            *)
Encoding ==
  phase = "encode" =>
    index <= Len(text) /\ encoded = EncodePrefix(text, index) /\ decoded = <<>>

Encoded == phase # "encode" => encoded = EncodeString(text)

Scanning ==
  phase = "strlen" =>
    /\ \A i \in 0 .. CutSize - 1 : ByteOf(encoded, i) # Nul
    /\ decoded = <<>>

Copied ==
  phase = "done" =>
    /\ IsDecodedSize(encoded, CutSize)
    /\ decoded = [i \in 1 .. CutSize |-> ByteOf(encoded, i - 1)]

Inv == TypeOK /\ Encoding /\ Encoded /\ Scanning /\ Copied

-----------------------------------------------------------------------------
(* A position of a word is set by GetChar if the character, widened, has   *)
(* it so many bytes lower: what is proved of an index within the word.     *)
LEMMA GetCharInWord ==
  ASSUME NEW t, NEW n \in Byte, NEW p
  PROVE  p \in GetChar(t, n) <=>
           p \in Byte \X Bit /\ <<p[1] - n, p[2]>> \in Widen(t[n + 1])
<1>1. n % KeyBytes = n /\ ~(n >= KeyBytes)
  BY KeyAssumption DEF Byte
<1> QED
  BY <1>1 DEF GetChar, ShiftLeft

(* Whatever its index, a character becomes a word.                         *)
LEMMA GetCharType ==
  ASSUME NEW t, NEW n
  PROVE  GetChar(t, n) \in Word
  BY DEF GetChar, ShiftLeft, Word

(* EncodePrefix is a union: one round of the loop adds one character.      *)
LEMMA EncodePrefixElement ==
  ASSUME NEW t, NEW n \in Nat, NEW p
  PROVE  p \in EncodePrefix(t, n) <=> \E i \in 0 .. n - 1 : p \in GetChar(t, i)
  BY DEF EncodePrefix

LEMMA EncodePrefixZero ==
  ASSUME NEW t
  PROVE  EncodePrefix(t, 0) = {}
  BY EncodePrefixElement

LEMMA EncodePrefixStep ==
  ASSUME NEW t, NEW n \in Nat
  PROVE  EncodePrefix(t, n + 1) = EncodePrefix(t, n) \cup GetChar(t, n)
<1>1. 0 .. (n + 1) - 1 = (0 .. n - 1) \cup {n}
  OBVIOUS
<1> QED
  BY <1>1 DEF EncodePrefix

LEMMA EncodePrefixType ==
  ASSUME NEW t, NEW n \in Nat
  PROVE  EncodePrefix(t, n) \in Word
<1>1. ASSUME NEW p \in EncodePrefix(t, n) PROVE p \in Byte \X Bit
  <2>1. PICK i \in 0 .. n - 1 : p \in GetChar(t, i)
    BY <1>1, EncodePrefixElement
  <2> QED
    BY <2>1, GetCharType DEF Word
<1> QED
  BY <1>1 DEF Word

(* The rounds for a common beginning of two texts are the same.            *)
LEMMA EncodePrefixAgree ==
  ASSUME NEW t, NEW u, NEW n \in Nat,
         \A i \in 1 .. n : t[i] = u[i]
  PROVE  EncodePrefix(t, n) = EncodePrefix(u, n)
<1>1. ASSUME NEW i \in 0 .. n - 1 PROVE GetChar(t, i) = GetChar(u, i)
  BY <1>1 DEF GetChar
<1> QED
  BY <1>1 DEF EncodePrefix

(* A longer text only adds bits to the key of its beginning.               *)
LEMMA EncodePrefixMonotone ==
  ASSUME NEW t, NEW m \in Nat, NEW n \in Nat, m <= n
  PROVE  EncodePrefix(t, m) \subseteq EncodePrefix(t, n)
  BY EncodePrefixElement

(* A text that fits is found in its key byte by byte, and behind it NULs.  *)
LEMMA FitsBytes ==
  ASSUME NEW t \in Seq(Char), Fits(t), NEW i \in Byte
  PROVE  ByteOf(EncodeString(t), i) = IF i < Len(t) THEN t[i + 1] ELSE Nul
<1>1. Len(t) \in Nat /\ Len(t) <= KeyBytes
  BY DEF Fits
<1>2. ASSUME NEW j \in 0 .. Len(t) - 1, NEW b \in Bit
      PROVE  <<i, b>> \in GetChar(t, j) <=> i = j /\ b \in t[j + 1]
  <2>1. j \in Byte /\ j + 1 \in 1 .. Len(t)
    BY <1>1, KeyAssumption DEF Byte
  <2>2. Widen(t[j + 1]) = {0} \X t[j + 1]
    BY <2>1 DEF Widen, Fits
  <2>3. <<i, b>> \in GetChar(t, j) <=> <<i - j, b>> \in {0} \X t[j + 1]
    BY <2>1, <2>2, GetCharInWord
  <2> QED
    BY <2>1, <2>3 DEF Byte
<1>3. ASSUME NEW b \in Bit
      PROVE  <<i, b>> \in EncodeString(t) <=> i < Len(t) /\ b \in t[i + 1]
  <2>1. <<i, b>> \in EncodeString(t) <=> \E j \in 0 .. Len(t) - 1 : <<i, b>> \in GetChar(t, j)
    BY <1>1, EncodePrefixElement DEF EncodeString
  <2> QED
    BY <1>1, <1>2, <2>1 DEF Byte
<1>4. CASE i < Len(t)
  <2>1. t[i + 1] \subseteq Bit
    BY <1>1, <1>4 DEF Byte, Char
  <2> QED
    BY <1>3, <1>4, <2>1 DEF ByteOf
<1>5. CASE ~(i < Len(t))
  BY <1>3, <1>5 DEF ByteOf, Nul
<1> QED
  BY <1>4, <1>5

(* Hence the NUL that DecodeString looks for is where the text ends.       *)
LEMMA FitsSize ==
  ASSUME NEW t \in Seq(Char), Fits(t), NEW n, IsDecodedSize(EncodeString(t), n)
  PROVE  n = Len(t)
<1>1. n \in 0 .. KeyBytes /\ Len(t) \in 0 .. KeyBytes
  BY DEF IsDecodedSize, Fits
<1>2. ~(n < Len(t))
  <2> SUFFICES ASSUME n < Len(t) PROVE FALSE
    OBVIOUS
  <2>1. n \in Byte /\ n + 1 \in 1 .. Len(t)
    BY <1>1, KeyAssumption DEF Byte
  <2>2. ByteOf(EncodeString(t), n) = Nul
    BY <1>1, <2>1, KeyAssumption DEF IsDecodedSize, Byte
  <2>3. ByteOf(EncodeString(t), n) = t[n + 1]
    BY <2>1, FitsBytes
  <2> QED
    BY <2>1, <2>2, <2>3 DEF Fits
<1>3. ~(n > Len(t))
  <2> SUFFICES ASSUME n > Len(t) PROVE FALSE
    OBVIOUS
  <2>1. Len(t) \in Byte /\ Len(t) \in 0 .. n - 1
    BY <1>1, KeyAssumption DEF Byte
  <2> QED
    BY <2>1, FitsBytes DEF IsDecodedSize
<1> QED
  BY <1>1, <1>2, <1>3

-----------------------------------------------------------------------------
LEMMA InvInit == Init => Inv
  BY TextAssumption, EncodePrefixZero
  DEF Init, Inv, TypeOK, Encoding, Encoded, Scanning, Copied, CutSize, Word

LEMMA InvNext == Inv /\ [Next]_vars => Inv'
<1> SUFFICES ASSUME Inv, [Next]_vars PROVE Inv'
  OBVIOUS
<1> USE DEF Inv, TypeOK
<1>0. text \in Seq(Char) /\ Len(text) \in Nat
  BY TextAssumption
<1>1. CASE EncodeChar
  <2>1. encoded' = EncodePrefix(text, index + 1)
    BY <1>1, EncodePrefixStep DEF EncodeChar, Encoding
  <2>2. encoded' \in Word
    BY <2>1, EncodePrefixType
  <2> QED
    BY <1>0, <1>1, <2>1, <2>2 DEF EncodeChar, Encoding, Encoded, Scanning, Copied
<1>2. CASE ReturnKey
  <2>1. index = Len(text)
    BY <1>0, <1>2 DEF ReturnKey, Encoding
  <2>2. encoded' = EncodeString(text')
    BY <1>2, <2>1 DEF ReturnKey, Encoding, EncodeString
  <2> QED
    BY <1>2, <2>2, KeyAssumption DEF ReturnKey, Encoding, Encoded, Scanning, Copied, CutSize
<1>3. CASE ScanByte
  <2>1. \A i \in 0 .. CutSize' - 1 : ByteOf(encoded', i) # Nul
    BY <1>3, KeyAssumption DEF ScanByte, Scanning, CutSize
  <2> QED
    BY <1>3, <2>1, KeyAssumption DEF ScanByte, Encoding, Encoded, Scanning, Copied
<1>4. CASE CopyOut
  <2>1. IsDecodedSize(encoded, CutSize)
    BY <1>4, KeyAssumption DEF CopyOut, Scanning, IsDecodedSize, CutSize
  <2>2. decoded' \in Seq(Char)
    BY <1>4, KeyAssumption DEF CopyOut, CutSize, ByteOf, Char
  <2> QED
    BY <1>4, <2>1, <2>2 DEF CopyOut, Encoding, Encoded, Scanning, Copied, CutSize
<1>5. CASE UNCHANGED vars
  BY <1>5 DEF vars, Encoding, Encoded, Scanning, Copied, CutSize
<1> QED
  BY <1>1, <1>2, <1>3, <1>4, <1>5 DEF Next

(* The invariant of the loops.                                             *)
THEOREM Invariance == Spec => []Inv
  BY InvInit, InvNext, PTL DEF Spec

(* The word never has a bit outside its bytes and the loops count in Nat.  *)
THEOREM TypeCorrect == Spec => []TypeOK
<1>1. Inv => TypeOK
  BY DEF Inv
<1> QED
  BY <1>1, Invariance, PTL

-----------------------------------------------------------------------------
LEMMA InvRoundTrip == Inv => RoundTrip
<1> SUFFICES ASSUME Inv, phase = "done", Fits(text) PROVE decoded = text
  BY DEF RoundTrip
<1>1. text \in Seq(Char)
  BY TextAssumption DEF Inv, TypeOK
<1>2. /\ CutSize = Len(text)
      /\ decoded = [i \in 1 .. CutSize |-> ByteOf(EncodeString(text), i - 1)]
  BY <1>1, FitsSize DEF Inv, Encoded, Copied
<1>3. ASSUME NEW i \in 1 .. Len(text) PROVE ByteOf(EncodeString(text), i - 1) = text[i]
  <2>1. i - 1 \in Byte /\ i - 1 < Len(text)
    BY <1>1, KeyAssumption DEF Fits, Byte
  <2> QED
    BY <1>1, <2>1, FitsBytes
<1> QED
  BY <1>1, <1>2, <1>3

(* key.h: a topic of at most KeyBytes characters, none of them NUL or, on  *)
(* a target with signed char, with its top bit set, comes back unchanged   *)
(* from DecodeString(EncodeString(topic)).                                 *)
THEOREM RoundTripHolds == Spec => []RoundTrip
  BY Invariance, InvRoundTrip, PTL

(* A word has one size.                                                    *)
LEMMA SizeIsUnique ==
  ASSUME NEW word, NEW m, NEW n, IsDecodedSize(word, m), IsDecodedSize(word, n)
  PROVE  m = n
  BY KeyAssumption DEF IsDecodedSize

LEMMA InvDecodedFits == Inv => DecodedFits
<1> SUFFICES ASSUME Inv, phase = "done"
             PROVE  Len(decoded) <= KeyBytes /\ decoded = DecodeString(encoded)
  BY DEF DecodedFits
<1>1. /\ IsDecodedSize(encoded, CutSize) /\ CutSize \in 0 .. KeyBytes
      /\ decoded = [i \in 1 .. CutSize |-> ByteOf(encoded, i - 1)]
  BY DEF Inv, Copied, IsDecodedSize
<1>2. IsDecodedSize(encoded, DecodedSize(encoded))
  BY <1>1 DEF DecodedSize
<1>3. DecodedSize(encoded) = CutSize
  BY <1>1, <1>2, SizeIsUnique
<1>4. Len(decoded) = CutSize
  BY <1>1, KeyAssumption DEF Inv, TypeOK
<1> QED
  BY <1>1, <1>3, <1>4, KeyAssumption DEF DecodeString

(* key.h: DecodeString writes the characters of the word before its first  *)
(* NUL, at most KeyBytes, wherever strlen stops.                           *)
THEOREM DecodedFitsHolds == Spec => []DecodedFits
  BY Invariance, InvDecodedFits, PTL

LEMMA InvPrefixComplete == Inv => PrefixComplete
<1> SUFFICES ASSUME Inv, phase # "encode", NEW n \in 0 .. Len(text)
             PROVE  PrefixKeyMatch(EncodeString(SubSeq(text, 1, n)), encoded)
  BY DEF PrefixComplete
<1>1. text \in Seq(Char) /\ Len(text) \in Nat
  BY TextAssumption DEF Inv, TypeOK
<1>2. Len(SubSeq(text, 1, n)) = n /\ \A i \in 1 .. n : SubSeq(text, 1, n)[i] = text[i]
  BY <1>1
<1>3. EncodeString(SubSeq(text, 1, n)) = EncodePrefix(text, n)
  <2>0. n \in Nat
    BY <1>1
  <2>1. EncodePrefix(SubSeq(text, 1, n), n) = EncodePrefix(text, n)
    BY <1>2, <2>0, EncodePrefixAgree, Zenon
  <2> QED
    BY <1>2, <2>1 DEF EncodeString
<1>4. EncodePrefix(text, n) \subseteq EncodeString(text)
  BY <1>1, EncodePrefixMonotone DEF EncodeString
<1> QED
  BY <1>3, <1>4 DEF Inv, Encoded, PrefixKeyMatch

(* datastore.h: the matcher of a '#' subscription accepts the key of every *)
(* topic that starts with its prefix, however long and on every target.    *)
THEOREM PrefixCompleteHolds == Spec => []PrefixComplete
  BY Invariance, InvPrefixComplete, PTL

LEMMA InvLiteralAgrees == Inv => LiteralAgrees
<1> SUFFICES ASSUME Inv, phase # "encode", Len(text) <= KeyBytes PROVE encoded = Encode(text)
  BY DEF LiteralAgrees
<1>1. text \in Seq(Char) /\ Len(text) \in Nat
  BY TextAssumption DEF Inv, TypeOK
<1> DEFINE array == Append(text, Nul)
<1>2. /\ Len(array) = Len(text) + 1
      /\ \A i \in 1 .. Len(text) : array[i] = text[i]
      /\ array[Len(text) + 1] = Nul
  BY <1>1 DEF Nul
<1>3. EncodePrefix(array, Len(text)) = EncodeString(text)
  BY <1>1, <1>2, EncodePrefixAgree DEF EncodeString
<1>4. encoded = EncodeString(text)
  BY DEF Inv, Encoded
<1>5. CASE Len(text) = KeyBytes
  BY <1>1, <1>2, <1>3, <1>4, <1>5 DEF Encode
<1>6. CASE Len(text) < KeyBytes
  <2>1. Widen(Nul) = {}
    BY DEF Widen, Nul
  <2>2. GetChar(array, Len(text)) = {}
    BY <1>1, <1>2, <2>1 DEF GetChar, ShiftLeft
  <2>3. EncodePrefix(array, Len(text) + 1) = EncodeString(text)
    BY <1>1, <1>3, <2>2, EncodePrefixStep
  <2> QED
    BY <1>1, <1>2, <1>4, <1>6, <2>3, KeyAssumption DEF Encode
<1> QED
  BY <1>1, <1>5, <1>6, KeyAssumption

(* key.h: Encode and EncodeString give a text the same key.                *)
THEOREM LiteralAgreesHolds == Spec => []LiteralAgrees
  BY Invariance, InvLiteralAgrees, PTL

-----------------------------------------------------------------------------
(* The size of a text that fits is a size that strlen may find.            *)
LEMMA FitsHasSize ==
  ASSUME NEW t \in Seq(Char), Fits(t)
  PROVE  IsDecodedSize(EncodeString(t), Len(t))
<1>1. Len(t) \in 0 .. KeyBytes
  BY KeyAssumption DEF Fits
<1>2. ASSUME NEW i \in 0 .. Len(t) - 1 PROVE ByteOf(EncodeString(t), i) # Nul
  <2>1. i \in Byte /\ i < Len(t) /\ i + 1 \in 1 .. Len(t)
    BY <1>1, KeyAssumption DEF Byte
  <2> QED
    BY <2>1, FitsBytes DEF Fits
<1>3. ASSUME Len(t) < KeyBytes PROVE ByteOf(EncodeString(t), Len(t)) = Nul
  <2>1. Len(t) \in Byte /\ ~(Len(t) < Len(t))
    BY <1>1, <1>3, KeyAssumption DEF Byte
  <2> QED
    BY <2>1, FitsBytes
<1> QED
  BY <1>1, <1>2, <1>3 DEF IsDecodedSize

LEMMA DecodeEncode ==
  ASSUME NEW t \in Seq(Char), Fits(t)
  PROVE  DecodeString(EncodeString(t)) = t
<1>1. Len(t) \in 0 .. KeyBytes
  BY KeyAssumption DEF Fits
<1>2. IsDecodedSize(EncodeString(t), DecodedSize(EncodeString(t)))
  BY <1>1, FitsHasSize DEF DecodedSize
<1>3. DecodedSize(EncodeString(t)) = Len(t)
  BY <1>2, FitsSize
<1>4. ASSUME NEW i \in 1 .. Len(t) PROVE ByteOf(EncodeString(t), i - 1) = t[i]
  <2>1. i - 1 \in Byte /\ i - 1 < Len(t)
    BY <1>1, KeyAssumption DEF Byte
  <2> QED
    BY <2>1, FitsBytes
<1> QED
  BY <1>3, <1>4 DEF DecodeString

(* What Server assumes of a key type (KeyTypeAssumption) holds of uint64_t *)
(* keys, for all topics and subscriptions of any length: a topic is        *)
(* matched by its key and found by each of its prefixes.  It comes back    *)
(* from the key if it fits; a longer one shares its key with others, and   *)
(* Server does not assume that it does not (EncodeKey, DecodeKey and the   *)
(* matchers of datastore.h).                                               *)
THEOREM Uint64KeyType ==
  ASSUME NEW t \in Seq(Char)
  PROVE  /\ Fits(t) => DecodeString(EncodeString(t)) = t
         /\ FullKeyMatch(EncodeString(t), EncodeString(t))
         /\ \A f \in Seq(Char) :
              Len(f) <= Len(t) /\ SubSeq(t, 1, Len(f)) = f =>
                PrefixKeyMatch(EncodeString(f), EncodeString(t))
<1>1. ASSUME NEW f \in Seq(Char), Len(f) <= Len(t), SubSeq(t, 1, Len(f)) = f
      PROVE  PrefixKeyMatch(EncodeString(f), EncodeString(t))
  <2>1. Len(f) \in Nat /\ Len(t) \in Nat
    OBVIOUS
  <2>2. \A i \in 1 .. Len(f) : f[i] = t[i]
    BY <1>1, <2>1
  <2>3. EncodePrefix(f, Len(f)) = EncodePrefix(t, Len(f))
    BY <2>1, <2>2, EncodePrefixAgree, Zenon
  <2>4. EncodePrefix(t, Len(f)) \subseteq EncodePrefix(t, Len(t))
    BY <1>1, <2>1, EncodePrefixMonotone
  <2> QED
    BY <2>3, <2>4 DEF EncodeString, PrefixKeyMatch
<1> QED
  BY <1>1, DecodeEncode DEF FullKeyMatch

(* Two topics that fit have different keys, so that neither takes the      *)
(* other's entry in the store (EncodeKey of DataStore<uint64_t>).          *)
THEOREM KeysDistinct ==
  ASSUME NEW t \in Seq(Char), NEW u \in Seq(Char), Fits(t), Fits(u),
         EncodeString(t) = EncodeString(u)
  PROVE  t = u
BY DecodeEncode

=============================================================================
