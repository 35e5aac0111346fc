--------------------------- MODULE StringKeyProofs ---------------------------
(***************************************************************************)
(* Proofs about StringKey, for texts over any characters.                  *)
(***************************************************************************)
EXTENDS StringKey, TLAPS

(* Whether a text starts with another.                                     *)
StartsWith(text, prefix) == Len(prefix) <= Len(text) /\ SubSeq(text, 1, Len(prefix)) = prefix

LEMMA StartsWithElements ==
  ASSUME NEW Char, NEW t \in Seq(Char), NEW f \in Seq(Char)
  PROVE  StartsWith(t, f) <=> Len(f) <= Len(t) /\ \A i \in 1 .. Len(f) : t[i] = f[i]
<1>1. Len(t) \in Nat /\ Len(f) \in Nat
  OBVIOUS
<1>2. CASE Len(f) <= Len(t)
  <2>1. /\ SubSeq(t, 1, Len(f)) \in Seq(Char) /\ Len(SubSeq(t, 1, Len(f))) = Len(f)
        /\ \A i \in 1 .. Len(f) : SubSeq(t, 1, Len(f))[i] = t[i]
    BY <1>1, <1>2
  <2>2. SubSeq(t, 1, Len(f)) = f <=> \A i \in 1 .. Len(f) : SubSeq(t, 1, Len(f))[i] = f[i]
    BY <2>1
  <2> QED
    BY <1>2, <2>1, <2>2 DEF StartsWith
<1> QED
  BY <1>1, <1>2 DEF StartsWith

(* What Server assumes of a key type (KeyTypeAssumption) holds of string   *)
(* keys, for all topics: they are matched by their keys and found by each  *)
(* of their prefixes.  They come back from their keys if they fit the      *)
(* buffer DecodeKey copies them to, and nothing is claimed of one that     *)
(* does not (EncodeKey, DecodeKey and the matchers of                      *)
(* DataStore<std::string>).                                                *)
THEOREM StringKeyType ==
  ASSUME NEW Char, NEW t \in Seq(Char)
  PROVE  /\ Len(t) <= TopicSize => TopicOf(KeyOf(t)) = t
         /\ FullKeyMatch(KeyOf(t), KeyOf(t))
         /\ \A f \in Seq(Char) :
              StartsWith(t, f) => PrefixKeyMatch(KeyOf(f), KeyOf(t))
<1>1. ASSUME NEW f \in Seq(Char), StartsWith(t, f) PROVE PrefixKeyMatch(f, t)
  BY <1>1, StartsWithElements DEF PrefixKeyMatch
<1> QED
  BY <1>1 DEF TopicOf, KeyOf, FullKeyMatch

(* What a '#' subscription gets besides the topics below it: those that    *)
(* its own prefix starts with, and no others (PrefixKeyMatcher compares up *)
(* to the shorter of the two lengths).                                     *)
THEOREM PrefixKeyMatchExact ==
  ASSUME NEW Char, NEW t \in Seq(Char), NEW f \in Seq(Char)
  PROVE  PrefixKeyMatch(KeyOf(f), KeyOf(t)) <=> StartsWith(t, f) \/ StartsWith(f, t)
<1>1. Len(t) \in Nat /\ Len(f) \in Nat
  OBVIOUS
<1>2. CASE Len(f) <= Len(t)
  <2>1. PrefixKeyMatch(f, t) <=> StartsWith(t, f)
    BY <1>1, <1>2, StartsWithElements DEF PrefixKeyMatch
  <2>2. StartsWith(f, t) => \A i \in 1 .. Len(f) : t[i] = f[i]
    BY <1>1, <1>2, StartsWithElements
  <2>3. StartsWith(f, t) => StartsWith(t, f)
    BY <1>2, <2>2, StartsWithElements
  <2> QED
    BY <2>1, <2>3 DEF KeyOf
<1>3. CASE ~(Len(f) <= Len(t))
  <2>1. PrefixKeyMatch(f, t) <=> \A i \in 1 .. Len(t) : f[i] = t[i]
    BY <1>1, <1>3 DEF PrefixKeyMatch
  <2>2. StartsWith(f, t) <=> \A i \in 1 .. Len(t) : f[i] = t[i]
    BY <1>1, <1>3, StartsWithElements
  <2>3. ~StartsWith(t, f)
    BY <1>3 DEF StartsWith
  <2> QED
    BY <2>1, <2>2, <2>3 DEF KeyOf
<1> QED
  BY <1>2, <1>3

=============================================================================
