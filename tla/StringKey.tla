----------------------------- MODULE StringKey -----------------------------
(***************************************************************************)
(* The key type DataStore<std::string>: a topic is its own key (the        *)
(* std::string specialisations at the end of datastore.h).                 *)
(***************************************************************************)
EXTENDS Integers, Sequences

CONSTANTS
  TopicSize,  \* characters the buffer of a topic holds: StringBuffer<128>
  Overrun(_)  \* what is in the buffer after a key that is too long for it:
              \* nothing is known, the copy has overwritten what is behind it

KeyOf(decoded) == decoded

(* memcpy of the whole key, whatever its length ("DANGER").  A topic that  *)
(* came in a PUBLISH was read into a buffer of the same size and fits; a   *)
(* key that the program sets may not.                                      *)
TopicOf(key) == IF Len(key) <= TopicSize THEN key ELSE Overrun(key)

FullKeyMatch(target, other) == target = other

(* std::equal over the shorter of the two lengths.                         *)
PrefixKeyMatch(target, other) ==
  \A i \in 1 .. Len(target) : i <= Len(other) => target[i] = other[i]

=============================================================================
