------------------------------ MODULE Optional ------------------------------
(***************************************************************************)
(* nonstd::optional (optional.hpp), which stands in for std::optional      *)
(* where there is none (optional_fill.h): when the object of type T in its *)
(* storage is made, assigned to and destroyed.                             *)
(*                                                                         *)
(* A call is a list of steps, each of which uses an operation of T or sets *)
(* has_value_.  Those of T that copy or move may throw; the steps that are *)
(* left are then not taken and what the call has made besides is           *)
(* destroyed.  An operation declared noexcept ends the program instead.    *)
(***************************************************************************)
EXTENDS Sequences

CONSTANTS
  Var,        \* variables of type optional<T>
  Value,      \* values of T
  ThrowCases  \* of a T: which of "copy" and "move" may throw

Argument  == "argument"   \* an object the caller passes
Temporary == "temporary"  \* an object a call makes for itself
Slot      == Var \cup {Argument, Temporary}

Raw     == "raw"          \* a storage without an object
Moved   == "moved"        \* the object there was moved from
Content == Value \cup {Raw, Moved}

ASSUME OptionalAssumption ==
  /\ Var \cap {Argument, Temporary} = {}
  /\ Value \cap {Raw, Moved, "none", "out"} = {}
  /\ ThrowCases \subseteq SUBSET {"copy", "move"}

VARIABLES
  throws,     \* of this T: which of its operations may throw
  in_scope,   \* the variables there are
  has_value,  \* has_value_: "full" or "empty", "unset" before it is set
  contained,  \* what is in each storage
  todo,       \* the steps the call has yet to take
  call,       \* the last call
  before,     \* history: what each variable held when it began
  outcome     \* of the last call, if it is over: "returned", "threw" or "terminated"

vars == <<throws, in_scope, has_value, contained, todo, call, before, outcome>>

Idle == todo = <<>> /\ outcome # "terminated"

Full(o) == has_value[o] = "full"

(* What the program sees of a variable.                                    *)
Held(s) ==
  IF s \notin Var THEN contained[s]
  ELSE IF s \notin in_scope THEN "out"
  ELSE IF Full(s) THEN contained[s] ELSE "none"

Init ==
  /\ throws \in ThrowCases
  /\ in_scope = {}
  /\ has_value = [o \in Var |-> "unset"]
  /\ contained = [s \in Slot |-> Raw]
  /\ todo = <<>>
  /\ call = [op |-> "none"]
  /\ before = [s \in Slot |-> "out"]
  /\ outcome = "returned"

-----------------------------------------------------------------------------
(* The steps of calls.                                                     *)

Do(what, at, from, move) ==
  [do |-> what, at |-> at, from |-> from, move |-> move, noexcept |-> FALSE]

Construct(at, from, move) == Do("construct", at, from, move)
Assign(at, from, move)    == Do("assign", at, from, move)
Destruct(at)              == Do("destruct", at, at, FALSE)
SetFlag(o, to)            == Do(IF to THEN "full" ELSE "empty", o, o, FALSE)
Enter(o)                  == Do("enter", o, o, FALSE)
Leave(o)                  == Do("leave", o, o, FALSE)

NoExcept(steps) == [i \in DOMAIN steps |-> [steps[i] EXCEPT !.noexcept = TRUE]]

If(condition, steps) == IF condition THEN steps ELSE <<>>

(* Mutation: has_value_ is set before there is a value.                    *)
InitializeFlagFirst(o, from, move) == <<SetFlag(o, TRUE), Construct(o, from, move)>>

Initialize(o, from, move) == <<Construct(o, from, move), SetFlag(o, TRUE)>>

(* Mutation: has_value_ is left as it is.                                  *)
ResetOnlyDestructs(o) == If(Full(o), <<Destruct(o)>>)

Reset(o) == If(Full(o), <<Destruct(o)>>) \o <<SetFlag(o, FALSE)>>

(* Mutation: has_value_ is not initialized.                                *)
DefaultConstructUnset(o) == <<Enter(o)>>

(* Default, or from nullopt.                                               *)
DefaultConstruct(o) == <<SetFlag(o, FALSE), Enter(o)>>

(* From an optional, of T or of a type that converts to it implicitly.     *)
ConstructFrom(o, p, move) ==
  <<SetFlag(o, Full(p))>> \o If(Full(p), <<Construct(o, p, move)>>) \o <<Enter(o)>>

(* Explicitly, through a T that the constructor makes.                     *)
ConvertFrom(o, p, move) ==
  <<SetFlag(o, Full(p))>>
  \o If(Full(p), <<Construct(Temporary, p, move), Construct(o, Temporary, TRUE),
                   Destruct(Temporary)>>)
  \o <<Enter(o)>>

(* From a value, straight or, in place or explicitly, through a T.         *)
ConstructValue(o, move) == <<SetFlag(o, TRUE), Construct(o, Argument, move), Enter(o)>>

ConstructInPlace(o, move) ==
  <<SetFlag(o, TRUE), Construct(Temporary, Argument, move), Construct(o, Temporary, TRUE),
    Destruct(Temporary), Enter(o)>>

(* Mutation: the destructor does not ask has_value().                      *)
DestroyAlways(o) == <<Destruct(o), Leave(o)>>

Destroy(o) == If(Full(o), <<Destruct(o)>>) \o <<Leave(o)>>

(* A copy is declared noexcept if moves are, a move always is.             *)
AssignFrom(o, p, move) ==
  LET steps == IF ~Full(p) THEN If(Full(o), Reset(o))
               ELSE IF Full(o) THEN <<Assign(o, p, move)>> ELSE Initialize(o, p, move)
  IN  IF move \/ "move" \notin throws THEN NoExcept(steps) ELSE steps

(* *this = optional( other )                                               *)
AssignConverted(o, p, move) ==
  If(Full(p), <<Construct(Temporary, p, move)>>)
  \o NoExcept(IF ~Full(p) THEN If(Full(o), Reset(o))
              ELSE IF Full(o) THEN <<Assign(o, Temporary, TRUE)>>
              ELSE Initialize(o, Temporary, TRUE))
  \o If(Full(p), <<Destruct(Temporary)>>)

AssignValue(o, move) ==
  IF Full(o) THEN <<Assign(o, Argument, move)>>
  ELSE <<Construct(Temporary, Argument, move)>> \o Initialize(o, Temporary, TRUE)
       \o <<Destruct(Temporary)>>

Emplace(o, move) == Reset(o) \o Initialize(o, Argument, move)

(* Mutation: the variable that gave its value away keeps the object.       *)
SwapNoReset(o, p) ==
  CASE Full(o) /\ Full(p) ->
         <<Construct(Temporary, o, TRUE), Assign(o, p, TRUE), Assign(p, Temporary, TRUE),
           Destruct(Temporary)>>
    [] ~Full(o) /\ Full(p) -> Initialize(o, p, TRUE)
    [] Full(o) /\ ~Full(p) -> Initialize(p, o, TRUE)
    [] OTHER -> <<>>

(* Of two values by the swap of T, taken to be std::swap.                  *)
Swap(o, p) ==
  CASE Full(o) /\ Full(p) ->
         <<Construct(Temporary, o, TRUE), Assign(o, p, TRUE), Assign(p, Temporary, TRUE),
           Destruct(Temporary)>>
    [] ~Full(o) /\ Full(p) -> Initialize(o, p, TRUE) \o Reset(p)
    [] Full(o) /\ ~Full(p) -> Initialize(p, o, TRUE) \o Reset(o)
    [] OTHER -> <<>>

-----------------------------------------------------------------------------
(* Calls.                                                                  *)

Begin(op, self, other, move, steps) ==
  /\ Idle
  /\ call' = [op |-> op, self |-> self, other |-> other, move |-> move]
  /\ todo' = steps
  /\ outcome' = "returned"
  /\ UNCHANGED <<throws, in_scope, has_value>>

(* A call with variables only.                                             *)
CallWith(op, self, other, move, steps) ==
  /\ Begin(op, self, other, move, steps)
  /\ before' = [s \in Slot |-> Held(s)]
  /\ UNCHANGED contained

(* A call with a value, destroyed by the caller when it is over.           *)
CallWithValue(op, self, value, move, steps) ==
  /\ Begin(op, self, Argument, move, Append(steps, Destruct(Argument)))
  /\ before' = [s \in Slot |-> IF s = Argument THEN value ELSE Held(s)]
  /\ contained' = [contained EXCEPT ![Argument] = value]

Constructor(o) ==
  /\ o \notin in_scope
  /\ \/ CallWith("clear", o, o, FALSE, DefaultConstruct(o))
     \/ \E p \in in_scope, move \in BOOLEAN :
          \/ CallWith("take", o, p, move, ConstructFrom(o, p, move))
          \/ CallWith("take", o, p, move, ConvertFrom(o, p, move))
     \/ \E v \in Value, move \in BOOLEAN :
          \/ CallWithValue("take", o, v, move, ConstructValue(o, move))
          \/ CallWithValue("take", o, v, move, ConstructInPlace(o, move))

Modifier(o) ==
  /\ o \in in_scope
  /\ \/ CallWith("clear", o, o, FALSE, Reset(o))
     \/ \E p \in in_scope, move \in BOOLEAN :
          \/ CallWith("take", o, p, move, AssignFrom(o, p, move))
          \/ CallWith("take", o, p, move, AssignConverted(o, p, move))
     \/ \E v \in Value, move \in BOOLEAN :
          \/ CallWithValue("take", o, v, move, AssignValue(o, move))
          \/ CallWithValue("emplace", o, v, move, Emplace(o, move))
     \/ \E p \in in_scope : CallWith("swap", o, p, TRUE, Swap(o, p))

Destructor(o) == o \in in_scope /\ CallWith("destroy", o, o, FALSE, Destroy(o))

-----------------------------------------------------------------------------
Step(what) == todo # <<>> /\ Head(todo).do = what /\ todo' = Tail(todo)

Unmoved == UNCHANGED <<throws, call, before, outcome>>

(* construct_value and the assignment operators of T; one that moves an    *)
(* object to itself may lose it.                                           *)
Transfer ==
  LET s == Head(todo)
  IN  /\ Step("construct") \/ Step("assign")
      /\ \/ contained' = [contained EXCEPT ![s.from] = IF s.move THEN Moved ELSE @,
                                           ![s.at] = contained[s.from]]
         \/ /\ s.move /\ s.at = s.from
            /\ contained' = [contained EXCEPT ![s.at] = Moved]
      /\ UNCHANGED <<in_scope, has_value>>
      /\ Unmoved

(* destruct_value                                                          *)
DestructValue ==
  /\ Step("destruct")
  /\ contained' = [contained EXCEPT ![Head(todo).at] = Raw]
  /\ UNCHANGED <<in_scope, has_value>>
  /\ Unmoved

SetHasValue ==
  /\ Step("full") \/ Step("empty")
  /\ has_value' = [has_value EXCEPT ![Head(todo).at] = Head(todo).do]
  /\ UNCHANGED <<in_scope, contained>>
  /\ Unmoved

EnterOrLeave ==
  /\ \/ Step("enter") /\ in_scope' = in_scope \cup {Head(todo).at}
     \/ Step("leave") /\ in_scope' = in_scope \ {Head(todo).at}
  /\ UNCHANGED <<has_value, contained>>
  /\ Unmoved

(* What is destroyed as an exception leaves the call.                      *)
Unwound ==
  If(contained[Temporary] # Raw, <<Destruct(Temporary)>>)
  \o If(contained[Argument] # Raw, <<Destruct(Argument)>>)

(* An operation of T throws: one that constructs has not made an object,   *)
(* the others may have changed those they had.                             *)
Throw ==
  LET s       == Head(todo)
      changed == (IF s.move THEN {s.from} ELSE {}) \cup (IF s.do = "assign" THEN {s.at} ELSE {})
  IN  /\ todo # <<>> /\ s.do \in {"construct", "assign"}
      /\ (IF s.move THEN "move" ELSE "copy") \in throws
      /\ \E lost \in SUBSET changed :
           contained' = [t \in Slot |-> IF t \in lost THEN Moved ELSE contained[t]]
      /\ IF s.noexcept THEN todo' = <<>> /\ outcome' = "terminated"
                       ELSE todo' = Unwound /\ outcome' = "threw"
      /\ UNCHANGED <<throws, in_scope, has_value, call, before>>

Next ==
  \/ \E o \in Var : Constructor(o) \/ Modifier(o) \/ Destructor(o)
  \/ Transfer \/ DestructValue \/ SetHasValue \/ EnterOrLeave \/ Throw

Spec == Init /\ [][Next]_vars

-----------------------------------------------------------------------------
TypeOK ==
  /\ throws \in ThrowCases
  /\ in_scope \subseteq Var
  /\ has_value \in [Var -> {"full", "empty", "unset"}]
  /\ \A o \in in_scope : has_value[o] # "unset"
  /\ contained \in [Slot -> Content]
  /\ \A i \in DOMAIN todo : todo[i].at \in Slot /\ todo[i].from \in Slot
  /\ before \in [Slot -> Content \cup {"none", "out"}]
  /\ outcome \in {"returned", "threw", "terminated"}

(* After every call, one that threw included, there is an object in the    *)
(* storage of exactly the variables that say so; none is left behind.      *)
Engaged ==
  Idle => \A s \in Slot : contained[s] # Raw <=> s \in in_scope /\ Full(s)

(* No object is made on top of another, none is destroyed twice, and none  *)
(* is used that is not there.                                              *)
Lifetimes ==
  todo # <<>> =>
    LET s == Head(todo)
    IN  /\ s.do = "construct" => contained[s.at] = Raw /\ contained[s.from] # Raw
        /\ s.do = "assign" => contained[s.at] # Raw /\ contained[s.from] # Raw
        /\ s.do = "destruct" => contained[s.at] # Raw

(* A call that returns has done what it is for, and nothing to any other   *)
(* variable: what was moved from still has a value, only not the one it    *)
(* had, and a copy leaves its source alone.                                *)
Effect ==
  Idle /\ outcome = "returned" /\ call.op # "none" =>
    LET self == call.self  other == call.other
    IN  /\ call.op = "clear" => Held(self) = "none"
        /\ call.op = "destroy" => Held(self) = "out"
        /\ call.op \in {"take", "emplace"} =>
             (self = other /\ call.move) \/ Held(self) = before[other]
        /\ call.op = "swap" => Held(self) = before[other] /\ Held(other) = before[self]
        /\ call.op = "take" /\ other \in Var \ {self} =>
             Held(other) = IF call.move /\ before[other] # "none" THEN Moved ELSE before[other]
        /\ \A v \in Var \ {self, other} : Held(v) = before[v]

(* A call that throws makes no variable seem to have a value that had      *)
(* none, takes none from any but the one it was to emplace in, and leaves  *)
(* alone what it was only to copy.                                         *)
ThrowKeeps ==
  Idle /\ outcome = "threw" =>
    \A v \in Var :
      /\ before[v] \in {"none", "out"} => Held(v) = before[v]
      /\ before[v] \notin {"none", "out"} /\ call.op # "emplace" => Held(v) \in Value \cup {Moved}
      /\ v # call.self /\ ~call.move => Held(v) = before[v]

=============================================================================
