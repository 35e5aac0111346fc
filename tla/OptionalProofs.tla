--------------------------- MODULE OptionalProofs ---------------------------
(***************************************************************************)
(* Proofs about Optional, for any variables and values, and every T: what  *)
(* a call has yet to do is followed to its end beforehand.                 *)
(***************************************************************************)
EXTENDS Optional, SequenceTheorems, TLAPS

(* The contents of an object that is moved to itself.                      *)
Unknown == CHOOSE u : u \notin Content \cup {"none", "out"}

StateType ==
  [held  : [Slot -> Content \cup {Unknown}],
   flag  : [Var -> {"full", "empty", "unset"}],
   scope : SUBSET Var]

StepType ==
  [do : {"construct", "assign", "destruct", "full", "empty", "enter", "leave"},
   at : Slot, from : Slot, move : BOOLEAN, noexcept : BOOLEAN]

(* What the program sees of a variable, as Held does.                      *)
Seen(s, t) ==
  IF t \notin Var THEN s.held[t]
  ELSE IF t \notin s.scope THEN "out"
  ELSE IF s.flag[t] = "full" THEN s.held[t] ELSE "none"

Engages(s, t) == s.held[t] # Raw <=> t \in s.scope /\ s.flag[t] = "full"

(* Effect and ThrowKeeps, of call c that began with b, in state s.         *)
Effects(c, b, s) ==
  LET self == c.self  other == c.other
  IN  /\ self \in Slot /\ other \in Slot
      /\ c.op = "clear" => Seen(s, self) = "none"
      /\ c.op = "destroy" => Seen(s, self) = "out"
      /\ c.op \in {"take", "emplace"} => (self = other /\ c.move) \/ Seen(s, self) = b[other]
      /\ c.op = "swap" => Seen(s, self) = b[other] /\ Seen(s, other) = b[self]
      /\ c.op = "take" /\ other \in Var \ {self} =>
           Seen(s, other) = IF c.move /\ b[other] # "none" THEN Moved ELSE b[other]
      /\ \A v \in Var \ {self, other} : Seen(s, v) = b[v]

KeepsVar(c, b, s, v) ==
  /\ b[v] \in {"none", "out"} => Seen(s, v) = b[v]
  /\ b[v] \notin {"none", "out"} /\ c.op # "emplace" => Seen(s, v) \in Value \cup {Moved}
  /\ v # c.self /\ ~c.move => Seen(s, v) = b[v]

(* An exception that leaves the call in this state does no harm.           *)
Safe(c, b, s) ==
  \A v \in Var : s.held[v] # Unknown /\ Engages(s, v) /\ KeepsVar(c, b, s, v)

Transfers(step) == step.do \in {"construct", "assign"}

(* What a step that throws may have changed.                               *)
Changed(step) ==
  (IF step.move THEN {step.from} ELSE {}) \cup (IF step.do = "assign" THEN {step.at} ELSE {})

Legal(step, s) ==
  /\ step.do = "construct" => s.held[step.at] = Raw /\ s.held[step.from] # Raw
  /\ step.do = "assign" => s.held[step.at] # Raw /\ s.held[step.from] # Raw
  /\ step.do = "destruct" => s.held[step.at] # Raw
  /\ ~Transfers(step) /\ step.do # "destruct" => step.at \in Var
  /\ step.do = "enter" => s.flag[step.at] # "unset"

MayThrow(c, b, step, s) ==
  Transfers(step) /\ ~step.noexcept =>
    Safe(c, b, s) /\ (c.move \/ Changed(step) \cap Var \subseteq {c.self})

HeldAfter(step, s) ==
  [t \in Slot |->
     CASE Transfers(step) /\ t = step.at ->
            IF step.move /\ step.at = step.from /\ s.held[t] # Moved THEN Unknown
            ELSE s.held[step.from]
       [] Transfers(step) /\ t # step.at /\ t = step.from /\ step.move -> Moved
       [] step.do = "destruct" /\ t = step.at -> Raw
       [] OTHER -> s.held[t]]

After(step, s) ==
  [held  |-> HeldAfter(step, s),
   flag  |-> [v \in Var |->
                IF v = step.at /\ step.do \in {"full", "empty"} THEN step.do ELSE s.flag[v]],
   scope |-> IF step.do = "enter" THEN s.scope \cup {step.at}
             ELSE IF step.do = "leave" THEN s.scope \ {step.at} ELSE s.scope]

Over(c, b, out, s) ==
  /\ \A t \in Slot : Engages(s, t)
  /\ out = "returned" /\ c.op # "none" => Effects(c, b, s)
  /\ out = "threw" => Safe(c, b, s)

Good(c, b, step, s) == Legal(step, s) /\ MayThrow(c, b, step, s)

(* These steps, taken from s on, are all legal, do no harm if they throw,  *)
(* and do what the call is for.                                            *)
Course(c, b, out, steps, s) ==
  \E plan \in [1 .. Len(steps) + 1 -> StateType] :
    /\ plan[1] = s
    /\ \A i \in 1 .. Len(steps) :
         Good(c, b, steps[i], plan[i]) /\ plan[i + 1] = After(steps[i], plan[i])
    /\ Over(c, b, out, plan[Len(steps) + 1])

(* The program is in this state, as far as it is known.                    *)
Agrees(s) ==
  /\ s.flag = has_value /\ s.scope = in_scope
  /\ \A t \in Slot : contained[t] = s.held[t] \/ (s.held[t] = Unknown /\ contained[t] # Raw)

OnCourse == \E s \in StateType : Agrees(s) /\ Course(call, before, outcome, todo, s)

Inv ==
  /\ TypeOK
  /\ todo \in Seq(StepType)
  /\ IF outcome = "terminated" THEN todo = <<>> ELSE OnCourse

-----------------------------------------------------------------------------
LEMMA UnknownFacts ==
  Unknown \notin Content \cup {"none", "out"}
BY NoSetContainsEverything DEF Unknown

LEMMA SlotFacts ==
  /\ Argument \notin Var /\ Temporary \notin Var /\ Argument # Temporary
  /\ \A v \in Var : v \in Slot /\ v # Argument /\ v # Temporary
  /\ Argument \in Slot /\ Temporary \in Slot
BY OptionalAssumption DEF Slot, Argument, Temporary

LEMMA ContentFacts ==
  /\ Raw # Moved /\ Raw \notin {"none", "out"} /\ Moved \notin {"none", "out"}
  /\ \A v \in Value : v \notin {Raw, Moved, "none", "out"}
  /\ Content = Value \cup {Raw, Moved}
BY OptionalAssumption DEF Raw, Moved, Content

LEMMA AfterType ==
  ASSUME NEW s \in StateType, NEW step \in StepType, Legal(step, s)
  PROVE  After(step, s) \in StateType
<1>1. HeldAfter(step, s) \in [Slot -> Content \cup {Unknown}]
  BY DEF HeldAfter, StateType, StepType, Content
<1>2. After(step, s).flag \in [Var -> {"full", "empty", "unset"}]
  BY DEF After, StateType
<1>3. After(step, s).scope \in SUBSET Var
  BY DEF After, StateType, StepType, Legal, Transfers
<1> QED
  BY <1>1, <1>2, <1>3 DEF After, StateType

(* A course is followed step by step.                                      *)
LEMMA CourseEnd ==
  ASSUME NEW c, NEW b, NEW out, NEW s \in StateType
  PROVE  Course(c, b, out, <<>>, s) <=> Over(c, b, out, s)
<1>1. ASSUME Over(c, b, out, s) PROVE Course(c, b, out, <<>>, s)
  <2> DEFINE plan == [i \in 1 .. 1 |-> s]
  <2>1. plan \in [1 .. 1 -> StateType] /\ plan[1] = s
    OBVIOUS
  <2> HIDE DEF plan
  <2>2. Len(<<>>) = 0 /\ 1 .. Len(<<>>) + 1 = 1 .. 1 /\ 1 .. 0 = {}
    OBVIOUS
  <2> QED
    BY <1>1, <2>1, <2>2 DEF Course
<1>2. ASSUME Course(c, b, out, <<>>, s) PROVE Over(c, b, out, s)
  BY <1>2 DEF Course
<1> QED
  BY <1>1, <1>2

LEMMA CourseStep ==
  ASSUME NEW c, NEW b, NEW out, NEW steps \in Seq(StepType), steps # <<>>,
         NEW s \in StateType, Good(c, b, Head(steps), s),
         Course(c, b, out, Tail(steps), After(Head(steps), s))
  PROVE  Course(c, b, out, steps, s)
<1>1. PICK n \in Nat : n = Len(Tail(steps))
  OBVIOUS
<1>2. Len(steps) = n + 1 /\ \A i \in 1 .. n : Tail(steps)[i] = steps[i + 1]
  BY <1>1
<1>3. PICK rest \in [1 .. n + 1 -> StateType] :
        /\ rest[1] = After(Head(steps), s)
        /\ \A i \in 1 .. n :
             Good(c, b, Tail(steps)[i], rest[i]) /\ rest[i + 1] = After(Tail(steps)[i], rest[i])
        /\ Over(c, b, out, rest[n + 1])
  BY <1>1 DEF Course
<1> DEFINE plan == [i \in 1 .. n + 2 |-> IF i = 1 THEN s ELSE rest[i - 1]]
<1>4. /\ plan \in [1 .. n + 2 -> StateType] /\ plan[1] = s
      /\ \A i \in 1 .. n + 1 : plan[i + 1] = rest[i]
  BY <1>3
<1> HIDE DEF plan
<1>5. ASSUME NEW i \in 1 .. n + 1
      PROVE  Good(c, b, steps[i], plan[i]) /\ plan[i + 1] = After(steps[i], plan[i])
  <2>1. CASE i = 1
    BY <1>3, <1>4, <2>1
  <2>2. CASE i # 1
    <3>1. PICK j \in 1 .. n : j + 1 = i
      BY <2>2
    <3>2. plan[i] = rest[j] /\ plan[i + 1] = rest[j + 1] /\ steps[i] = Tail(steps)[j]
      BY <1>2, <1>4, <3>1
    <3> QED
      BY <1>3, <3>1, <3>2
  <2> QED
    BY <2>1, <2>2
<1>6. PICK m \in Nat : m = n + 1 /\ m + 1 = n + 2
  OBVIOUS
<1>7. Over(c, b, out, plan[m + 1]) /\ plan \in [1 .. m + 1 -> StateType] /\ Len(steps) = m
  BY <1>2, <1>3, <1>4, <1>6
<1> QED
  BY <1>4, <1>5, <1>6, <1>7 DEF Course

LEMMA CourseNext ==
  ASSUME NEW c, NEW b, NEW out, NEW steps \in Seq(StepType), steps # <<>>,
         NEW s \in StateType, Course(c, b, out, steps, s)
  PROVE  /\ Good(c, b, Head(steps), s)
         /\ Course(c, b, out, Tail(steps), After(Head(steps), s))
<1>1. PICK n \in Nat : n = Len(Tail(steps))
  OBVIOUS
<1>2. /\ Len(steps) = n + 1 /\ steps[1] = Head(steps)
      /\ \A i \in 1 .. n : Tail(steps)[i] = steps[i + 1]
  BY <1>1
<1>3. PICK plan \in [1 .. n + 2 -> StateType] :
        /\ plan[1] = s
        /\ \A i \in 1 .. n + 1 :
             Good(c, b, steps[i], plan[i]) /\ plan[i + 1] = After(steps[i], plan[i])
        /\ Over(c, b, out, plan[n + 2])
  BY <1>2 DEF Course
<1> DEFINE rest == [i \in 1 .. n + 1 |-> plan[i + 1]]
<1>4. /\ rest \in [1 .. n + 1 -> StateType]
      /\ rest[1] = After(Head(steps), s) /\ Good(c, b, Head(steps), s)
      /\ Over(c, b, out, rest[n + 1])
  BY <1>2, <1>3
<1>5. ASSUME NEW i \in 1 .. n
      PROVE  Good(c, b, Tail(steps)[i], rest[i]) /\ rest[i + 1] = After(Tail(steps)[i], rest[i])
  <2>1. i + 1 \in 1 .. n + 1 /\ i \in 1 .. n + 1 /\ Tail(steps)[i] = steps[i + 1]
    BY <1>2
  <2>2. rest[i] = plan[i + 1] /\ rest[i + 1] = plan[(i + 1) + 1]
    BY <2>1
  <2> QED
    BY <1>3, <2>1, <2>2
<1> QED
  BY <1>1, <1>4, <1>5 DEF Course

-----------------------------------------------------------------------------
(* What the step that is next finds.                                       *)
LEMMA NextStep ==
  ASSUME Inv, todo # <<>>
  PROVE  /\ Head(todo) \in StepType /\ Tail(todo) \in Seq(StepType)
         /\ outcome # "terminated"
         /\ \E s \in StateType :
              /\ Agrees(s)
              /\ Good(call, before, Head(todo), s)
              /\ After(Head(todo), s) \in StateType
              /\ Course(call, before, outcome, Tail(todo), After(Head(todo), s))
<1>1. todo \in Seq(StepType) /\ outcome # "terminated" /\ OnCourse
  BY DEF Inv
<1>2. Head(todo) \in StepType /\ Tail(todo) \in Seq(StepType)
  BY <1>1
<1>3. PICK s \in StateType : Agrees(s) /\ Course(call, before, outcome, todo, s)
  BY <1>1 DEF OnCourse
<1>4. /\ Good(call, before, Head(todo), s)
      /\ Course(call, before, outcome, Tail(todo), After(Head(todo), s))
  BY <1>1, <1>3, CourseNext
<1>5. After(Head(todo), s) \in StateType
  BY <1>2, <1>4, AfterType DEF Good
<1> QED
  BY <1>1, <1>2, <1>3, <1>4, <1>5

(* A step that was taken as foreseen leaves the call on its course.        *)
LEMMA StepTaken ==
  ASSUME Inv, TypeOK', NEW s \in StateType, todo' = Tail(todo), UNCHANGED <<call, before, outcome>>,
         Tail(todo) \in Seq(StepType), outcome # "terminated",
         Agrees(s)', Course(call, before, outcome, Tail(todo), s)
  PROVE  Inv'
<1>1. Course(call, before, outcome, todo, s)'
  BY DEF Course
<1>2. OnCourse'
  BY <1>1 DEF OnCourse
<1> QED
  BY <1>2 DEF Inv

LEMMA TodoType ==
  ASSUME NEW list \in Seq(StepType)
  PROVE  \A i \in DOMAIN list : list[i].at \in Slot /\ list[i].from \in Slot
<1>1. \A i \in DOMAIN list : list[i] \in StepType
  BY ElementOfSeq
<1> QED
  BY <1>1 DEF StepType

LEMMA TransferKeeps ==
  ASSUME Inv, Transfer
  PROVE  Inv'
<1>1. /\ todo # <<>> /\ todo' = Tail(todo) /\ Transfers(Head(todo))
      /\ UNCHANGED <<throws, in_scope, has_value, call, before, outcome>>
  BY DEF Transfer, Step, Unmoved, Transfers
<1> PICK step : step = Head(todo)
  OBVIOUS
<1>2. PICK s \in StateType :
        /\ Agrees(s) /\ Good(call, before, step, s) /\ After(step, s) \in StateType
        /\ Course(call, before, outcome, Tail(todo), After(step, s))
  BY <1>1, NextStep
<1>3. step \in StepType /\ Tail(todo) \in Seq(StepType) /\ outcome # "terminated"
  BY <1>1, NextStep
<1>4. step.at \in Slot /\ step.from \in Slot /\ contained \in [Slot -> Content] /\ Moved \in Content
  BY <1>3 DEF Inv, TypeOK, StepType, Content
<1>5. /\ contained' \in [Slot -> Content]
      /\ \/ \A t \in Slot :
              contained'[t] = IF t = step.at THEN contained[step.from]
                              ELSE IF t = step.from /\ step.move THEN Moved ELSE contained[t]
         \/ /\ step.move /\ step.at = step.from
            /\ \A t \in Slot : contained'[t] = IF t = step.at THEN Moved ELSE contained[t]
  BY <1>4 DEF Transfer
<1>6. TypeOK'
  <2>1. todo' \in Seq(StepType)
    BY <1>1, <1>3
  <2>2. \A i \in DOMAIN todo' : todo'[i].at \in Slot /\ todo'[i].from \in Slot
    BY <2>1, TodoType
  <2> QED
    BY <1>1, <1>5, <2>2 DEF Inv, TypeOK
<1>7. Agrees(After(step, s))'
  <2>1. After(step, s).flag = has_value' /\ After(step, s).scope = in_scope'
    BY <1>1, <1>2 DEF Agrees, After, Transfers, StateType
  <2>2. ASSUME NEW t \in Slot
        PROVE  \/ contained'[t] = HeldAfter(step, s)[t]
               \/ HeldAfter(step, s)[t] = Unknown /\ contained'[t] # Raw
    <3>1. /\ contained[t] = s.held[t] \/ (s.held[t] = Unknown /\ contained[t] # Raw)
          /\ \/ contained[step.from] = s.held[step.from]
             \/ s.held[step.from] = Unknown /\ contained[step.from] # Raw
      BY <1>2, <1>4 DEF Agrees
    <3>2. s.held[step.from] # Raw
      BY <1>1, <1>2 DEF Good, Legal, Transfers
    <3>3. HeldAfter(step, s)[t] =
            IF t = step.at
            THEN IF step.move /\ step.at = step.from /\ s.held[t] # Moved THEN Unknown
                 ELSE s.held[step.from]
            ELSE IF t = step.from /\ step.move THEN Moved ELSE s.held[t]
      BY <1>1 DEF HeldAfter, Transfers
    <3>4. Raw # Moved
      BY ContentFacts
    <3>5. Unknown # Raw
      BY UnknownFacts DEF Content
    <3> QED
      BY <1>5, <3>1, <3>2, <3>3, <3>4, <3>5
  <2> QED
    BY <2>1, <2>2 DEF Agrees, After
<1> QED
  BY <1>1, <1>2, <1>3, <1>6, <1>7, StepTaken

LEMMA DestructKeeps ==
  ASSUME Inv, DestructValue
  PROVE  Inv'
<1>1. /\ todo # <<>> /\ todo' = Tail(todo) /\ Head(todo).do = "destruct"
      /\ UNCHANGED <<throws, in_scope, has_value, call, before, outcome>>
  BY DEF DestructValue, Step, Unmoved
<1> PICK step : step = Head(todo)
  OBVIOUS
<1>2. PICK s \in StateType :
        /\ Agrees(s) /\ Good(call, before, step, s) /\ After(step, s) \in StateType
        /\ Course(call, before, outcome, Tail(todo), After(step, s))
  BY <1>1, NextStep
<1>3. step \in StepType /\ Tail(todo) \in Seq(StepType) /\ outcome # "terminated"
  BY <1>1, NextStep
<1>4. step.at \in Slot /\ contained \in [Slot -> Content] /\ Raw \in Content
  BY <1>3 DEF Inv, TypeOK, StepType, Content
<1>5. /\ contained' \in [Slot -> Content]
      /\ \A t \in Slot : contained'[t] = IF t = step.at THEN Raw ELSE contained[t]
  BY <1>4 DEF DestructValue
<1>6. TypeOK'
  <2>1. todo' \in Seq(StepType)
    BY <1>1, <1>3
  <2>2. \A i \in DOMAIN todo' : todo'[i].at \in Slot /\ todo'[i].from \in Slot
    BY <2>1, TodoType
  <2> QED
    BY <1>1, <1>5, <2>2 DEF Inv, TypeOK
<1>7. Agrees(After(step, s))'
  <2>1. After(step, s).flag = has_value' /\ After(step, s).scope = in_scope'
    BY <1>1, <1>2 DEF Agrees, After, StateType
  <2>2. \A t \in Slot : HeldAfter(step, s)[t] = IF t = step.at THEN Raw ELSE s.held[t]
    BY <1>1 DEF HeldAfter, Transfers
  <2> QED
    BY <1>2, <1>5, <2>1, <2>2 DEF Agrees, After
<1> QED
  BY <1>1, <1>2, <1>3, <1>6, <1>7, StepTaken

LEMMA SetHasValueKeeps ==
  ASSUME Inv, SetHasValue
  PROVE  Inv'
<1>1. /\ todo # <<>> /\ todo' = Tail(todo) /\ Head(todo).do \in {"full", "empty"}
      /\ UNCHANGED <<throws, in_scope, contained, call, before, outcome>>
  BY DEF SetHasValue, Step, Unmoved
<1> PICK step : step = Head(todo)
  OBVIOUS
<1>2. PICK s \in StateType :
        /\ Agrees(s) /\ Good(call, before, step, s) /\ After(step, s) \in StateType
        /\ Course(call, before, outcome, Tail(todo), After(step, s))
  BY <1>1, NextStep
<1>3. step \in StepType /\ Tail(todo) \in Seq(StepType) /\ outcome # "terminated"
  BY <1>1, NextStep
<1>4. step.at \in Var /\ has_value \in [Var -> {"full", "empty", "unset"}]
  BY <1>1, <1>2 DEF Inv, TypeOK, Good, Legal, Transfers
<1>5. /\ has_value' \in [Var -> {"full", "empty", "unset"}]
      /\ \A v \in Var : has_value'[v] = IF v = step.at THEN step.do ELSE has_value[v]
  BY <1>1, <1>4 DEF SetHasValue
<1>6. TypeOK'
  <2>1. todo' \in Seq(StepType)
    BY <1>1, <1>3
  <2>2. \A i \in DOMAIN todo' : todo'[i].at \in Slot /\ todo'[i].from \in Slot
    BY <2>1, TodoType
  <2> QED
    BY <1>1, <1>5, <2>2 DEF Inv, TypeOK
<1>7. Agrees(After(step, s))'
  <2>1. After(step, s).flag = has_value' /\ After(step, s).scope = in_scope'
    BY <1>1, <1>2, <1>5 DEF Agrees, After, StateType
  <2>2. \A t \in Slot : HeldAfter(step, s)[t] = s.held[t]
    BY <1>1 DEF HeldAfter, Transfers
  <2> QED
    BY <1>1, <1>2, <2>1, <2>2 DEF Agrees, After
<1> QED
  BY <1>1, <1>2, <1>3, <1>6, <1>7, StepTaken

LEMMA EnterOrLeaveKeeps ==
  ASSUME Inv, EnterOrLeave
  PROVE  Inv'
<1>1. /\ todo # <<>> /\ todo' = Tail(todo) /\ Head(todo).do \in {"enter", "leave"}
      /\ in_scope' = IF Head(todo).do = "enter" THEN in_scope \cup {Head(todo).at}
                     ELSE in_scope \ {Head(todo).at}
      /\ UNCHANGED <<throws, has_value, contained, call, before, outcome>>
  BY DEF EnterOrLeave, Step, Unmoved
<1> PICK step : step = Head(todo)
  OBVIOUS
<1>2. PICK s \in StateType :
        /\ Agrees(s) /\ Good(call, before, step, s) /\ After(step, s) \in StateType
        /\ Course(call, before, outcome, Tail(todo), After(step, s))
  BY <1>1, NextStep
<1>3. step \in StepType /\ Tail(todo) \in Seq(StepType) /\ outcome # "terminated"
  BY <1>1, NextStep
<1>4. /\ step.at \in Var /\ in_scope \subseteq Var
      /\ step.do = "enter" => has_value[step.at] # "unset"
  BY <1>1, <1>2 DEF Inv, TypeOK, Good, Legal, Transfers, Agrees
<1>5. TypeOK'
  <2>1. todo' \in Seq(StepType)
    BY <1>1, <1>3
  <2>2. \A i \in DOMAIN todo' : todo'[i].at \in Slot /\ todo'[i].from \in Slot
    BY <2>1, TodoType
  <2> QED
    BY <1>1, <1>4, <2>2 DEF Inv, TypeOK
<1>6. Agrees(After(step, s))'
  <2>1. After(step, s).flag = has_value' /\ After(step, s).scope = in_scope'
    BY <1>1, <1>2 DEF Agrees, After, StateType
  <2>2. \A t \in Slot : HeldAfter(step, s)[t] = s.held[t]
    BY <1>1 DEF HeldAfter, Transfers
  <2> QED
    BY <1>1, <1>2, <2>1, <2>2 DEF Agrees, After
<1> QED
  BY <1>1, <1>2, <1>3, <1>5, <1>6, StepTaken

-----------------------------------------------------------------------------
(* This step is fine in state s, and leads from there to z.                *)
Leads(c, b, step, s, z) ==
  /\ step \in StepType /\ s \in StateType /\ z \in StateType
  /\ Good(c, b, step, s) /\ z = After(step, s)

LEMMA CourseAhead ==
  ASSUME NEW c, NEW b, NEW out, NEW step, NEW s, NEW z, Leads(c, b, step, s, z),
         NEW steps, NEW rest \in Seq(StepType), Course(c, b, out, rest, z),
         steps \in Seq(StepType), steps # <<>>, Head(steps) = step, Tail(steps) = rest
  PROVE  Course(c, b, out, steps, s)
BY CourseStep DEF Leads

LEMMA Course1 ==
  ASSUME NEW c, NEW b, NEW out, NEW s1, NEW s2, NEW a1,
         Leads(c, b, a1, s1, s2), Over(c, b, out, s2)
  PROVE  <<a1>> \in Seq(StepType) /\ Course(c, b, out, <<a1>>, s1)
<1>1. <<>> \in Seq(StepType) /\ Course(c, b, out, <<>>, s2)
  BY CourseEnd DEF Leads
<1>2. /\ <<a1>> \in Seq(StepType) /\ <<a1>> # <<>> /\ Head(<<a1>>) = a1 /\ Tail(<<a1>>) = <<>>
  BY DEF Leads
<1> QED
  BY ONLY Leads(c, b, a1, s1, s2), <1>1, <1>2, CourseAhead

LEMMA Course2 ==
  ASSUME NEW c, NEW b, NEW out, NEW s1, NEW s2, NEW s3, NEW a1, NEW a2,
         Leads(c, b, a1, s1, s2), Leads(c, b, a2, s2, s3), Over(c, b, out, s3)
  PROVE  <<a1, a2>> \in Seq(StepType) /\ Course(c, b, out, <<a1, a2>>, s1)
<1>1. <<a2>> \in Seq(StepType) /\ Course(c, b, out, <<a2>>, s2)
  BY Course1
<1>2. /\ <<a1, a2>> \in Seq(StepType) /\ <<a1, a2>> # <<>>
      /\ Head(<<a1, a2>>) = a1 /\ Tail(<<a1, a2>>) = <<a2>>
  BY DEF Leads
<1> QED
  BY ONLY Leads(c, b, a1, s1, s2), <1>1, <1>2, CourseAhead

LEMMA Course3 ==
  ASSUME NEW c, NEW b, NEW out, NEW s1, NEW s2, NEW s3, NEW s4, NEW a1, NEW a2, NEW a3,
         Leads(c, b, a1, s1, s2), Leads(c, b, a2, s2, s3), Leads(c, b, a3, s3, s4),
         Over(c, b, out, s4)
  PROVE  <<a1, a2, a3>> \in Seq(StepType) /\ Course(c, b, out, <<a1, a2, a3>>, s1)
<1>1. <<a2, a3>> \in Seq(StepType) /\ Course(c, b, out, <<a2, a3>>, s2)
  BY Course2
<1>2. /\ <<a1, a2, a3>> \in Seq(StepType) /\ <<a1, a2, a3>> # <<>>
      /\ Head(<<a1, a2, a3>>) = a1 /\ Tail(<<a1, a2, a3>>) = <<a2, a3>>
  BY DEF Leads
<1> QED
  BY ONLY Leads(c, b, a1, s1, s2), <1>1, <1>2, CourseAhead

LEMMA Course4 ==
  ASSUME NEW c, NEW b, NEW out, NEW s1, NEW s2, NEW s3, NEW s4, NEW s5,
         NEW a1, NEW a2, NEW a3, NEW a4,
         Leads(c, b, a1, s1, s2), Leads(c, b, a2, s2, s3), Leads(c, b, a3, s3, s4),
         Leads(c, b, a4, s4, s5), Over(c, b, out, s5)
  PROVE  <<a1, a2, a3, a4>> \in Seq(StepType) /\ Course(c, b, out, <<a1, a2, a3, a4>>, s1)
<1>1. <<a2, a3, a4>> \in Seq(StepType) /\ Course(c, b, out, <<a2, a3, a4>>, s2)
  BY Course3
<1>2. /\ <<a1, a2, a3, a4>> \in Seq(StepType) /\ <<a1, a2, a3, a4>> # <<>>
      /\ Head(<<a1, a2, a3, a4>>) = a1 /\ Tail(<<a1, a2, a3, a4>>) = <<a2, a3, a4>>
  BY DEF Leads
<1> QED
  BY ONLY Leads(c, b, a1, s1, s2), <1>1, <1>2, CourseAhead

LEMMA Course5 ==
  ASSUME NEW c, NEW b, NEW out, NEW s1, NEW s2, NEW s3, NEW s4, NEW s5, NEW s6,
         NEW a1, NEW a2, NEW a3, NEW a4, NEW a5,
         Leads(c, b, a1, s1, s2), Leads(c, b, a2, s2, s3), Leads(c, b, a3, s3, s4),
         Leads(c, b, a4, s4, s5), Leads(c, b, a5, s5, s6), Over(c, b, out, s6)
  PROVE  /\ <<a1, a2, a3, a4, a5>> \in Seq(StepType)
         /\ Course(c, b, out, <<a1, a2, a3, a4, a5>>, s1)
<1>1. <<a2, a3, a4, a5>> \in Seq(StepType) /\ Course(c, b, out, <<a2, a3, a4, a5>>, s2)
  BY Course4
<1>2. /\ <<a1, a2, a3, a4, a5>> \in Seq(StepType) /\ <<a1, a2, a3, a4, a5>> # <<>>
      /\ Head(<<a1, a2, a3, a4, a5>>) = a1 /\ Tail(<<a1, a2, a3, a4, a5>>) = <<a2, a3, a4, a5>>
  BY DEF Leads
<1> QED
  BY ONLY Leads(c, b, a1, s1, s2), <1>1, <1>2, CourseAhead

LEMMA Course6 ==
  ASSUME NEW c, NEW b, NEW out, NEW s1, NEW s2, NEW s3, NEW s4, NEW s5, NEW s6, NEW s7,
         NEW a1, NEW a2, NEW a3, NEW a4, NEW a5, NEW a6,
         Leads(c, b, a1, s1, s2), Leads(c, b, a2, s2, s3), Leads(c, b, a3, s3, s4),
         Leads(c, b, a4, s4, s5), Leads(c, b, a5, s5, s6), Leads(c, b, a6, s6, s7),
         Over(c, b, out, s7)
  PROVE  /\ <<a1, a2, a3, a4, a5, a6>> \in Seq(StepType)
         /\ Course(c, b, out, <<a1, a2, a3, a4, a5, a6>>, s1)
<1>1. /\ <<a2, a3, a4, a5, a6>> \in Seq(StepType)
      /\ Course(c, b, out, <<a2, a3, a4, a5, a6>>, s2)
  BY Course5
<1>2. /\ <<a1, a2, a3, a4, a5, a6>> \in Seq(StepType) /\ <<a1, a2, a3, a4, a5, a6>> # <<>>
      /\ Head(<<a1, a2, a3, a4, a5, a6>>) = a1
      /\ Tail(<<a1, a2, a3, a4, a5, a6>>) = <<a2, a3, a4, a5, a6>>
  BY DEF Leads
<1> QED
  BY ONLY Leads(c, b, a1, s1, s2), <1>1, <1>2, CourseAhead

-----------------------------------------------------------------------------
(* What each kind of step does to a state.                                 *)
Quiet(step) == [step EXCEPT !.noexcept = TRUE]

Gets(s, z, at, from, move) ==
  /\ z \in StateType /\ z.flag = s.flag /\ z.scope = s.scope
  /\ \A t \in Slot : z.held[t] = IF t = at THEN s.held[from]
                                 ELSE IF t = from /\ move THEN Moved ELSE s.held[t]

Loses(s, z, at) ==
  /\ z \in StateType /\ z.flag = s.flag /\ z.scope = s.scope
  /\ \A t \in Slot : z.held[t] = IF t = at THEN Raw ELSE s.held[t]

Flagged(s, z, o, to) ==
  /\ z \in StateType /\ z.held = s.held /\ z.scope = s.scope
  /\ \A v \in Var : z.flag[v] = IF v = o THEN to ELSE s.flag[v]

Scoped(s, z, scope) ==
  z \in StateType /\ z.held = s.held /\ z.flag = s.flag /\ z.scope = scope

(* A transfer that throws spares every variable but the one the call is on,*)
(* unless the call moves.                                                  *)
Spares(c, from, move) == c.move \/ ~move \/ from \notin Var \/ from = c.self
Permits(c, at)        == c.move \/ at \notin Var \/ at = c.self

LEMMA StepKinds ==
  ASSUME NEW at \in Slot, NEW from \in Slot, NEW move \in BOOLEAN
  PROVE  /\ Construct(at, from, move) \in StepType
         /\ Construct(at, from, move).do = "construct"
         /\ Construct(at, from, move).at = at
         /\ Construct(at, from, move).from = from
         /\ Construct(at, from, move).move = move
         /\ Assign(at, from, move) \in StepType
         /\ Assign(at, from, move).do = "assign"
         /\ Assign(at, from, move).at = at
         /\ Assign(at, from, move).from = from
         /\ Assign(at, from, move).move = move
BY DEF Construct, Assign, Do, StepType

LEMMA PlaceKinds ==
  ASSUME NEW at \in Slot
  PROVE  /\ Destruct(at) \in StepType /\ Destruct(at).do = "destruct" /\ Destruct(at).at = at
         /\ Enter(at) \in StepType /\ Enter(at).do = "enter" /\ Enter(at).at = at
         /\ Leave(at) \in StepType /\ Leave(at).do = "leave" /\ Leave(at).at = at
BY DEF Destruct, Enter, Leave, Do, StepType

LEMMA FlagKinds ==
  ASSUME NEW at \in Slot, NEW to \in BOOLEAN
  PROVE  /\ SetFlag(at, to) \in StepType /\ SetFlag(at, to).at = at
         /\ SetFlag(at, to).do = IF to THEN "full" ELSE "empty"
BY DEF SetFlag, Do, StepType

LEMMA QuietKinds ==
  ASSUME NEW step \in StepType
  PROVE  /\ Quiet(step) \in StepType /\ Quiet(step).noexcept
         /\ Quiet(step).do = step.do /\ Quiet(step).at = step.at
         /\ Quiet(step).from = step.from /\ Quiet(step).move = step.move
BY DEF Quiet, StepType

LEMMA TransferLeads ==
  ASSUME NEW c, NEW b, NEW step \in StepType, Transfers(step), NEW s \in StateType,
         NEW at, at = step.at, NEW from, from = step.from, NEW move, move = step.move,
         Legal(step, s), MayThrow(c, b, step, s),
         step.at # step.from \/ ~step.move \/ s.held[step.at] = Moved
  PROVE  \E z \in StateType : Leads(c, b, step, s, z) /\ Gets(s, z, at, from, move)
<1>1. PICK z \in StateType : z = After(step, s)
  BY AfterType
<1>2. z.flag = s.flag /\ z.scope = s.scope
  BY <1>1 DEF After, Transfers, StateType
<1>3. \A t \in Slot : z.held[t] = IF t = at THEN s.held[from]
                                  ELSE IF t = from /\ move THEN Moved ELSE s.held[t]
  <2>1. z.held = HeldAfter(step, s)
    BY <1>1 DEF After
  <2>2. \A t \in Slot : HeldAfter(step, s)[t] =
          IF t = step.at THEN IF step.move /\ step.at = step.from /\ s.held[t] # Moved THEN Unknown
                              ELSE s.held[step.from]
          ELSE IF t = step.from /\ step.move THEN Moved ELSE s.held[t]
    BY DEF HeldAfter, Transfers
  <2> QED
    BY <2>1, <2>2
<1>4. Leads(c, b, step, s, z)
  BY <1>1 DEF Leads, Good
<1> QED
  BY <1>2, <1>3, <1>4 DEF Gets

LEMMA ConstructLeads ==
  ASSUME NEW c, NEW b, NEW s \in StateType, NEW at \in Slot, NEW from \in Slot,
         NEW move \in BOOLEAN, s.held[at] = Raw, s.held[from] # Raw,
         Safe(c, b, s), Spares(c, from, move)
  PROVE  \E z \in StateType :
           Leads(c, b, Construct(at, from, move), s, z) /\ Gets(s, z, at, from, move)
<1>1. PICK step \in StepType : step = Construct(at, from, move)
  BY StepKinds
<1>2. step.do = "construct" /\ step.at = at /\ step.from = from /\ step.move = move
  BY <1>1, StepKinds
<1>3. Transfers(step) /\ Legal(step, s) /\ at # from
  BY <1>2 DEF Transfers, Legal
<1>4. MayThrow(c, b, step, s)
  BY <1>2 DEF MayThrow, Spares, Changed
<1>5. \E z \in StateType : Leads(c, b, step, s, z) /\ Gets(s, z, at, from, move)
  BY <1>2, <1>3, <1>4, TransferLeads
<1> QED
  BY <1>1, <1>5

LEMMA QuietConstructLeads ==
  ASSUME NEW c, NEW b, NEW s \in StateType, NEW at \in Slot, NEW from \in Slot,
         NEW move \in BOOLEAN, s.held[at] = Raw, s.held[from] # Raw
  PROVE  \E z \in StateType :
           Leads(c, b, Quiet(Construct(at, from, move)), s, z) /\ Gets(s, z, at, from, move)
<1>1. PICK step \in StepType : step = Quiet(Construct(at, from, move))
  BY StepKinds, QuietKinds
<1>2. /\ step.do = "construct" /\ step.at = at /\ step.from = from /\ step.move = move
      /\ step.noexcept
  BY <1>1, StepKinds, QuietKinds
<1>3. Transfers(step) /\ Legal(step, s) /\ at # from /\ MayThrow(c, b, step, s)
  BY <1>2 DEF Transfers, Legal, MayThrow
<1>4. \E z \in StateType : Leads(c, b, step, s, z) /\ Gets(s, z, at, from, move)
  BY <1>2, <1>3, TransferLeads
<1> QED
  BY <1>1, <1>4

LEMMA AssignLeads ==
  ASSUME NEW c, NEW b, NEW s \in StateType, NEW at \in Slot, NEW from \in Slot,
         NEW move \in BOOLEAN, s.held[at] # Raw, s.held[from] # Raw,
         at # from \/ ~move \/ s.held[at] = Moved,
         Safe(c, b, s), Spares(c, from, move), Permits(c, at)
  PROVE  \E z \in StateType :
           Leads(c, b, Assign(at, from, move), s, z) /\ Gets(s, z, at, from, move)
<1>1. PICK step \in StepType : step = Assign(at, from, move)
  BY StepKinds
<1>2. step.do = "assign" /\ step.at = at /\ step.from = from /\ step.move = move
  BY <1>1, StepKinds
<1>3. Transfers(step) /\ Legal(step, s)
  BY <1>2 DEF Transfers, Legal
<1>4. MayThrow(c, b, step, s)
  BY <1>2 DEF MayThrow, Spares, Permits, Changed
<1>5. \E z \in StateType : Leads(c, b, step, s, z) /\ Gets(s, z, at, from, move)
  BY <1>2, <1>3, <1>4, TransferLeads
<1> QED
  BY <1>1, <1>5

LEMMA QuietAssignLeads ==
  ASSUME NEW c, NEW b, NEW s \in StateType, NEW at \in Slot, NEW from \in Slot,
         NEW move \in BOOLEAN, s.held[at] # Raw, s.held[from] # Raw,
         at # from \/ ~move \/ s.held[at] = Moved
  PROVE  \E z \in StateType :
           Leads(c, b, Quiet(Assign(at, from, move)), s, z) /\ Gets(s, z, at, from, move)
<1>1. PICK step \in StepType : step = Quiet(Assign(at, from, move))
  BY StepKinds, QuietKinds
<1>2. /\ step.do = "assign" /\ step.at = at /\ step.from = from /\ step.move = move
      /\ step.noexcept
  BY <1>1, StepKinds, QuietKinds
<1>3. Transfers(step) /\ Legal(step, s) /\ MayThrow(c, b, step, s)
  BY <1>2 DEF Transfers, Legal, MayThrow
<1>4. \E z \in StateType : Leads(c, b, step, s, z) /\ Gets(s, z, at, from, move)
  BY <1>2, <1>3, TransferLeads
<1> QED
  BY <1>1, <1>4

(* Declared noexcept or not.                                               *)
LEMMA EitherConstructLeads ==
  ASSUME NEW c, NEW b, NEW s \in StateType, NEW at \in Slot, NEW from \in Slot,
         NEW move \in BOOLEAN, s.held[at] = Raw, s.held[from] # Raw,
         Safe(c, b, s), Spares(c, from, move), NEW step,
         step \in {Construct(at, from, move), Quiet(Construct(at, from, move))}
  PROVE  \E z \in StateType : Leads(c, b, step, s, z) /\ Gets(s, z, at, from, move)
<1>1. CASE step = Construct(at, from, move)
  BY <1>1, ConstructLeads
<1>2. CASE step = Quiet(Construct(at, from, move))
  BY <1>2, QuietConstructLeads
<1> QED
  BY <1>1, <1>2

LEMMA EitherAssignLeads ==
  ASSUME NEW c, NEW b, NEW s \in StateType, NEW at \in Slot, NEW from \in Slot,
         NEW move \in BOOLEAN, s.held[at] # Raw, s.held[from] # Raw, at # from,
         Safe(c, b, s), Spares(c, from, move), Permits(c, at), NEW step,
         step \in {Assign(at, from, move), Quiet(Assign(at, from, move))}
  PROVE  \E z \in StateType : Leads(c, b, step, s, z) /\ Gets(s, z, at, from, move)
<1>1. at # from \/ ~move \/ s.held[at] = Moved
  OBVIOUS
<1>2. CASE step = Assign(at, from, move)
  BY <1>1, <1>2, AssignLeads, Zenon
<1>3. CASE step = Quiet(Assign(at, from, move))
  BY <1>1, <1>3, QuietAssignLeads, Zenon
<1> QED
  BY <1>2, <1>3

(* An object that is moved to itself is still there.                       *)
Remains(s, z, o) ==
  /\ z.flag = s.flag /\ z.scope = s.scope /\ z.held[o] # Raw
  /\ \A t \in Slot \ {o} : z.held[t] = s.held[t]

LEMMA SelfMoveLeads ==
  ASSUME NEW c, NEW b, NEW s \in StateType, NEW o \in Slot, s.held[o] # Raw,
         NEW step, step = Quiet(Assign(o, o, TRUE))
  PROVE  \E z \in StateType : Leads(c, b, step, s, z) /\ Remains(s, z, o)
<1>1. step \in StepType
  BY StepKinds, QuietKinds
<1>2. step = [Do("assign", o, o, TRUE) EXCEPT !.noexcept = TRUE]
  BY <1>1 DEF Quiet, Assign
<1>3. /\ step.do = "assign" /\ step.at = o /\ step.from = o /\ step.move
      /\ step.noexcept
  BY <1>2 DEF Do
<1>4. Good(c, b, step, s)
  BY <1>3 DEF Good, Legal, MayThrow, Transfers
<1>5. PICK z \in StateType : z = After(step, s)
  BY <1>1, <1>4, AfterType DEF Good
<1>6. z.flag = s.flag /\ z.scope = s.scope
  BY <1>3, <1>5 DEF After, StateType
<1>7. \A t \in Slot : z.held[t] = IF t = o THEN IF s.held[o] # Moved THEN Unknown ELSE s.held[o]
                                  ELSE s.held[t]
  BY <1>3, <1>5 DEF After, HeldAfter, Transfers
<1>8. z.held[o] # Raw
  BY <1>7, UnknownFacts DEF Content
<1> QED
  BY <1>1, <1>4, <1>5, <1>6, <1>7, <1>8 DEF Leads, Remains

LEMMA DestructLeads ==
  ASSUME NEW c, NEW b, NEW s \in StateType, NEW at \in Slot, s.held[at] # Raw,
         NEW step, step \in {Destruct(at), Quiet(Destruct(at))}
  PROVE  \E z \in StateType : Leads(c, b, step, s, z) /\ Loses(s, z, at)
<1>1. step \in StepType /\ step.do = "destruct" /\ step.at = at
  BY PlaceKinds, QuietKinds
<1>2. Good(c, b, step, s)
  BY <1>1 DEF Good, Legal, MayThrow, Transfers
<1>3. PICK z \in StateType : z = After(step, s)
  BY <1>1, <1>2, AfterType DEF Good
<1>4. z.flag = s.flag /\ z.scope = s.scope /\ z.held = HeldAfter(step, s)
  BY <1>1, <1>3 DEF After, StateType
<1>5. \A t \in Slot : HeldAfter(step, s)[t] = IF t = at THEN Raw ELSE s.held[t]
  BY <1>1 DEF HeldAfter, Transfers
<1> QED
  BY <1>1, <1>2, <1>3, <1>4, <1>5 DEF Leads, Loses

LEMMA SetFlagLeads ==
  ASSUME NEW c, NEW b, NEW s \in StateType, NEW o \in Var, NEW to \in BOOLEAN,
         NEW step, step \in {SetFlag(o, to), Quiet(SetFlag(o, to))}
  PROVE  \E z \in StateType :
           Leads(c, b, step, s, z) /\ Flagged(s, z, o, IF to THEN "full" ELSE "empty")
<1>1. PICK flag : flag = IF to THEN "full" ELSE "empty"
  OBVIOUS
<1>2. step \in StepType /\ step.do = flag /\ step.at = o
  BY <1>1, SlotFacts, FlagKinds, QuietKinds
<1>3. flag \in {"full", "empty"}
  BY <1>1
<1>4. Good(c, b, step, s)
  BY <1>2, <1>3 DEF Good, Legal, MayThrow, Transfers
<1>5. PICK z \in StateType : z = After(step, s)
  BY <1>2, <1>4, AfterType DEF Good
<1>6. /\ z.scope = s.scope /\ z.held = HeldAfter(step, s)
      /\ \A v \in Var : z.flag[v] = IF v = o THEN flag ELSE s.flag[v]
  BY <1>2, <1>3, <1>5 DEF After, StateType
<1>7. \A t \in Slot : HeldAfter(step, s)[t] = s.held[t]
  BY <1>2, <1>3 DEF HeldAfter, Transfers
<1>8. z.held = s.held
  <2>1. /\ z.held \in [Slot -> Content \cup {Unknown}]
        /\ s.held \in [Slot -> Content \cup {Unknown}]
    BY DEF StateType
  <2> QED
    BY <1>6, <1>7, <2>1
<1> QED
  BY <1>1, <1>2, <1>4, <1>5, <1>6, <1>8 DEF Leads, Flagged

LEMMA ScopeLeads ==
  ASSUME NEW c, NEW b, NEW s \in StateType, NEW o \in Var
  PROVE  /\ s.flag[o] # "unset" =>
              \E z \in StateType : Leads(c, b, Enter(o), s, z) /\ Scoped(s, z, s.scope \cup {o})
         /\ \E z \in StateType : Leads(c, b, Leave(o), s, z) /\ Scoped(s, z, s.scope \ {o})
<1>1. ASSUME NEW step \in StepType, step.at = o,
             (step.do = "enter" /\ s.flag[o] # "unset") \/ step.do = "leave"
      PROVE  \E z \in StateType :
               /\ Leads(c, b, step, s, z)
               /\ Scoped(s, z, IF step.do = "enter" THEN s.scope \cup {o} ELSE s.scope \ {o})
  <2>1. Good(c, b, step, s)
    BY <1>1 DEF Good, Legal, MayThrow, Transfers
  <2>2. PICK z \in StateType : z = After(step, s)
    BY <1>1, <2>1, AfterType DEF Good
  <2>3. /\ z.scope = IF step.do = "enter" THEN s.scope \cup {o} ELSE s.scope \ {o}
        /\ z.held = HeldAfter(step, s)
        /\ \A v \in Var : z.flag[v] = s.flag[v]
    BY <1>1, <2>2 DEF After, StateType
  <2>4. \A t \in Slot : HeldAfter(step, s)[t] = s.held[t]
    BY <1>1 DEF HeldAfter, Transfers
  <2>5. z.held = s.held /\ z.flag = s.flag
    <3>1. /\ z.held \in [Slot -> Content \cup {Unknown}]
          /\ s.held \in [Slot -> Content \cup {Unknown}]
          /\ z.flag \in [Var -> {"full", "empty", "unset"}]
          /\ s.flag \in [Var -> {"full", "empty", "unset"}]
      BY DEF StateType
    <3> QED
      BY <2>3, <2>4, <3>1
  <2> QED
    BY <1>1, <2>1, <2>2, <2>3, <2>5 DEF Leads, Scoped
<1>2. /\ Enter(o) \in StepType /\ Enter(o).do = "enter" /\ Enter(o).at = o
      /\ Leave(o) \in StepType /\ Leave(o).do = "leave" /\ Leave(o).at = o
  BY SlotFacts, PlaceKinds
<1>3. ASSUME s.flag[o] # "unset"
      PROVE  \E z \in StateType : Leads(c, b, Enter(o), s, z) /\ Scoped(s, z, s.scope \cup {o})
  BY <1>1, <1>2, <1>3
<1>4. \E z \in StateType : Leads(c, b, Leave(o), s, z) /\ Scoped(s, z, s.scope \ {o})
  BY <1>1, <1>2
<1> QED
  BY <1>3, <1>4

-----------------------------------------------------------------------------
(* Steps that T throws in.                                                 *)
LEMMA Joins ==
  ASSUME NEW list \in Seq(StepType)
  PROVE  <<>> \o list = list /\ list \o <<>> = list
BY ConcatEmptySeq

LEMMA Joined ==
  ASSUME NEW S, NEW s \in Seq(S), NEW t \in Seq(S), NEW u \in Seq(S),
         Len(u) = Len(s) + Len(t),
         \A i \in 1 .. Len(s) : u[i] = s[i],
         \A i \in 1 .. Len(t) : u[Len(s) + i] = t[i]
  PROVE  s \o t = u
<1> PICK w : w = s \o t
  OBVIOUS
<1>1. PICK m, n \in Nat : m = Len(s) /\ n = Len(t)
  OBVIOUS
<1>2. /\ w \in Seq(S) /\ Len(w) = m + n
      /\ \A i \in 1 .. m + n : w[i] = IF i <= m THEN s[i] ELSE t[i - m]
  BY <1>1, ConcatProperties
<1>3. ASSUME NEW i \in 1 .. m + n PROVE w[i] = u[i]
  <2>1. CASE i <= m
    BY <1>1, <1>2, <2>1
  <2>2. CASE i > m
    <3>1. PICK j \in 1 .. n : i = m + j /\ i - m = j
      BY <1>1, <2>2
    <3> QED
      BY <1>1, <1>2, <2>2, <3>1
  <2> QED
    BY <1>1, <2>1, <2>2
<1> QED
  BY <1>1, <1>2, <1>3, SeqEqual

LEMMA Tuples ==
  /\ \A a, b : <<a>> \o <<b>> = <<a, b>>
  /\ \A a, b, d : <<a>> \o <<b, d>> = <<a, b, d>>
  /\ \A a, b, d : <<a, b>> \o <<d>> = <<a, b, d>>
  /\ \A a, b, d, e : <<a>> \o <<b, d, e>> = <<a, b, d, e>>
  /\ \A a, b, d, e : <<a, b, d>> \o <<e>> = <<a, b, d, e>>
  /\ \A a, b, d, e : <<a, b>> \o <<d, e>> = <<a, b, d, e>>
  /\ \A a, b, d, e, f : <<a, b, d, e>> \o <<f>> = <<a, b, d, e, f>>
<1>1. ASSUME NEW a, NEW b
      PROVE  <<a>> \o <<b>> = <<a, b>>
  <2> DEFINE S == {a, b}  s == <<a>>  t == <<b>>  u == <<a, b>>
  <2>1. /\ s \in Seq(S) /\ t \in Seq(S) /\ u \in Seq(S)
        /\ Len(s) = 1 /\ Len(t) = 1 /\ Len(u) = 2
        /\ \A i \in 1 .. 1 : u[i] = s[i]
        /\ \A i \in 1 .. 1 : u[1 + i] = t[i]
    OBVIOUS
  <2> HIDE DEF S, s, t, u
  <2>2. /\ Len(u) = Len(s) + Len(t)
        /\ \A i \in 1 .. Len(s) : u[i] = s[i]
        /\ \A i \in 1 .. Len(t) : u[Len(s) + i] = t[i]
    BY ONLY <2>1
  <2>3. s \o t = u
    BY ONLY <2>1, <2>2, Joined, Zenon
  <2> QED
    BY <2>3 DEF s, t, u
<1>2. ASSUME NEW a, NEW b, NEW d
      PROVE  <<a>> \o <<b, d>> = <<a, b, d>>
  <2> DEFINE S == {a, b, d}  s == <<a>>  t == <<b, d>>  u == <<a, b, d>>
  <2>1. /\ s \in Seq(S) /\ t \in Seq(S) /\ u \in Seq(S)
        /\ Len(s) = 1 /\ Len(t) = 2 /\ Len(u) = 3
        /\ \A i \in 1 .. 1 : u[i] = s[i]
        /\ \A i \in 1 .. 2 : u[1 + i] = t[i]
    OBVIOUS
  <2> HIDE DEF S, s, t, u
  <2>2. /\ Len(u) = Len(s) + Len(t)
        /\ \A i \in 1 .. Len(s) : u[i] = s[i]
        /\ \A i \in 1 .. Len(t) : u[Len(s) + i] = t[i]
    BY ONLY <2>1
  <2>3. s \o t = u
    BY ONLY <2>1, <2>2, Joined, Zenon
  <2> QED
    BY <2>3 DEF s, t, u
<1>3. ASSUME NEW a, NEW b, NEW d
      PROVE  <<a, b>> \o <<d>> = <<a, b, d>>
  <2> DEFINE S == {a, b, d}  s == <<a, b>>  t == <<d>>  u == <<a, b, d>>
  <2>1. /\ s \in Seq(S) /\ t \in Seq(S) /\ u \in Seq(S)
        /\ Len(s) = 2 /\ Len(t) = 1 /\ Len(u) = 3
        /\ \A i \in 1 .. 2 : u[i] = s[i]
        /\ \A i \in 1 .. 1 : u[2 + i] = t[i]
    OBVIOUS
  <2> HIDE DEF S, s, t, u
  <2>2. /\ Len(u) = Len(s) + Len(t)
        /\ \A i \in 1 .. Len(s) : u[i] = s[i]
        /\ \A i \in 1 .. Len(t) : u[Len(s) + i] = t[i]
    BY ONLY <2>1
  <2>3. s \o t = u
    BY ONLY <2>1, <2>2, Joined, Zenon
  <2> QED
    BY <2>3 DEF s, t, u
<1>4. ASSUME NEW a, NEW b, NEW d, NEW e
      PROVE  <<a>> \o <<b, d, e>> = <<a, b, d, e>>
  <2> DEFINE S == {a, b, d, e}  s == <<a>>  t == <<b, d, e>>  u == <<a, b, d, e>>
  <2>1. /\ s \in Seq(S) /\ t \in Seq(S) /\ u \in Seq(S)
        /\ Len(s) = 1 /\ Len(t) = 3 /\ Len(u) = 4
        /\ \A i \in 1 .. 1 : u[i] = s[i]
        /\ \A i \in 1 .. 3 : u[1 + i] = t[i]
    OBVIOUS
  <2> HIDE DEF S, s, t, u
  <2>2. /\ Len(u) = Len(s) + Len(t)
        /\ \A i \in 1 .. Len(s) : u[i] = s[i]
        /\ \A i \in 1 .. Len(t) : u[Len(s) + i] = t[i]
    BY ONLY <2>1
  <2>3. s \o t = u
    BY ONLY <2>1, <2>2, Joined, Zenon
  <2> QED
    BY <2>3 DEF s, t, u
<1>5. ASSUME NEW a, NEW b, NEW d, NEW e
      PROVE  <<a, b, d>> \o <<e>> = <<a, b, d, e>>
  <2> DEFINE S == {a, b, d, e}  s == <<a, b, d>>  t == <<e>>  u == <<a, b, d, e>>
  <2>1. /\ s \in Seq(S) /\ t \in Seq(S) /\ u \in Seq(S)
        /\ Len(s) = 3 /\ Len(t) = 1 /\ Len(u) = 4
        /\ \A i \in 1 .. 3 : u[i] = s[i]
        /\ \A i \in 1 .. 1 : u[3 + i] = t[i]
    OBVIOUS
  <2> HIDE DEF S, s, t, u
  <2>2. /\ Len(u) = Len(s) + Len(t)
        /\ \A i \in 1 .. Len(s) : u[i] = s[i]
        /\ \A i \in 1 .. Len(t) : u[Len(s) + i] = t[i]
    BY ONLY <2>1
  <2>3. s \o t = u
    BY ONLY <2>1, <2>2, Joined, Zenon
  <2> QED
    BY <2>3 DEF s, t, u
<1>6. ASSUME NEW a, NEW b, NEW d, NEW e
      PROVE  <<a, b>> \o <<d, e>> = <<a, b, d, e>>
  <2> DEFINE S == {a, b, d, e}  s == <<a, b>>  t == <<d, e>>  u == <<a, b, d, e>>
  <2>1. /\ s \in Seq(S) /\ t \in Seq(S) /\ u \in Seq(S)
        /\ Len(s) = 2 /\ Len(t) = 2 /\ Len(u) = 4
        /\ \A i \in 1 .. 2 : u[i] = s[i]
        /\ \A i \in 1 .. 2 : u[2 + i] = t[i]
    OBVIOUS
  <2> HIDE DEF S, s, t, u
  <2>2. /\ Len(u) = Len(s) + Len(t)
        /\ \A i \in 1 .. Len(s) : u[i] = s[i]
        /\ \A i \in 1 .. Len(t) : u[Len(s) + i] = t[i]
    BY ONLY <2>1
  <2>3. s \o t = u
    BY ONLY <2>1, <2>2, Joined, Zenon
  <2> QED
    BY <2>3 DEF s, t, u
<1>7. ASSUME NEW a, NEW b, NEW d, NEW e, NEW f
      PROVE  <<a, b, d, e>> \o <<f>> = <<a, b, d, e, f>>
  <2> DEFINE S == {a, b, d, e, f}  s == <<a, b, d, e>>  t == <<f>>  u == <<a, b, d, e, f>>
  <2>1. /\ s \in Seq(S) /\ t \in Seq(S) /\ u \in Seq(S)
        /\ Len(s) = 4 /\ Len(t) = 1 /\ Len(u) = 5
        /\ \A i \in 1 .. 4 : u[i] = s[i]
        /\ \A i \in 1 .. 1 : u[4 + i] = t[i]
    OBVIOUS
  <2> HIDE DEF S, s, t, u
  <2>2. /\ Len(u) = Len(s) + Len(t)
        /\ \A i \in 1 .. Len(s) : u[i] = s[i]
        /\ \A i \in 1 .. Len(t) : u[Len(s) + i] = t[i]
    BY ONLY <2>1
  <2>3. s \o t = u
    BY ONLY <2>1, <2>2, Joined, Zenon
  <2> QED
    BY <2>3 DEF s, t, u
<1> QED
  BY <1>1, <1>2, <1>3, <1>4, <1>5, <1>6, <1>7

LEMMA EmptyJoins ==
  /\ <<>> \o <<>> = <<>>
  /\ \A a : <<>> \o <<a>> = <<a>> /\ <<a>> \o <<>> = <<a>>
  /\ \A a, b : <<>> \o <<a, b>> = <<a, b>>
<1>1. <<>> \o <<>> = <<>>
  OBVIOUS
<1>2. ASSUME NEW a PROVE <<>> \o <<a>> = <<a>> /\ <<a>> \o <<>> = <<a>>
  <2>1. <<a>> \in Seq({a})
    OBVIOUS
  <2> QED
    BY <2>1, ConcatEmptySeq
<1>3. ASSUME NEW a, NEW b PROVE <<>> \o <<a, b>> = <<a, b>>
  <2>1. <<a, b>> \in Seq({a, b})
    OBVIOUS
  <2> QED
    BY <2>1, ConcatEmptySeq
<1> QED
  BY <1>1, <1>2, <1>3

LEMMA Appended ==
  ASSUME NEW S, NEW s \in Seq(S), NEW a \in S, NEW u \in Seq(S),
         Len(u) = Len(s) + 1, u[Len(s) + 1] = a, \A i \in 1 .. Len(s) : u[i] = s[i]
  PROVE  Append(s, a) = u
<1> PICK w : w = Append(s, a)
  OBVIOUS
<1>1. PICK n \in Nat : n = Len(s)
  OBVIOUS
<1>2. /\ w \in Seq(S) /\ Len(w) = n + 1 /\ w[n + 1] = a
      /\ \A i \in 1 .. n : w[i] = s[i]
  BY <1>1, AppendProperties
<1>3. \A i \in 1 .. n + 1 : w[i] = u[i]
  BY <1>1, <1>2
<1> QED
  BY <1>1, <1>2, <1>3, SeqEqual

LEMMA Appends ==
  /\ \A a, b : Append(<<a>>, b) = <<a, b>>
  /\ \A a, b, d, e : Append(<<a, b, d>>, e) = <<a, b, d, e>>
  /\ \A a, b, d, e, f : Append(<<a, b, d, e>>, f) = <<a, b, d, e, f>>
  /\ \A a, b, d, e, f, g : Append(<<a, b, d, e, f>>, g) = <<a, b, d, e, f, g>>
<1>1. ASSUME NEW a, NEW b
      PROVE  Append(<<a>>, b) = <<a, b>>
  <2> DEFINE S == {a, b}  s == <<a>>  u == <<a, b>>
  <2>1. /\ s \in Seq(S) /\ u \in Seq(S) /\ b \in S /\ Len(s) = 1 /\ Len(u) = 2
        /\ u[2] = b /\ \A i \in 1 .. 1 : u[i] = s[i]
    OBVIOUS
  <2> HIDE DEF S, s, u
  <2>2. /\ Len(u) = Len(s) + 1 /\ u[Len(s) + 1] = b
        /\ \A i \in 1 .. Len(s) : u[i] = s[i]
    BY ONLY <2>1
  <2>3. Append(s, b) = u
    BY ONLY <2>1, <2>2, Appended, Zenon
  <2> QED
    BY <2>3 DEF s, u
<1>2. ASSUME NEW a, NEW b, NEW d, NEW e
      PROVE  Append(<<a, b, d>>, e) = <<a, b, d, e>>
  <2> DEFINE S == {a, b, d, e}  s == <<a, b, d>>  u == <<a, b, d, e>>
  <2>1. /\ s \in Seq(S) /\ u \in Seq(S) /\ e \in S /\ Len(s) = 3 /\ Len(u) = 4
        /\ u[4] = e /\ \A i \in 1 .. 3 : u[i] = s[i]
    OBVIOUS
  <2> HIDE DEF S, s, u
  <2>2. /\ Len(u) = Len(s) + 1 /\ u[Len(s) + 1] = e
        /\ \A i \in 1 .. Len(s) : u[i] = s[i]
    BY ONLY <2>1
  <2>3. Append(s, e) = u
    BY ONLY <2>1, <2>2, Appended, Zenon
  <2> QED
    BY <2>3 DEF s, u
<1>3. ASSUME NEW a, NEW b, NEW d, NEW e, NEW f
      PROVE  Append(<<a, b, d, e>>, f) = <<a, b, d, e, f>>
  <2> DEFINE S == {a, b, d, e, f}  s == <<a, b, d, e>>  u == <<a, b, d, e, f>>
  <2>1. /\ s \in Seq(S) /\ u \in Seq(S) /\ f \in S /\ Len(s) = 4 /\ Len(u) = 5
        /\ u[5] = f /\ \A i \in 1 .. 4 : u[i] = s[i]
    OBVIOUS
  <2> HIDE DEF S, s, u
  <2>2. /\ Len(u) = Len(s) + 1 /\ u[Len(s) + 1] = f
        /\ \A i \in 1 .. Len(s) : u[i] = s[i]
    BY ONLY <2>1
  <2>3. Append(s, f) = u
    BY ONLY <2>1, <2>2, Appended, Zenon
  <2> QED
    BY <2>3 DEF s, u
<1>4. ASSUME NEW a, NEW b, NEW d, NEW e, NEW f, NEW g
      PROVE  Append(<<a, b, d, e, f>>, g) = <<a, b, d, e, f, g>>
  <2> DEFINE S == {a, b, d, e, f, g}  s == <<a, b, d, e, f>>  u == <<a, b, d, e, f, g>>
  <2>1. /\ s \in Seq(S) /\ u \in Seq(S) /\ g \in S /\ Len(s) = 5 /\ Len(u) = 6
        /\ u[6] = g /\ \A i \in 1 .. 5 : u[i] = s[i]
    OBVIOUS
  <2> HIDE DEF S, s, u
  <2>2. /\ Len(u) = Len(s) + 1 /\ u[Len(s) + 1] = g
        /\ \A i \in 1 .. Len(s) : u[i] = s[i]
    BY ONLY <2>1
  <2>3. Append(s, g) = u
    BY ONLY <2>1, <2>2, Appended, Zenon
  <2> QED
    BY <2>3 DEF s, u
<1> QED
  BY <1>1, <1>2, <1>3, <1>4

LEMMA NoExcepts ==
  /\ NoExcept(<<>>) = <<>>
  /\ \A a : NoExcept(<<a>>) = <<Quiet(a)>>
  /\ \A a, b : NoExcept(<<a, b>>) = <<Quiet(a), Quiet(b)>>
<1>1. ASSUME NEW steps PROVE NoExcept(steps) = [i \in DOMAIN steps |-> Quiet(steps[i])]
  BY Zenon DEF NoExcept, Quiet
<1>2. NoExcept(<<>>) = <<>>
  BY <1>1
<1>3. ASSUME NEW a PROVE NoExcept(<<a>>) = <<Quiet(a)>>
  BY <1>1
<1>4. ASSUME NEW a, NEW b PROVE NoExcept(<<a, b>>) = <<Quiet(a), Quiet(b)>>
  BY <1>1
<1> QED
  BY <1>2, <1>3, <1>4

LEMMA Ifs ==
  ASSUME NEW condition, NEW steps
  PROVE  /\ condition => If(condition, steps) = steps
         /\ ~condition => If(condition, steps) = <<>>
BY DEF If

(* The lists of steps, with their conditions decided.                      *)
LEMMA ConstructFromSteps ==
  ASSUME NEW o, NEW p, NEW move
  PROVE  /\ Full(p) => ConstructFrom(o, p, move) =
                         <<SetFlag(o, Full(p)), Construct(o, p, move), Enter(o)>>
         /\ ~Full(p) => ConstructFrom(o, p, move) = <<SetFlag(o, Full(p)), Enter(o)>>
<1> PICK a, b, d : a = SetFlag(o, Full(p)) /\ b = Construct(o, p, move) /\ d = Enter(o)
  OBVIOUS
<1> PICK list : list = ConstructFrom(o, p, move)
  OBVIOUS
<1>1. list = <<a>> \o If(Full(p), <<b>>) \o <<d>>
  BY DEF ConstructFrom
<1>2. CASE Full(p)
  <2>1. list = <<a>> \o <<b>> \o <<d>>
    BY <1>1, <1>2, Ifs
  <2>2. @ = <<a, b>> \o <<d>>
    BY Tuples
  <2>3. @ = <<a, b, d>>
    BY Tuples
  <2> QED
    BY <1>2, <2>1, <2>2, <2>3
<1>3. CASE ~Full(p)
  <2>1. list = <<a>> \o <<>> \o <<d>>
    BY <1>1, <1>3, Ifs
  <2>2. @ = <<a>> \o <<d>>
    BY EmptyJoins
  <2>3. @ = <<a, d>>
    BY Tuples
  <2> QED
    BY <1>3, <2>1, <2>2, <2>3
<1> QED
  BY <1>2, <1>3

LEMMA ConvertFromSteps ==
  ASSUME NEW o, NEW p, NEW move
  PROVE  /\ Full(p) => ConvertFrom(o, p, move) =
                         <<SetFlag(o, Full(p)), Construct(Temporary, p, move),
                           Construct(o, Temporary, TRUE), Destruct(Temporary), Enter(o)>>
         /\ ~Full(p) => ConvertFrom(o, p, move) = <<SetFlag(o, Full(p)), Enter(o)>>
<1> PICK a, d, e, f, g :
      /\ a = SetFlag(o, Full(p)) /\ d = Enter(o) /\ e = Construct(Temporary, p, move)
      /\ f = Construct(o, Temporary, TRUE) /\ g = Destruct(Temporary)
  OBVIOUS
<1> PICK list : list = ConvertFrom(o, p, move)
  OBVIOUS
<1>1. list = <<a>> \o If(Full(p), <<e, f, g>>) \o <<d>>
  BY DEF ConvertFrom
<1>2. CASE Full(p)
  <2>1. list = <<a>> \o <<e, f, g>> \o <<d>>
    BY <1>1, <1>2, Ifs
  <2>2. <<a>> \o <<e, f, g>> = <<a, e, f, g>>
    BY ONLY Tuples
  <2>3. <<a, e, f, g>> \o <<d>> = <<a, e, f, g, d>>
    BY ONLY Tuples
  <2> QED
    BY <1>2, <2>1, <2>2, <2>3
<1>3. CASE ~Full(p)
  <2>1. list = <<a>> \o <<>> \o <<d>>
    BY <1>1, <1>3, Ifs
  <2>2. @ = <<a>> \o <<d>>
    BY EmptyJoins
  <2>3. @ = <<a, d>>
    BY Tuples
  <2> QED
    BY <1>3, <2>1, <2>2, <2>3
<1> QED
  BY <1>2, <1>3

LEMMA ResetSteps ==
  ASSUME NEW o
  PROVE  /\ Full(o) => Reset(o) = <<Destruct(o), SetFlag(o, FALSE)>>
         /\ Full(o) => Destroy(o) = <<Destruct(o), Leave(o)>>
         /\ ~Full(o) => Reset(o) = <<SetFlag(o, FALSE)>> /\ Destroy(o) = <<Leave(o)>>
<1> PICK a, b, d : a = Destruct(o) /\ b = SetFlag(o, FALSE) /\ d = Leave(o)
  OBVIOUS
<1>1. Reset(o) = If(Full(o), <<a>>) \o <<b>> /\ Destroy(o) = If(Full(o), <<a>>) \o <<d>>
  BY DEF Reset, Destroy
<1>2. CASE Full(o)
  <2>1. Reset(o) = <<a>> \o <<b>> /\ Destroy(o) = <<a>> \o <<d>>
    BY <1>1, <1>2, Ifs
  <2>2. <<a>> \o <<b>> = <<a, b>>
    BY Tuples
  <2>3. <<a>> \o <<d>> = <<a, d>>
    BY Tuples
  <2> QED
    BY <1>2, <2>1, <2>2, <2>3
<1>3. CASE ~Full(o)
  <2>1. Reset(o) = <<>> \o <<b>> /\ Destroy(o) = <<>> \o <<d>>
    BY <1>1, <1>3, Ifs
  <2> QED
    BY <1>3, <2>1, EmptyJoins
<1> QED
  BY <1>2, <1>3

(* What the assignment operators do, declared noexcept or not.             *)
AssignSteps(o, p, from, move) ==
  IF ~Full(p) THEN If(Full(o), Reset(o))
  ELSE IF Full(o) THEN <<Assign(o, from, move)>> ELSE Initialize(o, from, move)

LEMMA AssignStepsAre ==
  ASSUME NEW o, NEW p, NEW from, NEW move
  PROVE  LET steps == AssignSteps(o, p, from, move)
         IN  /\ ~Full(p) /\ ~Full(o) => steps = <<>> /\ NoExcept(steps) = <<>>
             /\ ~Full(p) /\ Full(o) =>
                  /\ steps = <<Destruct(o), SetFlag(o, FALSE)>>
                  /\ NoExcept(steps) = <<Quiet(Destruct(o)), Quiet(SetFlag(o, FALSE))>>
             /\ Full(p) /\ Full(o) =>
                  /\ steps = <<Assign(o, from, move)>>
                  /\ NoExcept(steps) = <<Quiet(Assign(o, from, move))>>
             /\ Full(p) /\ ~Full(o) =>
                  /\ steps = <<Construct(o, from, move), SetFlag(o, TRUE)>>
                  /\ NoExcept(steps) =
                       <<Quiet(Construct(o, from, move)), Quiet(SetFlag(o, TRUE))>>
<1>1. CASE ~Full(p) /\ ~Full(o)
  <2>1. AssignSteps(o, p, from, move) = <<>>
    BY <1>1, Ifs DEF AssignSteps
  <2> QED
    BY <1>1, <2>1, NoExcepts
<1>2. CASE ~Full(p) /\ Full(o)
  <2>1. AssignSteps(o, p, from, move) = <<Destruct(o), SetFlag(o, FALSE)>>
    BY <1>2, Ifs, ResetSteps DEF AssignSteps
  <2> QED
    BY <1>2, <2>1, NoExcepts
<1>3. CASE Full(p) /\ Full(o)
  <2>1. AssignSteps(o, p, from, move) = <<Assign(o, from, move)>>
    BY <1>3 DEF AssignSteps
  <2> QED
    BY <1>3, <2>1, NoExcepts
<1>4. CASE Full(p) /\ ~Full(o)
  <2>1. AssignSteps(o, p, from, move) = <<Construct(o, from, move), SetFlag(o, TRUE)>>
    BY <1>4 DEF AssignSteps, Initialize
  <2> QED
    BY <1>4, <2>1, NoExcepts
<1> QED
  BY <1>1, <1>2, <1>3, <1>4

LEMMA AssignConvertedSteps ==
  ASSUME NEW o, NEW p, NEW move
  PROVE  /\ ~Full(p) /\ ~Full(o) => AssignConverted(o, p, move) = <<>>
         /\ ~Full(p) /\ Full(o) =>
              AssignConverted(o, p, move) = <<Quiet(Destruct(o)), Quiet(SetFlag(o, FALSE))>>
         /\ Full(p) /\ Full(o) =>
              AssignConverted(o, p, move) =
                <<Construct(Temporary, p, move), Quiet(Assign(o, Temporary, TRUE)),
                  Destruct(Temporary)>>
         /\ Full(p) /\ ~Full(o) =>
              AssignConverted(o, p, move) =
                <<Construct(Temporary, p, move), Quiet(Construct(o, Temporary, TRUE)),
                  Quiet(SetFlag(o, TRUE)), Destruct(Temporary)>>
<1> PICK a, b, d, e, f, g, h :
      /\ a = Construct(Temporary, p, move) /\ b = Quiet(Assign(o, Temporary, TRUE))
      /\ d = Destruct(Temporary) /\ e = Quiet(Construct(o, Temporary, TRUE))
      /\ f = Quiet(SetFlag(o, TRUE)) /\ g = Quiet(Destruct(o)) /\ h = Quiet(SetFlag(o, FALSE))
  OBVIOUS
<1> PICK list : list = AssignConverted(o, p, move)
  OBVIOUS
<1> PICK middle : middle = NoExcept(AssignSteps(o, p, Temporary, TRUE))
  OBVIOUS
<1>1. list = If(Full(p), <<a>>) \o middle \o If(Full(p), <<d>>)
  BY DEF AssignConverted, AssignSteps
<1>2. CASE ~Full(p) /\ ~Full(o)
  <2>1. middle = <<>>
    BY <1>2, AssignStepsAre
  <2>2. list = <<>> \o <<>> \o <<>>
    BY <1>1, <1>2, <2>1, Ifs
  <2> QED
    BY <1>2, <2>2, EmptyJoins
<1>3. CASE ~Full(p) /\ Full(o)
  <2>1. middle = <<g, h>>
    BY <1>3, AssignStepsAre
  <2>2. list = <<>> \o <<g, h>> \o <<>>
    BY <1>1, <1>3, <2>1, Ifs
  <2>3. <<>> \o <<g, h>> = <<g, h>> /\ <<g, h>> \o <<>> = <<g, h>>
    BY ONLY EmptyJoins
  <2> QED
    BY <1>3, <2>2, <2>3
<1>4. CASE Full(p) /\ Full(o)
  <2>1. middle = <<b>>
    BY <1>4, AssignStepsAre
  <2>2. list = <<a>> \o <<b>> \o <<d>>
    BY <1>1, <1>4, <2>1, Ifs
  <2>3. <<a>> \o <<b>> = <<a, b>>
    BY ONLY Tuples
  <2>4. <<a, b>> \o <<d>> = <<a, b, d>>
    BY ONLY Tuples
  <2> QED
    BY <1>4, <2>2, <2>3, <2>4
<1>5. CASE Full(p) /\ ~Full(o)
  <2>1. middle = <<e, f>>
    BY <1>5, AssignStepsAre
  <2>2. list = <<a>> \o <<e, f>> \o <<d>>
    BY <1>1, <1>5, <2>1, Ifs
  <2>3. <<a>> \o <<e, f>> = <<a, e, f>>
    BY ONLY Tuples
  <2>4. <<a, e, f>> \o <<d>> = <<a, e, f, d>>
    BY ONLY Tuples
  <2> QED
    BY <1>5, <2>2, <2>3, <2>4
<1> QED
  BY <1>2, <1>3, <1>4, <1>5

(* With the argument, which is destroyed at the end.                       *)
LEMMA ValueSteps ==
  ASSUME NEW o, NEW move
  PROVE  /\ Append(ConstructValue(o, move), Destruct(Argument)) =
              <<SetFlag(o, TRUE), Construct(o, Argument, move), Enter(o), Destruct(Argument)>>
         /\ Append(ConstructInPlace(o, move), Destruct(Argument)) =
              <<SetFlag(o, TRUE), Construct(Temporary, Argument, move),
                Construct(o, Temporary, TRUE), Destruct(Temporary), Enter(o), Destruct(Argument)>>
<1> PICK a, b, d, e, f, g, h :
      /\ a = SetFlag(o, TRUE) /\ b = Construct(o, Argument, move) /\ d = Enter(o)
      /\ e = Destruct(Argument) /\ f = Construct(Temporary, Argument, move)
      /\ g = Construct(o, Temporary, TRUE) /\ h = Destruct(Temporary)
  OBVIOUS
<1>1. Append(<<a, b, d>>, e) = <<a, b, d, e>>
  BY ONLY Appends
<1>2. Append(<<a, f, g, h, d>>, e) = <<a, f, g, h, d, e>>
  BY ONLY Appends
<1>3. ConstructValue(o, move) = <<a, b, d>>
  BY DEF ConstructValue
<1>4. ConstructInPlace(o, move) = <<a, f, g, h, d>>
  BY DEF ConstructInPlace
<1> QED
  BY <1>1, <1>2, <1>3, <1>4

LEMMA AssignValueSteps ==
  ASSUME NEW o, NEW move
  PROVE  LET steps == Append(AssignValue(o, move), Destruct(Argument))
         IN  /\ Full(o) => steps = <<Assign(o, Argument, move), Destruct(Argument)>>
             /\ ~Full(o) =>
                  steps = <<Construct(Temporary, Argument, move), Construct(o, Temporary, TRUE),
                            SetFlag(o, TRUE), Destruct(Temporary), Destruct(Argument)>>
<1> PICK a, b, d, e, f, g :
      /\ a = Assign(o, Argument, move) /\ b = Construct(Temporary, Argument, move)
      /\ d = Construct(o, Temporary, TRUE) /\ e = SetFlag(o, TRUE)
      /\ f = Destruct(Temporary) /\ g = Destruct(Argument)
  OBVIOUS
<1>1. Append(<<a>>, g) = <<a, g>>
  BY ONLY Appends
<1>2. CASE ~Full(o)
  <2>1. AssignValue(o, move) = <<b>> \o <<d, e>> \o <<f>>
    BY <1>2 DEF AssignValue, Initialize
  <2>2. <<b>> \o <<d, e>> = <<b, d, e>>
    BY ONLY Tuples
  <2>3. <<b, d, e>> \o <<f>> = <<b, d, e, f>>
    BY ONLY Tuples
  <2>4. Append(<<b, d, e, f>>, g) = <<b, d, e, f, g>>
    BY ONLY Appends
  <2> QED
    BY <1>2, <2>1, <2>2, <2>3, <2>4
<1>3. CASE Full(o)
  <2>1. AssignValue(o, move) = <<a>>
    BY <1>3 DEF AssignValue
  <2> QED
    BY <1>1, <1>3, <2>1
<1> QED
  BY <1>2, <1>3

LEMMA EmplaceSteps ==
  ASSUME NEW o, NEW move
  PROVE  LET steps == Append(Emplace(o, move), Destruct(Argument))
         IN  /\ Full(o) =>
                  steps = <<Destruct(o), SetFlag(o, FALSE), Construct(o, Argument, move),
                            SetFlag(o, TRUE), Destruct(Argument)>>
             /\ ~Full(o) =>
                  steps = <<SetFlag(o, FALSE), Construct(o, Argument, move), SetFlag(o, TRUE),
                            Destruct(Argument)>>
<1> PICK a, b, d, e, f :
      /\ a = Destruct(o) /\ b = SetFlag(o, FALSE) /\ d = Construct(o, Argument, move)
      /\ e = SetFlag(o, TRUE) /\ f = Destruct(Argument)
  OBVIOUS
<1>1. Emplace(o, move) = Reset(o) \o <<d, e>>
  BY DEF Emplace, Initialize
<1>2. CASE Full(o)
  <2>1. Emplace(o, move) = <<a, b>> \o <<d, e>>
    BY <1>1, <1>2, ResetSteps
  <2>2. <<a, b>> \o <<d, e>> = <<a, b, d, e>>
    BY ONLY Tuples
  <2>3. Append(<<a, b, d, e>>, f) = <<a, b, d, e, f>>
    BY ONLY Appends
  <2> QED
    BY <1>2, <2>1, <2>2, <2>3
<1>3. CASE ~Full(o)
  <2>1. Emplace(o, move) = <<b>> \o <<d, e>>
    BY <1>1, <1>3, ResetSteps
  <2>2. <<b>> \o <<d, e>> = <<b, d, e>>
    BY ONLY Tuples
  <2>3. Append(<<b, d, e>>, f) = <<b, d, e, f>>
    BY ONLY Appends
  <2> QED
    BY <1>3, <2>1, <2>2, <2>3
<1> QED
  BY <1>2, <1>3

LEMMA SwapSteps ==
  ASSUME NEW o, NEW p
  PROVE  /\ Full(o) /\ Full(p) =>
              Swap(o, p) = <<Construct(Temporary, o, TRUE), Assign(o, p, TRUE),
                             Assign(p, Temporary, TRUE), Destruct(Temporary)>>
         /\ ~Full(o) /\ Full(p) =>
              Swap(o, p) = <<Construct(o, p, TRUE), SetFlag(o, TRUE), Destruct(p),
                             SetFlag(p, FALSE)>>
         /\ Full(o) /\ ~Full(p) =>
              Swap(o, p) = <<Construct(p, o, TRUE), SetFlag(p, TRUE), Destruct(o),
                             SetFlag(o, FALSE)>>
         /\ ~Full(o) /\ ~Full(p) => Swap(o, p) = <<>>
<1>1. CASE Full(o) /\ Full(p)
  BY <1>1 DEF Swap
<1>2. CASE ~Full(o) /\ ~Full(p)
  BY <1>2 DEF Swap
<1>3. CASE ~Full(o) /\ Full(p)
  <2> PICK a, b, d, e :
        /\ a = Construct(o, p, TRUE) /\ b = SetFlag(o, TRUE) /\ d = Destruct(p)
        /\ e = SetFlag(p, FALSE)
    OBVIOUS
  <2>1. Swap(o, p) = <<a, b>> \o <<d, e>>
    BY <1>3, ResetSteps DEF Swap, Initialize
  <2>2. <<a, b>> \o <<d, e>> = <<a, b, d, e>>
    BY ONLY Tuples
  <2> QED
    BY <1>3, <2>1, <2>2
<1>4. CASE Full(o) /\ ~Full(p)
  <2> PICK a, b, d, e :
        /\ a = Construct(p, o, TRUE) /\ b = SetFlag(p, TRUE) /\ d = Destruct(o)
        /\ e = SetFlag(o, FALSE)
    OBVIOUS
  <2>1. Swap(o, p) = <<a, b>> \o <<d, e>>
    BY <1>4, ResetSteps DEF Swap, Initialize
  <2>2. <<a, b>> \o <<d, e>> = <<a, b, d, e>>
    BY ONLY Tuples
  <2> QED
    BY <1>4, <2>1, <2>2
<1> QED
  BY <1>1, <1>2, <1>3, <1>4

(* In any state in which the variables are as ThrowKeeps wants them.       *)
LEMMA UnwoundCourse ==
  ASSUME NEW c, NEW b, NEW s \in StateType, Safe(c, b, s),
         \A t \in {Temporary, Argument} : s.held[t] = Raw <=> contained[t] = Raw
  PROVE  Unwound \in Seq(StepType) /\ Course(c, b, "threw", Unwound, s)
<1> PICK a, d : a = Destruct(Temporary) /\ d = Destruct(Argument)
  OBVIOUS
<1>1. a \in StepType /\ d \in StepType
  BY SlotFacts, PlaceKinds
<1>2. ASSUME NEW z \in StateType, z.flag = s.flag, z.scope = s.scope,
             z.held[Temporary] = Raw, z.held[Argument] = Raw,
             \A v \in Var : z.held[v] = s.held[v]
      PROVE  Over(c, b, "threw", z)
  <2>1. \A v \in Var : z.held[v] # Unknown /\ Engages(z, v) /\ KeepsVar(c, b, z, v)
    BY <1>2 DEF Safe, Engages, KeepsVar, Seen
  <2>2. \A t \in Slot : Engages(z, t)
    <3>1. z.scope \subseteq Var
      BY <1>2 DEF StateType
    <3>2. Engages(z, Temporary) /\ Engages(z, Argument)
      BY <1>2, <3>1, SlotFacts DEF Engages
    <3> QED
      BY <2>1, <3>2 DEF Slot
  <2> QED
    BY <2>1, <2>2 DEF Over, Safe
<1>3. CASE contained[Temporary] # Raw /\ contained[Argument] # Raw
  <2>1. PICK z1 \in StateType : Leads(c, b, a, s, z1) /\ Loses(s, z1, Temporary)
    BY <1>3, SlotFacts, DestructLeads
  <2>2. z1.held[Argument] # Raw
    BY <1>3, <2>1, SlotFacts DEF Loses
  <2>3. PICK z2 \in StateType : Leads(c, b, d, z1, z2) /\ Loses(z1, z2, Argument)
    BY <2>2, SlotFacts, DestructLeads
  <2>4. Over(c, b, "threw", z2)
    BY <1>2, <2>1, <2>3, SlotFacts DEF Loses
  <2>5. Unwound = <<a, d>>
    BY <1>3, Tuples DEF Unwound, If
  <2> QED
    BY <2>1, <2>3, <2>4, <2>5, Course2
<1>4. CASE contained[Temporary] # Raw /\ contained[Argument] = Raw
  <2>1. PICK z1 \in StateType : Leads(c, b, a, s, z1) /\ Loses(s, z1, Temporary)
    BY <1>4, SlotFacts, DestructLeads
  <2>2. Over(c, b, "threw", z1)
    BY <1>2, <1>4, <2>1, SlotFacts DEF Loses
  <2>3. Unwound = <<a>>
    BY <1>1, <1>4, Joins DEF Unwound, If
  <2> QED
    BY <2>1, <2>2, <2>3, Course1
<1>5. CASE contained[Temporary] = Raw /\ contained[Argument] # Raw
  <2>1. PICK z1 \in StateType : Leads(c, b, d, s, z1) /\ Loses(s, z1, Argument)
    BY <1>5, SlotFacts, DestructLeads
  <2>2. Over(c, b, "threw", z1)
    BY <1>2, <1>5, <2>1, SlotFacts DEF Loses
  <2>3. Unwound = <<d>>
    BY <1>1, <1>5, Joins DEF Unwound, If
  <2> QED
    BY <2>1, <2>2, <2>3, Course1
<1>6. CASE contained[Temporary] = Raw /\ contained[Argument] = Raw
  <2>1. Over(c, b, "threw", s)
    BY <1>2, <1>6
  <2>2. Unwound = <<>>
    BY <1>6 DEF Unwound, If
  <2> QED
    BY <2>1, <2>2, CourseEnd
<1> QED
  BY <1>3, <1>4, <1>5, <1>6

(* What is lost in a step that throws is what the call may change.         *)
LEMMA LostStaysSafe ==
  ASSUME NEW c, NEW b, NEW step \in StepType, NEW s \in StateType, NEW z \in StateType,
         Transfers(step), Legal(step, s), Safe(c, b, s),
         c.move \/ Changed(step) \cap Var \subseteq {c.self},
         z.flag = s.flag, z.scope = s.scope,
         NEW lost \in SUBSET Changed(step),
         \A v \in Var : \/ z.held[v] = s.held[v] /\ v \notin lost
                        \/ z.held[v] = Moved /\ v \in lost
  PROVE  Safe(c, b, z)
<1>1. \A t \in lost : s.held[t] # Raw
  BY DEF Changed, Legal, Transfers
<1>2. ASSUME NEW v \in Var, v \in lost
      PROVE  z.held[v] # Unknown /\ Engages(z, v) /\ KeepsVar(c, b, z, v)
  <2>1. Engages(s, v) /\ s.held[v] # Raw /\ z.held[v] = Moved /\ KeepsVar(c, b, s, v)
    BY <1>1, <1>2 DEF Safe
  <2>2. v \in s.scope /\ s.flag[v] = "full"
    BY <2>1 DEF Engages
  <2>3. Seen(z, v) = Moved /\ Seen(s, v) = s.held[v]
    BY <2>1, <2>2 DEF Seen
  <2>4. b[v] \notin {"none", "out"} \/ s.held[v] \in {"none", "out"}
    BY <2>1, <2>3 DEF KeepsVar
  <2>5. s.held[v] \notin {"none", "out"}
    BY UnknownFacts, ContentFacts, SlotFacts DEF StateType
  <2>6. c.move \/ v = c.self
    BY <1>2
  <2> QED
    BY <2>1, <2>2, <2>3, <2>4, <2>5, <2>6, ContentFacts, UnknownFacts DEF KeepsVar, Engages
<1>3. ASSUME NEW v \in Var, v \notin lost
      PROVE  z.held[v] # Unknown /\ Engages(z, v) /\ KeepsVar(c, b, z, v)
  BY <1>3 DEF Safe, Engages, KeepsVar, Seen
<1> QED
  BY <1>2, <1>3 DEF Safe

LEMMA ThrowKeepsInv ==
  ASSUME Inv, Throw
  PROVE  Inv'
<1> PICK step : step = Head(todo)
  OBVIOUS
<1>1. /\ todo # <<>> /\ Transfers(step)
      /\ UNCHANGED <<throws, in_scope, has_value, call, before>>
  BY DEF Throw, Transfers
<1>2. PICK lost \in SUBSET Changed(step) :
        contained' = [t \in Slot |-> IF t \in lost THEN Moved ELSE contained[t]]
  BY DEF Throw, Changed
<1>3. PICK s \in StateType : Agrees(s) /\ Good(call, before, step, s)
  BY <1>1, NextStep
<1>4. step \in StepType /\ Legal(step, s) /\ MayThrow(call, before, step, s)
  BY <1>1, <1>3, NextStep DEF Good
<1>5. contained' \in [Slot -> Content] /\ Moved \in Content
  BY <1>2 DEF Inv, TypeOK, Content
<1>6. CASE step.noexcept
  <2>1. todo' = <<>> /\ outcome' = "terminated"
    BY <1>6 DEF Throw
  <2>2. TypeOK'
    BY <1>1, <1>5, <2>1 DEF Inv, TypeOK
  <2> QED
    BY <2>1, <2>2 DEF Inv
<1>7. CASE ~step.noexcept
  <2>1. /\ todo' = Unwound /\ outcome' = "threw"
        /\ Safe(call, before, s)
        /\ call.move \/ Changed(step) \cap Var \subseteq {call.self}
    BY <1>1, <1>4, <1>7 DEF Throw, MayThrow
  <2>2. PICK z : z = [held |-> contained', flag |-> has_value, scope |-> in_scope]
    OBVIOUS
  <2>3. z \in StateType /\ z.flag = s.flag /\ z.scope = s.scope /\ z.held = contained'
    BY <1>3, <1>5, <2>2 DEF Inv, TypeOK, StateType, Agrees
  <2>4. Safe(call, before, z)
    <3>1. ASSUME NEW v \in Var, v \notin lost
          PROVE  z.held[v] = s.held[v]
      <4>1. contained'[v] = contained[v] /\ v \in Slot
        BY <1>2, <3>1, SlotFacts
      <4>2. s.held[v] # Unknown
        BY <2>1 DEF Safe
      <4> QED
        BY <1>3, <2>3, <4>1, <4>2 DEF Agrees
    <3>2. \A v \in Var : v \in lost => z.held[v] = Moved
      BY <1>2, <2>3, SlotFacts
    <3>3. \A v \in Var :
            \/ z.held[v] = s.held[v] /\ v \notin lost
            \/ z.held[v] = Moved /\ v \in lost
      BY <3>1, <3>2
    <3> QED
      BY <1>1, <1>4, <2>1, <2>3, <3>3, LostStaysSafe
  <2>5. Unwound \in Seq(StepType) /\ Course(call, before, "threw", Unwound, z)
    <3>1. \A t \in lost : contained[t] # Raw /\ t \in Slot
      BY <1>1, <1>3, <1>4 DEF Agrees, Changed, Legal, Transfers, StepType
    <3>2. \A t \in Slot : z.held[t] = Raw <=> contained[t] = Raw
      BY <1>2, <2>3, <3>1, ContentFacts
    <3> QED
      BY <2>3, <2>4, <3>2, SlotFacts, UnwoundCourse
  <2>6. TypeOK'
    <3>1. \A i \in DOMAIN todo' : todo'[i].at \in Slot /\ todo'[i].from \in Slot
      BY <2>1, <2>5, TodoType
    <3> QED
      BY <1>1, <1>5, <2>1, <3>1 DEF Inv, TypeOK
  <2>7. Agrees(z)' /\ Course(call, before, outcome, todo, z)'
    BY <1>1, <2>1, <2>2, <2>5 DEF Agrees, Course
  <2> QED
    BY <2>1, <2>3, <2>5, <2>6, <2>7 DEF Inv, OnCourse
<1> QED
  BY <1>6, <1>7

-----------------------------------------------------------------------------
(* Calls begin in a state like this, with this object as their argument.   *)
Starts(b, s, arg) ==
  /\ s \in StateType /\ s.flag = has_value /\ s.scope = in_scope
  /\ s.held[Argument] = arg /\ s.held[Temporary] = Raw
  /\ \A t \in Slot : b[t] = Seen(s, t) /\ s.held[t] # Unknown
  /\ \A v \in Var : Engages(s, v)

Succeeds(c, b, steps, s) == steps \in Seq(StepType) /\ Course(c, b, "returned", steps, s)

(* All goes well in a call that begins like that and has these steps.      *)
Follows(c, arg, steps) ==
  \A b : \A s \in StateType : Starts(b, s, arg) => Succeeds(c, b, steps, s)

LEMMA IdleFacts ==
  ASSUME Inv, Idle
  PROVE  \A t \in Slot : contained[t] # Raw <=> t \in in_scope /\ has_value[t] = "full"
<1>1. /\ todo = <<>> /\ OnCourse
  BY DEF Inv, Idle
<1>2. PICK s \in StateType : Agrees(s) /\ Course(call, before, outcome, todo, s)
  BY <1>1 DEF OnCourse
<1>3. Over(call, before, outcome, s)
  BY <1>1, <1>2, CourseEnd
<1>4. Unknown # Raw
  BY UnknownFacts, ContentFacts
<1> QED
  BY <1>2, <1>3, <1>4 DEF Over, Engages, Agrees

LEMMA CallKeeps ==
  ASSUME Inv, NEW c, NEW arg \in Content, NEW steps,
         Idle, call' = c, todo' = steps, outcome' = "returned",
         UNCHANGED <<throws, in_scope, has_value>>,
         contained' = [contained EXCEPT ![Argument] = arg],
         before' = [t \in Slot |-> IF t = Argument THEN arg ELSE Held(t)],
         Follows(c, arg, steps)
  PROVE  Inv'
<1>1. contained \in [Slot -> Content] /\ in_scope \subseteq Var
  BY DEF Inv, TypeOK
<1>2. /\ contained' \in [Slot -> Content]
      /\ \A t \in Slot : contained'[t] = IF t = Argument THEN arg ELSE contained[t]
  BY <1>1, SlotFacts
<1> PICK b : b = before'
  OBVIOUS
<1>3. PICK s : s = [held |-> contained', flag |-> has_value, scope |-> in_scope]
  OBVIOUS
<1>4. /\ s \in StateType /\ s.flag = has_value /\ s.scope = in_scope /\ s.held = contained'
  BY <1>2, <1>3 DEF Inv, TypeOK, StateType
<1>5. Starts(b, s, arg)
  <2>1. \A v \in Var : Engages(s, v)
    BY <1>2, <1>4, IdleFacts, SlotFacts DEF Engages
  <2>2. s.held[Argument] = arg /\ s.held[Temporary] = Raw
    BY <1>1, <1>2, <1>4, IdleFacts, SlotFacts
  <2>3. ASSUME NEW t \in Slot PROVE b[t] = Seen(s, t) /\ s.held[t] # Unknown
    <3>1. s.held[t] # Unknown
      BY <1>2, <1>4, UnknownFacts
    <3>2. b[t] = IF t = Argument THEN arg ELSE Held(t)
      OBVIOUS
    <3> QED
      BY <1>2, <1>4, <3>1, <3>2, SlotFacts DEF Seen, Held, Full
  <2> QED
    BY <1>4, <2>1, <2>2, <2>3 DEF Starts
<1>6. steps \in Seq(StepType) /\ Course(c, b, "returned", steps, s)
  BY <1>4, <1>5 DEF Follows, Succeeds
<1>7. TypeOK'
  <2>1. before' \in [Slot -> Content \cup {"none", "out"}]
    BY <1>1 DEF Held, Slot
  <2>2. \A i \in DOMAIN todo' : todo'[i].at \in Slot /\ todo'[i].from \in Slot
    BY <1>6, TodoType
  <2> QED
    BY <1>2, <2>1, <2>2 DEF Inv, TypeOK
<1>8. Agrees(s)' /\ Course(call, before, outcome, todo, s)'
  BY <1>4, <1>6 DEF Agrees, Course
<1> QED
  BY <1>4, <1>6, <1>7, <1>8 DEF Inv, OnCourse

Called(op, self, other, move) == [op |-> op, self |-> self, other |-> other, move |-> move]

LEMMA CallWithKeeps ==
  ASSUME Inv, NEW op, NEW self, NEW other, NEW move, NEW steps,
         CallWith(op, self, other, move, steps),
         Follows(Called(op, self, other, move), Raw, steps)
  PROVE  Inv'
<1>1. /\ Idle /\ call' = Called(op, self, other, move) /\ todo' = steps /\ outcome' = "returned"
      /\ UNCHANGED <<throws, in_scope, has_value, contained>>
      /\ before' = [t \in Slot |-> Held(t)]
  BY DEF CallWith, Begin, Called
<1>2. contained[Argument] = Raw /\ contained \in [Slot -> Content] /\ Argument \in Slot
  BY <1>1, IdleFacts, SlotFacts DEF Inv, TypeOK
<1>3. contained' = [contained EXCEPT ![Argument] = Raw] /\ Raw \in Content
  BY <1>1, <1>2 DEF Content
<1>4. before' = [t \in Slot |-> IF t = Argument THEN Raw ELSE Held(t)]
  BY <1>1, <1>2, SlotFacts DEF Held
<1> QED
  BY <1>1, <1>3, <1>4, CallKeeps

LEMMA CallWithValueKeeps ==
  ASSUME Inv, NEW op, NEW self, NEW value \in Value, NEW move, NEW steps,
         CallWithValue(op, self, value, move, steps),
         Follows(Called(op, self, Argument, move), value, Append(steps, Destruct(Argument)))
  PROVE  Inv'
<1>1. /\ Idle /\ call' = Called(op, self, Argument, move)
      /\ todo' = Append(steps, Destruct(Argument)) /\ outcome' = "returned"
      /\ UNCHANGED <<throws, in_scope, has_value>>
      /\ contained' = [contained EXCEPT ![Argument] = value]
      /\ before' = [t \in Slot |-> IF t = Argument THEN value ELSE Held(t)]
  BY DEF CallWithValue, Begin, Called
<1>2. value \in Content
  BY DEF Content
<1> QED
  BY <1>1, <1>2, CallKeeps

-----------------------------------------------------------------------------
(* The calls.  What a call that begins finds.                              *)
LEMMA StartFacts ==
  ASSUME NEW b, NEW s, NEW arg, Starts(b, s, arg)
  PROVE  /\ s \in StateType /\ s.scope \subseteq Var
         /\ \A t \in Slot : s.held[t] \in Content /\ b[t] = Seen(s, t)
         /\ \A v \in Var : /\ s.held[v] # Raw <=> v \in s.scope /\ Full(v)
                           /\ Full(v) <=> s.flag[v] = "full"
         /\ s.held[Temporary] = Raw /\ s.held[Argument] = arg
BY DEF Starts, StateType, Engages, Full

LEMMA StartSafe ==
  ASSUME NEW c, NEW b, NEW s, NEW arg, Starts(b, s, arg)
  PROVE  Safe(c, b, s)
<1>1. ASSUME NEW v \in Var PROVE KeepsVar(c, b, s, v)
  <2>1. v \in Slot /\ b[v] = Seen(s, v) /\ Engages(s, v) /\ s.held[v] \in Content
    BY StartFacts, SlotFacts DEF Starts
  <2> QED
    BY <2>1, ContentFacts DEF KeepsVar, Seen, Engages
<1> QED
  BY <1>1, SlotFacts DEF Safe, Starts

(* Between variables and what the call made: a transfer out of a variable  *)
(* that is there leaves all as safe as it was.                             *)
LEMMA TransferSafe ==
  ASSUME NEW c, NEW b, NEW s \in StateType, NEW z \in StateType, Safe(c, b, s),
         NEW at \in Slot, at \notin Var, NEW from \in Slot, NEW move \in BOOLEAN,
         s.held[from] # Raw, Gets(s, z, at, from, move), Spares(c, from, move)
  PROVE  Safe(c, b, z)
<1>1. ASSUME NEW v \in Var, v = from, move
      PROVE  z.held[v] # Unknown /\ Engages(z, v) /\ KeepsVar(c, b, z, v)
  <2>1. z.held[v] = Moved /\ s.held[v] # Raw /\ Engages(s, v) /\ KeepsVar(c, b, s, v)
    BY <1>1, SlotFacts DEF Gets, Safe
  <2>2. v \in s.scope /\ s.flag[v] = "full" /\ z.scope = s.scope /\ z.flag = s.flag
    BY <2>1 DEF Engages, Gets
  <2>3. Seen(z, v) = Moved /\ Seen(s, v) = s.held[v]
    BY <2>1, <2>2 DEF Seen
  <2>4. s.held[v] \notin {"none", "out"}
    BY UnknownFacts, ContentFacts, SlotFacts DEF StateType
  <2>5. c.move \/ v = c.self
    BY <1>1 DEF Spares
  <2> QED
    BY <2>1, <2>2, <2>3, <2>4, <2>5, ContentFacts, UnknownFacts DEF KeepsVar, Engages
<1>2. ASSUME NEW v \in Var, v # from \/ ~move
      PROVE  z.held[v] # Unknown /\ Engages(z, v) /\ KeepsVar(c, b, z, v)
  <2>1. z.held[v] = s.held[v] /\ z.flag = s.flag /\ z.scope = s.scope
    BY <1>2, SlotFacts DEF Gets
  <2> QED
    BY <2>1 DEF Safe, Engages, KeepsVar, Seen
<1> QED
  BY <1>1, <1>2 DEF Safe

(* has_value_ may be set in a variable that is not there yet.              *)
LEMMA FlagSafe ==
  ASSUME NEW c, NEW b, NEW s \in StateType, NEW z \in StateType, Safe(c, b, s),
         NEW o \in Var, o \notin s.scope, NEW to, Flagged(s, z, o, to)
  PROVE  Safe(c, b, z)
<1>1. ASSUME NEW v \in Var
      PROVE  z.held[v] # Unknown /\ Engages(z, v) /\ KeepsVar(c, b, z, v)
  <2>1. z.held[v] = s.held[v] /\ z.scope = s.scope /\ (z.flag[v] = s.flag[v] \/ v \notin s.scope)
    BY DEF Flagged
  <2> QED
    BY <2>1 DEF Safe, Engages, KeepsVar, Seen
<1> QED
  BY <1>1 DEF Safe

LEMMA Returned ==
  ASSUME NEW c, NEW b, NEW z \in StateType, \A v \in Var : Engages(z, v),
         z.held[Temporary] = Raw, z.held[Argument] = Raw, Effects(c, b, z)
  PROVE  Over(c, b, "returned", z)
<1>1. Engages(z, Temporary) /\ Engages(z, Argument)
  BY SlotFacts DEF Engages, StateType
<1> QED
  BY <1>1 DEF Over, Slot

Same(s, z, v) ==
  z.held[v] = s.held[v] /\ z.flag[v] = s.flag[v] /\ (v \in z.scope <=> v \in s.scope)

LEMMA SameSeen ==
  ASSUME NEW b, NEW s, NEW arg, Starts(b, s, arg), NEW z, NEW v \in Var, Same(s, z, v)
  PROVE  Engages(z, v) /\ Seen(z, v) = b[v]
BY SlotFacts DEF Starts, Same, Engages, Seen

(* What a call has done when it is over.                                   *)
LEMMA ClearOver ==
  ASSUME NEW b, NEW s, NEW arg, Starts(b, s, arg), NEW z \in StateType,
         NEW o \in Var, \A v \in Var \ {o} : Same(s, z, v),
         z.held[Temporary] = Raw, z.held[Argument] = Raw,
         o \in z.scope, z.flag[o] = "empty", z.held[o] = Raw
  PROVE  Over(Called("clear", o, o, FALSE), b, "returned", z)
<1> PICK c : c = Called("clear", o, o, FALSE)
  OBVIOUS
<1>1. ASSUME NEW v \in Var \ {o} PROVE Engages(z, v) /\ Seen(z, v) = b[v]
  <2>1. v \in Var /\ Same(s, z, v)
    OBVIOUS
  <2> QED
    BY ONLY <2>1, Starts(b, s, arg), SameSeen
<1>2. Engages(z, o) /\ Seen(z, o) = "none"
  BY DEF Engages, Seen
<1>3. Effects(c, b, z)
  BY <1>1, <1>2, SlotFacts DEF Effects, Called
<1> QED
  BY <1>1, <1>2, <1>3, Returned

LEMMA DestroyOver ==
  ASSUME NEW b, NEW s, NEW arg, Starts(b, s, arg), NEW z \in StateType,
         NEW o \in Var, \A v \in Var \ {o} : Same(s, z, v),
         z.held[Temporary] = Raw, z.held[Argument] = Raw,
         o \notin z.scope, z.held[o] = Raw
  PROVE  Over(Called("destroy", o, o, FALSE), b, "returned", z)
<1> PICK c : c = Called("destroy", o, o, FALSE)
  OBVIOUS
<1>1. ASSUME NEW v \in Var \ {o} PROVE Engages(z, v) /\ Seen(z, v) = b[v]
  <2>1. v \in Var /\ Same(s, z, v)
    OBVIOUS
  <2> QED
    BY ONLY <2>1, Starts(b, s, arg), SameSeen
<1>2. Engages(z, o) /\ Seen(z, o) = "out"
  BY DEF Engages, Seen
<1>3. Effects(c, b, z)
  BY <1>1, <1>2, SlotFacts DEF Effects, Called
<1> QED
  BY <1>1, <1>2, <1>3, Returned

LEMMA TakeOver ==
  ASSUME NEW b, NEW s, NEW arg, Starts(b, s, arg), NEW z \in StateType,
         NEW o \in Var, NEW p \in Var, o # p, p \in s.scope, NEW move \in BOOLEAN,
         \A v \in Var \ {o, p} : Same(s, z, v),
         z.held[Temporary] = Raw, z.held[Argument] = Raw,
         o \in z.scope, z.flag[o] = "full" <=> Full(p), z.held[o] = s.held[p],
         p \in z.scope, z.flag[p] = s.flag[p],
         z.held[p] = IF move /\ Full(p) THEN Moved ELSE s.held[p]
  PROVE  Over(Called("take", o, p, move), b, "returned", z)
<1> PICK c : c = Called("take", o, p, move)
  OBVIOUS
<1>1. ASSUME NEW v \in Var \ {o, p} PROVE Engages(z, v) /\ Seen(z, v) = b[v]
  <2>1. v \in Var /\ Same(s, z, v)
    OBVIOUS
  <2> QED
    BY ONLY <2>1, Starts(b, s, arg), SameSeen
<1>2. /\ b[p] = Seen(s, p) /\ Engages(s, p) /\ (Full(p) <=> s.flag[p] = "full")
      /\ s.held[p] \in Content
  BY StartFacts, SlotFacts DEF Starts
<1>3. Engages(z, o) /\ Engages(z, p)
  BY <1>2, ContentFacts DEF Engages
<1>4. Seen(z, o) = b[p]
  BY <1>2 DEF Seen
<1>5. b[p] = "none" <=> ~Full(p)
  BY <1>2, ContentFacts DEF Seen
<1>6. Seen(z, p) = IF move /\ b[p] # "none" THEN Moved ELSE b[p]
  BY <1>2, <1>5 DEF Seen
<1>7. Effects(c, b, z)
  BY <1>1, <1>4, <1>6, SlotFacts DEF Effects, Called
<1> QED
  BY <1>1, <1>3, <1>7, Returned

(* From the variable itself.                                               *)
LEMMA TakeSelfOver ==
  ASSUME NEW b, NEW s, NEW arg, Starts(b, s, arg), NEW z \in StateType,
         NEW o \in Var, NEW move \in BOOLEAN,
         \A v \in Var \ {o} : Same(s, z, v),
         z.held[Temporary] = Raw, z.held[Argument] = Raw,
         IF move THEN Engages(z, o) ELSE Same(s, z, o)
  PROVE  Over(Called("take", o, o, move), b, "returned", z)
<1> PICK c : c = Called("take", o, o, move)
  OBVIOUS
<1>1. ASSUME NEW v \in Var \ {o} PROVE Engages(z, v) /\ Seen(z, v) = b[v]
  <2>1. v \in Var /\ Same(s, z, v)
    OBVIOUS
  <2> QED
    BY ONLY <2>1, Starts(b, s, arg), SameSeen
<1>2. Engages(z, o) /\ (move \/ Seen(z, o) = b[o])
  BY SameSeen
<1>3. Effects(c, b, z)
  BY <1>1, <1>2, SlotFacts DEF Effects, Called
<1> QED
  BY <1>1, <1>2, <1>3, Returned

LEMMA TakeValueOver ==
  ASSUME NEW b, NEW s, NEW arg \in Value, Starts(b, s, arg), NEW z \in StateType,
         NEW o \in Var, NEW move \in BOOLEAN, NEW op \in {"take", "emplace"},
         \A v \in Var \ {o} : Same(s, z, v),
         z.held[Temporary] = Raw, z.held[Argument] = Raw,
         o \in z.scope, z.flag[o] = "full", z.held[o] = arg
  PROVE  Over(Called(op, o, Argument, move), b, "returned", z)
<1> PICK c : c = Called(op, o, Argument, move)
  OBVIOUS
<1>1. ASSUME NEW v \in Var \ {o} PROVE Engages(z, v) /\ Seen(z, v) = b[v]
  <2>1. v \in Var /\ Same(s, z, v)
    OBVIOUS
  <2> QED
    BY ONLY <2>1, Starts(b, s, arg), SameSeen
<1>2. b[Argument] = arg /\ arg # Raw
  BY SlotFacts, ContentFacts DEF Starts, Seen
<1>3. Engages(z, o) /\ Seen(z, o) = arg
  BY <1>2 DEF Engages, Seen
<1>4. Effects(c, b, z)
  BY <1>1, <1>2, <1>3, SlotFacts DEF Effects, Called
<1> QED
  BY <1>1, <1>3, <1>4, Returned

LEMMA SwapOver ==
  ASSUME NEW b, NEW s, NEW arg, Starts(b, s, arg), NEW z \in StateType,
         NEW o \in Var, NEW p \in Var, {o, p} \subseteq s.scope, {o, p} \subseteq z.scope,
         \A v \in Var \ {o, p} : Same(s, z, v),
         z.held[Temporary] = Raw, z.held[Argument] = Raw,
         z.flag[o] = "full" <=> Full(p), z.held[o] = s.held[p],
         z.flag[p] = "full" <=> Full(o), z.held[p] = s.held[o]
  PROVE  Over(Called("swap", o, p, TRUE), b, "returned", z)
<1> PICK c : c = Called("swap", o, p, TRUE)
  OBVIOUS
<1>1. ASSUME NEW v \in Var \ {o, p} PROVE Engages(z, v) /\ Seen(z, v) = b[v]
  <2>1. v \in Var /\ Same(s, z, v)
    OBVIOUS
  <2> QED
    BY ONLY <2>1, Starts(b, s, arg), SameSeen
<1>2. /\ b[p] = Seen(s, p) /\ Engages(s, p) /\ (Full(p) <=> s.flag[p] = "full")
      /\ b[o] = Seen(s, o) /\ Engages(s, o) /\ (Full(o) <=> s.flag[o] = "full")
  BY StartFacts, SlotFacts DEF Starts
<1>3. Engages(z, o) /\ Engages(z, p)
  BY <1>2 DEF Engages
<1>4. Seen(z, o) = b[p] /\ Seen(z, p) = b[o]
  BY <1>2 DEF Seen
<1>5. Effects(c, b, z)
  BY <1>1, <1>4, SlotFacts DEF Effects, Called
<1> QED
  BY <1>1, <1>3, <1>5, Returned

-----------------------------------------------------------------------------
(* Constructors and the destructor.                                        *)
LEMMA DefaultConstructSucceeds ==
  ASSUME NEW b, NEW s, Starts(b, s, Raw), NEW o \in Var, o \notin in_scope
  PROVE  Succeeds(Called("clear", o, o, FALSE), b, DefaultConstruct(o), s)
<1> PICK c : c = Called("clear", o, o, FALSE)
  OBVIOUS
<1>1. /\ s \in StateType /\ o \notin s.scope /\ o \in Slot
      /\ s.held[o] = Raw /\ s.held[Temporary] = Raw /\ s.held[Argument] = Raw
  BY StartFacts, SlotFacts DEF Starts
<1>2. PICK s1 \in StateType : Leads(c, b, SetFlag(o, FALSE), s, s1) /\ Flagged(s, s1, o, "empty")
  BY <1>1, SetFlagLeads
<1>3. s1.flag[o] # "unset"
  BY <1>2 DEF Flagged
<1>4. PICK s2 \in StateType : Leads(c, b, Enter(o), s1, s2) /\ Scoped(s1, s2, s1.scope \cup {o})
  BY <1>3, ScopeLeads
<1>5. /\ \A v \in Var \ {o} : Same(s, s2, v)
      /\ s2.held[Temporary] = Raw /\ s2.held[Argument] = Raw
      /\ o \in s2.scope /\ s2.flag[o] = "empty" /\ s2.held[o] = Raw
  BY <1>1, <1>2, <1>4 DEF Flagged, Scoped, Same
<1>6. Over(c, b, "returned", s2)
  BY ONLY Starts(b, s, Raw), o \in Var, s2 \in StateType, c = Called("clear", o, o, FALSE),
     <1>5, ClearOver
<1> QED
  BY <1>2, <1>4, <1>6, Course2 DEF DefaultConstruct, Succeeds

LEMMA ConstructFromSucceeds ==
  ASSUME NEW b, NEW s, Starts(b, s, Raw), NEW o \in Var, o \notin in_scope,
         NEW p \in in_scope, NEW move \in BOOLEAN
  PROVE  Succeeds(Called("take", o, p, move), b, ConstructFrom(o, p, move), s)
<1> PICK c : c = Called("take", o, p, move)
  OBVIOUS
<1>1. /\ s \in StateType /\ o \notin s.scope /\ p \in s.scope /\ p \in Var /\ o # p
      /\ o \in Slot /\ p \in Slot /\ Temporary \in Slot /\ Argument \in Slot
      /\ \A v \in Var : v \in Slot /\ v # Temporary /\ v # Argument
      /\ s.held[o] = Raw /\ s.held[Temporary] = Raw /\ s.held[Argument] = Raw
      /\ s.held[p] # Raw <=> Full(p)
      /\ Full(p) <=> s.flag[p] = "full"
  BY StartFacts, SlotFacts DEF Starts
<1>2. Safe(c, b, s)
  BY StartSafe
<1>3. PICK f \in {"full", "empty"} : f = IF Full(p) THEN "full" ELSE "empty"
  OBVIOUS
<1>4. PICK s1 \in StateType : Leads(c, b, SetFlag(o, Full(p)), s, s1) /\ Flagged(s, s1, o, f)
  BY <1>1, <1>3, SetFlagLeads DEF Full
<1>5. s1.flag[o] # "unset" /\ s1.held = s.held /\ Safe(c, b, s1)
  BY <1>1, <1>2, <1>3, <1>4, FlagSafe DEF Flagged
<1>6. CASE Full(p)
  <2>1. Spares(c, p, move)
    BY DEF Spares, Called
  <2>2. PICK s2 \in StateType :
          Leads(c, b, Construct(o, p, move), s1, s2) /\ Gets(s1, s2, o, p, move)
    BY <1>1, <1>5, <1>6, <2>1, ConstructLeads
  <2>3. s2.flag[o] # "unset"
    BY <1>5, <2>2 DEF Gets
  <2>4. PICK s3 \in StateType : Leads(c, b, Enter(o), s2, s3) /\ Scoped(s2, s3, s2.scope \cup {o})
    BY <2>3, ScopeLeads
  <2>5. /\ \A v \in Var \ {o, p} : Same(s, s3, v)
        /\ s3.held[Temporary] = Raw /\ s3.held[Argument] = Raw
        /\ o \in s3.scope /\ (s3.flag[o] = "full" <=> Full(p)) /\ s3.held[o] = s.held[p]
        /\ p \in s3.scope /\ s3.flag[p] = s.flag[p]
        /\ s3.held[p] = IF move /\ Full(p) THEN Moved ELSE s.held[p]
    BY <1>1, <1>3, <1>4, <1>6, <2>2, <2>4 DEF Flagged, Gets, Scoped, Same
  <2>6. Over(c, b, "returned", s3)
    BY <1>1, <2>5, TakeOver
  <2>7. Succeeds(c, b, <<SetFlag(o, Full(p)), Construct(o, p, move), Enter(o)>>, s)
    BY ONLY <1>4, <2>2, <2>4, <2>6, Course3 DEF Succeeds
  <2> QED
    BY <1>6, <2>7, ConstructFromSteps
<1>7. CASE ~Full(p)
  <2>1. PICK s2 \in StateType : Leads(c, b, Enter(o), s1, s2) /\ Scoped(s1, s2, s1.scope \cup {o})
    BY <1>5, ScopeLeads
  <2>2. /\ \A v \in Var \ {o, p} : Same(s, s2, v)
        /\ s2.held[Temporary] = Raw /\ s2.held[Argument] = Raw
        /\ o \in s2.scope /\ (s2.flag[o] = "full" <=> Full(p)) /\ s2.held[o] = s.held[p]
        /\ p \in s2.scope /\ s2.flag[p] = s.flag[p]
        /\ s2.held[p] = IF move /\ Full(p) THEN Moved ELSE s.held[p]
    BY <1>1, <1>3, <1>4, <1>7, <2>1 DEF Flagged, Scoped, Same
  <2>3. Over(c, b, "returned", s2)
    BY <1>1, <2>2, TakeOver
  <2>4. Succeeds(c, b, <<SetFlag(o, Full(p)), Enter(o)>>, s)
    BY ONLY <1>4, <2>1, <2>3, Course2 DEF Succeeds
  <2> QED
    BY <1>7, <2>4, ConstructFromSteps
<1> QED
  BY <1>6, <1>7

LEMMA ConvertFromSucceeds ==
  ASSUME NEW b, NEW s, Starts(b, s, Raw), NEW o \in Var, o \notin in_scope,
         NEW p \in in_scope, NEW move \in BOOLEAN
  PROVE  Succeeds(Called("take", o, p, move), b, ConvertFrom(o, p, move), s)
<1> PICK c : c = Called("take", o, p, move)
  OBVIOUS
<1>1. /\ s \in StateType /\ o \notin s.scope /\ p \in s.scope /\ p \in Var /\ o # p
      /\ o \in Slot /\ p \in Slot /\ Temporary \in Slot /\ Argument \in Slot
      /\ Temporary \notin Var /\ Temporary # Argument
      /\ \A v \in Var : v \in Slot /\ v # Temporary /\ v # Argument
      /\ s.held[o] = Raw /\ s.held[Temporary] = Raw /\ s.held[Argument] = Raw
      /\ s.held[p] # Raw <=> Full(p)
      /\ Full(p) <=> s.flag[p] = "full"
  BY StartFacts, SlotFacts DEF Starts
<1>2. Safe(c, b, s)
  BY StartSafe
<1>3. PICK f \in {"full", "empty"} : f = IF Full(p) THEN "full" ELSE "empty"
  OBVIOUS
<1>4. PICK s1 \in StateType : Leads(c, b, SetFlag(o, Full(p)), s, s1) /\ Flagged(s, s1, o, f)
  BY <1>1, <1>3, SetFlagLeads DEF Full
<1>5. s1.flag[o] # "unset" /\ s1.held = s.held /\ Safe(c, b, s1)
  BY <1>1, <1>2, <1>3, <1>4, FlagSafe DEF Flagged
<1>6. CASE Full(p)
  <2>1. Spares(c, p, move) /\ Spares(c, Temporary, TRUE)
    BY <1>1 DEF Spares, Called
  <2>2. PICK s2 \in StateType :
          Leads(c, b, Construct(Temporary, p, move), s1, s2) /\ Gets(s1, s2, Temporary, p, move)
    BY <1>1, <1>5, <1>6, <2>1, ConstructLeads
  <2>3. Safe(c, b, s2)
    BY <1>1, <1>5, <1>6, <2>1, <2>2, TransferSafe
  <2>4. s2.held[o] = Raw /\ s2.held[Temporary] # Raw
    BY <1>1, <1>5, <1>6, <2>2 DEF Gets
  <2>5. PICK s3 \in StateType :
          Leads(c, b, Construct(o, Temporary, TRUE), s2, s3) /\ Gets(s2, s3, o, Temporary, TRUE)
    BY <1>1, <2>1, <2>3, <2>4, ConstructLeads
  <2>6. s3.held[Temporary] # Raw
    BY <1>1, <2>5, ContentFacts DEF Gets
  <2>7. PICK s4 \in StateType :
          Leads(c, b, Destruct(Temporary), s3, s4) /\ Loses(s3, s4, Temporary)
    BY <1>1, <2>6, DestructLeads
  <2>8. s4.flag[o] # "unset"
    BY <1>5, <2>2, <2>5, <2>7 DEF Gets, Loses
  <2>9. PICK s5 \in StateType : Leads(c, b, Enter(o), s4, s5) /\ Scoped(s4, s5, s4.scope \cup {o})
    BY <2>8, ScopeLeads
  <2>10. /\ \A v \in Var \ {o, p} : Same(s, s5, v)
         /\ s5.held[Temporary] = Raw /\ s5.held[Argument] = Raw
         /\ o \in s5.scope /\ (s5.flag[o] = "full" <=> Full(p)) /\ s5.held[o] = s.held[p]
         /\ p \in s5.scope /\ s5.flag[p] = s.flag[p]
         /\ s5.held[p] = IF move /\ Full(p) THEN Moved ELSE s.held[p]
    BY <1>1, <1>3, <1>4, <1>6, <2>2, <2>5, <2>7, <2>9
    DEF Flagged, Gets, Loses, Scoped, Same
  <2>11. Over(c, b, "returned", s5)
    BY <1>1, <2>10, TakeOver
  <2>12. Succeeds(c, b, <<SetFlag(o, Full(p)), Construct(Temporary, p, move),
                          Construct(o, Temporary, TRUE), Destruct(Temporary), Enter(o)>>, s)
    BY ONLY <1>4, <2>2, <2>5, <2>7, <2>9, <2>11, Course5 DEF Succeeds
  <2> QED
    BY <1>6, <2>12, ConvertFromSteps
<1>7. CASE ~Full(p)
  <2>1. PICK s2 \in StateType : Leads(c, b, Enter(o), s1, s2) /\ Scoped(s1, s2, s1.scope \cup {o})
    BY <1>5, ScopeLeads
  <2>2. /\ \A v \in Var \ {o, p} : Same(s, s2, v)
        /\ s2.held[Temporary] = Raw /\ s2.held[Argument] = Raw
        /\ o \in s2.scope /\ (s2.flag[o] = "full" <=> Full(p)) /\ s2.held[o] = s.held[p]
        /\ p \in s2.scope /\ s2.flag[p] = s.flag[p]
        /\ s2.held[p] = IF move /\ Full(p) THEN Moved ELSE s.held[p]
    BY <1>1, <1>3, <1>4, <1>7, <2>1 DEF Flagged, Scoped, Same
  <2>3. Over(c, b, "returned", s2)
    BY <1>1, <2>2, TakeOver
  <2>4. Succeeds(c, b, <<SetFlag(o, Full(p)), Enter(o)>>, s)
    BY ONLY <1>4, <2>1, <2>3, Course2 DEF Succeeds
  <2> QED
    BY <1>7, <2>4, ConvertFromSteps
<1> QED
  BY <1>6, <1>7

LEMMA ConstructValueSucceeds ==
  ASSUME NEW b, NEW s, NEW value \in Value, Starts(b, s, value), NEW o \in Var,
         o \notin in_scope, NEW move \in BOOLEAN
  PROVE  Succeeds(Called("take", o, Argument, move), b,
                  Append(ConstructValue(o, move), Destruct(Argument)), s)
<1> PICK c : c = Called("take", o, Argument, move)
  OBVIOUS
<1>1. /\ s \in StateType /\ o \notin s.scope /\ o \in Slot
      /\ Temporary \in Slot /\ Argument \in Slot
      /\ Argument \notin Var /\ Temporary # Argument
      /\ \A v \in Var : v \in Slot /\ v # Temporary /\ v # Argument
      /\ s.held[o] = Raw /\ s.held[Temporary] = Raw /\ s.held[Argument] = value /\ value # Raw
  BY StartFacts, SlotFacts, ContentFacts DEF Starts
<1>2. Safe(c, b, s)
  BY StartSafe
<1>3. PICK s1 \in StateType : Leads(c, b, SetFlag(o, TRUE), s, s1) /\ Flagged(s, s1, o, "full")
  BY <1>1, SetFlagLeads
<1>4. s1.flag[o] # "unset" /\ s1.held = s.held /\ Safe(c, b, s1)
  BY <1>1, <1>2, <1>3, FlagSafe DEF Flagged
<1>5. Spares(c, Argument, move)
  BY <1>1 DEF Spares
<1>6. PICK s2 \in StateType :
        Leads(c, b, Construct(o, Argument, move), s1, s2) /\ Gets(s1, s2, o, Argument, move)
  BY <1>1, <1>4, <1>5, ConstructLeads
<1>7. s2.flag[o] # "unset"
  BY <1>4, <1>6 DEF Gets
<1>8. PICK s3 \in StateType : Leads(c, b, Enter(o), s2, s3) /\ Scoped(s2, s3, s2.scope \cup {o})
  BY <1>7, ScopeLeads
<1>9. s3.held[Argument] # Raw
  BY <1>1, <1>4, <1>6, <1>8, ContentFacts DEF Gets, Scoped
<1>10. PICK s4 \in StateType :
         Leads(c, b, Destruct(Argument), s3, s4) /\ Loses(s3, s4, Argument)
  BY <1>1, <1>9, DestructLeads
<1>11. /\ \A v \in Var \ {o} : Same(s, s4, v)
       /\ s4.held[Temporary] = Raw /\ s4.held[Argument] = Raw
       /\ o \in s4.scope /\ s4.flag[o] = "full" /\ s4.held[o] = value
  BY <1>1, <1>3, <1>6, <1>8, <1>10 DEF Flagged, Gets, Loses, Scoped, Same
<1>12. Over(c, b, "returned", s4)
  BY <1>1, <1>11, TakeValueOver
<1>13. Succeeds(c, b, <<SetFlag(o, TRUE), Construct(o, Argument, move), Enter(o),
                        Destruct(Argument)>>, s)
  BY ONLY <1>3, <1>6, <1>8, <1>10, <1>12, Course4 DEF Succeeds
<1> QED
  BY <1>13, ValueSteps

LEMMA ConstructInPlaceSucceeds ==
  ASSUME NEW b, NEW s, NEW value \in Value, Starts(b, s, value), NEW o \in Var,
         o \notin in_scope, NEW move \in BOOLEAN
  PROVE  Succeeds(Called("take", o, Argument, move), b,
                  Append(ConstructInPlace(o, move), Destruct(Argument)), s)
<1> PICK c : c = Called("take", o, Argument, move)
  OBVIOUS
<1>1. /\ s \in StateType /\ o \notin s.scope /\ o \in Slot
      /\ Temporary \in Slot /\ Argument \in Slot
      /\ Argument \notin Var /\ Temporary \notin Var /\ Temporary # Argument
      /\ \A v \in Var : v \in Slot /\ v # Temporary /\ v # Argument
      /\ s.held[o] = Raw /\ s.held[Temporary] = Raw /\ s.held[Argument] = value /\ value # Raw
  BY StartFacts, SlotFacts, ContentFacts DEF Starts
<1>2. Safe(c, b, s)
  BY StartSafe
<1>3. PICK s1 \in StateType : Leads(c, b, SetFlag(o, TRUE), s, s1) /\ Flagged(s, s1, o, "full")
  BY <1>1, SetFlagLeads
<1>4. s1.flag[o] # "unset" /\ s1.held = s.held /\ Safe(c, b, s1)
  BY <1>1, <1>2, <1>3, FlagSafe DEF Flagged
<1>5. Spares(c, Argument, move) /\ Spares(c, Temporary, TRUE)
  BY <1>1 DEF Spares
<1>6. PICK s2 \in StateType :
        /\ Leads(c, b, Construct(Temporary, Argument, move), s1, s2)
        /\ Gets(s1, s2, Temporary, Argument, move)
  BY <1>1, <1>4, <1>5, ConstructLeads
<1>7. Safe(c, b, s2)
  BY <1>1, <1>4, <1>5, <1>6, TransferSafe
<1>8. s2.held[o] = Raw /\ s2.held[Temporary] # Raw
  BY <1>1, <1>4, <1>6 DEF Gets
<1>9. PICK s3 \in StateType :
        Leads(c, b, Construct(o, Temporary, TRUE), s2, s3) /\ Gets(s2, s3, o, Temporary, TRUE)
  BY <1>1, <1>5, <1>7, <1>8, ConstructLeads
<1>10. s3.held[Temporary] # Raw
  BY <1>1, <1>9, ContentFacts DEF Gets
<1>11. PICK s4 \in StateType :
         Leads(c, b, Destruct(Temporary), s3, s4) /\ Loses(s3, s4, Temporary)
  BY <1>1, <1>10, DestructLeads
<1>12. s4.flag[o] # "unset"
  BY <1>4, <1>6, <1>9, <1>11 DEF Gets, Loses
<1>13. PICK s5 \in StateType : Leads(c, b, Enter(o), s4, s5) /\ Scoped(s4, s5, s4.scope \cup {o})
  BY <1>12, ScopeLeads
<1>14. s5.held[Argument] # Raw
  BY <1>1, <1>4, <1>6, <1>9, <1>11, <1>13, ContentFacts DEF Gets, Loses, Scoped
<1>15. PICK s6 \in StateType :
         Leads(c, b, Destruct(Argument), s5, s6) /\ Loses(s5, s6, Argument)
  BY <1>1, <1>14, DestructLeads
<1>16. /\ \A v \in Var \ {o} : Same(s, s6, v)
       /\ s6.held[Temporary] = Raw /\ s6.held[Argument] = Raw
       /\ o \in s6.scope /\ s6.flag[o] = "full" /\ s6.held[o] = value
  BY <1>1, <1>3, <1>6, <1>9, <1>11, <1>13, <1>15 DEF Flagged, Gets, Loses, Scoped, Same
<1>17. Over(c, b, "returned", s6)
  BY <1>1, <1>16, TakeValueOver
<1>18. Succeeds(c, b, <<SetFlag(o, TRUE), Construct(Temporary, Argument, move),
                        Construct(o, Temporary, TRUE), Destruct(Temporary), Enter(o),
                        Destruct(Argument)>>, s)
  BY ONLY <1>3, <1>6, <1>9, <1>11, <1>13, <1>15, <1>17, Course6 DEF Succeeds
<1> QED
  BY <1>18, ValueSteps

LEMMA DestroySucceeds ==
  ASSUME NEW b, NEW s, Starts(b, s, Raw), NEW o \in in_scope
  PROVE  Succeeds(Called("destroy", o, o, FALSE), b, Destroy(o), s)
<1> PICK c : c = Called("destroy", o, o, FALSE)
  OBVIOUS
<1>1. /\ s \in StateType /\ o \in s.scope /\ o \in Var /\ o \in Slot
      /\ Temporary \in Slot /\ Argument \in Slot
      /\ \A v \in Var : v \in Slot /\ v # Temporary /\ v # Argument
      /\ s.held[Temporary] = Raw /\ s.held[Argument] = Raw
      /\ s.held[o] # Raw <=> Full(o)
  BY StartFacts, SlotFacts DEF Starts
<1>2. CASE Full(o)
  <2>1. PICK s1 \in StateType : Leads(c, b, Destruct(o), s, s1) /\ Loses(s, s1, o)
    BY <1>1, <1>2, DestructLeads
  <2>2. PICK s2 \in StateType : Leads(c, b, Leave(o), s1, s2) /\ Scoped(s1, s2, s1.scope \ {o})
    BY <1>1, ScopeLeads
  <2>3. /\ \A v \in Var \ {o} : Same(s, s2, v)
        /\ s2.held[Temporary] = Raw /\ s2.held[Argument] = Raw
        /\ o \notin s2.scope /\ s2.held[o] = Raw
    BY <1>1, <2>1, <2>2 DEF Loses, Scoped, Same
  <2>4. Over(c, b, "returned", s2)
    BY <1>1, <2>3, DestroyOver
  <2>5. Succeeds(c, b, <<Destruct(o), Leave(o)>>, s)
    BY ONLY <2>1, <2>2, <2>4, Course2 DEF Succeeds
  <2> QED
    BY <1>2, <2>5, ResetSteps
<1>3. CASE ~Full(o)
  <2>1. PICK s1 \in StateType : Leads(c, b, Leave(o), s, s1) /\ Scoped(s, s1, s.scope \ {o})
    BY <1>1, ScopeLeads
  <2>2. /\ \A v \in Var \ {o} : Same(s, s1, v)
        /\ s1.held[Temporary] = Raw /\ s1.held[Argument] = Raw
        /\ o \notin s1.scope /\ s1.held[o] = Raw
    BY <1>1, <1>3, <2>1 DEF Scoped, Same
  <2>3. Over(c, b, "returned", s1)
    BY <1>1, <2>2, DestroyOver
  <2>4. Succeeds(c, b, <<Leave(o)>>, s)
    BY ONLY <2>1, <2>3, Course1 DEF Succeeds
  <2> QED
    BY <1>3, <2>4, ResetSteps
<1> QED
  BY <1>2, <1>3

-----------------------------------------------------------------------------
(* Modifiers.                                                              *)
LEMMA ResetSucceeds ==
  ASSUME NEW b, NEW s, Starts(b, s, Raw), NEW o \in in_scope
  PROVE  Succeeds(Called("clear", o, o, FALSE), b, Reset(o), s)
<1> PICK c : c = Called("clear", o, o, FALSE)
  OBVIOUS
<1>1. /\ s \in StateType /\ o \in s.scope /\ o \in Var /\ o \in Slot
      /\ Temporary \in Slot /\ Argument \in Slot
      /\ \A v \in Var : v \in Slot /\ v # Temporary /\ v # Argument
      /\ s.held[Temporary] = Raw /\ s.held[Argument] = Raw
      /\ s.held[o] # Raw <=> Full(o)
  BY StartFacts, SlotFacts DEF Starts
<1>2. CASE Full(o)
  <2>1. PICK s1 \in StateType : Leads(c, b, Destruct(o), s, s1) /\ Loses(s, s1, o)
    BY <1>1, <1>2, DestructLeads
  <2>2. PICK s2 \in StateType :
          Leads(c, b, SetFlag(o, FALSE), s1, s2) /\ Flagged(s1, s2, o, "empty")
    BY <1>1, SetFlagLeads
  <2>3. /\ \A v \in Var \ {o} : Same(s, s2, v)
        /\ s2.held[Temporary] = Raw /\ s2.held[Argument] = Raw
        /\ o \in s2.scope /\ s2.flag[o] = "empty" /\ s2.held[o] = Raw
    BY <1>1, <2>1, <2>2 DEF Loses, Flagged, Same
  <2>4. Over(c, b, "returned", s2)
    BY <1>1, <2>3, ClearOver
  <2>5. Succeeds(c, b, <<Destruct(o), SetFlag(o, FALSE)>>, s)
    BY ONLY <2>1, <2>2, <2>4, Course2 DEF Succeeds
  <2> QED
    BY <1>2, <2>5, ResetSteps
<1>3. CASE ~Full(o)
  <2>1. PICK s1 \in StateType : Leads(c, b, SetFlag(o, FALSE), s, s1) /\ Flagged(s, s1, o, "empty")
    BY <1>1, SetFlagLeads
  <2>2. /\ \A v \in Var \ {o} : Same(s, s1, v)
        /\ s1.held[Temporary] = Raw /\ s1.held[Argument] = Raw
        /\ o \in s1.scope /\ s1.flag[o] = "empty" /\ s1.held[o] = Raw
    BY <1>1, <1>3, <2>1 DEF Flagged, Same
  <2>3. Over(c, b, "returned", s1)
    BY <1>1, <2>2, ClearOver
  <2>4. Succeeds(c, b, <<SetFlag(o, FALSE)>>, s)
    BY ONLY <2>1, <2>3, Course1 DEF Succeeds
  <2> QED
    BY <1>3, <2>4, ResetSteps
<1> QED
  BY <1>2, <1>3

(* Between variables that are not both full, or not the same.              *)
LEMMA AssignStepsSucceed ==
  ASSUME NEW b, NEW s, Starts(b, s, Raw), NEW o \in in_scope, NEW p \in in_scope,
         o # p, NEW move \in BOOLEAN
  PROVE  LET c == Called("take", o, p, move)
         IN  /\ Succeeds(c, b, AssignSteps(o, p, p, move), s)
             /\ Succeeds(c, b, NoExcept(AssignSteps(o, p, p, move)), s)
<1> PICK c : c = Called("take", o, p, move)
  OBVIOUS
<1>1. /\ s \in StateType /\ o \in s.scope /\ p \in s.scope /\ o \in Var /\ p \in Var
      /\ o \in Slot /\ p \in Slot /\ Temporary \in Slot /\ Argument \in Slot
      /\ \A v \in Var : v \in Slot /\ v # Temporary /\ v # Argument
      /\ s.held[Temporary] = Raw /\ s.held[Argument] = Raw
      /\ s.held[o] # Raw <=> Full(o)
      /\ s.held[p] # Raw <=> Full(p)
      /\ Full(o) <=> s.flag[o] = "full"
      /\ Full(p) <=> s.flag[p] = "full"
  BY StartFacts, SlotFacts DEF Starts
<1>2. Safe(c, b, s) /\ Spares(c, p, move) /\ Permits(c, o)
  BY StartSafe DEF Spares, Permits, Called
<1>3. CASE ~Full(p) /\ ~Full(o)
  <2>1. /\ \A v \in Var \ {o, p} : Same(s, s, v)
        /\ s.flag[o] = "full" <=> Full(p)
        /\ s.held[o] = s.held[p] /\ s.held[p] = IF move /\ Full(p) THEN Moved ELSE s.held[p]
    BY <1>1, <1>3 DEF Same
  <2>2. Over(c, b, "returned", s)
    BY <1>1, <2>1, TakeOver
  <2>3. <<>> \in Seq(StepType)
    OBVIOUS
  <2>4. Succeeds(c, b, <<>>, s)
    BY <1>1, <2>2, <2>3, CourseEnd DEF Succeeds
  <2> QED
    BY <1>3, <2>4, AssignStepsAre
<1>4. CASE ~Full(p) /\ Full(o)
  <2>1. ASSUME NEW a \in {Destruct(o), Quiet(Destruct(o))},
               NEW d \in {SetFlag(o, FALSE), Quiet(SetFlag(o, FALSE))}
        PROVE  Succeeds(c, b, <<a, d>>, s)
    <3>1. PICK s1 \in StateType : Leads(c, b, a, s, s1) /\ Loses(s, s1, o)
      BY <1>1, <1>4, DestructLeads
    <3>2. PICK s2 \in StateType : Leads(c, b, d, s1, s2) /\ Flagged(s1, s2, o, "empty")
      BY <1>1, SetFlagLeads
    <3>3. /\ \A v \in Var \ {o, p} : Same(s, s2, v)
          /\ s2.held[Temporary] = Raw /\ s2.held[Argument] = Raw
          /\ o \in s2.scope /\ (s2.flag[o] = "full" <=> Full(p)) /\ s2.held[o] = s.held[p]
          /\ p \in s2.scope /\ s2.flag[p] = s.flag[p]
          /\ s2.held[p] = IF move /\ Full(p) THEN Moved ELSE s.held[p]
      BY <1>1, <1>4, <3>1, <3>2 DEF Loses, Flagged, Same
    <3>4. Over(c, b, "returned", s2)
      BY <1>1, <3>3, TakeOver
    <3> QED
      BY ONLY <3>1, <3>2, <3>4, Course2 DEF Succeeds
  <2> QED
    BY <1>4, <2>1, AssignStepsAre
<1>5. CASE Full(p) /\ Full(o)
  <2>1. ASSUME NEW a \in {Assign(o, p, move), Quiet(Assign(o, p, move))}
        PROVE  Succeeds(c, b, <<a>>, s)
    <3>1. PICK s1 \in StateType : Leads(c, b, a, s, s1) /\ Gets(s, s1, o, p, move)
      <4>1. s.held[o] # Raw /\ s.held[p] # Raw /\ o # p
        BY <1>1, <1>5
      <4>2. s \in StateType /\ o \in Slot /\ p \in Slot
        BY <1>1
      <4>3. move \in BOOLEAN /\ a \in {Assign(o, p, move), Quiet(Assign(o, p, move))}
        OBVIOUS
      <4>4. Safe(c, b, s) /\ Spares(c, p, move) /\ Permits(c, o)
        BY <1>2
      <4> QED
        BY ONLY <4>1, <4>2, <4>3, <4>4, EitherAssignLeads
    <3>2. /\ \A v \in Var \ {o, p} : Same(s, s1, v)
          /\ s1.held[Temporary] = Raw /\ s1.held[Argument] = Raw
          /\ o \in s1.scope /\ (s1.flag[o] = "full" <=> Full(p)) /\ s1.held[o] = s.held[p]
          /\ p \in s1.scope /\ s1.flag[p] = s.flag[p]
          /\ s1.held[p] = IF move /\ Full(p) THEN Moved ELSE s.held[p]
      BY <1>1, <1>5, <3>1 DEF Gets, Same
    <3>3. Over(c, b, "returned", s1)
      BY <1>1, <3>2, TakeOver
    <3> QED
      BY ONLY <3>1, <3>3, Course1 DEF Succeeds
  <2>2. /\ Succeeds(c, b, <<Assign(o, p, move)>>, s)
        /\ Succeeds(c, b, <<Quiet(Assign(o, p, move))>>, s)
    BY <2>1
  <2>3. AssignSteps(o, p, p, move) = <<Assign(o, p, move)>>
    BY <1>5 DEF AssignSteps
  <2>4. NoExcept(AssignSteps(o, p, p, move)) = <<Quiet(Assign(o, p, move))>>
    BY ONLY <2>3, NoExcepts
  <2> QED
    BY <2>2, <2>3, <2>4
<1>6. CASE Full(p) /\ ~Full(o)
  <2>1. ASSUME NEW a \in {Construct(o, p, move), Quiet(Construct(o, p, move))},
               NEW d \in {SetFlag(o, TRUE), Quiet(SetFlag(o, TRUE))}
        PROVE  Succeeds(c, b, <<a, d>>, s)
    <3>1. PICK s1 \in StateType : Leads(c, b, a, s, s1) /\ Gets(s, s1, o, p, move)
      BY <1>1, <1>2, <1>6, EitherConstructLeads
    <3>2. PICK s2 \in StateType : Leads(c, b, d, s1, s2) /\ Flagged(s1, s2, o, "full")
      BY <1>1, SetFlagLeads
    <3>3. /\ \A v \in Var \ {o, p} : Same(s, s2, v)
          /\ s2.held[Temporary] = Raw /\ s2.held[Argument] = Raw
          /\ o \in s2.scope /\ (s2.flag[o] = "full" <=> Full(p)) /\ s2.held[o] = s.held[p]
          /\ p \in s2.scope /\ s2.flag[p] = s.flag[p]
          /\ s2.held[p] = IF move /\ Full(p) THEN Moved ELSE s.held[p]
      BY <1>1, <1>6, <3>1, <3>2 DEF Gets, Flagged, Same
    <3>4. Over(c, b, "returned", s2)
      BY <1>1, <3>3, TakeOver
    <3> QED
      BY ONLY <3>1, <3>2, <3>4, Course2 DEF Succeeds
  <2> QED
    BY <1>6, <2>1, AssignStepsAre
<1> QED
  BY <1>3, <1>4, <1>5, <1>6

LEMMA AssignSelfSucceeds ==
  ASSUME NEW b, NEW s, Starts(b, s, Raw), NEW o \in in_scope, NEW move \in BOOLEAN
  PROVE  LET c == Called("take", o, o, move)
         IN  /\ ~move => Succeeds(c, b, AssignSteps(o, o, o, move), s)
             /\ Succeeds(c, b, NoExcept(AssignSteps(o, o, o, move)), s)
<1> PICK c : c = Called("take", o, o, move)
  OBVIOUS
<1>1. /\ s \in StateType /\ o \in s.scope /\ o \in Var /\ o \in Slot
      /\ Temporary \in Slot /\ Argument \in Slot
      /\ \A v \in Var : v \in Slot /\ v # Temporary /\ v # Argument
      /\ s.held[Temporary] = Raw /\ s.held[Argument] = Raw
      /\ s.held[o] # Raw <=> Full(o)
      /\ Full(o) <=> s.flag[o] = "full"
  BY StartFacts, SlotFacts DEF Starts
<1>2. Safe(c, b, s) /\ Spares(c, o, move) /\ Permits(c, o)
  BY StartSafe DEF Spares, Permits, Called
<1>3. CASE ~Full(o)
  <2>1. \A v \in Var : Same(s, s, v)
    BY DEF Same
  <2>2. Engages(s, o)
    BY <1>1 DEF Starts
  <2>3. Over(c, b, "returned", s)
    BY <1>1, <2>1, <2>2, TakeSelfOver
  <2>4. <<>> \in Seq(StepType)
    OBVIOUS
  <2>5. Succeeds(c, b, <<>>, s)
    BY <1>1, <2>3, <2>4, CourseEnd DEF Succeeds
  <2> QED
    BY <1>3, <2>5, AssignStepsAre
<1>4. CASE Full(o) /\ ~move
  <2>1. ASSUME NEW a \in StepType, NEW s1 \in StateType,
               Leads(c, b, a, s, s1), Gets(s, s1, o, o, move)
        PROVE  Succeeds(c, b, <<a>>, s)
    <3>1. /\ \A v \in Var : Same(s, s1, v)
          /\ s1.held[Temporary] = Raw /\ s1.held[Argument] = Raw
      BY <1>1, <1>4, <2>1 DEF Gets, Same
    <3>2. Engages(s1, o)
      BY <1>1, <3>1, SameSeen
    <3>3. Over(c, b, "returned", s1)
      BY <1>1, <3>1, <3>2, TakeSelfOver
    <3> QED
      BY ONLY <2>1, <3>3, Course1 DEF Succeeds
  <2>2. s.held[o] # Raw /\ (o # o \/ ~move \/ s.held[o] = Moved)
    BY <1>1, <1>4
  <2>3. Succeeds(c, b, <<Assign(o, o, move)>>, s)
    BY <1>1, <1>2, <2>1, <2>2, AssignLeads, StepKinds
  <2>4. Succeeds(c, b, <<Quiet(Assign(o, o, move))>>, s)
    <3>1. PICK a \in StepType : a = Quiet(Assign(o, o, move))
      BY <1>1, StepKinds, QuietKinds
    <3>2. \E s1 \in StateType : Leads(c, b, a, s, s1) /\ Gets(s, s1, o, o, move)
      BY <1>1, <2>2, <3>1, QuietAssignLeads
    <3> QED
      BY <2>1, <3>1, <3>2
  <2>5. AssignSteps(o, o, o, move) = <<Assign(o, o, move)>>
    BY <1>4 DEF AssignSteps
  <2>6. NoExcept(AssignSteps(o, o, o, move)) = <<Quiet(Assign(o, o, move))>>
    BY ONLY <2>5, NoExcepts
  <2> QED
    BY <2>3, <2>4, <2>5, <2>6
<1>5. CASE Full(o) /\ move
  <2> PICK a : a = Quiet(Assign(o, o, TRUE))
    OBVIOUS
  <2>1. PICK s1 \in StateType : Leads(c, b, a, s, s1) /\ Remains(s, s1, o)
    BY <1>1, <1>5, SelfMoveLeads
  <2>2. /\ \A v \in Var \ {o} : Same(s, s1, v)
        /\ s1.held[Temporary] = Raw /\ s1.held[Argument] = Raw
    BY <1>1, <2>1 DEF Remains, Same
  <2>3. Engages(s1, o)
    BY <1>1, <1>5, <2>1 DEF Remains, Engages
  <2>4. Over(c, b, "returned", s1)
    BY <1>1, <1>5, <2>2, <2>3, TakeSelfOver
  <2>5. Succeeds(c, b, <<a>>, s)
    BY ONLY <2>1, <2>4, Course1 DEF Succeeds
  <2>6. move = TRUE
    BY <1>5
  <2>7. AssignSteps(o, o, o, move) = <<Assign(o, o, TRUE)>>
    BY <1>5, <2>6 DEF AssignSteps
  <2>8. NoExcept(AssignSteps(o, o, o, move)) = <<a>>
    BY <2>7, NoExcepts
  <2> QED
    BY <1>5, <2>5, <2>8
<1> QED
  BY <1>3, <1>4, <1>5

LEMMA AssignFromSucceeds ==
  ASSUME NEW b, NEW s, Starts(b, s, Raw), NEW o \in in_scope, NEW p \in in_scope,
         NEW move \in BOOLEAN
  PROVE  Succeeds(Called("take", o, p, move), b, AssignFrom(o, p, move), s)
<1>1. \/ AssignFrom(o, p, move) = NoExcept(AssignSteps(o, p, p, move))
      \/ AssignFrom(o, p, move) = AssignSteps(o, p, p, move) /\ ~move
  BY DEF AssignFrom, AssignSteps
<1>2. CASE o = p
  BY <1>1, <1>2, AssignSelfSucceeds
<1>3. CASE o # p
  BY <1>1, <1>3, AssignStepsSucceed
<1> QED
  BY <1>2, <1>3

LEMMA AssignConvertedSucceeds ==
  ASSUME NEW b, NEW s, Starts(b, s, Raw), NEW o \in in_scope, NEW p \in in_scope,
         NEW move \in BOOLEAN
  PROVE  Succeeds(Called("take", o, p, move), b, AssignConverted(o, p, move), s)
<1> PICK c : c = Called("take", o, p, move)
  OBVIOUS
<1>1. /\ s \in StateType /\ o \in s.scope /\ p \in s.scope /\ o \in Var /\ p \in Var
      /\ o \in Slot /\ p \in Slot /\ Temporary \in Slot /\ Argument \in Slot
      /\ Temporary # Argument
      /\ \A v \in Var : v \in Slot /\ v # Temporary /\ v # Argument
      /\ s.held[Temporary] = Raw /\ s.held[Argument] = Raw
      /\ s.held[o] # Raw <=> Full(o)
      /\ s.held[p] # Raw <=> Full(p)
      /\ Full(o) <=> s.flag[o] = "full"
      /\ Full(p) <=> s.flag[p] = "full"
  BY StartFacts, SlotFacts DEF Starts
<1>2. Safe(c, b, s) /\ Spares(c, p, move)
  BY StartSafe DEF Spares, Called
<1>3. ASSUME NEW z \in StateType, o # p,
             \A v \in Var \ {o, p} : Same(s, z, v),
             z.held[Temporary] = Raw, z.held[Argument] = Raw,
             o \in z.scope, z.flag[o] = "full" <=> Full(p), z.held[o] = s.held[p],
             p \in z.scope, z.flag[p] = s.flag[p],
             z.held[p] = IF move /\ Full(p) THEN Moved ELSE s.held[p]
      PROVE  Over(c, b, "returned", z)
  BY <1>1, <1>3, TakeOver
<1>4. ASSUME NEW z \in StateType, o = p, \A v \in Var : Same(s, z, v),
             z.held[Temporary] = Raw, z.held[Argument] = Raw
      PROVE  Over(c, b, "returned", z)
  <2>1. Engages(z, o)
    BY <1>1, <1>4, SameSeen
  <2> QED
    BY <1>1, <1>4, <2>1, TakeSelfOver
<1>5. CASE ~Full(p) /\ ~Full(o)
  <2>1. /\ \A v \in Var : Same(s, s, v)
        /\ s.flag[o] = "full" <=> Full(p)
        /\ s.held[o] = s.held[p] /\ s.held[p] = IF move /\ Full(p) THEN Moved ELSE s.held[p]
    BY <1>1, <1>5 DEF Same
  <2>2. Over(c, b, "returned", s)
    BY <1>1, <1>3, <1>4, <2>1
  <2>3. <<>> \in Seq(StepType)
    OBVIOUS
  <2>4. Succeeds(c, b, <<>>, s)
    BY <1>1, <2>2, <2>3, CourseEnd DEF Succeeds
  <2> QED
    BY <1>5, <2>4, AssignConvertedSteps
<1>6. CASE ~Full(p) /\ Full(o)
  <2> PICK a, d : a = Quiet(Destruct(o)) /\ d = Quiet(SetFlag(o, FALSE))
    OBVIOUS
  <2>1. PICK s1 \in StateType : Leads(c, b, a, s, s1) /\ Loses(s, s1, o)
    BY <1>1, <1>6, DestructLeads
  <2>2. PICK s2 \in StateType : Leads(c, b, d, s1, s2) /\ Flagged(s1, s2, o, "empty")
    BY <1>1, SetFlagLeads
  <2>3. /\ \A v \in Var \ {o, p} : Same(s, s2, v)
        /\ s2.held[Temporary] = Raw /\ s2.held[Argument] = Raw
        /\ o \in s2.scope /\ (s2.flag[o] = "full" <=> Full(p)) /\ s2.held[o] = s.held[p]
        /\ p \in s2.scope /\ s2.flag[p] = s.flag[p] /\ o # p
        /\ s2.held[p] = IF move /\ Full(p) THEN Moved ELSE s.held[p]
    BY <1>1, <1>6, <2>1, <2>2 DEF Loses, Flagged, Same
  <2>4. Over(c, b, "returned", s2)
    BY <1>3, <2>3
  <2>5. Succeeds(c, b, <<a, d>>, s)
    BY ONLY <2>1, <2>2, <2>4, Course2 DEF Succeeds
  <2> QED
    BY <1>6, <2>5, AssignConvertedSteps
<1>7. CASE Full(p) /\ Full(o)
  <2>1. PICK s1 \in StateType :
          Leads(c, b, Construct(Temporary, p, move), s, s1) /\ Gets(s, s1, Temporary, p, move)
    BY <1>1, <1>2, <1>7, ConstructLeads
  <2>2. s1.held[o] # Raw /\ s1.held[Temporary] # Raw /\ o # Temporary
    BY <1>1, <1>7, <2>1, ContentFacts DEF Gets
  <2>3. PICK s2 \in StateType :
          /\ Leads(c, b, Quiet(Assign(o, Temporary, TRUE)), s1, s2)
          /\ Gets(s1, s2, o, Temporary, TRUE)
    BY <1>1, <2>2, QuietAssignLeads
  <2>4. s2.held[Temporary] # Raw
    BY <1>1, <2>2, <2>3, ContentFacts DEF Gets
  <2>5. PICK s3 \in StateType :
          Leads(c, b, Destruct(Temporary), s2, s3) /\ Loses(s2, s3, Temporary)
    BY <1>1, <2>4, DestructLeads
  <2>6. /\ \A v \in Var \ {o, p} : Same(s, s3, v)
        /\ s3.held[Temporary] = Raw /\ s3.held[Argument] = Raw
        /\ o \in s3.scope /\ (s3.flag[o] = "full" <=> Full(p)) /\ s3.held[o] = s.held[p]
        /\ p \in s3.scope /\ s3.flag[p] = s.flag[p]
        /\ o # p => s3.held[p] = IF move /\ Full(p) THEN Moved ELSE s.held[p]
        /\ o = p => Same(s, s3, o)
    BY <1>1, <1>7, <2>1, <2>3, <2>5 DEF Gets, Loses, Same
  <2>7. Over(c, b, "returned", s3)
    BY <1>3, <1>4, <2>6
  <2>8. Succeeds(c, b, <<Construct(Temporary, p, move), Quiet(Assign(o, Temporary, TRUE)),
                         Destruct(Temporary)>>, s)
    BY ONLY <2>1, <2>3, <2>5, <2>7, Course3 DEF Succeeds
  <2> QED
    BY <1>7, <2>8, AssignConvertedSteps
<1>8. CASE Full(p) /\ ~Full(o)
  <2>1. PICK s1 \in StateType :
          Leads(c, b, Construct(Temporary, p, move), s, s1) /\ Gets(s, s1, Temporary, p, move)
    BY <1>1, <1>2, <1>8, ConstructLeads
  <2>2. s1.held[o] = Raw /\ s1.held[Temporary] # Raw
    BY <1>1, <1>8, <2>1, ContentFacts DEF Gets
  <2>3. PICK s2 \in StateType :
          /\ Leads(c, b, Quiet(Construct(o, Temporary, TRUE)), s1, s2)
          /\ Gets(s1, s2, o, Temporary, TRUE)
    BY <1>1, <2>2, QuietConstructLeads
  <2>4. PICK s3 \in StateType :
          Leads(c, b, Quiet(SetFlag(o, TRUE)), s2, s3) /\ Flagged(s2, s3, o, "full")
    BY <1>1, SetFlagLeads
  <2>5. s3.held[Temporary] # Raw
    BY <1>1, <2>2, <2>3, <2>4, ContentFacts DEF Gets, Flagged
  <2>6. PICK s4 \in StateType :
          Leads(c, b, Destruct(Temporary), s3, s4) /\ Loses(s3, s4, Temporary)
    BY <1>1, <2>5, DestructLeads
  <2>7. /\ \A v \in Var \ {o, p} : Same(s, s4, v)
        /\ s4.held[Temporary] = Raw /\ s4.held[Argument] = Raw
        /\ o \in s4.scope /\ (s4.flag[o] = "full" <=> Full(p)) /\ s4.held[o] = s.held[p]
        /\ p \in s4.scope /\ s4.flag[p] = s.flag[p] /\ o # p
        /\ s4.held[p] = IF move /\ Full(p) THEN Moved ELSE s.held[p]
    BY <1>1, <1>8, <2>1, <2>3, <2>4, <2>6 DEF Gets, Flagged, Loses, Same
  <2>8. Over(c, b, "returned", s4)
    BY <1>3, <2>7
  <2>9. Succeeds(c, b, <<Construct(Temporary, p, move), Quiet(Construct(o, Temporary, TRUE)),
                         Quiet(SetFlag(o, TRUE)), Destruct(Temporary)>>, s)
    BY ONLY <2>1, <2>3, <2>4, <2>6, <2>8, Course4 DEF Succeeds
  <2> QED
    BY <1>8, <2>9, AssignConvertedSteps
<1> QED
  BY <1>5, <1>6, <1>7, <1>8

LEMMA AssignValueSucceeds ==
  ASSUME NEW b, NEW s, NEW value \in Value, Starts(b, s, value), NEW o \in in_scope,
         NEW move \in BOOLEAN
  PROVE  Succeeds(Called("take", o, Argument, move), b,
                  Append(AssignValue(o, move), Destruct(Argument)), s)
<1> PICK c : c = Called("take", o, Argument, move)
  OBVIOUS
<1>1. /\ s \in StateType /\ o \in s.scope /\ o \in Var /\ o \in Slot
      /\ Temporary \in Slot /\ Argument \in Slot
      /\ Argument \notin Var /\ Temporary \notin Var /\ Temporary # Argument
      /\ \A v \in Var : v \in Slot /\ v # Temporary /\ v # Argument
      /\ s.held[Temporary] = Raw /\ s.held[Argument] = value /\ value # Raw
      /\ s.held[o] # Raw <=> Full(o)
      /\ Full(o) <=> s.flag[o] = "full"
  BY StartFacts, SlotFacts, ContentFacts DEF Starts
<1>2. /\ Safe(c, b, s) /\ Spares(c, Argument, move) /\ Spares(c, Temporary, TRUE)
      /\ Permits(c, o)
  BY <1>1, StartSafe DEF Spares, Permits, Called
<1>3. CASE Full(o)
  <2>1. s.held[o] # Raw /\ (o # Argument \/ ~move \/ s.held[o] = Moved)
    BY <1>1, <1>3
  <2>2. PICK s1 \in StateType :
          Leads(c, b, Assign(o, Argument, move), s, s1) /\ Gets(s, s1, o, Argument, move)
    BY <1>1, <1>2, <2>1, AssignLeads
  <2>3. s1.held[Argument] # Raw
    BY <1>1, <2>2, ContentFacts DEF Gets
  <2>4. PICK s2 \in StateType :
          Leads(c, b, Destruct(Argument), s1, s2) /\ Loses(s1, s2, Argument)
    BY <1>1, <2>3, DestructLeads
  <2>5. /\ \A v \in Var \ {o} : Same(s, s2, v)
        /\ s2.held[Temporary] = Raw /\ s2.held[Argument] = Raw
        /\ o \in s2.scope /\ s2.flag[o] = "full" /\ s2.held[o] = value
    BY <1>1, <1>3, <2>2, <2>4 DEF Gets, Loses, Same
  <2>6. Over(c, b, "returned", s2)
    BY <1>1, <2>5, TakeValueOver
  <2>7. Succeeds(c, b, <<Assign(o, Argument, move), Destruct(Argument)>>, s)
    BY ONLY <2>2, <2>4, <2>6, Course2 DEF Succeeds
  <2> QED
    BY <1>3, <2>7, AssignValueSteps
<1>4. CASE ~Full(o)
  <2>1. PICK s1 \in StateType :
          /\ Leads(c, b, Construct(Temporary, Argument, move), s, s1)
          /\ Gets(s, s1, Temporary, Argument, move)
    BY <1>1, <1>2, ConstructLeads
  <2>2. Safe(c, b, s1)
    BY <1>1, <1>2, <2>1, TransferSafe
  <2>3. s1.held[o] = Raw /\ s1.held[Temporary] # Raw
    BY <1>1, <1>4, <2>1 DEF Gets
  <2>4. PICK s2 \in StateType :
          Leads(c, b, Construct(o, Temporary, TRUE), s1, s2) /\ Gets(s1, s2, o, Temporary, TRUE)
    BY <1>1, <1>2, <2>2, <2>3, ConstructLeads
  <2>5. PICK s3 \in StateType : Leads(c, b, SetFlag(o, TRUE), s2, s3) /\ Flagged(s2, s3, o, "full")
    BY <1>1, SetFlagLeads
  <2>6. s3.held[Temporary] # Raw
    BY <1>1, <2>4, <2>5, ContentFacts DEF Gets, Flagged
  <2>7. PICK s4 \in StateType :
          Leads(c, b, Destruct(Temporary), s3, s4) /\ Loses(s3, s4, Temporary)
    BY <1>1, <2>6, DestructLeads
  <2>8. s4.held[Argument] # Raw
    BY <1>1, <2>1, <2>4, <2>5, <2>7, ContentFacts DEF Gets, Flagged, Loses
  <2>9. PICK s5 \in StateType :
          Leads(c, b, Destruct(Argument), s4, s5) /\ Loses(s4, s5, Argument)
    BY <1>1, <2>8, DestructLeads
  <2>10. /\ \A v \in Var \ {o} : Same(s, s5, v)
         /\ s5.held[Temporary] = Raw /\ s5.held[Argument] = Raw
         /\ o \in s5.scope /\ s5.flag[o] = "full" /\ s5.held[o] = value
    BY <1>1, <2>1, <2>4, <2>5, <2>7, <2>9 DEF Gets, Flagged, Loses, Same
  <2>11. Over(c, b, "returned", s5)
    BY <1>1, <2>10, TakeValueOver
  <2>12. Succeeds(c, b, <<Construct(Temporary, Argument, move), Construct(o, Temporary, TRUE),
                          SetFlag(o, TRUE), Destruct(Temporary), Destruct(Argument)>>, s)
    BY ONLY <2>1, <2>4, <2>5, <2>7, <2>9, <2>11, Course5 DEF Succeeds
  <2> QED
    BY <1>4, <2>12, AssignValueSteps
<1> QED
  BY <1>3, <1>4

(* emplace has no value to keep once it has destroyed the one it had.      *)
LEMMA EmptiedSafe ==
  ASSUME NEW b, NEW s, NEW arg, Starts(b, s, arg), NEW c, c.op = "emplace",
         NEW z \in StateType, NEW o \in Var, c.self = o, o \in s.scope, o \in z.scope,
         z.flag[o] = "empty", z.held[o] = Raw, \A v \in Var \ {o} : Same(s, z, v)
  PROVE  Safe(c, b, z)
<1>1. ASSUME NEW v \in Var \ {o}
      PROVE  z.held[v] # Unknown /\ Engages(z, v) /\ KeepsVar(c, b, z, v)
  <2>1. v \in Var /\ Same(s, z, v)
    OBVIOUS
  <2>2. Engages(z, v) /\ Seen(z, v) = b[v]
    BY ONLY <2>1, Starts(b, s, arg), SameSeen
  <2>3. z.held[v] # Unknown
    BY <2>1, SlotFacts DEF Same, Starts
  <2> QED
    BY <2>2, <2>3 DEF KeepsVar
<1>2. z.held[o] # Unknown /\ Engages(z, o)
  BY UnknownFacts DEF Engages, Content
<1>3. KeepsVar(c, b, z, o)
  <2>1. b[o] \in {"none", "out"} => b[o] = "none"
    BY StartFacts, SlotFacts, ContentFacts DEF Seen, Starts
  <2>2. Seen(z, o) = "none"
    BY DEF Seen
  <2> QED
    BY <2>1, <2>2 DEF KeepsVar
<1> QED
  BY <1>1, <1>2, <1>3 DEF Safe

LEMMA EmplaceSucceeds ==
  ASSUME NEW b, NEW s, NEW value \in Value, Starts(b, s, value), NEW o \in in_scope,
         NEW move \in BOOLEAN
  PROVE  Succeeds(Called("emplace", o, Argument, move), b,
                  Append(Emplace(o, move), Destruct(Argument)), s)
<1> PICK c : c = Called("emplace", o, Argument, move)
  OBVIOUS
<1>1. /\ s \in StateType /\ o \in s.scope /\ o \in Var /\ o \in Slot
      /\ Temporary \in Slot /\ Argument \in Slot /\ Argument \notin Var
      /\ \A v \in Var : v \in Slot /\ v # Temporary /\ v # Argument
      /\ s.held[Temporary] = Raw /\ s.held[Argument] = value /\ value # Raw
      /\ s.held[o] # Raw <=> Full(o)
      /\ Full(o) <=> s.flag[o] = "full"
  BY StartFacts, SlotFacts, ContentFacts DEF Starts
<1>2. /\ Spares(c, Argument, move) /\ c.op = "emplace" /\ c.self = o
  BY <1>1 DEF Spares, Called
<1>3. ASSUME NEW z \in StateType, z.flag[o] = "empty", z.scope = s.scope,
             z.held[o] = Raw, z.held[Temporary] = Raw, z.held[Argument] = value,
             \A v \in Var \ {o} : Same(s, z, v)
      PROVE  \E s1, s2, s3 :
               /\ Leads(c, b, Construct(o, Argument, move), z, s1)
               /\ Leads(c, b, SetFlag(o, TRUE), s1, s2)
               /\ Leads(c, b, Destruct(Argument), s2, s3)
               /\ Over(c, b, "returned", s3)
  <2>1. o \in z.scope
    BY <1>1, <1>3
  <2>2. Safe(c, b, z)
    BY <1>1, <1>2, <1>3, <2>1, EmptiedSafe
  <2>3. PICK s1 \in StateType :
          Leads(c, b, Construct(o, Argument, move), z, s1) /\ Gets(z, s1, o, Argument, move)
    BY <1>1, <1>2, <1>3, <2>2, ConstructLeads
  <2>4. PICK s2 \in StateType : Leads(c, b, SetFlag(o, TRUE), s1, s2) /\ Flagged(s1, s2, o, "full")
    BY <1>1, SetFlagLeads
  <2>5. s2.held[Argument] # Raw
    BY <1>1, <1>3, <2>3, <2>4, ContentFacts DEF Gets, Flagged
  <2>6. PICK s3 \in StateType :
          Leads(c, b, Destruct(Argument), s2, s3) /\ Loses(s2, s3, Argument)
    BY <1>1, <2>5, DestructLeads
  <2>7. /\ \A v \in Var \ {o} : Same(s, s3, v)
        /\ s3.held[Temporary] = Raw /\ s3.held[Argument] = Raw
        /\ o \in s3.scope /\ s3.flag[o] = "full" /\ s3.held[o] = value
    BY <1>1, <1>3, <2>1, <2>3, <2>4, <2>6, SlotFacts DEF Gets, Flagged, Loses, Same
  <2>8. Over(c, b, "returned", s3)
    BY <1>1, <2>7, TakeValueOver
  <2> QED
    BY <2>3, <2>4, <2>6, <2>8
<1>4. CASE Full(o)
  <2>1. PICK z1 \in StateType : Leads(c, b, Destruct(o), s, z1) /\ Loses(s, z1, o)
    BY <1>1, <1>4, DestructLeads
  <2>2. PICK z2 \in StateType :
          Leads(c, b, SetFlag(o, FALSE), z1, z2) /\ Flagged(z1, z2, o, "empty")
    BY <1>1, SetFlagLeads
  <2>3. /\ z2.flag[o] = "empty" /\ z2.scope = s.scope
        /\ z2.held[o] = Raw /\ z2.held[Temporary] = Raw /\ z2.held[Argument] = value
        /\ \A v \in Var \ {o} : Same(s, z2, v)
    BY <1>1, <2>1, <2>2 DEF Loses, Flagged, Same
  <2>4. PICK s1, s2, s3 :
          /\ Leads(c, b, Construct(o, Argument, move), z2, s1)
          /\ Leads(c, b, SetFlag(o, TRUE), s1, s2)
          /\ Leads(c, b, Destruct(Argument), s2, s3)
          /\ Over(c, b, "returned", s3)
    BY <1>3, <2>3
  <2>5. Succeeds(c, b, <<Destruct(o), SetFlag(o, FALSE), Construct(o, Argument, move),
                         SetFlag(o, TRUE), Destruct(Argument)>>, s)
    BY ONLY <2>1, <2>2, <2>4, Course5 DEF Succeeds
  <2> QED
    BY <1>4, <2>5, EmplaceSteps
<1>5. CASE ~Full(o)
  <2>1. PICK z1 \in StateType :
          Leads(c, b, SetFlag(o, FALSE), s, z1) /\ Flagged(s, z1, o, "empty")
    BY <1>1, SetFlagLeads
  <2>2. /\ z1.flag[o] = "empty" /\ z1.scope = s.scope
        /\ z1.held[o] = Raw /\ z1.held[Temporary] = Raw /\ z1.held[Argument] = value
        /\ \A v \in Var \ {o} : Same(s, z1, v)
    BY <1>1, <1>5, <2>1 DEF Flagged, Same
  <2>3. PICK s1, s2, s3 :
          /\ Leads(c, b, Construct(o, Argument, move), z1, s1)
          /\ Leads(c, b, SetFlag(o, TRUE), s1, s2)
          /\ Leads(c, b, Destruct(Argument), s2, s3)
          /\ Over(c, b, "returned", s3)
    BY <1>3, <2>2
  <2>4. Succeeds(c, b, <<SetFlag(o, FALSE), Construct(o, Argument, move), SetFlag(o, TRUE),
                         Destruct(Argument)>>, s)
    BY ONLY <2>1, <2>3, Course4 DEF Succeeds
  <2> QED
    BY <1>5, <2>4, EmplaceSteps
<1> QED
  BY <1>4, <1>5

(* Of a call that moves between variables that keep an object.             *)
LEMMA MovedSafe ==
  ASSUME NEW c, NEW b, NEW s, NEW arg, Starts(b, s, arg), c.move,
         NEW z \in StateType, z.flag = s.flag, z.scope = s.scope,
         \A v \in Var : \/ z.held[v] = s.held[v]
                        \/ s.held[v] # Raw /\ z.held[v] \in Value \cup {Moved}
  PROVE  Safe(c, b, z)
<1>1. ASSUME NEW v \in Var
      PROVE  z.held[v] # Unknown /\ Engages(z, v) /\ KeepsVar(c, b, z, v)
  <2>1. /\ b[v] = Seen(s, v) /\ s.held[v] # Unknown /\ Engages(s, v)
        /\ s.held[v] \in Content
    BY StartFacts, SlotFacts DEF Starts
  <2>2. CASE z.held[v] = s.held[v]
    BY <2>1, <2>2, ContentFacts DEF Engages, KeepsVar, Seen
  <2>3. CASE s.held[v] # Raw /\ z.held[v] \in Value \cup {Moved}
    <3>1. v \in s.scope /\ s.flag[v] = "full"
      BY <2>1, <2>3 DEF Engages
    <3>2. Seen(s, v) = s.held[v] /\ Seen(z, v) = z.held[v]
      BY <3>1 DEF Seen
    <3>3. z.held[v] # Raw /\ z.held[v] # Unknown /\ s.held[v] \notin {"none", "out"}
      BY <2>1, <2>3, ContentFacts, UnknownFacts
    <3> QED
      BY <2>1, <2>3, <3>1, <3>2, <3>3 DEF Engages, KeepsVar
  <2> QED
    BY <2>2, <2>3
<1> QED
  BY <1>1 DEF Safe

LEMMA SwapOneSucceeds ==
  ASSUME NEW b, NEW s, Starts(b, s, Raw), NEW o \in in_scope, NEW p \in in_scope,
         NEW q, NEW r, (q = o /\ r = p) \/ (q = p /\ r = o), ~Full(q), Full(r),
         NEW c, c = Called("swap", o, p, TRUE),
         NEW list, list = <<Construct(q, r, TRUE), SetFlag(q, TRUE), Destruct(r),
                            SetFlag(r, FALSE)>>
  PROVE  Succeeds(c, b, list, s)
<1>1. /\ s \in StateType /\ {o, p} \subseteq s.scope /\ o \in Var /\ p \in Var /\ q # r
      /\ q \in s.scope /\ r \in s.scope /\ q \in Var /\ r \in Var
      /\ q \in Slot /\ r \in Slot /\ Temporary \in Slot /\ Argument \in Slot
      /\ \A v \in Var : v \in Slot /\ v # Temporary /\ v # Argument
      /\ s.held[Temporary] = Raw /\ s.held[Argument] = Raw
      /\ s.held[q] = Raw /\ s.held[r] # Raw
  BY StartFacts, SlotFacts DEF Starts
<1>2. Safe(c, b, s) /\ Spares(c, r, TRUE)
  BY StartSafe DEF Spares, Called
<1>3. PICK s1 \in StateType : Leads(c, b, Construct(q, r, TRUE), s, s1) /\ Gets(s, s1, q, r, TRUE)
  BY <1>1, <1>2, ConstructLeads
<1>4. PICK s2 \in StateType : Leads(c, b, SetFlag(q, TRUE), s1, s2) /\ Flagged(s1, s2, q, "full")
  BY <1>1, SetFlagLeads
<1>5. s2.held[r] # Raw
  BY <1>1, <1>3, <1>4, ContentFacts DEF Gets, Flagged
<1>6. PICK s3 \in StateType : Leads(c, b, Destruct(r), s2, s3) /\ Loses(s2, s3, r)
  BY <1>1, <1>5, DestructLeads
<1>7. PICK s4 \in StateType : Leads(c, b, SetFlag(r, FALSE), s3, s4) /\ Flagged(s3, s4, r, "empty")
  BY <1>1, SetFlagLeads
<1>8. /\ \A v \in Var \ {q, r} : Same(s, s4, v)
      /\ s4.scope = s.scope /\ s4.held[Temporary] = Raw /\ s4.held[Argument] = Raw
      /\ s4.flag[q] = "full" /\ s4.held[q] = s.held[r]
      /\ s4.flag[r] = "empty" /\ s4.held[r] = s.held[q]
  BY <1>1, <1>3, <1>4, <1>6, <1>7 DEF Gets, Flagged, Loses, Same
<1>9. /\ \A v \in Var \ {o, p} : Same(s, s4, v)
      /\ s4.flag[o] = "full" <=> Full(p)
      /\ s4.held[o] = s.held[p]
      /\ s4.flag[p] = "full" <=> Full(o)
      /\ s4.held[p] = s.held[o]
  BY <1>8
<1>10. Over(c, b, "returned", s4)
  BY <1>1, <1>8, <1>9, SwapOver
<1> QED
  BY <1>3, <1>4, <1>6, <1>7, <1>10, Course4 DEF Succeeds

LEMMA SwapSucceeds ==
  ASSUME NEW b, NEW s, Starts(b, s, Raw), NEW o \in in_scope, NEW p \in in_scope
  PROVE  Succeeds(Called("swap", o, p, TRUE), b, Swap(o, p), s)
<1> PICK c : c = Called("swap", o, p, TRUE)
  OBVIOUS
<1>1. /\ s \in StateType /\ {o, p} \subseteq s.scope /\ o \in Var /\ p \in Var
      /\ o \in Slot /\ p \in Slot /\ Temporary \in Slot /\ Argument \in Slot
      /\ Temporary \notin Var /\ Temporary # Argument
      /\ \A v \in Var : v \in Slot /\ v # Temporary /\ v # Argument
      /\ s.held[Temporary] = Raw /\ s.held[Argument] = Raw
      /\ s.held[o] # Raw <=> Full(o)
      /\ s.held[p] # Raw <=> Full(p)
      /\ Full(o) <=> s.flag[o] = "full"
      /\ Full(p) <=> s.flag[p] = "full"
      /\ s.held[o] \in Content /\ s.held[p] \in Content
  BY StartFacts, SlotFacts DEF Starts
<1>2. /\ Safe(c, b, s) /\ c.move
      /\ \A t : Spares(c, t, TRUE) /\ Permits(c, t)
  BY StartSafe DEF Spares, Permits, Called
<1>3. CASE Full(o) /\ Full(p)
  <2>1. PICK s1 \in StateType :
          Leads(c, b, Construct(Temporary, o, TRUE), s, s1) /\ Gets(s, s1, Temporary, o, TRUE)
    BY <1>1, <1>2, <1>3, ConstructLeads
  <2>2. /\ s1.held[o] = Moved /\ s1.held[p] # Raw /\ s1.held[Temporary] # Raw
        /\ s1.held[p] \in Value \cup {Moved}
    BY <1>1, <1>3, <2>1, ContentFacts DEF Gets
  <2>3. Safe(c, b, s1)
    BY <1>1, <1>2, <1>3, <2>1, MovedSafe DEF Gets
  <2>4. s1.held[o] # Raw /\ s1.held[p] # Raw /\ (o # p \/ ~TRUE \/ s1.held[o] = Moved)
    BY <2>2, ContentFacts
  <2>5. PICK s2 \in StateType :
          Leads(c, b, Assign(o, p, TRUE), s1, s2) /\ Gets(s1, s2, o, p, TRUE)
    BY <1>1, <1>2, <2>3, <2>4, AssignLeads
  <2>6. Safe(c, b, s2)
    <3>1. s2.flag = s.flag /\ s2.scope = s.scope
      BY <2>1, <2>5 DEF Gets
    <3>2. ASSUME NEW v \in Var
          PROVE  \/ s2.held[v] = s.held[v]
                 \/ s.held[v] # Raw /\ s2.held[v] \in Value \cup {Moved}
      BY <1>1, <1>3, <2>1, <2>2, <2>5 DEF Gets
    <3> QED
      BY <1>2, <3>1, <3>2, MovedSafe
  <2>7. /\ s2.held[p] # Raw /\ s2.held[Temporary] # Raw
        /\ p # Temporary \/ ~TRUE \/ s2.held[p] = Moved
    BY <1>1, <2>2, <2>5, ContentFacts DEF Gets
  <2>8. PICK s3 \in StateType :
          Leads(c, b, Assign(p, Temporary, TRUE), s2, s3) /\ Gets(s2, s3, p, Temporary, TRUE)
    BY <1>1, <1>2, <2>6, <2>7, AssignLeads
  <2>9. s3.held[Temporary] # Raw
    BY <1>1, <2>8, ContentFacts DEF Gets
  <2>10. PICK s4 \in StateType :
           Leads(c, b, Destruct(Temporary), s3, s4) /\ Loses(s3, s4, Temporary)
    BY <1>1, <2>9, DestructLeads
  <2>11. /\ \A v \in Var \ {o, p} : Same(s, s4, v)
         /\ s4.scope = s.scope /\ s4.held[Temporary] = Raw /\ s4.held[Argument] = Raw
         /\ s4.flag = s.flag /\ s4.held[o] = s.held[p] /\ s4.held[p] = s.held[o]
    BY <1>1, <2>1, <2>5, <2>8, <2>10 DEF Gets, Loses, Same
  <2>12. (s4.flag[o] = "full" <=> Full(p)) /\ (s4.flag[p] = "full" <=> Full(o))
    BY <1>1, <1>3, <2>11
  <2>13. Over(c, b, "returned", s4)
    BY <1>1, <2>11, <2>12, SwapOver
  <2>14. Succeeds(c, b, <<Construct(Temporary, o, TRUE), Assign(o, p, TRUE),
                          Assign(p, Temporary, TRUE), Destruct(Temporary)>>, s)
    BY ONLY <2>1, <2>5, <2>8, <2>10, <2>13, Course4 DEF Succeeds
  <2> QED
    BY <1>3, <2>14, SwapSteps
<1>4. CASE ~Full(o) /\ Full(p)
  <2> PICK list : list = Swap(o, p)
    OBVIOUS
  <2>1. list = <<Construct(o, p, TRUE), SetFlag(o, TRUE), Destruct(p), SetFlag(p, FALSE)>>
    BY <1>4, SwapSteps
  <2> QED
    BY <1>4, <2>1, SwapOneSucceeds
<1>5. CASE Full(o) /\ ~Full(p)
  <2> PICK list : list = Swap(o, p)
    OBVIOUS
  <2>1. list = <<Construct(p, o, TRUE), SetFlag(p, TRUE), Destruct(o), SetFlag(o, FALSE)>>
    BY <1>5, SwapSteps
  <2> QED
    BY <1>5, <2>1, SwapOneSucceeds
<1>6. CASE ~Full(o) /\ ~Full(p)
  <2>1. /\ \A v \in Var \ {o, p} : Same(s, s, v)
        /\ s.flag[o] = "full" <=> Full(p)
        /\ s.flag[p] = "full" <=> Full(o)
        /\ s.held[o] = s.held[p]
    BY <1>1, <1>6 DEF Same
  <2>2. Over(c, b, "returned", s)
    BY <1>1, <2>1, SwapOver
  <2>3. <<>> \in Seq(StepType)
    OBVIOUS
  <2>4. Succeeds(c, b, <<>>, s)
    BY <1>1, <2>2, <2>3, CourseEnd DEF Succeeds
  <2> QED
    BY <1>6, <2>4, SwapSteps
<1> QED
  BY <1>3, <1>4, <1>5, <1>6

-----------------------------------------------------------------------------
(* The invariant.                                                          *)
LEMMA ConstructorKeeps ==
  ASSUME Inv, NEW o \in Var, Constructor(o)
  PROVE  Inv'
<1>1. o \notin in_scope
  BY DEF Constructor
<1>2. CASE CallWith("clear", o, o, FALSE, DefaultConstruct(o))
  <2>1. Follows(Called("clear", o, o, FALSE), Raw, DefaultConstruct(o))
    BY <1>1, DefaultConstructSucceeds DEF Follows
  <2> QED
    BY <1>2, <2>1, CallWithKeeps
<1>3. CASE \E p \in in_scope, move \in BOOLEAN :
             \/ CallWith("take", o, p, move, ConstructFrom(o, p, move))
             \/ CallWith("take", o, p, move, ConvertFrom(o, p, move))
  <2>1. PICK p \in in_scope, move \in BOOLEAN :
          \/ CallWith("take", o, p, move, ConstructFrom(o, p, move))
          \/ CallWith("take", o, p, move, ConvertFrom(o, p, move))
    BY <1>3
  <2>2. /\ Follows(Called("take", o, p, move), Raw, ConstructFrom(o, p, move))
        /\ Follows(Called("take", o, p, move), Raw, ConvertFrom(o, p, move))
    BY <1>1, ConstructFromSucceeds, ConvertFromSucceeds DEF Follows
  <2> QED
    BY <2>1, <2>2, CallWithKeeps
<1>4. CASE \E v \in Value, move \in BOOLEAN :
             \/ CallWithValue("take", o, v, move, ConstructValue(o, move))
             \/ CallWithValue("take", o, v, move, ConstructInPlace(o, move))
  <2>1. PICK v \in Value, move \in BOOLEAN :
          \/ CallWithValue("take", o, v, move, ConstructValue(o, move))
          \/ CallWithValue("take", o, v, move, ConstructInPlace(o, move))
    BY <1>4
  <2>2. /\ Follows(Called("take", o, Argument, move), v,
                   Append(ConstructValue(o, move), Destruct(Argument)))
        /\ Follows(Called("take", o, Argument, move), v,
                   Append(ConstructInPlace(o, move), Destruct(Argument)))
    BY <1>1, ConstructValueSucceeds, ConstructInPlaceSucceeds DEF Follows
  <2> QED
    BY <2>1, <2>2, CallWithValueKeeps
<1> QED
  BY <1>2, <1>3, <1>4 DEF Constructor

LEMMA ModifierKeeps ==
  ASSUME Inv, NEW o \in Var, Modifier(o)
  PROVE  Inv'
<1>1. o \in in_scope
  BY DEF Modifier
<1>2. CASE CallWith("clear", o, o, FALSE, Reset(o))
  <2>1. Follows(Called("clear", o, o, FALSE), Raw, Reset(o))
    BY <1>1, ResetSucceeds DEF Follows
  <2> QED
    BY <1>2, <2>1, CallWithKeeps
<1>3. CASE \E p \in in_scope, move \in BOOLEAN :
             \/ CallWith("take", o, p, move, AssignFrom(o, p, move))
             \/ CallWith("take", o, p, move, AssignConverted(o, p, move))
  <2>1. PICK p \in in_scope, move \in BOOLEAN :
          \/ CallWith("take", o, p, move, AssignFrom(o, p, move))
          \/ CallWith("take", o, p, move, AssignConverted(o, p, move))
    BY <1>3
  <2>2. /\ Follows(Called("take", o, p, move), Raw, AssignFrom(o, p, move))
        /\ Follows(Called("take", o, p, move), Raw, AssignConverted(o, p, move))
    BY <1>1, AssignFromSucceeds, AssignConvertedSucceeds DEF Follows
  <2> QED
    BY <2>1, <2>2, CallWithKeeps
<1>4. CASE \E v \in Value, move \in BOOLEAN :
             \/ CallWithValue("take", o, v, move, AssignValue(o, move))
             \/ CallWithValue("emplace", o, v, move, Emplace(o, move))
  <2>1. PICK v \in Value, move \in BOOLEAN :
          \/ CallWithValue("take", o, v, move, AssignValue(o, move))
          \/ CallWithValue("emplace", o, v, move, Emplace(o, move))
    BY <1>4
  <2>2. /\ Follows(Called("take", o, Argument, move), v,
                   Append(AssignValue(o, move), Destruct(Argument)))
        /\ Follows(Called("emplace", o, Argument, move), v,
                   Append(Emplace(o, move), Destruct(Argument)))
    BY <1>1, AssignValueSucceeds, EmplaceSucceeds DEF Follows
  <2> QED
    BY <2>1, <2>2, CallWithValueKeeps
<1>5. CASE \E p \in in_scope : CallWith("swap", o, p, TRUE, Swap(o, p))
  <2>1. PICK p \in in_scope : CallWith("swap", o, p, TRUE, Swap(o, p))
    BY <1>5
  <2>2. Follows(Called("swap", o, p, TRUE), Raw, Swap(o, p))
    BY <1>1, SwapSucceeds DEF Follows
  <2> QED
    BY <2>1, <2>2, CallWithKeeps
<1> QED
  BY <1>2, <1>3, <1>4, <1>5 DEF Modifier

LEMMA DestructorKeeps ==
  ASSUME Inv, NEW o \in Var, Destructor(o)
  PROVE  Inv'
<1>1. o \in in_scope /\ CallWith("destroy", o, o, FALSE, Destroy(o))
  BY DEF Destructor
<1>2. Follows(Called("destroy", o, o, FALSE), Raw, Destroy(o))
  BY <1>1, DestroySucceeds DEF Follows
<1> QED
  BY <1>1, <1>2, CallWithKeeps

LEMMA InitInv ==
  ASSUME Init
  PROVE  Inv
<1>1. TypeOK
  BY DEF Init, TypeOK, Content
<1>2. todo = <<>> /\ todo \in Seq(StepType) /\ outcome = "returned" /\ call.op = "none"
  BY DEF Init
<1>3. PICK s : s = [held |-> contained, flag |-> has_value, scope |-> in_scope]
  OBVIOUS
<1>4. s \in StateType /\ s.held = contained /\ s.flag = has_value /\ s.scope = in_scope
  BY <1>1, <1>3 DEF TypeOK, StateType
<1>5. \A t \in Slot : Engages(s, t)
  BY <1>4 DEF Init, Engages
<1>6. Over(call, before, outcome, s)
  BY <1>2, <1>5 DEF Over
<1>7. Course(call, before, outcome, todo, s)
  BY <1>2, <1>4, <1>6, CourseEnd
<1>8. Agrees(s)
  BY <1>4 DEF Agrees
<1> QED
  BY <1>1, <1>2, <1>4, <1>7, <1>8 DEF Inv, OnCourse

LEMMA StutterKeeps ==
  ASSUME Inv, UNCHANGED vars
  PROVE  Inv'
<1>1. TypeOK'
  BY DEF Inv, TypeOK, vars
<1>2. OnCourse <=> OnCourse'
  BY DEF OnCourse, Agrees, Course, vars
<1> QED
  BY <1>1, <1>2 DEF Inv, vars

LEMMA SpecInv ==
  Spec => []Inv
<1>1. Init => Inv
  BY InitInv
<1>2. Inv /\ [Next]_vars => Inv'
  <2> SUFFICES ASSUME Inv, [Next]_vars PROVE Inv'
    OBVIOUS
  <2>1. CASE \E o \in Var : Constructor(o) \/ Modifier(o) \/ Destructor(o)
    BY <2>1, ConstructorKeeps, ModifierKeeps, DestructorKeeps
  <2>2. CASE Transfer
    BY <2>2, TransferKeeps
  <2>3. CASE DestructValue
    BY <2>3, DestructKeeps
  <2>4. CASE SetHasValue
    BY <2>4, SetHasValueKeeps
  <2>5. CASE EnterOrLeave
    BY <2>5, EnterOrLeaveKeeps
  <2>6. CASE Throw
    BY <2>6, ThrowKeepsInv
  <2>7. CASE UNCHANGED vars
    BY <2>7, StutterKeeps
  <2> QED
    BY <2>1, <2>2, <2>3, <2>4, <2>5, <2>6, <2>7 DEF Next
<1> QED
  BY <1>1, <1>2, PTL DEF Spec

(* The program sees what the course of its call says it does.              *)
LEMMA SeenHeld ==
  ASSUME TypeOK, NEW s \in StateType, Agrees(s), NEW t \in Slot, Seen(s, t) # Unknown
  PROVE  Held(t) = Seen(s, t)
BY DEF TypeOK, Agrees, Seen, Held, Full

(* A call that is over has come to the end of its course.                  *)
LEMMA IdleOver ==
  ASSUME Inv, Idle
  PROVE  \E s \in StateType : Agrees(s) /\ Over(call, before, outcome, s)
<1>1. todo = <<>> /\ OnCourse
  BY DEF Inv, Idle
<1>2. PICK s \in StateType : Agrees(s) /\ Course(call, before, outcome, todo, s)
  BY <1>1 DEF OnCourse
<1> QED
  BY <1>1, <1>2, CourseEnd

LEMMA InvEngaged ==
  ASSUME Inv
  PROVE  Engaged
BY IdleFacts DEF Engaged, Full

LEMMA InvLifetimes ==
  ASSUME Inv
  PROVE  Lifetimes
<1> SUFFICES ASSUME todo # <<>>
             PROVE  LET s == Head(todo)
                    IN  /\ s.do = "construct" => contained[s.at] = Raw /\ contained[s.from] # Raw
                        /\ s.do = "assign" => contained[s.at] # Raw /\ contained[s.from] # Raw
                        /\ s.do = "destruct" => contained[s.at] # Raw
  BY DEF Lifetimes
<1>1. PICK step \in StepType : step = Head(todo)
  BY NextStep
<1>2. PICK z \in StateType : Agrees(z) /\ Legal(step, z)
  BY <1>1, NextStep DEF Good
<1>3. step.at \in Slot /\ step.from \in Slot
  BY DEF StepType
<1>4. Unknown # Raw
  BY UnknownFacts DEF Content
<1>5. \A t \in {step.at, step.from} : contained[t] = Raw <=> z.held[t] = Raw
  BY <1>2, <1>3, <1>4 DEF Agrees
<1> QED
  BY <1>1, <1>2, <1>5 DEF Legal

LEMMA InvEffect ==
  ASSUME Inv
  PROVE  Effect
<1> SUFFICES ASSUME Idle, outcome = "returned", call.op # "none",
                    NEW self, self = call.self, NEW other, other = call.other
             PROVE  /\ call.op = "clear" => Held(self) = "none"
                    /\ call.op = "destroy" => Held(self) = "out"
                    /\ call.op \in {"take", "emplace"} =>
                         (self = other /\ call.move) \/ Held(self) = before[other]
                    /\ call.op = "swap" => Held(self) = before[other] /\ Held(other) = before[self]
                    /\ call.op = "take" /\ other \in Var \ {self} =>
                         Held(other) = IF call.move /\ before[other] # "none" THEN Moved
                                       ELSE before[other]
                    /\ \A v \in Var \ {self, other} : Held(v) = before[v]
  BY DEF Effect
<1>1. PICK s \in StateType : Agrees(s) /\ Over(call, before, outcome, s)
  BY IdleOver
<1>2. Effects(call, before, s)
  BY <1>1 DEF Over
<1>3. self \in Slot /\ other \in Slot
  BY <1>2 DEF Effects
<1>4. /\ TypeOK
      /\ \A t \in Slot : before[t] # Unknown
      /\ Moved # Unknown /\ "none" # Unknown /\ "out" # Unknown
  BY UnknownFacts DEF Inv, TypeOK, Content
<1>5. \A t \in Slot : Seen(s, t) # Unknown => Held(t) = Seen(s, t)
  BY <1>1, <1>4, SeenHeld
<1>6. \A v \in Var : v \in Slot
  BY SlotFacts
<1>7. \A v \in Var \ {self, other} : Held(v) = before[v]
  BY <1>2, <1>4, <1>5, <1>6 DEF Effects
<1>8. call.op = "take" /\ other \in Var \ {self} =>
        Held(other) = IF call.move /\ before[other] # "none" THEN Moved ELSE before[other]
  BY <1>2, <1>3, <1>4, <1>5 DEF Effects
<1>9. call.op = "swap" => Held(self) = before[other] /\ Held(other) = before[self]
  BY <1>2, <1>3, <1>4, <1>5 DEF Effects
<1>10. call.op \in {"take", "emplace"} => (self = other /\ call.move) \/ Held(self) = before[other]
  BY <1>2, <1>3, <1>4, <1>5 DEF Effects
<1>11. /\ call.op = "clear" => Held(self) = "none"
       /\ call.op = "destroy" => Held(self) = "out"
  BY <1>2, <1>3, <1>4, <1>5 DEF Effects
<1> QED
  BY <1>7, <1>8, <1>9, <1>10, <1>11

LEMMA InvThrowKeeps ==
  ASSUME Inv
  PROVE  ThrowKeeps
<1> SUFFICES ASSUME Idle, outcome = "threw", NEW v \in Var
             PROVE  /\ before[v] \in {"none", "out"} => Held(v) = before[v]
                    /\ before[v] \notin {"none", "out"} /\ call.op # "emplace" =>
                         Held(v) \in Value \cup {Moved}
                    /\ v # call.self /\ ~call.move => Held(v) = before[v]
  BY DEF ThrowKeeps
<1>1. PICK s \in StateType : Agrees(s) /\ Over(call, before, outcome, s)
  BY IdleOver
<1>2. s.held[v] # Unknown /\ KeepsVar(call, before, s, v)
  BY <1>1 DEF Over, Safe
<1>3. Seen(s, v) # Unknown /\ v \in Slot
  BY <1>2, UnknownFacts, SlotFacts DEF Seen
<1>4. Held(v) = Seen(s, v)
  BY <1>1, <1>3, SeenHeld DEF Inv
<1> QED
  BY <1>2, <1>4 DEF KeepsVar

-----------------------------------------------------------------------------
(* The flags, the storages and what each variable held keep their types,   *)
(* and no variable that there is has a has_value_ that was never set.      *)
THEOREM TypeCorrect == Spec => []TypeOK
<1>1. Inv => TypeOK
  BY DEF Inv
<1> QED
  BY <1>1, SpecInv, PTL

(* However calls follow one another and wherever T throws: whenever none   *)
(* is running, there is an object in the storage of exactly the variables  *)
(* whose has_value_ says so, and no call has left one behind.              *)
THEOREM EngagedHolds == Spec => []Engaged
<1>1. Inv => Engaged
  BY InvEngaged
<1> QED
  BY <1>1, SpecInv, PTL

(* No constructor of T runs on top of an object, no destructor where there *)
(* is none, and no assignment to or from a storage without one: not in any *)
(* constructor, assignment, emplace, swap or reset, nor as an exception    *)
(* leaves one.                                                             *)
THEOREM LifetimesHold == Spec => []Lifetimes
<1>1. Inv => Lifetimes
  BY InvLifetimes
<1> QED
  BY <1>1, SpecInv, PTL

(* Every call that returns has done what it is for and nothing to any      *)
(* other variable, whether or not its argument is the variable itself.     *)
THEOREM EffectHolds == Spec => []Effect
<1>1. Inv => Effect
  BY InvEffect
<1> QED
  BY <1>1, SpecInv, PTL

(* A call that throws leaves every variable with a value, or without, as   *)
(* it was, but for the one it was to emplace in.                           *)
THEOREM ThrowKeepsHolds == Spec => []ThrowKeeps
<1>1. Inv => ThrowKeeps
  BY InvThrowKeeps
<1> QED
  BY <1>1, SpecInv, PTL

=============================================================================
