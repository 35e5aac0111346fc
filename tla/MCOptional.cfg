CONSTANTS
  Var = {o1, o2}
  Value = {v1, v2}
  ThrowCases = {{}, {"copy"}, {"copy", "move"}}
SPECIFICATION Spec
INVARIANTS
  TypeOK
  Engaged
  Lifetimes
  Effect
  ThrowKeeps
CHECK_DEADLOCK FALSE
