SPECIFICATION Spec
CONSTANTS
  Cells = {"A", "B"}
  States <- MCStates
  Worlds <- MCWorlds
  Funs = {"inner"}
  Args = {0}
  Tuples <- Plain
  Body <- MCBody
  Result <- MCResult
  Effect <- MCEffect
  Bypassed = {}
  Merged = TRUE
  Arity <- MCArity
  Steps = {24}
  MaxAge = 1
  MaxRuns = 3
  MaxEdits = 1
CHECK_DEADLOCK FALSE
INVARIANTS
  NoCallMissing
