SPECIFICATION Spec
CONSTANTS
  Cells = {"A", "B"}
  States <- MCStates
  Worlds <- MCWorlds
  Funs = {"inner"}
  Args = {0}
  Tuples <- Aliased
  Body <- MCBody
  Result <- MCResult
  Effect <- MCEffect
  Bypassed = {}
  Merged = FALSE
  Arity <- MCArity
  Steps = {24}
  MaxAge = 1
  MaxRuns = 4
  MaxEdits = 1
CHECK_DEADLOCK FALSE
PROPERTIES
  FinishedUntouched
