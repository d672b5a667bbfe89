SPECIFICATION Spec
CONSTANTS
  Cells = {"A", "B"}
  States <- MCStates
  Worlds <- MCWorlds
  Funs = {"outer", "inner", "raw", "flip"}
  Args = {0}
  Tuples <- Distinct
  Body <- MCBody
  Result <- MCResult
  Effect <- MCEffect
  Bypassed = {"raw"}
  Merged = FALSE
  Arity <- MCArity
  Steps = {11}
  MaxAge = 1
  MaxRuns = 3
  MaxEdits = 1
CHECK_DEADLOCK FALSE
INVARIANTS
  ChainsNest
  HitFlagExact
  NoCallMissing
  OnlyWritersBlamed
  IInv
  AnswersStand
PROPERTIES
  FinishedUntouched
  Transparent
