SPECIFICATION Spec
CONSTANTS
  Funs = {"count"}
  Args = {0}
  Reads <- MCReads
  Writes = {"a", "b", "flip"}
  States <- MCStates
  Worlds <- MCWorldsX
  Body <- CountBody
  Result <- MCResult
  Effect <- MCEffect
  Bypassed = {}
  Rewrap = "never"
  Pure = {}
  Lenient = {}
  Original = FALSE
  Steps = {24}
  MaxAge = 1
  MaxIds = 3
  MaxEdits = 0
INVARIANTS
  HitsReplay
