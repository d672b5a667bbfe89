SPECIFICATION Spec
CONSTANTS
  Funs = {"outer", "inner", "flip", "sum"}
  Args = {0}
  Reads <- MCReads
  Writes = {"a", "b", "flip"}
  States <- MCStates
  Worlds <- MCWorlds
  Body <- CalcBody
  Result <- MCResult
  Effect <- MCEffect
  Bypassed = {}
  Rewrap = "never"
  Pure = {"sum"}
  Lenient = {}
  Original = TRUE
  Steps = {9}
  MaxAge = 1
  MaxIds = 4
  MaxEdits = 2
CHECK_DEADLOCK FALSE
INVARIANTS
  IInv
  EntriesSound
  OnlyWritersBlamed
PROPERTIES
  NestedReadsRecorded
  Transparent
