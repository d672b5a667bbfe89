SPECIFICATION Spec
CONSTANTS
  Funs = {"outer", "inner"}
  Args = {0}
  Reads <- MCReads
  Writes = {"a", "b", "flip"}
  States <- MCStates
  Worlds <- MCWorlds
  Body <- CalcBody
  Result <- MCResult
  Effect <- MCEffect
  Bypassed = {}
  Rewrap = "edit"
  Pure = {}
  Lenient = {}
  Original = FALSE
  Steps = {24}
  MaxAge = 1
  MaxIds = 4
  MaxEdits = 2
PROPERTIES
  NestedReadsRecorded
