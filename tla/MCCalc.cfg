SPECIFICATION Spec
CONSTANTS
  Funs = {"outer", "lax", "inner", "flip", "sum", "raw"}
  Args = {0}
  Reads <- MCReads
  Writes = {"a", "b", "flip"}
  States <- MCStates
  Worlds <- MCWorlds
  Body <- CalcBody
  Result <- MCResult
  Effect <- MCEffect
  Bypassed <- MCBypassed
  Rewrap = "call"
  Pure = {"sum"}
  Lenient = {"lax"}
  Original = FALSE
  Steps = {24}
  MaxAge = 1
  MaxIds = 4
  MaxEdits = 2
CHECK_DEADLOCK FALSE
INVARIANTS
  RecorderChain
  HitFlagExact
  HitsReplay
  EnclosingRecords
  OneEntryMatches
