SPECIFICATION Spec
CONSTANTS
  Funs = {"outer", "inner"}
  Args = {0, 1}
  Reads = {"x", "y"}
  Writes = {"a", "b"}
  States <- MCStatesX
  Worlds <- MCWorldsX
  Body <- NestedBody
  Result <- MCResult
  Effect <- MCEffect
  Bypassed = {}
  Rewrap = "edit"
  Pure = {}
  Lenient = {}
  Original = FALSE
  Steps = {13}
  MaxAge = 1
  MaxIds = 3
  MaxEdits = 1
INVARIANTS
  EntriesSound
  NeverPanics
  RecorderChain
  EnclosingRecords
  HitFlagExact
PROPERTIES
  NestedReadsRecorded
  Transparent
