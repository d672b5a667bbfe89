SPECIFICATION Spec
CONSTANTS
  Funs = {"f", "g"}
  Args = {0}
  Reads = {"x", "y"}
  Writes = {"a", "b"}
  States <- MCStates
  Worlds <- MCWorlds
  Body <- FlatBody
  Result <- MCResult
  Effect <- MCEffect
  Bypassed = {}
  Rewrap = "edit"
  Pure = {}
  Lenient = {}
  Original = FALSE
  Steps = {6}
  MaxAge = 1
  MaxIds = 3
  MaxEdits = 2
INVARIANTS
  TypeOK
  EntriesSound
  NeverPanics
  HitsReplay
  AnswersCurrent
PROPERTIES
  Transparent
