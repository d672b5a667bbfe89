SPECIFICATION FairSpec
CONSTANTS
  None = None
  Keys = {k}
  Calls = {a, b}
  Rets = {x, y}
  Values = {v, w}
  MaxCalls = 2
  MaxLeaves = 3
INVARIANTS
  TypeOK
  Consistent
  ChildrenCounted
  RInv
PROPERTIES
  OperationsEnd
  ImplementsDecisionTree
