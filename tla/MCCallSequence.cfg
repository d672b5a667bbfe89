SPECIFICATION Spec
CONSTANTS
  Calls <- MCCalls
  CallHash <- MCHash
  Rets = {r, s}
  None = None
  Signature <- MCSignature
  Encoded <- Recordable
  Generated <- MCGenerated
CHECK_DEADLOCK FALSE
INVARIANTS
  TypeOK
  LooksUpTheSame
PROPERTIES
  ImplementsPendingCalls
