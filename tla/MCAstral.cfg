SPECIFICATION Spec
CONSTANTS
  Calls <- MCCalls
  CallHash <- AstralHash
  Rets = {r, s}
  None = None
  Signature <- MCSignature
  Encoded <- AstralRecordable
  Generated <- AstralGenerated
CHECK_DEADLOCK FALSE
INVARIANTS
  FoundAsInRust
