SPECIFICATION Spec
CONSTANTS
  g = g
  a1 = a1
  a2 = a2
  b1 = b1
  b2 = b2
  b3 = b3
  b4 = b4
  c2 = c2
  c3 = c3
  NoBlock = NoBlock
  Genesis = g
  Block <- ForkBlocks
  Parent <- ForkParent
  Proof <- ForkProof
  Addr <- ForkAddr
  Bad = {b2}
  BadBody = {}
  MaxInvalidate = 0
  MaxReconsider = 0
  MaxPrecious = 1
  MaxRestart = 1
INVARIANTS
  CheckBlockIndex
  TipIsBest
PROPERTIES
  ProgressBeforeUnlock
  HeadersAvoidFailed
CHECK_DEADLOCK FALSE
