SPECIFICATION FairSpec
CONSTANTS
  g = g
  a1 = a1
  a2 = a2
  b1 = b1
  b2 = b2
  b3 = b3
  b4 = b4
  c2 = c2
  c3 = c3
  NoBlock = NoBlock
  Genesis = g
  Block <- BranchBlocks
  Parent <- BranchParent
  Proof <- BranchProof
  Addr <- BranchAddr
  Bad = {}
  BadBody = {c3}
  MaxInvalidate = 2
  MaxReconsider = 1
  MaxPrecious = 0
  MaxRestart = 0
INVARIANTS
  CheckBlockIndex
  TipIsBestSoFar
  ActiveChainValid
PROPERTIES
  CallsEnd
CHECK_DEADLOCK FALSE
