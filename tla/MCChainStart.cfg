SPECIFICATION Spec
CONSTANTS
  g = g
  a1 = a1
  a2 = a2
  b1 = b1
  b2 = b2
  b3 = b3
  b4 = b4
  c2 = c2
  c3 = c3
  NoBlock = NoBlock
  Genesis = g
  Block <- BranchBlocks
  Parent <- BranchParent
  Proof <- BranchProof
  Addr <- BranchAddr
  Bad = {}
  BadBody = {}
  MaxInvalidate = 1
  MaxReconsider = 0
  MaxPrecious = 0
  MaxRestart = 1
INVARIANTS
  SomeCandidateLeft
CHECK_DEADLOCK FALSE
