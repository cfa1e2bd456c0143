SPECIFICATION Spec
CONSTANTS
  g = g  a1 = a1  a2 = a2  a3 = a3  b2 = b2
  Block = {g, a1, a2, b2}
  Genesis = g
  Parent <- MCParentFork
  NoBlock = NoBlock
  MaxBlockfileSize = 2
  MaxFile = 2
  PruneMode = TRUE
  PruneAfterHeight = 1
  MinBlocksToKeep = 1
  UIntRange = 8
  MaxCrashes = 1
  MaxPowerLosses = 1
INVARIANTS
  IndexReadable
  CoinsAreBehindIndex
  RestartPossible
PROPERTIES
  PruneSparesRecent
CHECK_DEADLOCK FALSE
