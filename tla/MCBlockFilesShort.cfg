SPECIFICATION Spec
CONSTANTS
  g = g  a1 = a1  a2 = a2  a3 = a3  b2 = b2
  Block = {g, a1, a2, a3}
  Genesis = g
  Parent <- MCParentStraight
  NoBlock = NoBlock
  MaxBlockfileSize = 2
  MaxFile = 2
  PruneMode = TRUE
  PruneAfterHeight = 1
  MinBlocksToKeep = 3
  UIntRange = 8
  MaxCrashes = 0
  MaxPowerLosses = 0
PROPERTIES
  PruneSparesRecent
