SPECIFICATION Spec
CONSTANTS
  g = g
  a1 = a1
  a2 = a2
  b2 = b2
  b3 = b3
  Block = {g, a1, a2, b2, b3}
  Genesis = g
  NoBlock = NoBlock
  Bad = Bad
  Parent <- MCParent
  StartTip = {a2}
  MaxMoves = 4
  MaxStops = 1
INVARIANTS
  StartsAgain
CHECK_DEADLOCK FALSE
