SPECIFICATION Spec
CONSTANTS
  o0 = o0  o1 = o1  o2 = o2  x1 = x1  x2 = x2
  g = g  s = s  a1 = a1  a2 = a2  b1 = b1  b2 = b2
  Outpoint = {o0, o1, o2, x1, x2}
  Block = {g, s, a1, a2, b1, b2}
  NoBlock = NoBlock
  Genesis = g
  Parent <- MCParent
  Txs <- MCTxs
  MaxCrashes = 3
INVARIANTS
  CoinsTipExact
  DatabaseExact
  CleanDisconnect
