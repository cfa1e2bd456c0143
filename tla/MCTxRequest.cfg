SPECIFICATION Spec
CONSTANTS
  p1 = p1
  p2 = p2
  p3 = p3
  t1 = t1
  t2 = t2
  Peer = {p1, p2, p3}
  Tx = {t1}
  Time = {0, 1, 2}
  Rank <- MCRank
  High = 3
INVARIANTS
  SanityCheck
  PeerInfoExact
PROPERTIES
  ImplementsRules
