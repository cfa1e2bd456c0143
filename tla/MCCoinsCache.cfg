SPECIFICATION Spec
CONSTANTS
  o1 = o1
  o2 = o2
  c1 = c1
  c2 = c2
  Outpoint = {o1, o2}
  Coin = {c1, c2}
  Spent = Spent
  Absent = Absent
  Block = {b1, b2}
  NoBlock = NoBlock
  Mem <- MCMem
  BaseReportsSpent = TRUE
SYMMETRY Symmetry
INVARIANTS
  EntriesConsistent
  UsageExact
PROPERTIES
  ImplementsViews
