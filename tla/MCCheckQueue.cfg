SPECIFICATION FairSpec
CONSTANTS
  w1 = w1
  w2 = w2
  c1 = c1
  c2 = c2
  c3 = c3
  c4 = c4
  Worker = {w1, w2}
  Master = Master
  Check = {c1, c2, c3, c4}
  Fails = {c2}
  BatchSize = 2
INVARIANTS
  ResultExact
  NoCheckOutlivesWait
PROPERTIES
  WaitReturns
  StopEnds
