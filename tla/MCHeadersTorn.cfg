CONSTANTS
  g = g
  a1 = a1
  a2 = a2
  a3 = a3
  a4 = a4
  a5 = a5
  a6 = a6
  b3 = b3
  b4 = b4
  b5 = b5
  b6 = b6
  c6 = c6
  c7 = c7
  Header = {g, a1, a2, a3, a4, a5, a6, b3, b4, b5, b6, c6, c7}
  Genesis = g
  Parent <- MCParent
  Garbled = Garbled
  NoSync = NoSync
  NoHeader = NoHeader
  Base = 2
  Half = 8
  Units = {1, 2, 4, 8}
  Top = 4096
  PowLimit = 60
  Interval = 3
  Timespan = 20
  SwitchHeight = 3
  Elapsed = {5}
  MinWork = 400
  Period = 2
  Buffer = 2
  MaxCommitments = 4
  MaxHeaders = 2
  Salts <- MCSalts
  MaxAnnounce = 1
  MaxUnconnecting = 2
  FirstTips = {a4, a5, a6}
  MaxTips = 2
  MaxLate = 1
  MaxScore = 40
SPECIFICATION FairSpec
CHECK_DEADLOCK FALSE
PROPERTY
  AlwaysCatchesUp
