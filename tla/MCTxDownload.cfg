SPECIFICATION Spec
CONSTANTS
  p1 = p1
  p2 = p2
  base = base
  parent = parent
  child = child
  other = other
  Peer = {p1, p2}
  Tx = {parent, child, other}
  Base = base
  Txids <- MCTxids
  Inputs <- MCInputs
  TooBig = {}
  MaxOrphans = 1
  Witness = {child}
  Policy <- MCPolicy
  Blocks <- MCBlocks
  MaxAnnounced = 1
  MaxPending = 2
SYMMETRY PeerSymmetry
INVARIANTS
  GonePeersForgotten
  OrphanageOK
  NoOrphanOverlooked
  AnnouncedIsWanted
