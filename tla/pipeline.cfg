SPECIFICATION Spec
CONSTANTS
  Key = {k1, k2}
  Gpu = {g1, g2}
  MinPackets = {1, 2}
  NumPackets = 2
INVARIANT Conserved
PROPERTIES Delivered StopEnds
CHECK_DEADLOCK FALSE
