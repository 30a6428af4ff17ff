SPECIFICATION Spec
CONSTANTS
  Key = {k1, k2}
  NoKey = NoKey
  Task = {t1, t2}
  NoOne = NoOne
  MinPackets = 2
  MaxPackets = 2
  FlowTimeout = 1
  NumPackets = 3
  MaxTime = 2
INVARIANTS TypeOK FlowExact AssertMaxPackets NoEmptyEntry PacketAccounted
PROPERTY EventuallySettled
