SPECIFICATION Spec
CONSTANTS
  Key = {k1}
  NoKey = NoKey
  Task = {t1, t2}
  NoOne = NoOne
  MinPackets = 3
  MaxPackets = 3
  FlowTimeout = 2
  NumPackets = 2
  MaxTime = 4
PROPERTY YoungNeverExpired
