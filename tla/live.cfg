SPECIFICATION Spec
CONSTANTS
  Plain <- MCPlain
  stoi <- MCstoi
  CommandLines <- MCCommandLines
  MaxWorkers = 3
  MaxPackets = 2
  MaxSignals = 3
  patience = 3
INVARIANTS TypeOK SinkAliveInUse
PROPERTIES PacketProcessed ShutdownCompletes DurationStops
CHECK_DEADLOCK FALSE
