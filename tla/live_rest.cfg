SPECIFICATION Spec
CONSTANTS
  Plain <- MCPlain
  stoi <- MCstoi
  CommandLines <- RestCommandLines
  MaxWorkers = 1
  MaxPackets = 2
  MaxSignals = 0
  patience = 3
INVARIANT RemainingProcessed
CHECK_DEADLOCK FALSE
