SPECIFICATION Spec
CONSTANTS
  Gpu = {g1}
  MaxFlows = 3
  max_encode_batch = 2
  max_send_batch = 2
INVARIANTS TypeOK BlockedExact RowsMatchIds EachFlowSentOnce ModelAliveInUse
PROPERTIES BatchSettles SinkDestroyed
CHECK_DEADLOCK FALSE
