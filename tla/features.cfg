SPECIFICATION Spec
CONSTANTS
  BatchSize = 2
  MaxCount = 11
  MaxFlows = 3
  Packets <- MCPackets
  Payloads <- MCPayloads
  Row <- MCRow
  FlowLists <- MCFlowLists
  Nothing = Nothing
INVARIANTS KeyIsConversation BlobAligned RowInBlob EndpointsHidden FeaturesExact
CHECK_DEADLOCK FALSE
