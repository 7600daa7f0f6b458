SPECIFICATION FairSpec
CONSTANTS
  p = p
  q = q
  b1 = b1
  b2 = b2
  b3 = b3
  None = None
  Peers <- MCPeers
  Blocks <- MCBlocks
  SenderOf <- MCSenderOf
  ReceiverOf <- MCReceiverOf
  SizeOf <- MCSizeOf
  UnitsPer = 2
  Word = 16
  Threshold = 3
  Capacity = 1
  AsyncMode = FALSE
  Faults = {}
PROPERTY LoopReturns
CHECK_DEADLOCK FALSE
