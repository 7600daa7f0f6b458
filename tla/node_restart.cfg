SPECIFICATION Spec
CONSTANTS
  p1 = p1
  p2 = p2
  s1 = s1
  s2 = s2
  s3 = s3
  f1 = f1
  f2 = f2
  None = None
  Sessions <- MCSessions
  Payers <- MCPayers
  PayerOf <- MCPayerOf
  TotalIn <- MCTotalIn
  TotalOut <- MCTotalOut
  AmountMod = 8
  FirstSequence = 1
  Flushers <- OneFlusher
  Modes = {TRUE, FALSE}
  WarmStart = FALSE
  OnePaymentAtATime = FALSE
  Faults = {"failed", "timeout"}
  Expirable <- OneExpirable
  MaxCrashes = 1
  ServiceSessions <- OneService
INVARIANT TypeOK
INVARIANT NoDoubleCharge
INVARIANT ChargesWhatItCovers
CHECK_DEADLOCK FALSE
