SPECIFICATION Spec
CONSTANTS
  a = a
  b = b
  c = c
  None = None
  Payments <- MCPayments
  Length = 3
  Price <- MCPrice
  Fee <- MCFee
  Balance = 5
  AmountMod = 9
  ExactBelow = 8
  OtherNumber = {2}
  BadSigner = {1}
INVARIANT TypeOK
INVARIANT SignedByBoth
INVARIANT PaidIsSigned
INVARIANT PayerAgrees
INVARIANT NodesKeepFee
INVARIANT ReplacesByNumber
PROPERTY SettlesFromService
CHECK_DEADLOCK FALSE
