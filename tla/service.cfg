SPECIFICATION Spec
CONSTANTS
  s1 = s1
  s2 = s2
  s3 = s3
  l1 = l1
  l2 = l2
  host = host
  hostPort = hostPort
  NoName = NoName
  None = None
  Setups <- MCSetups
  Lookups <- MCLookups
  Names <- MCNames
  Trimmed <- MCTrimmed
  KeyOf <- MCKeyOf
  MaxVersion = 2
  MaxCrashes = 1
INVARIANT ServesQualified
INVARIANT AnswersNotOlder
PROPERTY LookupReturns
CHECK_DEADLOCK FALSE
