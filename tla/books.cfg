SPECIFICATION Spec
CONSTANTS
  i1 = i1
  i2 = i2
  h1 = h1
  h2 = h2
  Startup = Startup
  None = None
  Inserts <- MCInserts
  Amount <- MCAmount
  Histories <- MCHistories
  Bins = 1
  Step = 2
  Offset <- MCOffset
  Back = 3
  Shift = 2
  Edge <- MCEdge
  Slips <- MCSlips
  Faults = {"prepare", "commit", "read"}
  MaxTime = 3
  MaxExits = 1
INVARIANT TypeOK
INVARIANT RememberedIsBooked
INVARIANT TroubleOnlyByOverlap
INVARIANT HistoryComplete
INVARIANT AtMostBins
CHECK_DEADLOCK FALSE
