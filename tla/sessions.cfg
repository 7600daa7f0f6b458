SPECIFICATION FairSpec
CONSTANTS
  r1 = r1
  r2 = r2
  s1 = s1
  c1 = c1
  here = here
  hop = hop
  there = there
  NoRoute = NoRoute
  None = None
  Requests <- MCRequests
  Sessions <- MCSessions
  SessionOf <- MCSessionOf
  Source = here
  Destination <- MCDestination
  Route <- MCRoute
  TorRoutes <- MCTorRoutes
  TorWatches = TRUE
  Watched <- MCWatched
  Commands <- MCCommands
  Modes = {TRUE, FALSE}
  Faults = {"route", "payment", "status", "decode", "command"}
  MaxExits = 1
INVARIANT TypeOK
INVARIANT SecondRunOnlyByRace
INVARIANT AnswersFindTheRun
PROPERTY AcceptedIsTold
CHECK_DEADLOCK FALSE
