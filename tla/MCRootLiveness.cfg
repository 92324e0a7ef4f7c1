CONSTANTS
  p1 = p1
  p2 = p2
  d1 = d1
  d2 = d2
  d3 = d3
  Proc <- MCProc
  Dir <- MCPair
  NoDir = NoDir
  NoJournal = NoJournal
  Development = FALSE
  ReuseIdentity = FALSE
  MaxFaults = 1
SPECIFICATION FairSpec
INVARIANTS OneRoot
PROPERTIES UninstallEnds LocksReleased
