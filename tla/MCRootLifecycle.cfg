CONSTANTS
  p1 = p1
  p2 = p2
  d1 = d1
  d2 = d2
  d3 = d3
  Proc <- MCProc
  Dir <- MCDir
  NoDir = NoDir
  NoJournal = NoJournal
  Development = TRUE
  ReuseIdentity = FALSE
  MaxFaults = 2
SPECIFICATION Spec
SYMMETRY Symmetry
INVARIANTS ExclusiveAccess RootStays HandoffHolds ResidueIdentified
CHECK_DEADLOCK FALSE
