CONSTANTS
  p1 = p1
  p2 = p2
  Version <- MCVersion
  Blob <- MCBlob
  Bytes <- MCBytes
  Proc <- MCProc
  Helper = Helper
  Bad = "bad"
  Missing = "missing"
  NoJournal = NoJournal
  NoWork = NoWork
  MaxFaults = 1
  MaxDamage = 0
  MaxUnidentified = 0
SPECIFICATION FairSpec
PROPERTIES PendingResolves
