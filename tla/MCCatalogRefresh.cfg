CONSTANTS
  c1 = c1
  c2 = c2
  c2again = c2again
  c3 = c3
  u1 = u1
  u2 = u2
  NoCat = NoCat
  NoId = NoId
  NoProc = NoProc
  Catalog <- MCCatalog
  Rev <- MCRev
  Url <- MCUrl
  UrlOf <- MCUrlOf
  Serves <- MCServes
  Seeds <- MCSeeds
  Id = {i1, i2}
  Proc = {p1, p2}
  MaxAttempts = 3
  MaxMisreads = 1
SPECIFICATION FairSpec
INVARIANTS RetriesAreCaused
PROPERTIES RefreshReturns OnlyAdvances OwnAuthority
