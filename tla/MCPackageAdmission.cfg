CONSTANTS
  Segment <- MCSegment
  Lower <- MCLower
  Path <- MCPath
  Position <- MCPosition
  Entry <- MCEntry
  Info <- MCInfo
  Manifest <- MCManifest
  Host <- MCHost
  CommandSets <- MCCommandSets
  MaxEntries = 6
  MaxBytes = 4
  MaxTable = 6
  MaxArchive = 5
SPECIFICATION Spec
INVARIANTS
  RegisterMatchesReference EveryEntryOnDisk BudgetRespected
  AdmittedWithoutDirectoryLinks AdmittedUnaliased
CHECK_DEADLOCK FALSE
