CONSTANTS
  Segment <- MCSegment
  Lower <- MCLower
  Path <- MCPath
  Position <- MCPosition
  Entry <- MCLinkEntry
  Info <- MCInfo
  Manifest <- MCManifest
  Host <- MCHost
  CommandSets <- MCCommandSets
  MaxEntries = 6
  MaxBytes = 4
  MaxTable = 6
  MaxArchive = 6
SPECIFICATION Spec
INVARIANT AdmittedExactly
CHECK_DEADLOCK FALSE
