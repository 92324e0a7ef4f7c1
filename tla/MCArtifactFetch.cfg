CONSTANTS
  File = {f1, f2, f3, f4}
  Missing = Missing
  Directory = Directory
SYMMETRY FileSymmetry
SPECIFICATION Spec
INVARIANTS
  ConsumesVerified CacheNeverFatal NothingLeft CacheNeverPartial
