CONSTANTS
  p1 = p1
  p2 = p2
  Version <- MCVersion
  Blob <- MCBlob
  Bytes <- MCBytes
  Proc <- MCProc
  Helper = Helper
  Bad = "bad"
  Missing = "missing"
  NoJournal = NoJournal
  NoWork = NoWork
  MaxFaults = 2
  MaxDamage = 1
  MaxUnidentified = 1
SPECIFICATION Spec
SYMMETRY Symmetry
INVARIANTS Recoverable NeverMixed HandoffContinuous
PROPERTIES ClearsSettled BinaryAdvances
