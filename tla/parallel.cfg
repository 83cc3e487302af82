\* Two workers, windows of two and three chunks, GC after every chunk or every other.
SPECIFICATION ParSpec
CONSTANTS
  NLit = 2
  MaxSyms = 7
  MaxPhrase = 4
  MinPairCount = 2
  MaxMerges = 6
  Lags = {2, 3}
  GcIntervals = {1, 2}
  Jobs = 2
  PieceLists <- MCPieceLists
  HighEntropy <- MCHighEntropy
  SeedTables <- MCSeedTables
INVARIANTS
  ParTypeOK
  FrozenPrefix
  WindowBound
PROPERTIES
  SameAsSerial
  Finishes
