\* The instance of round_trip.cfg, for the statement that a commit never panics.
SPECIFICATION RoundTripSpec
CONSTANTS
  NLit = 2
  MaxSyms = 6
  MaxPhrase = 4
  MinPairCount = 2
  MaxMerges = 6
  Lags = {1, 2}
  GcIntervals = {1, 2}
  PieceLists <- MCPieceLists
  HighEntropy <- MCHighEntropy
  SeedTables <- MCSeedTables
INVARIANT
  NoPanic
