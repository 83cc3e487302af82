\* Serial creation and extraction, lags 1 and 2, GC after every chunk or every other.
SPECIFICATION RoundTripSpec
CONSTANTS
  NLit = 2
  MaxSyms = 6
  MaxPhrase = 4
  MinPairCount = 2
  MaxMerges = 6
  Lags = {1, 2}
  GcIntervals = {1, 2}
  PieceLists <- MCPieceLists
  HighEntropy <- MCHighEntropy
  SeedTables <- MCSeedTables
INVARIANTS
  TypeOK
  RoundTrip
  BooksAgree
  IndexSound
  UsedPhrasesSurvive
  SnapshotsWithinTable
PROPERTIES
  FollowsProtocol
  PrefixStable
