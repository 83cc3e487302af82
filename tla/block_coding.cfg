SPECIFICATION CodingSpec
CONSTANTS
  NLit = 2
  MaxSyms = 5
  MaxMerges = 4
  MinPairCount = 2
  MinRep = 2
  MaxRaw = 9
  Inputs <- MCInputs
  Callers <- MCCallers
  Word = 64
  Digit = 4
  Width = 3
  RuleCtx = 1
  HotRules = 1
  Scatter = 5
  Buckets = 3
  MinTotal = 4
  MinSeen = 2
  MinSpectral = 2
  MaxPeriod = 4
  PieceSize = 2
  MaxBins = 2
INVARIANTS CountsExact HeapCoversCounts BlocksInvert
PROPERTY FollowsReference
CHECK_DEADLOCK FALSE
