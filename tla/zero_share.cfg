SPECIFICATION Spec
CONSTANTS
  Word = 64
  Digit = 4
  Width = 2
  NLit = 2
  MaxSyms = 4
  RuleCtx = 1
  HotRules = 1
  Scatter = 5
  MaxRecords = 2
  MaxTokens = 4
  MaxNew = 2
INVARIANT NoZeroProbability
CHECK_DEADLOCK FALSE
