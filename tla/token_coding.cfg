SPECIFICATION Spec
CONSTANTS
  Word = 64
  Digit = 4
  Width = 3
  NLit = 2
  MaxSyms = 4
  RuleCtx = 1
  HotRules = 1
  Scatter = 5
  MaxRecords = 2
  MaxTokens = 3
  MaxNew = 2
INVARIANTS TypeOK BooksBalance UndoIsExact StreamDecodes ReaderInSync
CHECK_DEADLOCK FALSE
