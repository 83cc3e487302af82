SPECIFICATION MCSpec
CONSTANTS
  Word = 64
  Digit = 4
  Width = 3
  NLit = 2
  MaxSyms = 3
  RuleCtx = 1
  HotRules = 1
  Scatter = 5
  Buckets = 3
  MinTotal = 4
  MinSeen = 2
  MaxStream = 6
  Newline = 1024
  Minus = 1025
  Delims <- MCDelims
  Radix = 16
  Half = 524288
  VarBase = 128
  MaxVarBytes = 3
  MinGridBytes = 6
  MaxEdgeBytes = 5
  MaxCols = 3
  MinYear = 1800
  MaxYear = 2400
  ByteBase = 4
  Operand = 2
  Branches = {3}
  TwoByte = 2
  Jcc = {0, 3}
  Base = 5
  MinLog2 = 1
  MaxLog2 = 3
  Logs = {0, 2, 9}
  Years <- MCYears
  Pieces <- MCPieces
INVARIANTS StreamInverts ConsumesAll TablesBalanced TransformsInvert CalendarAgrees
CHECK_DEADLOCK FALSE
