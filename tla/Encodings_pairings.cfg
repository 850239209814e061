SPECIFICATION Spec
CONSTANTS
  Width <- TokenWidth
  Decimal <- DecimalOf
  Lexemes <- LexemesOf
  MaxDepth = 3
  Size = 7
  MaxInt = 1000
  MaxSize = 2
  Kinds = {"pairings"}
  Symbols <- MCSymbols
  Bound <- MCBound
  Options <- MCOptions
  Db <- Characteristics
  Initial <- Before
INVARIANT PairingsAreListed
CHECK_DEADLOCK FALSE
