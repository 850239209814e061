SPECIFICATION Spec
CONSTANTS
  Width <- TokenWidth
  Decimal <- DecimalOf
  Lexemes <- LexemesOf
  MaxDepth = 3
  Size = 7
  MaxInt = 1000
  MaxSize = 2
  Kinds <- Checked
  Symbols <- MCSymbols
  Bound <- MCBound
  Options <- MCOptions
  Db <- Characteristics
  Initial <- Before
INVARIANTS StreamsAreJson ReadsAreAnswered ListsAreWhole UpdatesAreAnswered StoredIsAllowed TlvRoundTrip QueriesAreSplit Base64RoundTrip DecodedFits GeneratedIdsAreNew
CHECK_DEADLOCK FALSE
