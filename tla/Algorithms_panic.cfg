\* Three phrases.  An input ends.
SPECIFICATION Spec
CONSTANTS
  MaxLines = 0
  MaxParams = 0
  MaxArgs = 0
  MaxChunks = 0
  MaxPhrases = 3
  MaxTypeTokens = 0
  MaxStatements = 0
  MaxExprs = 0
  MaxInt = 0
  Names = {a, b}
INVARIANTS
  ParserDoesNotPanic
CHECK_DEADLOCK FALSE
