\* Five lines; three parameters and three arguments; four chunks; three phrases,
\* a type comment of four tokens; three statements; four expressions.  An input ends.
SPECIFICATION Spec
CONSTANTS
  MaxLines = 5
  MaxParams = 3
  MaxArgs = 3
  MaxChunks = 4
  MaxPhrases = 3
  MaxTypeTokens = 4
  MaxStatements = 3
  MaxExprs = 4
  MaxInt = 3
  Names = {a, b}
INVARIANTS
  FlowSeesEveryPath
  UnboundHasAPath
  OnlyDeadCodeIsReported
  CallsAreJudged
  ActiveParamIsBound
  TokensAreTheText
  LinesAreNested
  TreeIsTheText
  AcceptsItsGrammar
  LinesRecover
  SourceMapIsExact
  TypeCommentsAreRead
  NamesResolveLexically
  ReadDefinitionsAreUsed
  CompletionsResolve
  TypesAreSound
  ReportsAreErrors
  AssignmentsAreJudged
CHECK_DEADLOCK FALSE
