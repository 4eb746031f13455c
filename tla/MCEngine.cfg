SPECIFICATION MCSpec
CONSTANTS
  Labels = {"A", "B"}
  Engine <- MCExecute
  Reply <- MCReply
  Stmts <- MCStmts
  Schemas <- MCSchemas
  Probes <- MCProbes
  MaxNodes = 2
  MaxEdges = 2
  Depths = {0, 1, 2, 99}
  Graphs <- MCGraphs
  QueryGraphs <- MCQueryGraphs
  MatchQueries <- MCMatchQueries
  PathPatterns <- MCPathPatterns
  Laws <- MCLaws
  Texts <- MCTexts
  Terms <- MCTerms
  Days <- MCDays
  Months <- MCMonths
  CharTexts <- MCCharTexts
  Strings <- MCStrings
  Syntax <- MCSyntax
  ClauseLists <- MCClauseLists
  Statements <- MCStatements
  Explained <- MCExplained
  Samples <- MCSamples
INVARIANTS
  StoreSound
  StatementsCareful
  GraphAnswersExact
  QueryAnswersExact
  FunctionsExact
  LanguageExact
PROPERTY KeepsConstraints
