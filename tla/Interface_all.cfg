SPECIFICATION MCSpec
CHECK_DEADLOCK FALSE
CONSTANTS
  Vars = {1, 2, 3}
  MaxClauses = 1
  MaxSize = 2
  MaxAssumptions = 1
  Disciplined = TRUE
  Addable <- UserClauses
  Assumable <- UserAssumptions
  Options <- RestoreOptions
  Derivable <- DerivedClauses
  MaxChain = 2
  MaxOriginal = 3
  MaxStack = 2
  MaxSolves = 2
INVARIANTS
  AnswerCurrent QueryFresh AnswerOfOriginal RestoreComplete
PROPERTIES
  StoppedOnRequest
