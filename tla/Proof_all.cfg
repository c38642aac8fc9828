SPECIFICATION MCSpec
CHECK_DEADLOCK FALSE
CONSTANTS
  Vars = {1, 2, 3}
  strict_lrat = TRUE
  Pool <- ChainsPool
  Derivable <- ChainsDerivable
  MaxId = 3
  MaxChain = 3
INVARIANTS
  CheckerSound RightAccepted RootExact
