SPECIFICATION Spec
CHECK_DEADLOCK FALSE
CONSTANTS
  Parts = {"parse"}
  Files <- TgfFiles
  Garbage = {0, 2}
  CommandLines <- AllCommandLines
  UINT_MODULUS = 16
  INT_MAX = 7
INVARIANTS
  TgfRead
