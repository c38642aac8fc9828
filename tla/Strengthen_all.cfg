SPECIFICATION Spec
CHECK_DEADLOCK FALSE
INVARIANTS
  DatabaseSound NothingMissed StillJustified
