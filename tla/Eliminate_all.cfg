SPECIFICATION Spec
CHECK_DEADLOCK FALSE
INVARIANTS
  DatabaseSound FixPointsExact
PROPERTIES
  WeakenContract
