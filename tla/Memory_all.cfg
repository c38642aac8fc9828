SPECIFICATION Spec
CHECK_DEADLOCK FALSE
INVARIANTS
  UserUnaware NoDangling CountsExact
