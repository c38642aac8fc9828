SPECIFICATION Spec
CHECK_DEADLOCK FALSE
INVARIANTS
  PropagationComplete DatabaseSound ReasonsValid AnswersRight
PROPERTIES
  Termination
