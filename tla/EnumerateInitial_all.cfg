SPECIFICATION FairSpec
CONSTANTS
  args = 5
  UINT_MODULUS = 64
  CanGiveUp = TRUE
  Calls <- AllCalls
INVARIANTS
  EncodingExact
  InitialSetsExact
PROPERTIES
  ImplementsEnumeration
  Terminates
