SPECIFICATION FairSpec
CONSTANTS
  args = 4
  UINT_MODULUS = 32
  Frameworks <- NoReattackFrameworks
  Tasks <- AllTasks
INVARIANTS
  TypeOK
  NeverReprinted
  ExtensionsExact
PROPERTIES
  ImplementsEnumeration
  Terminates
