SPECIFICATION FairSpec
CONSTANTS
  args = 5
  UINT_MODULUS = 64
  Frameworks <- ReattackFrameworks
  Tasks <- ReattackTasks
INVARIANTS
  ActiveIsReduct
  ForwardConsistent
  StrongSound
  SoundUnlessReattack
