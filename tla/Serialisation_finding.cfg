SPECIFICATION FairSpec
CONSTANTS
  args = 5
  UINT_MODULUS = 64
  Frameworks <- ChainFramework
  Tasks <- EnumerationTasks
INVARIANTS
  OnlySerialisations
