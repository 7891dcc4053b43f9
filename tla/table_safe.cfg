SPECIFICATION FairSpec
CONSTANTS
  p = p
  q = q
  x = x
  y = y
  z = z
  Proc <- TwoThreads
  NoProc = NoProc
  Object <- ThreeObjects
  NULL = NULL
  Garbage = Garbage
  InitialCapacity = 2
  MaxCapacity = 4
  HANDLE_MAX = 4
  Starter <- OneStarter
  StrayHandle <- Stray
INVARIANTS
  Sound
PROPERTIES
  HolderReturns
  RegistrySpec
