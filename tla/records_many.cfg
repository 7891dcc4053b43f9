SPECIFICATION Spec
CONSTANTS
  m = m
  a = a
  b = b
  Handle <- ThreeThreads
  Main = m
  NoHandle = NoHandle
  MAX_THREAD_COUNT = 3
  Value <- OneWord
  Issued <- CreateAndJoin
  Creators <- ThreeThreads
  Joiners <- ThreeThreads
  JoinOnce = TRUE
  HandleStoredFirst = FALSE
  CallsDestroy = FALSE
INVARIANTS
  SlotExclusive
  InUseIffOwned
PROPERTIES
  WorkerGetsItsArguments
SYMMETRY WorkerSymmetry
CHECK_DEADLOCK FALSE
