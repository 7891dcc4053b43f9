SPECIFICATION Spec
CONSTANTS
  m = m
  a = a
  b = b
  Handle <- ThreeThreads
  Main = m
  NoHandle = NoHandle
  MAX_THREAD_COUNT = 3
  Value <- TwoWords
  Issued <- AllCommands
  Creators <- JustMain
  Joiners <- JustMain
  JoinOnce = TRUE
  HandleStoredFirst = TRUE
  CallsDestroy = FALSE
INVARIANTS
  TypeOK
PROPERTIES
  SelfIsOwn
  ManagerIsAnswered
SYMMETRY WorkerSymmetry
CHECK_DEADLOCK FALSE
