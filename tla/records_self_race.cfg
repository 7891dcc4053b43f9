SPECIFICATION Spec
CONSTANTS
  m = m
  a = a
  b = b
  Handle <- ThreeThreads
  Main = m
  NoHandle = NoHandle
  MAX_THREAD_COUNT = 4
  Value <- NoWord
  Issued <- NoTls
  Creators <- ThreeThreads
  Joiners <- JustMain
  JoinOnce = TRUE
  HandleStoredFirst = TRUE
  CallsDestroy = FALSE
PROPERTIES
  SelfIsOwn
SYMMETRY WorkerSymmetry
CHECK_DEADLOCK FALSE
