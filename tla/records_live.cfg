SPECIFICATION FairSpec
CONSTANTS
  m = m
  a = a
  b = b
  Handle <- TwoThreads
  Main = m
  NoHandle = NoHandle
  MAX_THREAD_COUNT = 3
  Value <- NoWord
  Issued <- NoTls
  Creators <- JustMain
  Joiners <- TwoThreads
  JoinOnce = FALSE
  HandleStoredFirst = FALSE
  CallsDestroy = TRUE
INVARIANTS
  MainRecord
PROPERTIES
  JoinedRecordReturns
  CommandsReturn
CHECK_DEADLOCK FALSE
