SPECIFICATION FairSpec
CONSTANTS
  POLYPHONY = 2
  BUFFER = 2
  MEMORY = 8
  CYCLE = 2
  NOTE_PERIOD = 2
  CYCLE_PERIOD = 3
  ADSR_STEP = 2
  FULL = 4
  Note <- SomeNotes
  Programs <- AllPrograms
  MaxQueue = 2
INVARIANTS
  Sound
  PlayingIsHeard
  ConsoleInOrder
  InputPorts
PROPERTIES
  EndOnce
  EndIsHeard
  InputIsHeard
  HaltEnds
CHECK_DEADLOCK FALSE
