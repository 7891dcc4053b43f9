SPECIFICATION Spec
CONSTANTS
  m = m
  a = a
  Main = m
  Worker <- OneWorker
  NoThread = NoThread
  Layer <- OneLayer
  Color <- TwoColors
  Palette <- TwoPalettes
  Sizes <- TwoSizes
  Draws <- Dot
  TILE = 2
  WORD = 32
  FAR = 20
  Stale = Stale
  OutOfMemory <- Pixels
  ResizeAlone = FALSE
  MaxIssued = 2
INVARIANTS
  DrawsOnTheScreen
CHECK_DEADLOCK FALSE
