SPECIFICATION FairSpec
CONSTANTS
  m = m
  a = a
  Main = m
  Worker <- OneWorker
  NoThread = NoThread
  Layer <- OneLayer
  Color <- TwoColors
  Palette <- TwoPalettes
  Sizes <- TwoSizes
  Draws <- Shapes
  TILE = 2
  WORD = 32
  FAR = 20
  Stale = Stale
  OutOfMemory <- Pixels
  ResizeAlone = TRUE
  MaxIssued = 2
INVARIANTS
  Sound
PROPERTIES
  DrawsWhatIsMeant
  Shown
