SPECIFICATION Spec
CONSTANTS
  B = 16
  NIBBLE = 4
  BANKS = 2
  Words = {"on-reset", "a", "b", "ab", "ff"}
  Invalid = {"ff"}
  MaxLabels = 3
  MaxRefs = 4
  MaxMacros = 2
  MaxSteps = 3
  Sources <- MCSources
  Machines <- MCMachines
INVARIANTS
  ImageSound
  Linked
  CoresAgree
  Confined
  ExpansionMoves
PROPERTIES
  LambdasNest
  StartsFresh
CHECK_DEADLOCK FALSE
