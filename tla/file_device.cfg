SPECIFICATION Spec
CONSTANTS
  f1 = f1
  f2 = f2
  root = root
  top = top
  beside = beside
  sub = sub
  x = x
  y = y
  z = z
  o = o
  n1 = n1
  n2 = n2
  n3 = n3
  Device <- BothDevices
  File <- Files
  Dir <- Dirs
  Root = root
  Top = top
  Parent <- Parents
  Standing <- AtFirst
  Alike <- AsTop
  Dot = Dot
  DotDot = DotDot
  Inode <- Inodes
  NULL = NULL
  Programs <- FileOrListings
  Length <- Lengths
  MaxSize = 2
INVARIANTS
  Sound
  Sandboxed
  ReadsTheFile
  ListsEachOnce
  KeepsWhatItAnswers
SYMMETRY DeviceSymmetry
