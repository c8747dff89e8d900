SPECIFICATION Spec
CONSTANTS
  Bases <- MCBases
  Tops <- MCTops
  Sources <- MCSources
  Lengths <- MCLengths
  LinuxSelectors <- MCLinuxSelectors
  Max32 = 3
  CopyMax = 8
  Entry = 601
  N = 6
  Pt4 = 602
  GdtBase = 603
  MapDestination = 604
CHECK_DEADLOCK FALSE
INVARIANT GdataKept
