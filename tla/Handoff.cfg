SPECIFICATION FairSpec
CONSTANTS
  p1 = p1
  p2 = p2
  Proc = {p1, p2}
  Cpu <- MCCpus
  BootCpu = 0
  Uncontrolled = {3}
  KexecSupported = TRUE
  NoImage = NoImage
  PollLimit = 2
  MaxPlugs = 1
INVARIANTS
  TypeOK
  SingleCpuHandoff
  ImageUntilReboot
PROPERTY Termination
