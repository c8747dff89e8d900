SPECIFICATION Spec
CONSTANTS
  p1 = p1
  p2 = p2
  Proc = {p1, p2}
  Cpu <- MCCpus
  BootCpu = 0
  Uncontrolled = {}
  KexecSupported = TRUE
  NoImage = NoImage
  PollLimit = 2
  MaxPlugs = 0
PROPERTY SupportedIsNoOp
