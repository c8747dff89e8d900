SPECIFICATION Spec
CONSTANTS
  None = None
  Page = 4096
  Firmware <- MCFirmware
  SysfsMaps <- MCSysfsMaps
  RuntimeMaps <- MCRuntimeMaps
  Shapes <- MCShapes
  TableRows = 3
  CopyMax = 240
  MetadataPhys = 40960
CHECK_DEADLOCK FALSE
INVARIANTS
  TypeOK
  CopyInside
  MapTrue
