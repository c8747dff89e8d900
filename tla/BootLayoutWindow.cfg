SPECIFICATION Spec
CONSTANTS
  Page = 4
  Word = 2
  BootPhysBase = 4
  KernelPhysBase = 8
  KexecAlign = 8
  KexecHoleSize = 32
  OffsetMax = 112
  SegmentMax = 6
  MaxIterations = 4
  BootLen = 3
  RecordLen = 1
  Window = 56
  MaxChanges = 1
  RegionLists <- MCGapRegions
  KernelFiles <- MCSmallKernels
  ModuleLists <- MCFarModules
  PartSizes <- MCPartSizes
  MetaSizes <- MCMetaSizes
INVARIANT MetadataMapped
