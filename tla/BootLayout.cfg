SPECIFICATION Spec
CONSTANTS
  Page = 4
  Word = 2
  BootPhysBase = 4
  KernelPhysBase = 8
  KexecAlign = 8
  KexecHoleSize = 32
  OffsetMax = 72
  SegmentMax = 6
  MaxIterations = 4
  BootLen = 3
  RecordLen = 1
  Window = 36
  MaxChanges = 1
  RegionLists <- MCRegionLists
  KernelFiles <- MCKernelFiles
  ModuleLists <- MCModuleLists
  PartSizes <- MCPartSizes
  MetaSizes <- MCMetaSizes
INVARIANTS
  TypeOK
  SegmentsDisjoint
  KernendAboveSegments
  KernelInRam
  SegmentsOnRamPages
  MetadataDescribesPlan
PROPERTY ImplementsBump
