SPECIFICATION SpecBoth
CONSTANTS
  Kernels <- MCKernels
  Modules <- MCModules
  MaxKernels = 2
  MaxModules = 2
  MaxPatches = 2
  Base = 2
  Top = 256
  KernBase = 192
  KernelPhys = 8
  PageSize = 16
  NotUtf8 <- MCNotUtf8
  OverflowChecks = FALSE
CHECK_DEADLOCK FALSE
INVARIANTS TypeOK OneKernel PatchExact StopsAtFailure SuccessMeansInside VersionsAddUp LoadedIsLast
