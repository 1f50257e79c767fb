\* The child ends: exited or killed states are final.
CONSTANTS
  KernelNames <- MCKernelNames
  Defaults <- MCDefaults
  Requests <- MCRequests
  Width = 13
  ULongWidth = 16
  BufferSize = 128
  PageSize = 4096
  Pages <- MCPages
  OtherPages <- MCOtherPages
  ShortRecv = FALSE
  KernelBuffers <- MCKernelBuffers
  CpuSignatures <- MCCpuSignatures
  Picks <- MCPicks
  Counts <- MCCounts
  UllongMax = 2147483647
  ConnectionSocket = 4
  ErrorLogFd = 2
  KernelSyscalls <- MCNonBlockingSyscalls
  BlockingSyscalls = {}
  IdlePeer = FALSE
  KernelIds <- MCKernelIds
SPECIFICATION Spec
CHECK_DEADLOCK FALSE
INVARIANT TypeOK
INVARIANT KernelIsRequested
INVARIANT OverridesApplied
INVARIANT BodyComplete
INVARIANT AcceptsWellFormed
INVARIANT ArgumentsWithinBuffers
INVARIANT ReleasesExactly
PROPERTY CoordinatorRefined
