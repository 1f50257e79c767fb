\* A child process ends: exited or killed states are final.
CONSTANTS
  Kernels <- MCKernels
  KernelBuffers <- MCKernelBuffers
  CpuSignatures <- MCCpuSignatures
  Picks <- MCPicks
  Counts <- MCCounts
  UllongMax <- MCUllongMax
  ConnectionSocket <- MCConnectionSocket
  ErrorLogFd <- MCErrorLogFd
  KernelSyscalls <- MCNonBlockingSyscalls
  BlockingSyscalls = {}
  IdlePeer = FALSE
SPECIFICATION Spec
INVARIANT TypeOK
INVARIANT UntrustedCodeConfined
INVARIANT ReportIsFaithful
INVARIANT CountersFollowCatalogue
PROPERTY FilterEnforcesPolicy
PROPERTY ChildTerminates
CHECK_DEADLOCK FALSE
