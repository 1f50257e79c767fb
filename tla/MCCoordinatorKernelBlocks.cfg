\* A child process ends: exited or killed states are final.
CONSTANTS
  Kernels <- MCKernels
  KernelBuffers <- MCKernelBuffers
  CpuSignatures <- MCCpuSignatures
  Picks <- MCPicks
  Counts <- MCCounts
  UllongMax <- MCUllongMax
  ConnectionSocket <- MCConnectionSocket
  ErrorLogFd <- MCErrorLogFd
  KernelSyscalls <- MCAllSyscalls
  BlockingSyscalls <- MCBlockingSyscalls
  IdlePeer = FALSE
SPECIFICATION Spec
PROPERTY ChildTerminates
CHECK_DEADLOCK FALSE
