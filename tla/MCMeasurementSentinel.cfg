\* The driver returns after its second pass: the final state is terminal.
CONSTANTS
  MaxIterations <- MCMaxIterations
  Width <- MCWidth
  MaxSample <- MCMaxSample
SPECIFICATION Spec
INVARIANT NoComputationSampleIsSentinel
CHECK_DEADLOCK FALSE
