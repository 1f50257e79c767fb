CONSTANTS
  KernelNames <- MCKernelNames
  Defaults <- MCDefaults
  Requests <- MCBodyRequests
  Width = 13
  ULongWidth = 16
  BufferSize = 128
  PageSize = 4096
  Pages <- MCPages
  OtherPages <- MCOtherPages
  ShortRecv = TRUE
SPECIFICATION Spec
\* The modelled part ends with the arguments freed or in log_fatal.
CHECK_DEADLOCK FALSE
INVARIANT BodyComplete
