\* -p 70000: a port outside the range spec 6 allows.
CONSTANTS
  c1 = c1
  c2 = c2
  c3 = c3
  Clients <- MCClients
  FdLimit <- MCFdLimit
  ForkMayFail = FALSE
  NoClient = NoClient
  Argvs <- MCArgvsOutOfRange
  LogFiles <- MCLogFiles
  ULongWidth <- MCULongWidth
  QueueWidth <- MCQueueWidth
  PortWidth <- MCPortWidth
  IntMax <- MCIntMax
SYMMETRY MCSymmetry
SPECIFICATION Spec
INVARIANT OutOfRangeRejected
CHECK_DEADLOCK FALSE
