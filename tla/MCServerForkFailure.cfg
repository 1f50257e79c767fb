\* fork() may fail.
CONSTANTS
  c1 = c1
  c2 = c2
  c3 = c3
  Clients <- MCClients
  FdLimit <- MCFdLimit
  ForkMayFail = TRUE
  NoClient = NoClient
  Argvs <- MCArgvsDefault
  LogFiles <- MCLogFiles
  ULongWidth <- MCULongWidth
  QueueWidth <- MCQueueWidth
  PortWidth <- MCPortWidth
  IntMax <- MCIntMax
SYMMETRY MCSymmetry
SPECIFICATION Spec
INVARIANT ParentSurvives
CHECK_DEADLOCK FALSE
