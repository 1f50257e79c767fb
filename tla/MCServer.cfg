\* fork() may fail.  The parent exits when its descriptor table fills, or
\* at start-up on a configuration error, and then the system stops.
CONSTANTS
  c1 = c1
  c2 = c2
  c3 = c3
  Clients <- MCClients
  FdLimit <- MCFdLimit
  ForkMayFail = TRUE
  NoClient = NoClient
  Argvs <- MCArgvs
  LogFiles <- MCLogFiles
  ULongWidth <- MCULongWidth
  QueueWidth <- MCQueueWidth
  PortWidth <- MCPortWidth
  IntMax <- MCIntMax
SPECIFICATION Spec
INVARIANT TypeOK
INVARIANT OneRequestAtATime
INVARIANT ServesRequestedOptions
CHECK_DEADLOCK FALSE
