\* fork() always succeeds: the loop serves connections forever.
CONSTANTS
  c1 = c1
  c2 = c2
  c3 = c3
  Clients <- MCClients
  FdLimit <- MCFdLimit
  ForkMayFail = FALSE
  NoClient = NoClient
  Argvs <- MCArgvs
  LogFiles <- MCLogFiles
  ULongWidth <- MCULongWidth
  QueueWidth <- MCQueueWidth
  PortWidth <- MCPortWidth
  IntMax <- MCIntMax
SPECIFICATION Spec
INVARIANT ParentSurvives

PROPERTY ImplementsSerialServer
\* A configuration error or a failed bind() ends the server before it
\* listens (spec 7), and then nothing more happens.
CHECK_DEADLOCK FALSE
