------------------------------ MODULE Server -------------------------------
(***************************************************************************)
(* The accept loop of main() (src/src/webserver/server.c): the parent      *)
(* accepts one connection, forks a child for it, closes its own copy of    *)
(* the client socket and waits for that child before accepting again.      *)
(*                                                                         *)
(* A connection is a model value of Clients.  Descriptors are tracked per  *)
(* process: the parent's client sockets, and those each running child      *)
(* holds (fork copies every descriptor the parent has open).  A client's   *)
(* connection is closed when no process holds its socket.  The child's     *)
(* work is process_request(), which Coordinator models; here it is one     *)
(* step that ends the child and closes its descriptors.                    *)
(*                                                                         *)
(* Before the loop, main() runs parse_options() (Options), passes the log  *)
(* descriptors to setup_logs() (logs.c) and creates, binds and listens on  *)
(* the server socket; clients can connect only once it listens.            *)
(***************************************************************************)
EXTENDS Naturals, FiniteSets, Options

CONSTANTS
  Clients,      \* the connections clients open
  FdLimit,      \* client sockets the parent may hold (RLIMIT_NOFILE less the
                \* descriptors it already has open)
  ForkMayFail,  \* TRUE: fork() may return -1 (EAGAIN, ENOMEM)
  NoClient      \* current before the first accept()

ASSUME FdLimit \in Nat \ {0}
ASSUME ForkMayFail \in BOOLEAN
ASSUME NoClient \notin Clients

VARIABLES
  ppc,        \* the parent: "start", "accept", "fork", "wait" or "exited"
  logs,       \* error_log_fd and access_log_fd of logs.c
  listening,  \* the server socket has been set listening
  current,    \* the client whose socket accept() returned last
  client,     \* client[c]: "idle", "pending" (in the backlog), "accepted"
  parentFds,  \* client sockets open in the parent
  children    \* children[c]: the sockets the child serving c holds, for
              \* each c whose child is running

startVars == <<logs, listening, optionVars>>
vars == <<ppc, logs, listening, current, client, parentFds, children,
          optionVars>>

\* Some process holds the socket of c.
Held(c) ==
  c \in parentFds \/ \E ch \in DOMAIN children : c \in children[ch]

Init ==
  /\ OptionsInit
  /\ ppc = "start"
  /\ logs = [error |-> StdLog("stderr"), access |-> StdLog("stdout")]
  /\ listening = FALSE
  /\ current = NoClient
  /\ client = [c \in Clients |-> "idle"]
  /\ parentFds = {}
  /\ children = [c \in {} |-> {}]

\* main() before the loop: parse_options() one argument at a time; an
\* exit() of parse_options() ends the process.
Configure ==
  /\ ppc = "start"
  /\ ParseOptions
  /\ ppc' = IF ostate' = "parsing" \/ ostate' = "parsed" THEN ppc ELSE "exited"
  /\ UNCHANGED <<logs, listening, current, client, parentFds, children>>

\* setup_logs(options.error_log, options.access_log); socket(), setsockopt()
\* (a failure is only logged), bind() on options.port and listen() with
\* options.queue_size all succeed.
Listen ==
  /\ ppc = "start"
  /\ ostate = "parsed"
  /\ logs' = [error |-> options.error_log, access |-> options.access_log]
  /\ listening' = TRUE
  /\ ppc' = "accept"
  /\ UNCHANGED <<optionVars, current, client, parentFds, children>>

\* socket(), bind() (the port is in use, or below 1024 without privilege)
\* or listen() fails after setup_logs(): log_fatal() exits.
StartupFails ==
  /\ ppc = "start"
  /\ ostate = "parsed"
  /\ logs' = [error |-> options.error_log, access |-> options.access_log]
  /\ ppc' = "exited"
  /\ UNCHANGED <<listening, optionVars, current, client, parentFds, children>>

\* A client connects once the server socket listens; the connection waits
\* in the listen backlog.
Connect(c) ==
  /\ listening
  /\ client[c] = "idle"
  /\ client' = [client EXCEPT ![c] = "pending"]
  /\ UNCHANGED <<startVars, ppc, current, parentFds, children>>

\* Mutation of Accept: one descriptor more than the table holds.
AcceptPastLimit ==
  /\ ppc = "accept"
  /\ Cardinality(parentFds) <= FdLimit
  /\ \E c \in Clients :
       /\ client[c] = "pending"
       /\ client' = [client EXCEPT ![c] = "accepted"]
       /\ parentFds' = parentFds \cup {c}
       /\ current' = c
  /\ ppc' = "fork"
  /\ UNCHANGED <<startVars, children>>

\* accept() returns the next connection of the backlog.
Accept ==
  /\ ppc = "accept"
  /\ Cardinality(parentFds) < FdLimit
  /\ \E c \in Clients :
       /\ client[c] = "pending"
       /\ client' = [client EXCEPT ![c] = "accepted"]
       /\ parentFds' = parentFds \cup {c}
       /\ current' = c
  /\ ppc' = "fork"
  /\ UNCHANGED <<startVars, children>>

\* accept() fails with ECONNABORTED: the client gave up while queued;
\* the loop goes on.
AcceptAborted ==
  /\ ppc = "accept"
  /\ \E c \in Clients :
       /\ client[c] = "pending"
       /\ client' = [client EXCEPT ![c] = "idle"]
  /\ UNCHANGED <<startVars, ppc, current, parentFds, children>>

\* accept() fails with EMFILE when the parent's descriptor table is full:
\* not one of ECONNABORTED, EINTR, EPROTO, so exit(EXIT_FAILURE).
AcceptNoDescriptor ==
  /\ ppc = "accept"
  /\ Cardinality(parentFds) >= FdLimit
  /\ \E c \in Clients : client[c] = "pending"
  /\ ppc' = "exited"
  /\ parentFds' = {}
  /\ UNCHANGED <<startVars, current, client, children>>

\* Mutation of ForkChild: the parent does not close client_socket.
ForkChildKeepsSocket ==
  /\ ppc = "fork"
  /\ children' = [ch \in DOMAIN children \cup {current} |->
                    IF ch = current THEN parentFds ELSE children[ch]]
  /\ ppc' = "wait"
  /\ UNCHANGED <<startVars, current, client, parentFds>>

\* fork() succeeds: the child gets a copy of every descriptor of the
\* parent (it closes only the listening socket); the parent closes
\* client_socket and calls waitpid().
ForkChild ==
  /\ ppc = "fork"
  /\ children' = [ch \in DOMAIN children \cup {current} |->
                    IF ch = current THEN parentFds ELSE children[ch]]
  /\ parentFds' = parentFds \ {current}
  /\ ppc' = "wait"
  /\ UNCHANGED <<startVars, current, client>>

\* fork() returns -1: the error is logged and the loop accepts again
\* without closing client_socket.
ForkFails ==
  /\ ppc = "fork"
  /\ ForkMayFail
  /\ ppc' = "accept"
  /\ UNCHANGED <<startVars, current, client, parentFds, children>>

\* The child serving c runs process_request() and exits; the kernel closes
\* every descriptor it holds.
ChildExit(c) ==
  /\ c \in DOMAIN children
  /\ children' = [ch \in DOMAIN children \ {c} |-> children[ch]]
  /\ UNCHANGED <<startVars, ppc, current, client, parentFds>>

\* Mutation of Wait: waitpid(..., WNOHANG), the parent does not block.
WaitNoHang ==
  /\ ppc = "wait"
  /\ ppc' = "accept"
  /\ UNCHANGED <<startVars, current, client, parentFds, children>>

\* waitpid(fork_process) returns once that child has exited.
Wait ==
  /\ ppc = "wait"
  /\ current \notin DOMAIN children
  /\ ppc' = "accept"
  /\ UNCHANGED <<startVars, current, client, parentFds, children>>

\* The client sees end-of-file once no process holds its socket.
ClientSeesClose(c) ==
  /\ client[c] = "accepted"
  /\ ~Held(c)
  /\ client' = [client EXCEPT ![c] = "idle"]
  /\ UNCHANGED <<startVars, ppc, current, parentFds, children>>

Parent == Configure \/ Listen \/ StartupFails \/ Accept \/ AcceptAborted \/ AcceptNoDescriptor \/ ForkChild
          \/ ForkFails \/ Wait

Next ==
  \/ Parent
  \/ \E c \in Clients : Connect(c) \/ ChildExit(c) \/ ClientSeesClose(c)

\* The parent and every child are runnable processes the OS schedules; a
\* child ends (Coordinator's ChildTerminates, under its assumptions); the
\* client reads the end of the connection.  Clients need not connect.
Fairness ==
  /\ WF_vars(Parent)
  /\ \A c \in Clients : WF_vars(ChildExit(c)) /\ WF_vars(ClientSeesClose(c))

Spec == Init /\ [][Next]_vars /\ Fairness

(***************************************************************************)
(* Properties                                                              *)
(***************************************************************************)

TypeOK ==
  /\ ppc \in {"start", "accept", "fork", "wait", "exited"}
  /\ ostate \in {"parsing", "parsed", "exit_failure", "exit_success"}
  /\ options.port \in 0 .. 2^PortWidth - 1
  /\ options.queue_size \in 0 .. IntMax
  /\ listening \in BOOLEAN
  /\ current \in Clients \cup {NoClient}
  /\ client \in [Clients -> {"idle", "pending", "accepted"}]
  /\ parentFds \subseteq Clients
  /\ Cardinality(parentFds) <= FdLimit
  /\ DOMAIN children \subseteq Clients
  /\ \A ch \in DOMAIN children : children[ch] \subseteq Clients

\* Requests are measured one at a time (spec 5): at most one child runs,
\* so no two kernels under test share the CPU and its counters.
OneRequestAtATime ==
  Cardinality(DOMAIN children) <= 1

\* The server keeps serving: once it listens, a failure that concerns one
\* request never makes the parent exit (spec 7: errors are fatal to the
\* child only; only configuration errors exit, before listening).
ParentSurvives ==
  listening => ppc # "exited"

\* The server listens only with what its command line asks for (spec 6,
\* CLI): the port and backlog given with -p and -q, the defaults 8081 and
\* 10 otherwise, and its error and access logs, which setup_logs()
\* installs, are the files named by --error-log and --access-log.  It
\* relates the whole argument loop of parse_options() and the call of
\* setup_logs() in main() to the command line.
ServesRequestedOptions ==
  listening =>
    /\ options = RequestedOptions
    /\ logs = [error |-> RequestedOptions.error_log,
               access |-> RequestedOptions.access_log]

\* Out-of-range numbers on the command line make the server exit (spec 6,
\* CLI: "out-of-range numeric values -> exit non-zero"): a server that
\* listens was given a port in 0 .. 65535 and a backlog in 1 .. INT_MAX.
OutOfRangeRejected ==
  listening => InRange(RequestedOptions)



(***************************************************************************)
(* Refinement.  The state of a connection in SerialServer: a connection    *)
(* the parent has accepted is being served while the parent is about to   *)
(* fork for it or its child runs, and served afterwards until its client   *)
(* sees the close.                                                         *)
(***************************************************************************)
ServiceState(c) ==
  CASE client[c] = "idle"    -> "idle"
    [] client[c] = "pending" -> "queued"
    [] client[c] = "accepted" ->
         IF c \in DOMAIN children \/ (ppc = "fork" /\ current = c)
         THEN "serving" ELSE "served"

Serial == INSTANCE SerialServer WITH state <- [c \in Clients |-> ServiceState(c)]

\* The accept loop implements SerialServer: a connection is served only
\* while no other is (accept after waitpid), each request finishes, and
\* each finished connection is closed (close in the parent, exit in the
\* child).
ImplementsSerialServer == Serial!Spec

=============================================================================
