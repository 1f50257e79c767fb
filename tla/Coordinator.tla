---------------------------- MODULE Coordinator ----------------------------
(***************************************************************************)
(* One request child: process_request() (src/src/webserver/request.c)      *)
(* from the first recv() to the exit(0) of the child branch in main()      *)
(* (src/src/webserver/server.c), with the steps it calls that change the   *)
(* process: init_performance_counters(), the kernels' create_arguments and *)
(* free_arguments, enable_sandbox() and http_respond_status().             *)
(*                                                                         *)
(* Once the filter is installed, every system call the child makes is      *)
(* judged by the real BPF program of SeccompProgram.  The kernel under     *)
(* test is untrusted code: while it runs it may return, spin, or make any  *)
(* system call of KernelSyscalls.  The client may reset the connection at  *)
(* any time.  Request parsing, the parameter record and the counter values *)
(* are abstracted to their outcomes; Measurement models the driver.        *)
(***************************************************************************)
EXTENDS Integers, Sequences, FiniteSets

CONSTANTS
  Kernels,           \* the kernels of kernel_specifications
  KernelBuffers,     \* KernelBuffers[k]: buffers create_arguments maps, in order
  CpuSignatures,     \* CPUID leaf-1 eax words of the machines served on
  Picks,             \* the entries of each counter table opened (Perfctr)
  Counts,            \* counts a working driver may return
  UllongMax,         \* ULLONG_MAX, the driver's "not working" sentinel
  ConnectionSocket,  \* the accepted socket, the descriptor the filter allows
  ErrorLogFd,        \* error_log_fd of logs.c (stderr or --error-log file)
  KernelSyscalls,    \* system calls (seccomp_data records) the kernel may make
  BlockingSyscalls,  \* those of KernelSyscalls that may block indefinitely
  IdlePeer           \* TRUE: a client may connect and never send

ASSUME ErrorLogFd # ConnectionSocket
ASSUME BlockingSyscalls \subseteq KernelSyscalls
ASSUME UllongMax \notin Counts

BPF == INSTANCE SeccompProgram
Perf == INSTANCE Perfctr

VARIABLES
  pc,         \* the step of process_request the child is at
  child,      \* "running", or how the child process ended
  kernel,     \* the kernel named by the request
  cpu,        \* the eax word cpuid(1) returned, 0 before
  counters,   \* the counters init_performance_counters() returned
  fds,        \* fds[j]: "open", or "failed" when perf_event_open returned -1
  mapped,     \* argument buffers currently mapped
  sandbox,    \* the protections enable_sandbox() has installed
  i,          \* index of the counter being measured
  count,      \* the value the driver returned for counter i
  results,    \* results[j]: what the driver returned for counters[j]
  output,     \* what the child has written on the connection socket
  peer,       \* "connected" or "reset" by the client
  sends,      \* the client sends its request
  blocked,    \* the kernel under test is blocked in a system call
  allowed     \* the calls the process's seccomp filter lets through

vars == <<pc, child, kernel, cpu, counters, fds, mapped, sandbox, i, count,
          results, output, peer, sends, blocked, allowed>>

CounterSet == {counters[j].name : j \in 1 .. Len(counters)}

\* What init_performance_counters() and the perf_event_open calls set.
pmu == <<cpu, counters, fds>>

\* The counters init_performance_counters() returns on each machine.
Catalogue == [eax \in CpuSignatures |-> Perf!InitPerformanceCounters(eax)]

(***************************************************************************)
(* System calls, and the filter's judgement of them.                       *)
(***************************************************************************)

SysCall(nr, a0, a4) ==
  [nr |-> nr, arch |-> BPF!AUDIT_ARCH_X86_64, arg0 |-> a0, arg4 |-> a4]

\* glibc dprintf(fd, ...): lseek and fstat to attach the stream, then write.
Dprintf(fd) ==
  {SysCall(BPF!NR_lseek, fd, 0), SysCall(BPF!NR_fstat, fd, 0),
   SysCall(BPF!NR_write, fd, 0)}

\* ioctl(fd, PERF_EVENT_IOC_ENABLE / DISABLE, 0) and read(fd, ...).
Ioctl(fd) == {SysCall(BPF!NR_ioctl, fd, 0)}
Read(fd) == {SysCall(BPF!NR_read, fd, 0)}

\* The descriptor of counter j: -1 when perf_event_open failed, otherwise
\* one the process opened after the socket.
FdOf(j) == IF fds[j] = "open" THEN ConnectionSocket + 1 ELSE -1

Munmap == {SysCall(BPF!NR_munmap, 0, 0)}
ExitGroup == {SysCall(BPF!NR_exit_group, 0, 0)}

\* Every system call the model makes: the coordinator's own and the
\* kernel's.
AllCalls ==
  Dprintf(ConnectionSocket) \cup Dprintf(ErrorLogFd) \cup Munmap \cup ExitGroup
  \cup UNION {Ioctl(fd) \cup Read(fd) : fd \in {-1, ConnectionSocket + 1}}
  \cup KernelSyscalls

\* The calls the BPF program of enable_sandbox() answers with RET_ALLOW.
PermittedCalls ==
  {c \in AllCalls : BPF!Verdict(c) = BPF!SECCOMP_RET_ALLOW}

\* True when the installed filter refuses one of the calls (RET_KILL, or
\* RET_TRAP whose SIGSYS is not handled): the child dies by SIGSYS.
FilterKills(calls) == ~(calls \subseteq allowed)

\* The child makes the system calls `calls`, then takes step `then`; if the
\* filter refuses one, it dies there instead.
Make(calls, then) ==
  IF FilterKills(calls)
    THEN /\ child' = "killed_by_filter"
         /\ UNCHANGED <<pc, kernel, pmu, mapped, sandbox, i, count, results,
                        output>>
    ELSE then

\* log_fatal(): log_message() writes the error log with dprintf, then
\* exit(EXIT_FAILURE).
LogFatal ==
  Make(Dprintf(ErrorLogFd),
       /\ child' = "exited_failure"
       /\ UNCHANGED <<pc, kernel, pmu, mapped, sandbox, i, count, results,
                      output>>)

\* A write to the socket after the client reset it: the data is dropped,
\* write() fails with ECONNRESET, or it fails with EPIPE and SIGPIPE (no
\* handler is installed) ends the child.
WriteOutcomes == {"lost", "error", "sigpipe"}

\* "HTTP/1.1 200 OK\r\n\r\n" as written by http_respond_status().
StatusLine == <<"HTTP/1.1", 200>>

(***************************************************************************)
(* process_request()                                                       *)
(***************************************************************************)

Init ==
  /\ pc = "recv"
  /\ child = "running"
  /\ kernel = "none"
  /\ cpu = 0
  /\ counters = <<>>
  /\ fds = <<>>
  /\ mapped = {}
  /\ sandbox = {}
  /\ i = 1
  /\ count = UllongMax
  /\ results = <<>>
  /\ output = <<>>
  /\ peer = "connected"
  /\ sends \in IF IdlePeer THEN BOOLEAN ELSE {TRUE}
  /\ blocked = FALSE
  /\ allowed = AllCalls

Running == child = "running"

\* recv(): returns the request, or -1 / 0 once the client has gone.  A
\* client that neither sends nor closes keeps the child here.
Receive ==
  /\ Running /\ pc = "recv"
  /\ sends \/ peer = "reset"
  /\ IF peer = "connected"
       THEN /\ pc' = "parse"
            /\ UNCHANGED <<child, kernel, pmu, mapped, sandbox, i, count,
                           results, output>>
       ELSE LogFatal
  /\ UNCHANGED <<peer, sends, blocked, allowed>>

\* parse_request_headers(), the kernel lookup and the parameter overrides:
\* any malformed request is log_fatal; unknown parameters are only logged.
ParseRequest ==
  /\ Running /\ pc = "parse"
  /\ \/ \E k \in Kernels :
          /\ kernel' = k
          /\ pc' = "load"
          /\ UNCHANGED <<child, pmu, mapped, sandbox, i, count, results,
                         output>>
     \/ LogFatal
  /\ UNCHANGED <<peer, sends, blocked, allowed>>

\* load_kernel(): maps the executable segment; a malformed image is fatal.
LoadKernel ==
  /\ Running /\ pc = "load"
  /\ \/ /\ pc' = "counters"
        /\ UNCHANGED <<child, kernel, pmu, mapped, sandbox, i, count,
                       results, output>>
     \/ LogFatal
  /\ UNCHANGED <<peer, sends, blocked, allowed>>

\* init_performance_counters() on the machine the server runs on: cpuid
\* picks the table (Perfctr); two generic and the table's raw counters are
\* opened, and each perf_event_open may fail and then holds -1.
InitCounters ==
  /\ Running /\ pc = "counters"
  /\ \E eax \in CpuSignatures :
       /\ cpu' = eax
       /\ counters' = Catalogue[eax]
       /\ \E f \in [1 .. Len(counters') -> {"open", "failed"}] : fds' = f
  /\ pc' = "args"
  /\ UNCHANGED <<child, kernel, mapped, sandbox, i, count, results, output,
                 peer, sends, blocked, allowed>>

\* create_arguments(): mmap each buffer in order; a failed mmap is
\* log_fatal with the earlier buffers still mapped.
CreateArguments ==
  /\ Running /\ pc = "args"
  /\ LET bufs == KernelBuffers[kernel]
         Prefix(n) == {bufs[j] : j \in 1 .. n}
     IN  \/ /\ mapped' = Prefix(Len(bufs))
            /\ pc' = "rlimit"
            /\ UNCHANGED <<child, kernel, pmu, sandbox, i, count, results,
                           output>>
         \/ \E n \in 0 .. Len(bufs) - 1 :
              /\ mapped' = Prefix(n)
              /\ child' = "exited_failure"
              /\ UNCHANGED <<pc, kernel, pmu, sandbox, i, count, results,
                             output>>
  /\ UNCHANGED <<peer, sends, blocked, allowed>>

\* Mutation of SandboxStep: the failure of the call is not checked and the
\* child carries on without the protection.
SandboxStepUnchecked(from, what, to) ==
  /\ Running /\ pc = from
  /\ \/ /\ sandbox' = sandbox \cup {what}
        /\ allowed' = IF what = "filter" THEN PermittedCalls ELSE allowed
     \/ UNCHANGED <<sandbox, allowed>>
  /\ pc' = to
  /\ UNCHANGED <<child, kernel, pmu, mapped, i, count, results, output, peer,
                 sends, blocked>>

\* One step of enable_sandbox(): install `what`, or _exit(1) on failure.
\* Installing the filter makes the kernel judge every later system call by
\* the BPF program.
SandboxStep(from, what, to) ==
  /\ Running /\ pc = from
  /\ \/ /\ sandbox' = sandbox \cup {what}
        /\ allowed' = IF what = "filter" THEN PermittedCalls ELSE allowed
        /\ pc' = to
        /\ UNCHANGED child
     \/ /\ child' = "exited_failure"
        /\ UNCHANGED <<pc, sandbox, allowed>>
  /\ UNCHANGED <<kernel, pmu, mapped, i, count, results, output, peer,
                 sends, blocked>>

\* setrlimit(RLIMIT_CPU, 3 s), prctl(PR_SET_NO_NEW_PRIVS),
\* prctl(PR_SET_SECCOMP, SECCOMP_MODE_FILTER).
\* Mutation of SetCpuLimit: setrlimit fails unnoticed.
SetCpuLimitUnchecked ==
  /\ Running /\ pc = "rlimit"
  /\ pc' = "nnp"
  /\ UNCHANGED <<child, kernel, pmu, mapped, sandbox, i, count, results,
                 output, peer, sends, blocked, allowed>>

SetCpuLimit == SandboxStep("rlimit", "rlimit", "nnp")
SetNoNewPrivs == SandboxStep("nnp", "nnp", "seccomp")
InstallFilter == SandboxStep("seccomp", "filter", "status")

\* http_respond_status(): dprintf the status line; on failure log_fatal.
RespondStatus ==
  /\ Running /\ pc = "status"
  /\ Make(Dprintf(ConnectionSocket),
       IF peer = "connected"
         THEN /\ output' = Append(output, StatusLine)
              /\ pc' = "enable"
              /\ UNCHANGED <<child, kernel, pmu, mapped, sandbox, i, count,
                             results>>
         ELSE \E w \in WriteOutcomes :
                CASE w = "lost" ->
                       /\ pc' = "enable"
                       /\ UNCHANGED <<child, kernel, pmu, mapped, sandbox, i,
                                      count, results, output>>
                  [] w = "error" -> LogFatal
                  [] w = "sigpipe" ->
                       /\ child' = "killed_sigpipe"
                       /\ UNCHANGED <<pc, kernel, pmu, mapped, sandbox, i,
                                      count, results, output>>)
  /\ UNCHANGED <<peer, sends, blocked, allowed>>

\* ioctl(PERF_EVENT_IOC_ENABLE) on counter i.
EnableCounter ==
  /\ Running /\ pc = "enable"
  /\ Make(Ioctl(FdOf(i)),
       /\ pc' = "profile"
       /\ UNCHANGED <<child, kernel, pmu, mapped, sandbox, i, count, results,
                      output>>)
  /\ UNCHANGED <<peer, sends, blocked, allowed>>

\* The driver's overhead pass reads the counter: on -1 every read fails and
\* it returns ULLONG_MAX without calling the kernel; otherwise the
\* computation pass calls the kernel.
Profile ==
  /\ Running /\ pc = "profile"
  /\ Make(Read(FdOf(i)),
       /\ IF fds[i] = "open"
            THEN pc' = "kernel" /\ UNCHANGED count
            ELSE pc' = "disable" /\ count' = UllongMax
       /\ UNCHANGED <<child, kernel, pmu, mapped, sandbox, i, results,
                      output>>)
  /\ UNCHANGED <<peer, sends, blocked, allowed>>

\* The kernel returns and the driver finishes with a count, or with
\* ULLONG_MAX if no overhead read succeeded.
KernelReturns ==
  /\ Running /\ pc = "kernel" /\ ~blocked
  /\ \E v \in Counts \cup {UllongMax} : count' = v
  /\ pc' = "disable"
  /\ UNCHANGED <<child, kernel, pmu, mapped, sandbox, i, results, output,
                 peer, sends, blocked, allowed>>

\* The kernel under test makes a system call: the filter kills it, lets it
\* through, or lets it through and it blocks.
KernelSyscall ==
  /\ Running /\ pc = "kernel" /\ ~blocked
  /\ \E s \in KernelSyscalls :
       /\ Make({s}, UNCHANGED <<pc, child, kernel, pmu, mapped, sandbox, i,
                                count, results, output>>)
       /\ blocked' = (s \in BlockingSyscalls /\ ~FilterKills({s}))
  /\ UNCHANGED <<peer, sends, allowed>>

\* RLIMIT_CPU: after 3 s of CPU time the kernel delivers SIGXCPU (soft
\* limit, default action terminate) and SIGKILL at the equal hard limit.
\* Only a process on the CPU consumes CPU time.
CpuLimitExceeded ==
  /\ Running
  /\ "rlimit" \in sandbox
  /\ ~blocked
  /\ child' = "killed_cpu_limit"
  /\ UNCHANGED <<pc, kernel, pmu, mapped, sandbox, i, count, results, output,
                 peer, sends, blocked, allowed>>

\* ioctl(PERF_EVENT_IOC_DISABLE) on counter i.
DisableCounter ==
  /\ Running /\ pc = "disable"
  /\ Make(Ioctl(FdOf(i)),
       /\ pc' = "emit"
       /\ UNCHANGED <<child, kernel, pmu, mapped, sandbox, i, count, results,
                      output>>)
  /\ UNCHANGED <<peer, sends, blocked, allowed>>

\* End of one iteration of the counter loop: the next counter, or the end of
\* the loop.  Mutation: the index is stepped past the last counter.
AdvanceCounterPastEnd(out) ==
  /\ output' = out
  /\ results' = Append(results, count)
  /\ i' = i + 1
  /\ pc' = IF i < Len(counters) THEN "enable" ELSE "free"
  /\ UNCHANGED <<child, kernel, pmu, mapped, sandbox, count>>

AdvanceCounter(out) ==
  /\ output' = out
  /\ results' = Append(results, count)
  /\ i' = IF i < Len(counters) THEN i + 1 ELSE i
  /\ pc' = IF i < Len(counters) THEN "enable" ELSE "free"
  /\ UNCHANGED <<child, kernel, pmu, mapped, sandbox, count>>

\* dprintf(connection_socket, "%s: %llu\n", ...), its result ignored.
WriteLine(line) ==
  Make(Dprintf(ConnectionSocket),
       IF peer = "connected"
         THEN AdvanceCounter(Append(output, line))
         ELSE \E w \in WriteOutcomes :
                IF w = "sigpipe"
                  THEN /\ child' = "killed_sigpipe"
                       /\ UNCHANGED <<pc, kernel, pmu, mapped, sandbox, i,
                                      count, results, output>>
                  ELSE AdvanceCounter(output))

\* Mutation of EmitCount: the line is written without the ULLONG_MAX test.
EmitCountUnfiltered ==
  /\ Running /\ pc = "emit"
  /\ WriteLine(<<counters[i].name, count>>)
  /\ UNCHANGED <<peer, sends, blocked, allowed>>

\* If count != ULLONG_MAX, print "<name>: <count>"; then the next counter.
EmitCount ==
  /\ Running /\ pc = "emit"
  /\ IF count = UllongMax
       THEN AdvanceCounter(output)
       ELSE WriteLine(<<counters[i].name, count>>)
  /\ UNCHANGED <<peer, sends, blocked, allowed>>

\* free_arguments(): munmap every buffer the arguments hold.  Whole
\* buffers are released only while sdot's offsets stay below a page: with
\* offx >= 4096 sdot.c:30 unmaps from the wrong base (RequestParser's
\* FreeSdotArguments models that, and the page-offset run shows it).
FreeArguments ==
  /\ Running /\ pc = "free"
  /\ Make(Munmap,
       /\ mapped' = {}
       /\ pc' = "exit"
       /\ UNCHANGED <<child, kernel, pmu, sandbox, i, count, results, output>>)
  /\ UNCHANGED <<peer, sends, blocked, allowed>>

\* exit(0) in the child branch of main(): exit_group.
ExitChild ==
  /\ Running /\ pc = "exit"
  /\ Make(ExitGroup,
       /\ child' = "exited_ok"
       /\ UNCHANGED <<pc, kernel, pmu, mapped, sandbox, i, count, results,
                      output>>)
  /\ UNCHANGED <<peer, sends, blocked, allowed>>

\* The client closes or resets the connection.
PeerReset ==
  /\ Running
  /\ peer = "connected"
  /\ peer' = "reset"
  /\ UNCHANGED <<pc, child, kernel, pmu, mapped, sandbox, i, count, results,
                 output, sends, blocked, allowed>>

Child ==
  \/ Receive \/ ParseRequest \/ LoadKernel \/ InitCounters
  \/ CreateArguments \/ SetCpuLimit \/ SetNoNewPrivs \/ InstallFilter
  \/ RespondStatus \/ EnableCounter \/ Profile \/ DisableCounter
  \/ EmitCount \/ FreeArguments \/ ExitChild

UntrustedKernel == KernelReturns \/ KernelSyscall

Next == Child \/ UntrustedKernel \/ CpuLimitExceeded \/ PeerReset

\* The child's own code runs whenever it can (the OS schedules a runnable
\* process); the CPU limit fires on a process that keeps running.  Neither
\* the kernel under test nor the client is assumed to make progress.
Fairness == WF_vars(Child) /\ WF_vars(CpuLimitExceeded)

Spec == Init /\ [][Next]_vars /\ Fairness

(***************************************************************************)
(* Properties                                                              *)
(***************************************************************************)

Protections == {"rlimit", "nnp", "filter"}

Lines == {<<c, v>> : c \in CounterSet, v \in Counts \cup {UllongMax}}

TypeOK ==
  /\ pc \in {"recv", "parse", "load", "counters", "args", "rlimit", "nnp",
             "seccomp", "status", "enable", "profile", "kernel", "disable",
             "emit", "free", "exit"}
  /\ child \in {"running", "exited_ok", "exited_failure", "killed_by_filter",
                "killed_cpu_limit", "killed_sigpipe"}
  /\ kernel \in Kernels \cup {"none"}
  /\ cpu \in CpuSignatures \cup {0}
  /\ fds \in [1 .. Len(counters) -> {"open", "failed"}]
  /\ sandbox \subseteq Protections
  /\ i \in 1 .. Len(counters) \cup {1}
  /\ count \in Counts \cup {UllongMax}
  /\ results \in Seq(Counts \cup {UllongMax})
  /\ output \in Seq({StatusLine} \cup Lines)
  /\ peer \in {"connected", "reset"}
  /\ sends \in BOOLEAN
  /\ blocked \in BOOLEAN
  /\ allowed \subseteq AllCalls

\* The position of counter c in the catalogue order.
IndexOf(c) == CHOOSE j \in 1 .. Len(counters) : counters[j].name = c

\* The counters measured on a machine are those its CPU is documented
\* for: the cycles and instructions counters, then each entry of the one
\* table whose comment names the display family and model of spec 4.2
\* (none when no table does), opened with the raw config of spec 3.  It
\* relates what cpuid returned to the whole list the loop walks.
CountersFollowCatalogue ==
  counters # <<>> =>
    LET fm == <<Perf!DisplayFamily(cpu), Perf!DisplayModel(cpu)>>
        T == {t \in DOMAIN Perf!DocumentedFor : fm \in Perf!DocumentedFor[t]}
        t == CHOOSE t \in T : TRUE
        picks == IF T = {} THEN <<>> ELSE Picks[t]
    IN  /\ Cardinality(T) <= 1
        /\ Len(counters) = 2 + Len(picks)
        /\ <<counters[1].name, counters[2].name>> = <<"Cycles", "Instructions">>
        /\ \A j \in 1 .. Len(picks) :
             counters[2 + j] =
               [name |-> Perf!EntryName(t, picks[j]), type |-> "raw",
                config |-> Perf!SpecConfig(Perf!Tables[t][picks[j]])]

\* The caller-supplied kernel only ever executes inside the complete
\* sandbox: the CPU limit, no-new-privileges and the seccomp filter are all
\* in place whenever the child is in the kernel under test.
UntrustedCodeConfined ==
  (Running /\ pc = "kernel") => sandbox = Protections

\* What the client reads is the status line followed by at most one line
\* per counter, in catalogue order, each carrying the value the driver
\* returned for that counter, never the ULLONG_MAX sentinel, and only for a
\* counter whose perf_event_open succeeded (spec 4.3, 4.8).
ReportIsFaithful ==
  \A k \in 1 .. Len(output) :
    IF k = 1
      THEN output[k] = StatusLine
      ELSE LET c == output[k][1]
               j == IndexOf(c)
           IN  /\ j <= Len(results)
               /\ output[k][2] = results[j]
               /\ results[j] # UllongMax
               /\ fds[j] = "open"
               /\ k > 2 => IndexOf(output[k - 1][1]) < j

\* The child always ends: its own steps terminate, and the 3-second CPU
\* limit stops a kernel under test that never returns (spec 5).
ChildTerminates == <>(child # "running")

\* Spec 4.8: after the sandbox is installed the coordinator's own system
\* calls, diagnostics included, stay within the allowed set; the filter
\* only ever kills the child while it executes the kernel under test.
CoordinatorSyscallsAllowed ==
  child = "killed_by_filter" => pc = "kernel"

=============================================================================
