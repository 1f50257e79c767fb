------------------------------ MODULE Request -------------------------------
(***************************************************************************)
(* The whole of process_request() (src/src/webserver/request.c) in one     *)
(* model: RequestParser's recv, parse and page-level arguments composed    *)
(* with Coordinator's counters, sandbox, report and exit.  The request the *)
(* client sent decides the kernel and its buffers; the coordinator's steps *)
(* run on the parse's outcome.                                             *)
(*                                                                         *)
(* Coordinator abstracts the parse to a choice of kernel and the argument  *)
(* buffers to a set of names.  Here those two of its variables are         *)
(* defined from the detailed state (the kernel parse_target resolved, the  *)
(* owners of the mapped pages), and CoordinatorRefined checks that every   *)
(* step of the composition is a step of Coordinator or leaves its state    *)
(* alone.                                                                  *)
(***************************************************************************)
EXTENDS Naturals, Sequences, FiniteSets

CONSTANTS
  KernelNames, Width, ULongWidth,                       \* HttpParse
  Requests, Defaults, BufferSize, ShortRecv, PageSize,  \* RequestParser
  Pages, OtherPages,
  KernelBuffers, CpuSignatures, Picks, Counts,          \* Coordinator
  UllongMax, ConnectionSocket, ErrorLogFd, KernelSyscalls,
  BlockingSyscalls, IdlePeer,
  KernelIds    \* the enum webrunner_kernel value of each on-wire name

VARIABLES
  \* RequestParser
  sent, buf, stage, line, request, headersLength, query, params, body,
  memory, args, function,
  \* Coordinator, but for kernel and mapped
  pc, child, cpu, counters, fds, sandbox, i, count, results, output, peer,
  sends, blocked, allowed

parserVars == <<sent, buf, stage, line, request, headersLength, query, params,
                body, memory, args, function>>
childVars == <<pc, child, cpu, counters, fds, sandbox, i, count, results,
               output, peer, sends, blocked, allowed>>
vars == <<parserVars, childVars>>

P == INSTANCE RequestParser

\* The kernel the child runs: the one parse_target resolved, once the
\* parse is over.
kernelOf == IF pc \in {"recv", "parse"} THEN "none" ELSE KernelIds[request.kernel]

\* The buffers mapped: the owners of the pages create_arguments' mmap
\* calls gave out.
mappedOf == {memory[p] : p \in Pages} \ {"free", "other", "code"}

C == INSTANCE Coordinator
       WITH Kernels <- {KernelIds[n] : n \in KernelNames},
            kernel <- kernelOf, mapped <- mappedOf

\* The coordinator's variables that a parser step leaves alone.
afterParse == <<cpu, counters, fds, sandbox, i, count, results, output>>

Init == P!Init /\ C!Init

\* recv(): the bytes the client sent, or -1 once it has reset the
\* connection; that is log_fatal.
Receive ==
  /\ IF peer = "connected" THEN P!Receive ELSE P!RecvFails
  /\ C!Receive

\* One step of parse_request_headers or of the parameter loop; a failed
\* check is log_fatal.
Parse ==
  /\ C!Running /\ pc = "parse"
  /\ P!RequestLine \/ P!HeaderLine \/ P!EndOfHeaders \/ P!ParameterStep
  /\ IF stage' = "fatal"
       THEN /\ child' = "exited_failure"
            /\ UNCHANGED <<pc, afterParse, peer, sends, blocked, allowed>>
       ELSE UNCHANGED childVars

\* The parameter loop has ended: the kernel is known.
Parsed ==
  /\ C!Running /\ pc = "parse"
  /\ stage = "params" /\ query = 0
  /\ pc' = "load"
  /\ UNCHANGED <<parserVars, child, afterParse, peer, sends, blocked, allowed>>

\* load_kernel() on the body; a malformed image is log_fatal.
Load ==
  /\ C!Running /\ pc = "load"
  /\ P!LoadKernel
  /\ IF stage' = "done"
       THEN pc' = "counters" /\ UNCHANGED child
       ELSE child' = "exited_failure" /\ UNCHANGED pc
  /\ UNCHANGED <<afterParse, peer, sends, blocked, allowed>>

\* create_arguments of the kernel named: mapped, or log_fatal.
CreateArguments ==
  /\ C!Running /\ pc = "args"
  /\ P!CreateArguments
  /\ IF stage' = "created"
       THEN pc' = "rlimit" /\ UNCHANGED child
       ELSE child' = "exited_failure" /\ UNCHANGED pc
  /\ UNCHANGED <<afterParse, peer, sends, blocked, allowed>>

\* free_arguments: its munmap calls go through the filter.
FreeArguments ==
  /\ C!Running /\ pc = "free"
  /\ IF C!FilterKills(C!Munmap)
       THEN child' = "killed_by_filter" /\ UNCHANGED <<parserVars, pc>>
       ELSE P!FreeArguments /\ pc' = "exit" /\ UNCHANGED child
  /\ UNCHANGED <<afterParse, peer, sends, blocked, allowed>>

\* The coordinator's steps that do not touch the request or the arguments.
ChildStep ==
  /\ UNCHANGED parserVars
  /\ \/ C!InitCounters \/ C!SetCpuLimit \/ C!SetNoNewPrivs \/ C!InstallFilter
     \/ C!RespondStatus \/ C!EnableCounter \/ C!Profile \/ C!DisableCounter
     \/ C!EmitCount \/ C!ExitChild

Environment ==
  /\ UNCHANGED parserVars
  /\ C!KernelReturns \/ C!KernelSyscall \/ C!CpuLimitExceeded \/ C!PeerReset

Next ==
  \/ Receive \/ Parse \/ Parsed \/ Load \/ CreateArguments \/ FreeArguments
  \/ ChildStep \/ Environment

Spec == Init /\ [][Next]_vars

(***************************************************************************)
(* Properties                                                              *)
(***************************************************************************)

\* The detailed request child implements Coordinator: the kernel the parse
\* resolves is one of the registry, and the pages the kernels' mmap and
\* munmap calls leave mapped are, at every step, the buffers Coordinator
\* says are mapped: all of them after create_arguments, the ones mapped
\* before the failing mmap after a log_fatal there, none after
\* free_arguments.  It relates the page arithmetic of sdot.c and sgemm.c
\* and the buffer order of KernelBuffers to the abstract lifecycle whose
\* properties the coordinator run checks.
CoordinatorRefined == C!Init /\ [][C!Next]_C!vars

\* The parser's variables and the coordinator's keep their types.
TypeOK == P!TypeOK /\ C!TypeOK

\* The child goes on only with a POST to the run command, and runs the
\* kernel the client named (parse_request_line, parse_target).
KernelIsRequested == P!KernelIsRequested

\* The kernel runs with the defaults overridden by exactly the query's
\* name=value pairs (the parameter loop of process_request).
OverridesApplied == P!OverridesApplied

\* load_kernel receives exactly the body the client sent (headers_length
\* and the single recv of process_request).
BodyComplete == P!BodyComplete

\* No log_fatal check of the parse rejects a well-formed request.
AcceptsWellFormed == P!AcceptsWellFormed

\* Every float a kernel touches lies in the buffer create_arguments mapped
\* for it (the 32-bit size arithmetic of sdot.c and sgemm.c).
ArgumentsWithinBuffers == P!ArgumentsWithinBuffers

\* free_arguments unmaps exactly the pages create_arguments mapped.
ReleasesExactly == P!ReleasesExactly
=============================================================================
