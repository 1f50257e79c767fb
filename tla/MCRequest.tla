----------------------------- MODULE MCRequest ------------------------------
(***************************************************************************)
(* Model-checking instance of Request: the requests and registry of        *)
(* MCRequestParser, whose buffer names are the ones Coordinator's          *)
(* KernelBuffers lists, in the order create_arguments maps them; one       *)
(* machine, an Atom (06_36H), and the non-blocking system calls of        *)
(* MCCoordinator for the kernel under test.                               *)
(***************************************************************************)
EXTENDS Request, Integers, TLC

\* The requests and registry of MCRequestParser are constant expressions;
\* the instance's own constants are not used (the configuration gives the
\* composition's), so they are set to empty sets here.
R == INSTANCE MCRequestParser
       WITH KernelNames <- {}, Defaults <- {}, Requests <- {}, Pages <- {},
            OtherPages <- {}
BPF == INSTANCE SeccompProgram

\* A system call of the kernel under test, as Coordinator's SysCall builds it.
KernelCall(nr, a0, a4) ==
  [nr |-> nr, arch |-> BPF!AUDIT_ARCH_X86_64, arg0 |-> a0, arg4 |-> a4]

MCKernelIds ==
  (R!SdotName :> "sdot") @@ (R!SgemmName :> "sgemm")
  @@ (R!PlaygroundName :> "playground")

MCKernelNames == R!MCKernelNames
MCDefaults == R!MCDefaults
MCRequests == R!MCRequests
MCPages == R!MCPages
MCOtherPages == R!MCOtherPages

\* The buffers of each kernel in the order its create_arguments maps them.
MCKernelBuffers ==
  ("sdot" :> <<"x", "y">>) @@ ("sgemm" :> <<"a", "b", "c">>)
  @@ ("playground" :> <<>>)

\* Atom PAGE_WALKS.WALKS (edge) and one entry of every other table.
MCPicks ==
  [broadwell |-> <<52>>, haswell |-> <<26>>, ivybridge |-> <<1>>,
   atom |-> <<10>>, steamroller |-> <<8>>, bulldozer |-> <<1>>,
   bobcat |-> <<29>>]

\* The kernel writes to the socket or another descriptor, maps anonymous
\* or file memory, opens a file or yields.
MCNonBlockingSyscalls ==
  {KernelCall(BPF!NR_write, ConnectionSocket, 0),
   KernelCall(BPF!NR_write, 1, 0),
   KernelCall(BPF!NR_mmap, 0, -1),
   KernelCall(BPF!NR_mmap, 0, 3),
   KernelCall(BPF!NR_open, 0, 0),
   KernelCall(BPF!NR_sched_yield, 0, 0)}

MCCpuSignatures == {198241}
MCCounts == {1}
=============================================================================
