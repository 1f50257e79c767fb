--------------------------- MODULE MCCoordinator ---------------------------
(* Model-checking instance of Coordinator.  Three kernels with zero, two   *)
(* and three buffers; the two generic counters and one raw counter; two   *)
(* working counts.  The kernel under test may write to the socket or to    *)
(* another descriptor, map anonymous or file memory, open a file, yield,   *)
(* or wait on a futex (the only call that may block).                      *)
EXTENDS Coordinator

MCKernels == {"playground", "sdot", "sgemm"}

MCKernelBuffers ==
  [k \in MCKernels |->
     CASE k = "playground" -> <<>>
       [] k = "sdot"       -> <<"x", "y">>
       [] k = "sgemm"      -> <<"a", "b", "c">>]

\* CPUID leaf-1 eax of a Haswell (06_3CH), an Atom (06_36H), a Steamroller
\* (15_30H) and a Skylake (06_5EH, no table) machine.
MCCpuSignatures == {198339, 198241, 6491905, 329443}

\* One entry of each table of perfctr.c (two of Haswell's), chosen to
\* set each field of the encoding: Broadwell UOPS_RETIRED.ALL.STALLS
\* (inv, cmask), Haswell UOPS_ISSUED.STALLS and IDQ.ALL_DSB_CYCLES_4_UOPS,
\* Ivy Bridge UOPS_ISSUED.ANY, Atom PAGE_WALKS.WALKS (edge), Steamroller
\* FP_SCHEDULER.BUSY (inv, no umask), Bulldozer DISPATCHED_FPU_OPS.PIPE_0
\* (event 0), Bobcat RETIRED_INSTRUCTIONS.
MCPicks ==
  [broadwell |-> <<52>>, haswell |-> <<26, 37>>, ivybridge |-> <<1>>,
   atom |-> <<10>>, steamroller |-> <<8>>, bulldozer |-> <<1>>,
   bobcat |-> <<29>>]

MCCounts == {0, 1}

MCUllongMax == 2147483647

MCConnectionSocket == 4

MCErrorLogFd == 2

KernelCall(nr, a0, a4) == SysCall(nr, a0, a4)

\* Calls that never block.
MCNonBlockingSyscalls ==
  {KernelCall(BPF!NR_write, MCConnectionSocket, 0),
   KernelCall(BPF!NR_write, 1, 0),
   KernelCall(BPF!NR_mmap, 0, -1),
   KernelCall(BPF!NR_mmap, 0, 3),
   KernelCall(BPF!NR_open, 0, 0),
   KernelCall(BPF!NR_sched_yield, 0, 0)}

\* futex(FUTEX_WAIT) on a word nobody changes.
MCFutexWait == KernelCall(BPF!NR_futex, 0, 0)

MCAllSyscalls == MCNonBlockingSyscalls \cup {MCFutexWait}

MCBlockingSyscalls == {MCFutexWait}

\* Every system call number the filter names, plus open(2) for "any other
\* call", under the x86-64 and i386 architectures; argument 0 is the
\* connection socket, another descriptor or a negative value; argument 4
\* is -1 (anonymous mapping) or a descriptor.
MCSeccompData ==
  [nr   : {BPF!NR_read, BPF!NR_write, BPF!NR_open, BPF!NR_fstat,
           BPF!NR_lseek, BPF!NR_mmap, BPF!NR_munmap, BPF!NR_rt_sigreturn,
           BPF!NR_ioctl, BPF!NR_sched_yield, BPF!NR_exit, BPF!NR_futex,
           BPF!NR_clock_gettime, BPF!NR_exit_group},
   arch : {BPF!AUDIT_ARCH_X86_64, BPF!AUDIT_ARCH_I386},
   arg0 : {MCConnectionSocket, 3, -1},
   arg4 : {-1, 3}]

\* The BPF program enable_sandbox() installs gives every system call the
\* verdict of the policy of spec 4.6 step 3: a foreign architecture is
\* killed, write, lseek and fstat only on the connection socket, mmap
\* only anonymous, the unconditional set allowed, anything else trapped.
\* A jump offset miscounted in the hand-assembled array breaks it.  It is
\* checked on every step that installs the filter (prctl PR_SET_SECCOMP).
FilterEnforcesPolicy ==
  [][InstallFilter =>
       \A d \in MCSeccompData : BPF!Verdict(d) = BPF!Policy(d)]_vars
=============================================================================
