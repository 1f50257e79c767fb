--------------------------- MODULE SeccompProgram --------------------------
(***************************************************************************)
(* The seccomp-BPF program installed by enable_sandbox()                   *)
(* (src/src/runner/sandbox.c), as data, with its meaning on one system     *)
(* call as a function.                                                     *)
(*                                                                         *)
(* Filter is the sock_filter array, one record per BPF_STMT / BPF_JUMP,    *)
(* with the x86-64 syscall numbers and the seccomp return codes of the     *)
(* Linux headers.  A BPF_LD+BPF_W+BPF_ABS loads the 32-bit word at an      *)
(* offset of struct seccomp_data: nr, arch, or the low word of args[n] on  *)
(* little-endian x86-64, so a struct seccomp_data is a record of the four  *)
(* words the program loads.  A BPF_JEQ+BPF_K jumps jt or jf instructions   *)
(* past the next one.                                                      *)
(***************************************************************************)
EXTENDS Integers, Sequences

CONSTANT
  ConnectionSocket   \* the connection_socket argument of enable_sandbox()

\* A 32-bit word, as loaded by BPF_W and compared by BPF_K, is held as
\* its two's-complement value in -2^31 .. 2^31-1 (TLC's integer range).
Word32 == (-2147483647 - 1) .. 2147483647

\* <linux/audit.h>
AUDIT_ARCH_X86_64 == -1073741762  \* 0xC000003E
AUDIT_ARCH_I386   == 1073741827   \* 0x40000003

\* <asm/unistd_64.h>
NR_read == 0          NR_write == 1          NR_open == 2
NR_fstat == 5         NR_lseek == 8          NR_mmap == 9
NR_munmap == 11       NR_rt_sigreturn == 15  NR_ioctl == 16
NR_sched_yield == 24  NR_exit == 60          NR_futex == 202
NR_clock_gettime == 228                      NR_exit_group == 231

\* <linux/seccomp.h>
SECCOMP_RET_KILL  == 0
SECCOMP_RET_TRAP  == 196608       \* 0x00030000
SECCOMP_RET_ALLOW == 2147418112   \* 0x7fff0000

\* Not a seccomp action: the filter has not returned yet.
NoVerdict == -1

\* BPF_STMT(BPF_LD + BPF_W + BPF_ABS, off) for the offsets SyscallNr,
\* SyscallArch, SyscallArg(0) and SyscallArg(4); BPF_JUMP(BPF_JMP + BPF_JEQ +
\* BPF_K, k, jt, jf) and BPF_STMT(BPF_RET + BPF_K, k).
Ld(off) == [code |-> "ld", k |-> off, jt |-> 0, jf |-> 0]
Jeq(k, jt, jf) == [code |-> "jeq", k |-> k, jt |-> jt, jf |-> jf]
Ret(k) == [code |-> "ret", k |-> k, jt |-> 0, jf |-> 0]

\* Allow-rule for a syscall: JEQ nr, 0, 1; RET ALLOW.
AllowNr(nr) == <<Jeq(nr, 0, 1), Ret(SECCOMP_RET_ALLOW)>>

\* Allow-rule on one argument: JEQ nr, 0, 4; LD arg; JEQ value, 0, 1;
\* RET ALLOW; RET KILL.
AllowNrIfArg(nr, off, value) ==
  <<Jeq(nr, 0, 4), Ld(off), Jeq(value, 0, 1),
    Ret(SECCOMP_RET_ALLOW), Ret(SECCOMP_RET_KILL)>>

\* Mutation of Filter: the write rule skips one instruction too few when
\* the syscall is not write.
FilterWriteJumpShort ==
  <<Ld("arch"), Jeq(AUDIT_ARCH_X86_64, 1, 0), Ret(SECCOMP_RET_KILL),
    Ld("nr")>>
  \o AllowNr(NR_rt_sigreturn) \o AllowNr(NR_exit_group) \o AllowNr(NR_exit)
  \o <<Jeq(NR_write, 0, 3), Ld("arg0"), Jeq(ConnectionSocket, 0, 1),
       Ret(SECCOMP_RET_ALLOW), Ret(SECCOMP_RET_KILL)>>
  \o AllowNr(NR_read)
  \o AllowNrIfArg(NR_mmap, "arg4", -1)
  \o AllowNr(NR_munmap)
  \o AllowNrIfArg(NR_lseek, "arg0", ConnectionSocket)
  \o AllowNrIfArg(NR_fstat, "arg0", ConnectionSocket)
  \o AllowNr(NR_ioctl) \o AllowNr(NR_clock_gettime) \o AllowNr(NR_futex)
  \o AllowNr(NR_sched_yield)
  \o <<Ret(SECCOMP_RET_TRAP)>>

\* The filter[] array of enable_sandbox(), in order.
Filter ==
  <<Ld("arch"), Jeq(AUDIT_ARCH_X86_64, 1, 0), Ret(SECCOMP_RET_KILL),
    Ld("nr")>>
  \o AllowNr(NR_rt_sigreturn) \o AllowNr(NR_exit_group) \o AllowNr(NR_exit)
  \o AllowNrIfArg(NR_write, "arg0", ConnectionSocket)
  \o AllowNr(NR_read)
  \o AllowNrIfArg(NR_mmap, "arg4", -1)
  \o AllowNr(NR_munmap)
  \o AllowNrIfArg(NR_lseek, "arg0", ConnectionSocket)
  \o AllowNrIfArg(NR_fstat, "arg0", ConnectionSocket)
  \o AllowNr(NR_ioctl) \o AllowNr(NR_clock_gettime) \o AllowNr(NR_futex)
  \o AllowNr(NR_sched_yield)
  \o <<Ret(SECCOMP_RET_TRAP)>>

\* The word a load reads from struct seccomp_data d.
LoadWord(d, off) ==
  CASE off = "nr"   -> d.nr
    [] off = "arch" -> d.arch
    [] off = "arg0" -> d.arg0
    [] off = "arg4" -> d.arg4

\* The program counter after a BPF_JEQ at pc with accumulator a
\* (pc counts from 1 here; the jump offsets are relative to pc + 1).
JumpTarget(ins, pc, a) == pc + 1 + (IF a = ins.k THEN ins.jt ELSE ins.jf)

\* The action the kernel's filter interpreter returns for the system call d:
\* run[pos, a] is the verdict of running Filter from instruction pos with
\* accumulator a.  BPF jumps only forward, so the recursion ends.
Verdict(d) ==
  LET run[pos \in 1 .. Len(Filter), a \in Word32] ==
        LET ins == Filter[pos]
        IN  CASE ins.code = "ret" -> ins.k
              [] ins.code = "ld"  -> run[pos + 1, LoadWord(d, ins.k)]
              [] ins.code = "jeq" -> run[JumpTarget(ins, pos, a), a]
  IN  run[1, 0]

(***************************************************************************)
(* The policy of spec section 4.6 step 3, stated directly.                 *)
(***************************************************************************)

UnconditionalNrs ==
  {NR_rt_sigreturn, NR_exit_group, NR_exit, NR_read, NR_munmap, NR_ioctl,
   NR_clock_gettime, NR_futex, NR_sched_yield}

Policy(d) ==
  CASE d.arch # AUDIT_ARCH_X86_64 -> SECCOMP_RET_KILL
    [] d.nr \in UnconditionalNrs -> SECCOMP_RET_ALLOW
    [] d.nr \in {NR_write, NR_lseek, NR_fstat} ->
         IF d.arg0 = ConnectionSocket
           THEN SECCOMP_RET_ALLOW ELSE SECCOMP_RET_KILL
    [] d.nr = NR_mmap ->
         IF d.arg4 = -1
           THEN SECCOMP_RET_ALLOW ELSE SECCOMP_RET_KILL
    [] OTHER -> SECCOMP_RET_TRAP

=============================================================================
