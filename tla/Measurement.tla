---------------------------- MODULE Measurement ----------------------------
(***************************************************************************)
(* The measurement driver <name>_profile generated by the macro            *)
(* DEFINE_PROFILE_FUNCTION (src/src/runner/benchmark.h) together with      *)
(* median() (src/src/runner/median.c).                                     *)
(*                                                                         *)
(* The driver runs two passes of max_iterations iterations over one        *)
(* counter file descriptor.  An iteration reads the counter, runs the      *)
(* serialised body, reads the counter again and records the difference;    *)
(* if either read is short the iteration is skipped.  The overhead pass    *)
(* times two cpuid instructions, the computation pass cpuid, the kernel    *)
(* call and cpuid.  The driver returns ULLONG_MAX when the overhead pass   *)
(* recorded nothing, and otherwise the saturated difference of the two     *)
(* medians.                                                                *)
(*                                                                         *)
(* A sample is the counter difference end_count - start_count; the model   *)
(* draws it from 0..MaxSample.  unsigned long long is Width bits wide.     *)
(***************************************************************************)
EXTENDS Integers, Sequences, FiniteSets, TLC, Bitwise

CONSTANTS
  MaxIterations,  \* max_iterations (the coordinator passes 100)
  Width,          \* bits of unsigned long long (64 in the build)
  MaxSample       \* largest counter difference one iteration may record

ASSUME MaxIterations \in Nat \ {0}
ASSUME Width \in Nat \ {0}
ASSUME MaxSample \in 0 .. (2^Width - 2)

\* ULLONG_MAX, the sentinel for "performance counters aren't working".
UllongMax == 2^Width - 1

\* Every value an unsigned long long can hold.
Word == 0 .. UllongMax

VARIABLES
  phase,              \* "overhead", "computation" or "done"
  iteration,          \* loop counter of the current pass
  overhead_count,     \* overhead_count[0 .. overhead_samples-1]
  computation_count,  \* computation_count[0 .. computation_samples-1]
  result              \* the value returned by the driver

vars == <<phase, iteration, overhead_count, computation_count, result>>

(***************************************************************************)
(* median.c                                                                *)
(***************************************************************************)

\* Mutation of average(): the naive mean (a + b) / 2 computed in the word.
average_naive(a, b) == ((a + b) % 2^Width) \div 2

\* average(): the overflow-safe mean (a / 2) + (b / 2) + (a & b & 1ull).
average(a, b) == ((a \div 2) + (b \div 2) + ((a & b) & 1)) % 2^Width

\* compare_ulonglong() as the order handed to qsort.
LessUllong(a, b) == a < b

\* median(): qsort the samples, then take the middle element, or the
\* average of the two middle elements when the length is even.  The
\* sequence is 1-indexed, so array[length / 2] is t[length \div 2 + 1].
median(array) ==
  LET t == SortSeq(array, LessUllong)
      length == Len(array)
  IN  IF length % 2 = 0
        THEN average(t[length \div 2], t[length \div 2 + 1])
        ELSE t[length \div 2 + 1]

\* The values median() of an array of computation_samples elements may
\* return.  With no samples it reads array[-1] and array[0], which were
\* never written: any word.
MedianOutcomes(array) ==
  IF array = <<>> THEN Word ELSE {median(array)}

(***************************************************************************)
(* DEFINE_PROFILE_FUNCTION                                                 *)
(***************************************************************************)

Init ==
  /\ phase = "overhead"
  /\ iteration = 0
  /\ overhead_count = <<>>
  /\ computation_count = <<>>
  /\ result = UllongMax

\* Mutation of OverheadSample: the loop runs while i <= max_iterations.
OverheadSampleUnbounded ==
  /\ phase = "overhead"
  /\ iteration <= MaxIterations
  /\ \E d \in 0 .. MaxSample :
       overhead_count' = Append(overhead_count, d)
  /\ iteration' = iteration + 1
  /\ UNCHANGED <<phase, computation_count, result>>

\* Overhead iteration in which both reads return sizeof(start_count) bytes.
OverheadSample ==
  /\ phase = "overhead"
  /\ iteration < MaxIterations
  /\ \E d \in 0 .. MaxSample :
       overhead_count' = Append(overhead_count, d)
  /\ iteration' = iteration + 1
  /\ UNCHANGED <<phase, computation_count, result>>

\* Overhead iteration skipped by `continue` after a short read.
OverheadShortRead ==
  /\ phase = "overhead"
  /\ iteration < MaxIterations
  /\ iteration' = iteration + 1
  /\ UNCHANGED <<phase, overhead_count, computation_count, result>>

\* End of the overhead loop with overhead_samples == 0: return ULLONG_MAX.
CountersNotWorking ==
  /\ phase = "overhead"
  /\ iteration = MaxIterations
  /\ overhead_count = <<>>
  /\ phase' = "done"
  /\ result' = UllongMax
  /\ UNCHANGED <<iteration, overhead_count, computation_count>>

\* End of the overhead loop with samples: start the computation loop.
StartComputation ==
  /\ phase = "overhead"
  /\ iteration = MaxIterations
  /\ overhead_count # <<>>
  /\ phase' = "computation"
  /\ iteration' = 0
  /\ UNCHANGED <<overhead_count, computation_count, result>>

\* Computation iteration in which both reads around the kernel call succeed.
ComputationSample ==
  /\ phase = "computation"
  /\ iteration < MaxIterations
  /\ \E d \in 0 .. MaxSample :
       computation_count' = Append(computation_count, d)
  /\ iteration' = iteration + 1
  /\ UNCHANGED <<phase, overhead_count, result>>

ComputationShortRead ==
  /\ phase = "computation"
  /\ iteration < MaxIterations
  /\ iteration' = iteration + 1
  /\ UNCHANGED <<phase, overhead_count, computation_count, result>>

\* Both medians, then the saturating subtraction.  The code does not test
\* computation_samples before calling median().
Finish ==
  /\ phase = "computation"
  /\ iteration = MaxIterations
  /\ \E c \in MedianOutcomes(computation_count) :
       LET o == median(overhead_count)
       IN  result' = IF c > o THEN c - o ELSE 0
  /\ phase' = "done"
  /\ UNCHANGED <<iteration, overhead_count, computation_count>>

Next ==
  \/ OverheadSample
  \/ OverheadShortRead
  \/ CountersNotWorking
  \/ StartComputation
  \/ ComputationSample
  \/ ComputationShortRead
  \/ Finish

Spec == Init /\ [][Next]_vars

(***************************************************************************)
(* Reference definitions, independent of sorting and of machine words.    *)
(***************************************************************************)

\* The k-th smallest element of s, counting duplicates.
OrderStatistic(s, k) ==
  CHOOSE v \in {s[i] : i \in DOMAIN s} :
    /\ Cardinality({i \in DOMAIN s : s[i] < v}) < k
    /\ Cardinality({i \in DOMAIN s : s[i] <= v}) >= k

\* The median of spec section 4.1: middle element, or floor of the mean of
\* the two central elements, in unbounded integers.
ReferenceMedian(s) ==
  LET L == Len(s)
  IN  IF L % 2 = 1
        THEN OrderStatistic(s, (L + 1) \div 2)
        ELSE (OrderStatistic(s, L \div 2) + OrderStatistic(s, L \div 2 + 1)) \div 2

\* max(0, c - o) of spec section 4.7 step 4.
ReferenceCount(ovh, comp) ==
  LET d == ReferenceMedian(comp) - ReferenceMedian(ovh)
  IN  IF d > 0 THEN d ELSE 0

(***************************************************************************)
(* Properties                                                              *)
(***************************************************************************)

TypeOK ==
  /\ phase \in {"overhead", "computation", "done"}
  /\ iteration \in 0 .. MaxIterations
  /\ overhead_count \in Seq(0 .. MaxSample)
  /\ computation_count \in Seq(0 .. MaxSample)
  /\ Len(overhead_count) <= MaxIterations
  /\ Len(computation_count) <= MaxIterations
  /\ result \in Word

\* When the driver returns a count computed from samples of both passes,
\* that count is the non-negative difference between the true medians of
\* the two sample sets, whatever order the samples came in: qsort, the
\* even-length overflow-safe average and the saturating subtraction of
\* _profile together compute spec 4.1/4.7 exactly, at the top of the word.
CountIsMedianDifference ==
  (phase = "done" /\ overhead_count # <<>> /\ computation_count # <<>>)
    => result = ReferenceCount(overhead_count, computation_count)

\* Spec 4.7 step 3: a computation pass that records no sample makes the
\* driver return the ULLONG_MAX sentinel, so the coordinator omits the line.
NoComputationSampleIsSentinel ==
  (phase = "done" /\ computation_count = <<>>) => result = UllongMax

=============================================================================
