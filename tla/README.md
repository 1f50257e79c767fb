# TLA+ models of WebRunner

WebRunner is a remote micro-benchmarking server. A client POSTs an ELF image
and a kernel name. The server forks a child for the request. The child loads
the image, opens hardware performance counters and maps the kernel's argument
buffers. It then sandboxes itself with an RLIMIT_CPU limit, no-new-privileges
and a seccomp-BPF filter, and runs the median-of-N measurement driver once per
counter. It streams one line `<counter>: <count>` per counter back on the
socket. This directory models that pipeline in TLA+ and checks it with TLC.

## 1. Inventory of the system

| Part | Source | How the parts interact |
|---|---|---|
| Server accept loop | `src/webserver/server.c` `main` | Accepts a connection, forks, and waits for the child before accepting again, so requests are serialised. |
| Request coordinator | `src/webserver/request.c` `process_request` | Runs in the child: recv, parse, load, counters, arguments, sandbox, status line, counter loop, free. |
| HTTP parsing | `request.c` `parse_*`, `http.c`, `parse.c` | Pure functions over the received bytes. Any error calls `log_fatal`. |
| Measurement driver | `src/runner/benchmark.h` `DEFINE_PROFILE_FUNCTION` | An overhead pass and a computation pass over one counter fd, then the difference of the medians. |
| Median | `src/runner/median.c` | qsort, then the middle element or an overflow-safe mean. |
| Sandbox | `src/runner/sandbox.c` `enable_sandbox` | setrlimit, prctl, then a hand-assembled BPF filter that allows writes only on the connection socket. |
| Performance counters | `src/runner/perfctr.c` | Picks a table by CPU family/model, then opens two generic counters and the raw events. |
| Kernel arguments | `src/kernels/blis/{sdot,sgemm}.c`, `kernels/playground.c` | `create_arguments` mmaps the buffers (log_fatal on failure). `free_arguments` munmaps them. |
| Options | `src/webserver/options.c` | `parse_options` walks argv once at start-up: log files opened for appending, the port and the backlog read with `sscanf`. Every error exits. |
| Logs | `src/webserver/logs.c` | `setup_logs` installs the two descriptors. `log_fatal` dprintfs to `error_log_fd` and exits. |
| Loader, registry | not under `src/` (declared in `webrunner.h`) | `load_kernel` and `kernel_specifications`. |

Hazards are listed in `PROJECT.json` ("hazards"), each at its line. The main ones:

- the jump offsets of the hand-written filter;
- a sandbox step failing;
- the system calls that `log_fatal` makes after the sandbox;
- system calls the filter allows that can block for ever, which the CPU-time limit does not stop;
- an idle client;
- descriptors leaked on fork failure;
- a median taken over zero samples;
- overflow in the average and in the subtraction;
- a single `recv` taken as the whole request;
- `=` searched past the next `&` in the query;
- `sscanf("%u")` accepting signs and wrapping, in the query and in `-q`/`-p`;
- `strtoul` reading past the header value;
- the size product `n*incx` in 32 bits;
- the page rounding in `sdot`'s free;
- the CPUID bit extraction that picks the counter table.

## 2. Modules

| Module | Models | State and actions |
|---|---|---|
| `Measurement` | the driver plus `median()` | `phase`, `iteration`, the two sample arrays and `result`. There is one action per loop outcome: a sample, a short read (`continue`), the early return of ULLONG_MAX, the start of the computation pass, and `Finish`. `median`/`average` are operators over a Width-bit word. A median of zero elements is a nondeterministic word, because it reads memory that was never written. |
| `SeccompProgram` | the `filter[]` array | `Filter` is the instruction sequence, one record per `BPF_STMT`/`BPF_JUMP`, in source order. `Verdict(d)` runs it as the kernel does, as a recursive function of (pc, accumulator). `Policy(d)` is the allow-list of spec 4.6, which is the abstract specification of the filter. |
| `Perfctr` | `perfctr.c` | Operators only. `GetX86CpuInfo` extracts the display family and model from the CPUID eax word with `Bitwise`. `SelectSpecification` is the table choice of `init_performance_counters`. `Config` is the raw `config` word. `InitPerformanceCounters` is the list of counters that function opens. The seven tables are complete (328 entries, the commented-out ones left out), one record per entry with its event, umask, inv, cmask and edge; the names are abstracted to `EntryName(table, index)`. The constant `Picks` chooses, per table, the entries a run opens. The reference definitions restate spec 4.2 and spec 3 in arithmetic (`DisplayFamily`, `DisplayModel`, `SpecConfig`). `DocumentedFor` records the family/model each table is documented for. |
| `Coordinator` | `process_request` plus the child branch of `main` | `pc` follows the steps of the code. The other variables are: the CPUID word and the counters opened, each counter's descriptor (open or failed), mapped buffers, installed protections, the loop index, the results, the socket output, the peer state, and `allowed` (what the installed filter lets through, computed by `SeccompProgram!Verdict`). `InitCounters` reads CPUID on one of `CpuSignatures` and opens `Perfctr`'s catalogue for it. Each system call the child makes (dprintf is lseek, fstat and write; ioctl; read; munmap; exit_group) passes through `Make`. `Make` kills the child when the filter refuses a call. The kernel under test is untrusted: it returns, spins, or makes any call of `KernelSyscalls`. `FreeArguments` unmaps every buffer whole; that abstraction holds while sdot's offsets stay below a page (`sdot.c:30` rounds `x` down to a page), and `RequestParser`'s `FreeSdotArguments` models the rounding. |
| `HttpParse` | `parse.c`, `http.c`, the `parse_*` functions of `request.c` | Operators over the received bytes. A byte is a one-character string and a slice is a pair of 1-based indices. `FindEndOfLine`, `ParseUint32` (sscanf `%u`: signs, saturation at ULONG_MAX, the low Width bits kept), `StrtoulRange` (strtoul on bytes that are not NUL-terminated), `ParseHttpParameter`, `ParseRequestHeader`, `ParseTarget` and `ParseRequestLine`. Each `log_fatal` check is a disjunct, in the order of the code. |
| `RequestParser` | the request half of `process_request`, and the three kernels' `create_arguments`/`free_arguments` | `sent` is the request a client sent, as a record; `Serialize` writes it in the wire form of spec 6. `buf` is what `recv` returned. `stage` walks through `RequestLine`, one `HeaderLine` per iteration, `EndOfHeaders`, one `ParameterStep` per query parameter, `LoadKernel` (from spec 4.5, as the loader is not under `src/`: an image without the ELF magic `ElfMagic` is fatal, otherwise the executable segment is mapped as `"code"` on the highest free pages and `function` is its start, whatever the symbol), then `CreateArguments` and `FreeArguments`, each a disjunction over the kernel the request named (`CreateSdotArguments`, `CreateSgemmArguments`, `CreatePlaygroundArguments` and the three frees). `params` is copied from that kernel's defaults when the parse returns (`KernelDefaults`). `memory` maps each page to its owner. `args` is the arguments record: sdot's `x`/`y` with the offsets added, sgemm's `a`/`b`/`c`, playground's iteration count. Products of two fields are 32-bit (`Mul32`); a zero-length `mmap` fails. |
| `Request` | the whole of `process_request` | Composes `RequestParser` (as `P`) with `Coordinator` (as `C`) over the union of their variables, but for `Coordinator`'s `kernel` and `mapped`, which are defined from the detailed state: `kernelOf` is the `enum webrunner_kernel` (`KernelIds`) of the kernel `parse_target` resolved once the parse is over, `mappedOf` the owners of the pages `create_arguments`' `mmap` calls gave out (the loaded kernel's `"code"` pages are not argument buffers). `Receive`, `Parse`, `Parsed`, `Load`, `CreateArguments` and `FreeArguments` are `RequestParser`'s steps with `Coordinator`'s `pc` and `child` moved as the code does (a failed check is `log_fatal`); `ChildStep` and `Environment` are `Coordinator`'s steps after the arguments exist, with the parser's state unchanged. |
| `Options` | `parse_options` | `argv`, `argi`, `options` and `ostate`. One action per branch of the if-else chain: `AccessLogOption`, `ErrorLogOption`, `QueueSizeOption`, `PortOption`, `HelpOption`, `UnknownOption`, `MissingValue`, and `OptionsParsed` when the loop ends. The numbers go through `HttpParse`'s `ScanUnsigned` at the width of the field (`%u` into 32 bits, `%hu` into 16). `RequestedOptions` is what spec 6 says the command line asks for. |
| `Server` | `main`: start-up and the accept loop | `Configure` runs `Options`; `Listen` is `setup_logs`, socket, bind and listen; `StartupFails` is an error there. `logs` and `listening` record the result. `ppc` is the parent's step. The other variables are the client sockets held by the parent, the sockets each running child inherited, and each client's view. Actions: `Accept`, `AcceptAborted` (ECONNABORTED), `AcceptNoDescriptor` (EMFILE, then exit), `ForkChild`, `ForkFails`, `Wait` (waitpid), `ChildExit`, `ClientSeesClose` and `Connect`. |
| `SerialServer` | the promise of spec 5 | One variable: each connection is idle, queued, serving or served. A connection is served only while no other is, and each served connection finishes and is closed, under fairness. |

How the modules fit together:

- `Coordinator` composes `SeccompProgram` and `Perfctr` by `INSTANCE`.
- `RequestParser` extends `HttpParse`; `Options` instances it for `sscanf`.
- `Server` extends `Options`: the parent parses its command line before it
  listens, and `ServesRequestedOptions` relates the listening server to it.
- `Server` treats the whole child as one step, `ChildExit`. Its fairness
  assumption, that a child ends, is what `Coordinator`'s `ChildTerminates`
  checks. The violated runs below show where that assumption fails.
- **Refinement.** `Server` implements `SerialServer` through the mapping
  `ServiceState`. A pending client is "queued". An accepted client is
  "serving" while the parent is about to fork for it or its child runs, and
  "served" until it sees the close. `ImplementsSerialServer` is
  `SerialServer!Spec` under that mapping.
- **Composition and refinement.** `Request` runs `RequestParser` and
  `Coordinator` as one child: the request the client sent decides the
  kernel, the kernel's `create_arguments` maps pages, and `Coordinator`'s
  sandbox, counter loop and exit follow. `CoordinatorRefined` is
  `Coordinator`'s safety specification under the mapping `kernel <-
  kernelOf, mapped <- mappedOf`: the page arithmetic of `sdot.c` and
  `sgemm.c` and the buffer order of `KernelBuffers` (x, y; a, b, c) agree
  with the abstract lifecycle, in particular on which buffers are still
  mapped after the n-th `mmap` fails. `Coordinator`'s own runs check the
  properties of that lifecycle over all counters and system calls.

## 3. Runs

| Run | Checks | Result |
|---|---|---|
| `measurement` | `TypeOK`, `CountIsMedianDifference` | pass. For every arrival order and every pattern of short reads, the result equals max(0, med(comp) − med(ovh)) computed over unbounded integers, even at the top of the word. |
| `measurement_no_samples` | `NoComputationSampleIsSentinel` | violation. With 0 computation samples the driver returns garbage, where spec 4.7 says it returns ULLONG_MAX (`benchmark.h:61`). |
| `coordinator` | `TypeOK`, `UntrustedCodeConfined`, `ReportIsFaithful`, `CountersFollowCatalogue`, `FilterEnforcesPolicy`, `ChildTerminates` | pass, with a kernel that never blocks. On four CPU models, the counters opened are the two generic ones plus the entries of the documented table. The filter the child installs gives each of 168 `seccomp_data` records the verdict of the spec 4.6 policy (`FilterEnforcesPolicy`, checked on the step that installs it). |
| `coordinator_kernel_blocks` | `ChildTerminates` | violation. A futex wait is allowed and uses no CPU, so RLIMIT_CPU never fires and the serialised server hangs (`sandbox.c:90`). |
| `server` | `TypeOK`, `OneRequestAtATime`, `ServesRequestedOptions` | pass. Through accept errors and fork failures, at most one child runs. Over ten command lines (repeated options, both spellings, every exit of `parse_options`), a server that listens has the port, backlog and log files its command line names. |
| `server_liveness` | `ParentSurvives`, `ImplementsSerialServer` | pass, when fork does not fail. The accept loop refines `SerialServer`, liveness included. |
| `server_fork_failure` | `ParentSurvives` | violation. A failed fork leaks `client_socket` (`server.c:59`). Two leaks fill the table, and the next accept fails with EMFILE, which ends the server. |
| `server_port_range` | `OutOfRangeRejected` | violation. `-p 70000` is read with `%hu` and no range check, so the server listens on port 4464 where spec 6 says it exits non-zero (`options.c:70`). `-q 0` is accepted too, as `ServesRequestedOptions` shows. |
| `request` | `TypeOK`, `KernelIsRequested`, `OverridesApplied`, `BodyComplete`, `AcceptsWellFormed`, `ArgumentsWithinBuffers`, `ReleasesExactly`, `CoordinatorRefined` | pass, on the composed `Request` (about 435,000 states, about a minute), over 76 well-formed and malformed requests for the three kernels, delivered by one full `recv`. A request is accepted exactly when it is well formed. The kernel is the one named. Each `name=value` override lands in the parameters. The body is what was sent. With offsets below a page, every element sdot and sgemm touch lies in its own buffer, and `free_arguments` unmaps exactly what was mapped, after each of sgemm's three `mmap`s and sdot's two has been tried. Every step of the whole child, through the sandbox, the counter loop, a reset by the client and a kernel killed by the filter, is a step of `Coordinator` on the derived kernel and buffers. |
| `request_parser_overrides` | `OverridesApplied` | violation. For `?kernel=sdot&n&incx=3` the parser takes `n&incx` as the name and `incx=3` is lost (`http.c:57`). `n=-1` is also accepted, as 2^Width − 1. |
| `request_parser_short_recv` | `BodyComplete` | violation. One `recv` is taken as the whole request and Content-Length is never compared, so a truncated ELF image is loaded (`request.c:217`). |
| `request_parser_page_offset` | `ReleasesExactly` | violation. With `offx=4096`, `free_arguments` rounds `x` down to the page after the mapping's base. It unmaps a page it never mapped and leaves the first one mapped (`sdot.c:30`). When `x` lies just below the loaded kernel, the page it unmaps is the kernel's code. |

Each property of a passing run has a mutant in `PROJECT.json`: a plausible bug
in the mapped definition that TLC catches. Examples:

- the naive `(a+b)/2`;
- a write rule that jumps one instruction short;
- an unchecked `setrlimit`;
- a missing ULLONG_MAX test;
- a partial free;
- `waitpid` with WNOHANG;
- a parent that does not close its copy of the socket;
- a `find_end_of_line` that stops one byte early;
- a parameter loop that skips the byte after `&`;
- a size without `sizeof(float)`;
- a free of `x` alone;
- a CPUID decoder that adds the extended model for family 6 only;
- an `edge` bit shifted to bit 17 instead of 18;
- a port stored into the queue size.

Found while modelling, with no run of its own (one catalogue fact, and one
overflow checked outside the run set):

- In the tables, entries with different names share one encoding, so two
  report lines count the same event. Examples: Broadwell
  `IDQ.ALL_MITE_CYCLES_4_UOPS`/`_ANY_UOPS` use umask 0x18, the same as the
  DSB entries above them (`perfctr.c:78-79`), Haswell
  `IDQ.ALL_DSB_CYCLES_4_UOPS` uses 0x24, the same as MITE (`perfctr.c:154`),
  and Ivy Bridge `SIMD_FP_256.PACKED_SINGLE` and `.PACKED_DOUBLE`. The model
  holds the tables as written and does not check their fields against
  Intel's manuals.
- `log_access` writes to `error_log_fd`, not `access_log_fd`
  (`logs.c:39`), and nothing calls it. So `--access-log` opens a file that
  never receives a line. `ServesRequestedOptions` checks only that the
  descriptor is installed.
- Steamroller's three `event 0x1C0` entries are commented out
  (`perfctr.c:290-292`). 0x1C0 does not fit the 8-bit event field: put
  into `config` as the code builds it, its bit 8 would land in the umask.
- `n=64, incx=128` overflows the 13-bit size product and violates
  `ArgumentsWithinBuffers`, the same way the 32-bit product of `sdot.c:11`
  does. For sgemm, `mr=2, rs_c=4097` wraps `mr * rs_c` to 2, maps a C of
  8 bytes and violates it too (`sgemm.c:19`). Neither request is in the
  run's set.

### Bounds

- **Measurement:** 3 iterations, a 3-bit word and samples 0..6. This gives odd
  and even lengths, zero samples after short reads, and means of samples
  near 2^3 − 1 where the naive mean overflows.
- **Filter** (in the coordinator run): all 14 system-call numbers the
  policy names, both architectures, argument 0 the socket, another
  descriptor or `-1`, argument 4 `-1` or a descriptor: 168 records.
- **Coordinator:** three kernels with 0, 2 and 3 buffers, and counts {0, 1}
  plus the sentinel. There are four CPUID words: Haswell 06_3CH (two raw
  entries), Atom 06_36H (the entry with `edge`), Steamroller 15_30H (family
  0xF with an extended model) and Skylake 06_5EH (no table). That gives 2 to 4
  counters, each open or failed. `Picks` opens one or two real entries per
  table, chosen so that every field of the encoding is set somewhere. The kernel may
  make six non-blocking calls, some allowed and some killed; `futex` is added
  in the blocking run.
- **Request parser:** a 13-bit `uint32_t` and a 16-bit `unsigned long`, so
  that 4096 parses and `-1` wraps. `MAX_HEADERS_SIZE` is 128. Pages are 4096
  bytes, there are six of them and page 3 is already taken; the loaded
  kernel takes page 6, which leaves two free runs of two pages. There are 68
  sdot requests: 8 queries times 4 header blocks times 2 bodies (empty,
  which the loader rejects, and a three-byte image), plus 4 request-line
  variants. Six sgemm requests reach each of its three `mmap` failures and
  the spec's example sizes (one, two and one pages), and two playground
  requests. They include an unknown parameter, `+4`, a bare name, an empty
  segment, `n=4095` (the mmap fails) and wrong methods, commands and protocols.
  The violation runs add the malformed queries, the short `recv` and
  `offx=4096`. In the composed `request` run the coordinator half runs on
  one CPUID word (Atom, two counters, each open or failed), counts {1} and
  the six non-blocking kernel calls, which keeps the product with 76
  requests near 435,000 states; `Coordinator`'s own run covers the
  other CPUs and counts.
- **Server:** three clients and room for two sockets. That is the smallest
  table two leaks can fill while a third client is still waiting. Symmetry
  over clients is used only in the safety-only violation runs. The
  start-up runs over ten command lines: the defaults, both spellings of
  each option, an option given twice, both log files, and one command line
  for each exit of `parse_options` (help, unknown option, missing value,
  unopenable file, unparsable number, backlog above INT_MAX). The widths
  are scaled from 64/32/16 bits to 24/20/16 with INT_MAX = 2^19 − 1, which
  keeps their order: `-1` still wraps above INT_MAX and `70000` still wraps
  into a port.

### Fairness

- **Coordinator:** weak fairness on the child's own steps, because the OS
  runs a runnable process. There is also weak fairness on `CpuLimitExceeded`,
  because the kernel delivers SIGXCPU/SIGKILL once a running process has used
  its CPU time. There is none on the kernel under test, which may spin for
  ever, and none on the client.
- **Server:** weak fairness on the parent, on each child's exit (which is
  what `ChildTerminates` checks) and on the client noticing the close.
  Clients need not connect. `SerialServer` asks for weak fairness on
  finishing and closing; `Server` gets them from its own fairness.
- **Request parser:** the specification has weak fairness on `Next`, but the
  runs check safety only (the composed `Request` has no fairness: its one
  temporal property, `CoordinatorRefined`, is a safety property). Acceptance ("a well-formed request is never
  refused") is stated as an invariant over the final state. The parser's
  steps are deterministic once the request is chosen, so this says the same
  as the liveness form, and it checks far faster.

## 4. Not modelled, and why

- **Log formatting:** output only. `log_fatal` is modelled as its system calls
  and its exit.
- **The loader and the kernel registry:** not under `src/`, so they are
  modelled from spec 4.4 and 4.5 only as far as they touch the rest: the
  registry's names, fields, defaults and buffers, and the loader's header
  check and executable mapping (`RequestParser`'s `LoadKernel`). The ELF
  format, the symbol lookup and the copy of the segment are left out,
  because no property depends on the code the kernel runs; `Coordinator`'s
  `LoadKernel` stands for the call and its failure.
- **The counter values:** the kernel under test can disturb them through
  `ioctl` or forge report lines through the socket, both of which the filter
  allows.
- **Counter names:** an entry's name is `EntryName(table, index)`; the
  strings of the tables are output only.
- **The socket, bind and listen calls:** `Listen` stands for them and
  `StartupFails` for their errors; the port reaches the kernel only there.
- **The `malloc` in `init_performance_counters`:** unchecked, but a failure
  of a few hundred bytes before the sandbox only crashes the child.

Plan for later sittings:

1. Show that `Measurement` refines an abstract "median difference or sentinel"
   driver.
2. Put the sgemm size wrap-around and the duplicate table encodings in
   runs of their own if run slots free up.
