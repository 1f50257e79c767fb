---------------------------- MODULE RequestParser ----------------------------
(***************************************************************************)
(* The request half of process_request() (src/src/webserver/request.c):    *)
(* one recv() of at most MAX_HEADERS_SIZE bytes, parse_request_headers()   *)
(* (the request line, then one header line per loop iteration), the loop   *)
(* that applies the kernel's query parameters over the defaults, and the   *)
(* body handed to load_kernel(); then the create_arguments and            *)
(* free_arguments of the kernel named: the buffers sdot and sgemm map and  *)
(* unmap (src/src/kernels/blis/{sdot,sgemm}.c) and the copy playground     *)
(* makes (src/src/kernels/playground.c).                                   *)
(*                                                                         *)
(* The client's request is a record of pieces (method, command, uarch,     *)
(* kernel, the query parameters after kernel, protocol, header lines and   *)
(* body) that Serialize writes in the form of spec section 6.  The record  *)
(* is the reference the properties compare the parser's results with.     *)
(***************************************************************************)
EXTENDS HttpParse

CONSTANTS
  Requests,    \* the requests clients send (records, see Serialize)
  Defaults,    \* parameters_default of each kernel: name -> (field -> value)
  BufferSize,  \* MAX_HEADERS_SIZE
  ShortRecv,   \* TRUE: recv() may return fewer bytes than were sent
  PageSize,    \* the page size munmap rounds to (4096)
  Pages,       \* the pages of the address range mmap may use
  OtherPages   \* pages of it already mapped (image, stack, libraries)

ASSUME BufferSize \in Nat \ {0} /\ ShortRecv \in BOOLEAN
ASSUME PageSize \in Nat \ {0} /\ OtherPages \subseteq Pages /\ 0 \notin Pages

VARIABLES
  sent,           \* the request the client sent
  buf,            \* request_buffer[0 .. bytes_received - 1]
  stage,          \* where process_request is
  line,           \* the start of the next header line (end_of_line.end)
  request,        \* the struct webrunner_request parse_target returned
  headersLength,  \* request.headers_length (the index the body starts at)
  query,          \* the loop's query pointer, 0 for NULL
  params,         \* the parameters record
  body,           \* the image passed to load_kernel
  memory,         \* memory[p]: who maps page p: "free", "other" or a buffer
  args,           \* the arguments record; a buffer is a byte address, 0 = NULL
  function        \* the address load_kernel returned, 0 before

parseVars == <<sent, buf, line, request, headersLength, query, params, body,
              function>>
vars == <<sent, buf, stage, line, request, headersLength, query, params, body,
          memory, args, function>>

\* A record before it is allocated.
NoRecord == [f \in {} |-> 0]

\* alloca and memcpy of kernel_specifications[kernel].parameters_default,
\* once parse_request_headers has returned.
KernelDefaults(k) == Defaults[k]

Serialize(r) ==
  r.method \o <<SP, "/">> \o r.command \o <<"/">> \o r.uarch \o <<"?">>
    \o ParamKernel \o <<"=">> \o r.kernel
    \o FlattenSeq([i \in DOMAIN r.params |-> <<"&">> \o r.params[i]])
    \o <<SP>> \o r.protocol \o <<CR, LF>>
    \o FlattenSeq([i \in DOMAIN r.headers |-> r.headers[i] \o <<CR, LF>>])
    \o <<CR, LF>> \o r.body

wire == Serialize(sent)

(* kernel_specifications[kernel].parse_parameter, generated code that is   *)
(* not under src/: a known field takes the parse_uint32 value; an unknown  *)
(* name or an unparsable value is logged and ignored (spec sections 3, 4). *)
ParseParameter(ps, name, value) ==
  IF name \in DOMAIN ps /\ ParseUint32(value).ok
  THEN [ps EXCEPT ![name] = ParseUint32(value).value]
  ELSE ps

Init ==
  /\ sent \in Requests
  /\ buf = <<>>
  /\ stage = "recv"
  /\ line = 0
  /\ request = [fatal |-> FALSE, kernel |-> <<>>, query |-> 0, query_size |-> 0]
  /\ headersLength = 0
  /\ query = 0
  /\ params = NoRecord
  /\ body = <<>>
  /\ memory = [p \in Pages |-> IF p \in OtherPages THEN "other" ELSE "free"]
  /\ args = NoRecord
  /\ function = 0

\* log_fatal() with the pages mem mapped: the child exits.
FailMapped(mem) ==
  /\ stage' = "fatal"
  /\ memory' = mem
  /\ UNCHANGED <<parseVars, args>>

Fail == FailMapped(memory)

\* recv(connection_socket, request_buffer, MAX_HEADERS_SIZE, 0): whatever
\* TCP has delivered so far, at least one byte, never more than the buffer.
RecvSizes ==
  LET all == IF Len(wire) < BufferSize THEN Len(wire) ELSE BufferSize
  IN IF ShortRecv THEN 1..all ELSE {all}

Receive ==
  /\ stage = "recv"
  /\ \E n \in RecvSizes : buf' = SubSeq(wire, 1, n)
  /\ stage' = "line"
  /\ UNCHANGED <<sent, line, request, headersLength, query, params, body,
                 memory, args, function>>

\* recv() returns -1 (the peer reset the connection).
RecvFails ==
  /\ stage = "recv"
  /\ Fail

\* parse_request_headers up to the loop: the request line must end in
\* CR LF, then parse_request_line.
RequestLine ==
  /\ stage = "line"
  /\ LET eol == FindEndOfLine(buf, 1, Len(buf) + 1)
         r == ParseRequestLine(buf, 1, eol.start)
     IN IF eol.start = eol.end \/ r.fatal THEN Fail
        ELSE /\ request' = r
             /\ line' = eol.end
             /\ stage' = "headers"
             /\ UNCHANGED <<sent, buf, headersLength, query, params, body,
                            memory, args, function>>

\* One iteration of the do-while loop on a non-empty line.
HeaderLine ==
  /\ stage = "headers"
  /\ LET eol == FindEndOfLine(buf, line, Len(buf) + 1)
     IN /\ line # eol.start
        /\ IF eol.start = eol.end THEN Fail
           ELSE \E fatal \in ParseRequestHeader(buf, line, eol.start) :
                  IF fatal THEN Fail
                  ELSE /\ line' = eol.end
                       /\ UNCHANGED <<sent, buf, stage, request,
                                      headersLength, query, params, body,
                                      memory, args, function>>

\* Mutation of EndOfHeaders: headers_length one past the end of the line.
EndOfHeadersPastLine ==
  /\ stage = "headers"
  /\ LET eol == FindEndOfLine(buf, line, Len(buf) + 1)
     IN /\ line = eol.start
        /\ IF eol.start = eol.end THEN Fail
           ELSE /\ headersLength' = eol.end + 1
                /\ params' = KernelDefaults(request.kernel)
                /\ query' = IF request.query_size # 0 THEN request.query ELSE 0
                /\ stage' = "params"
                /\ UNCHANGED <<sent, buf, line, request, body, memory, args, function>>

\* The iteration on the empty line ends the loop: headers_length is set,
\* and the parameter loop starts when the query after kernel is not empty.
EndOfHeaders ==
  /\ stage = "headers"
  /\ LET eol == FindEndOfLine(buf, line, Len(buf) + 1)
     IN /\ line = eol.start
        /\ IF eol.start = eol.end THEN Fail
           ELSE /\ headersLength' = eol.end
                /\ params' = KernelDefaults(request.kernel)
                /\ query' = IF request.query_size # 0 THEN request.query ELSE 0
                /\ stage' = "params"
                /\ UNCHANGED <<sent, buf, line, request, body, memory, args, function>>

\* Mutation of ParameterStep: the next parameter is taken one byte late,
\* as if next pointed at the '&' itself.
ParameterStepSkipsByte ==
  /\ stage = "params"
  /\ query # 0
  /\ LET p == ParseHttpParameter(buf, query, request.query + request.query_size)
     IN /\ params' = IF p.name = 0 \/ p.value = 0 THEN params
                     ELSE ParseParameter(params, ParameterName(buf, p),
                                         ParameterValue(buf, p))
        /\ query' = IF p.next = 0 THEN 0 ELSE p.next + 1
  /\ UNCHANGED <<sent, buf, stage, line, request, headersLength, body,
                 memory, args, function>>

\* One iteration of the parameter loop of process_request.
ParameterStep ==
  /\ stage = "params"
  /\ query # 0
  /\ LET p == ParseHttpParameter(buf, query, request.query + request.query_size)
     IN /\ params' = IF p.name = 0 \/ p.value = 0 THEN params
                     ELSE ParseParameter(params, ParameterName(buf, p),
                                         ParameterValue(buf, p))
        /\ query' = p.next
  /\ UNCHANGED <<sent, buf, stage, line, request, headersLength, body,
                 memory, args, function>>

(***************************************************************************)
(* The kernels of the registry and their arguments (src/src/kernels).  The *)
(* parameter fields are uint32_t: a product of two fields is a 32-bit      *)
(* product, widened only when multiplied by sizeof(float).  mmap places a  *)
(* mapping on free whole pages anywhere in the range; munmap frees every   *)
(* page its range touches.                                                 *)
(***************************************************************************)
SdotName == <<"s", "d", "o", "t">>
SgemmName == <<"s", "g", "e", "m", "m">>
PlaygroundName == <<"p", "l", "a", "y", "g", "r", "o", "u", "n", "d">>

FieldN == <<"n">>
FieldIncx == <<"i", "n", "c", "x">>
FieldOffx == <<"o", "f", "f", "x">>
FieldIncy == <<"i", "n", "c", "y">>
FieldOffy == <<"o", "f", "f", "y">>
FieldK == <<"k">>
FieldMr == <<"m", "r">>
FieldNr == <<"n", "r">>
FieldRsC == <<"r", "s", "_", "c">>
FieldCsC == <<"c", "s", "_", "c">>
FieldIterations == <<"i", "t", "e", "r", "a", "t", "i", "o", "n", "s">>

\* The product of two uint32_t fields.
Mul32(a, b) == (a * b) % 2^Width

\* Mutation of ArraySize: the element size is left out.
ArraySizeNoSizeof(n, inc) == Mul32(n, inc) + 64

\* sdot: n * inc * sizeof(float) + 64.
ArraySize(n, inc) == Mul32(n, inc) * 4 + 64

\* sgemm: A is k * mr floats, B k * nr, C (mr * rs_c) * (nr * cs_c).
SgemmSizes(ps) ==
  [a |-> Mul32(ps[FieldK], ps[FieldMr]) * 4,
   b |-> Mul32(ps[FieldK], ps[FieldNr]) * 4,
   c |-> Mul32(Mul32(ps[FieldMr], ps[FieldRsC]),
               Mul32(ps[FieldNr], ps[FieldCsC])) * 4]

PageCount(len) == (len + PageSize - 1) \div PageSize

\* The pages of [addr, addr + len).
PagesOf(addr, len) == (addr \div PageSize)..((addr + len - 1) \div PageSize)

\* mmap(NULL, len, ...): the page-aligned bases with room for len bytes;
\* none for a length of 0 (EINVAL).
MmapBases(mem, len) ==
  {b \in Pages : len > 0 /\
     \A p \in b..(b + PageCount(len) - 1) : p \in Pages /\ mem[p] = "free"}

Mmap(mem, b, len, owner) ==
  [p \in Pages |-> IF p \in b..(b + PageCount(len) - 1) THEN owner ELSE mem[p]]

\* BIT_AND_PTR(ptr, -4096).
PageBase(addr) == addr - (addr % PageSize)

\* munmap(addr, len) of a page-aligned addr: every page touched is freed,
\* whoever mapped it; a length of 0 frees nothing.
Munmap(mem, addr, len) ==
  [p \in Pages |-> IF p \in PagesOf(addr, len) THEN "free" ELSE mem[p]]

\* munmap of a buffer pointer unless it is NULL.
FreeBuffer(mem, ptr, len) == IF ptr # 0 THEN Munmap(mem, ptr, len) ELSE mem

(* load_kernel (spec section 4.5; the loader is not under src/): the      *)
(* executable segment is copied into a fresh mapping, whose start is       *)
(* returned whatever the symbol; a malformed image header is fatal.  The   *)
(* image is abstracted to its bytes: a well-formed one starts with         *)
(* ElfMagic, and its executable segment is at most the whole image.  The   *)
(* mapping goes where Linux's top-down mmap puts it: the highest free run  *)
(* of pages.                                                               *)
ElfMagic == <<"E">>

\* Mutation of LoadKernel: request_end one byte short, the image loses its
\* last byte.
LoadKernelShortImage ==
  /\ stage = "params"
  /\ query = 0
  /\ LET image == Bytes(buf, headersLength, Len(buf))
         bases == MmapBases(memory, Len(image))
     IN /\ body' = image
        /\ IF IsPrefix(ElfMagic, image) /\ bases # {}
             THEN /\ memory' = Mmap(memory, Max(bases), Len(image), "code")
                  /\ function' = Max(bases) * PageSize
                  /\ stage' = "done"
             ELSE /\ stage' = "fatal"
                  /\ UNCHANGED <<memory, function>>
  /\ UNCHANGED <<sent, buf, line, request, headersLength, query, params, args>>

LoadKernel ==
  /\ stage = "params"
  /\ query = 0
  /\ LET image == Bytes(buf, headersLength, Len(buf) + 1)
         bases == MmapBases(memory, Len(image))
     IN /\ body' = image
        /\ IF IsPrefix(ElfMagic, image) /\ bases # {}
             THEN /\ memory' = Mmap(memory, Max(bases), Len(image), "code")
                  /\ function' = Max(bases) * PageSize
                  /\ stage' = "done"
             ELSE /\ stage' = "fatal"
                  /\ UNCHANGED <<memory, function>>
  /\ UNCHANGED <<sent, buf, line, request, headersLength, query, params, args>>

Created(kernel) == stage = "done" /\ request.kernel = kernel

\* blis_sdot_create_arguments: map x, then y; a failed mmap (ENOMEM) is
\* log_fatal.
CreateSdotArguments ==
  /\ Created(SdotName)
  /\ LET sx == ArraySize(params[FieldN], params[FieldIncx])
         sy == ArraySize(params[FieldN], params[FieldIncy])
     IN \/ MmapBases(memory, sx) = {} /\ Fail
        \/ \E bx \in MmapBases(memory, sx) :
             LET mx == Mmap(memory, bx, sx, "x")
             IN \/ MmapBases(mx, sy) = {} /\ FailMapped(mx)
                \/ \E by \in MmapBases(mx, sy) :
                     /\ memory' = Mmap(mx, by, sy, "y")
                     /\ args' = [x |-> bx * PageSize + params[FieldOffx],
                                 y |-> by * PageSize + params[FieldOffy]]
                     /\ stage' = "created"
                     /\ UNCHANGED parseVars

\* blis_sgemm_create_arguments: map A, B and C in turn, each failure a
\* log_fatal; alpha and beta are static and are left out.
CreateSgemmArguments ==
  /\ Created(SgemmName)
  /\ LET s == SgemmSizes(params)
     IN \/ MmapBases(memory, s.a) = {} /\ Fail
        \/ \E ba \in MmapBases(memory, s.a) :
             LET ma == Mmap(memory, ba, s.a, "a")
             IN \/ MmapBases(ma, s.b) = {} /\ FailMapped(ma)
                \/ \E bb \in MmapBases(ma, s.b) :
                     LET mb == Mmap(ma, bb, s.b, "b")
                     IN \/ MmapBases(mb, s.c) = {} /\ FailMapped(mb)
                        \/ \E bc \in MmapBases(mb, s.c) :
                             /\ memory' = Mmap(mb, bc, s.c, "c")
                             /\ args' = [a |-> ba * PageSize,
                                         b |-> bb * PageSize,
                                         c |-> bc * PageSize]
                             /\ stage' = "created"
                             /\ UNCHANGED parseVars

\* playground_create_arguments: the iteration count is copied.
CreatePlaygroundArguments ==
  /\ Created(PlaygroundName)
  /\ args' = [iterations |-> params[FieldIterations]]
  /\ stage' = "created"
  /\ UNCHANGED <<parseVars, memory>>

CreateArguments ==
  CreateSdotArguments \/ CreateSgemmArguments \/ CreatePlaygroundArguments

\* Mutation of FreeSdotArguments: y is never unmapped.
FreeSdotArgumentsXOnly ==
  /\ stage = "created" /\ request.kernel = SdotName
  /\ memory' = FreeBuffer(memory, PageBase(args.x),
                          ArraySize(params[FieldN], params[FieldIncx]))
  /\ args' = [args EXCEPT !.x = 0, !.y = 0]
  /\ stage' = "freed"
  /\ UNCHANGED parseVars

\* blis_sdot_free_arguments: unmap from the page of x (and y) the size
\* create_arguments mapped, then clear the pointers.
FreeSdotArguments ==
  /\ stage = "created" /\ request.kernel = SdotName
  /\ LET m1 == FreeBuffer(memory, PageBase(args.x),
                          ArraySize(params[FieldN], params[FieldIncx]))
     IN memory' = FreeBuffer(m1, PageBase(args.y),
                             ArraySize(params[FieldN], params[FieldIncy]))
  /\ args' = [args EXCEPT !.x = 0, !.y = 0]
  /\ stage' = "freed"
  /\ UNCHANGED parseVars

\* Mutation of FreeSgemmArguments: the munmap of c is missing.
FreeSgemmArgumentsNoC ==
  /\ stage = "created" /\ request.kernel = SgemmName
  /\ LET s == SgemmSizes(params)
     IN memory' = FreeBuffer(FreeBuffer(memory, args.a, s.a), args.b, s.b)
  /\ args' = [args EXCEPT !.a = 0, !.b = 0, !.c = 0]
  /\ stage' = "freed"
  /\ UNCHANGED parseVars

\* blis_sgemm_free_arguments: unmap A, B and C with the sizes they were
\* mapped with, clearing each pointer.
FreeSgemmArguments ==
  /\ stage = "created" /\ request.kernel = SgemmName
  /\ LET s == SgemmSizes(params)
         ma == FreeBuffer(memory, args.a, s.a)
         mb == FreeBuffer(ma, args.b, s.b)
     IN memory' = FreeBuffer(mb, args.c, s.c)
  /\ args' = [args EXCEPT !.a = 0, !.b = 0, !.c = 0]
  /\ stage' = "freed"
  /\ UNCHANGED parseVars

\* playground_free_arguments does nothing.
FreePlaygroundArguments ==
  /\ stage = "created" /\ request.kernel = PlaygroundName
  /\ stage' = "freed"
  /\ UNCHANGED <<parseVars, memory, args>>

FreeArguments ==
  FreeSdotArguments \/ FreeSgemmArguments \/ FreePlaygroundArguments

Next ==
  \/ Receive \/ RecvFails \/ RequestLine \/ HeaderLine \/ EndOfHeaders
  \/ ParameterStep \/ LoadKernel \/ CreateArguments \/ FreeArguments

\* The child is a runnable process; the bytes were sent before it reads.
Spec == Init /\ [][Next]_vars /\ WF_vars(Next)

(***************************************************************************)
(* Reference definitions, from the grammar of spec section 6 and the       *)
(* parameter rules of sections 3 and 4.8.                                  *)
(***************************************************************************)

\* A header the server must accept: any header but a Content-Type other
\* than application/octet-stream.
AcceptableHeader(h) ==
  IsPrefix(HeaderContentType \o <<":">>, h)
    => h = HeaderContentType \o <<":", SP>> \o OctetStream

WellFormed(r) ==
  /\ r.method = MethodPost
  /\ r.command = CommandRun
  /\ r.kernel \in KernelNames
  /\ IsPrefix(ProtocolPrefix, r.protocol) /\ Len(r.protocol) >= 8
  /\ \A i \in DOMAIN r.headers : AcceptableHeader(r.headers[i])
  /\ Len(Serialize(r)) <= BufferSize

\* The parameters the query asks for: each "<name>=<value>" segment after
\* kernel, in order, sets a known field to the positive integer the value
\* writes in decimal (an optional "+", then digits) when it fits; every
\* other segment is ignored.
Override(ps, seg) ==
  LET eq == MemChr(seg, 1, Len(seg) + 1, "=")
      name == SubSeq(seg, 1, eq - 1)
      value == SubSeq(seg, eq + 1, Len(seg))
      digits == IF value # <<>> /\ value[1] = "+" THEN Tail(value) ELSE value
  IN IF /\ eq # 0
        /\ name \in DOMAIN ps
        /\ digits # <<>> /\ \A i \in DOMAIN digits : digits[i] \in Digits
        /\ Decimal(digits) < 2^Width
     THEN [ps EXCEPT ![name] = Decimal(digits)]
     ELSE ps

RequestedParameters(r) == FoldLeft(Override, Defaults[r.kernel], r.params)

(***************************************************************************)
(* Properties                                                              *)
(***************************************************************************)

\* The stages after load_kernel.
Loaded == {"done", "created", "freed"}

TypeOK ==
  /\ sent \in Requests
  /\ stage \in {"recv", "line", "headers", "params", "done", "created",
                "freed", "fatal"}
  /\ IsPrefix(buf, wire) /\ Len(buf) <= BufferSize
  /\ line \in 0..(Len(buf) + 1)
  /\ headersLength \in 0..(Len(buf) + 1)
  /\ query \in 0..(Len(buf) + 1)
  /\ DOMAIN params \in {{}} \cup {DOMAIN Defaults[k] : k \in DOMAIN Defaults}
  /\ \A f \in DOMAIN params : params[f] \in 0..(2^Width - 1)
  /\ IsSuffix(body, buf)
  /\ memory \in [Pages -> {"free", "other", "code", "x", "y", "a", "b", "c"}]
  /\ DOMAIN args \in {{}, {"x", "y"}, {"a", "b", "c"}, {"iterations"}}
  /\ \A f \in DOMAIN args : args[f] \in Nat
  /\ function \in Nat

\* A request the child goes on with is one the client addressed to the run
\* command with a POST, and the kernel parse_target resolved is the one the
\* client named (parse_request_line, parse_target).
KernelIsRequested ==
  stage \in Loaded =>
    /\ sent.method = MethodPost
    /\ sent.command = CommandRun
    /\ request.kernel = sent.kernel

\* The parameters record the kernel runs with holds the defaults overridden
\* by exactly the name=value pairs of the query (the parameter loop of
\* process_request with parse_http_parameter and parse_uint32).
OverridesApplied ==
  stage \in Loaded => params = RequestedParameters(sent)

\* load_kernel receives the whole body the client sent, no more and no
\* less (headers_length and the single recv of process_request).
BodyComplete ==
  stage \in Loaded => body = sent.body

\* None of the log_fatal checks of the parse (those before headers_length is
\* set) rejects a well-formed request once recv() has returned it; every
\* parse ends in load_kernel or log_fatal, so such a request reaches
\* load_kernel.
AcceptsWellFormed ==
  stage = "fatal" /\ buf # <<>> /\ headersLength = 0 => ~WellFormed(sent)

\* The floats [base, base + count * 4) lie in pages mapped for owner.
InBuffer(base, count, owner) ==
  \A p \in PagesOf(base, count * 4) : p \in Pages /\ memory[p] = owner

\* Every float a kernel reads or writes lies in the buffer its
\* create_arguments mapped for that array: for sdot the n elements at
\* stride inc of x and y, when the offset stays within the 64 bytes of
\* slack (spec section 3: offx + n * incx within the buffer); for sgemm the
\* k * mr floats of A, the k * nr of B, and C[i * rs_c + j * cs_c] for
\* i < mr, j < nr (spec section 3, GEMM micro-kernel).  It relates the
\* query, the 32-bit size arithmetic and the placement by mmap.
ArgumentsWithinBuffers ==
  stage = "created" =>
    LET ps == params
    IN  /\ request.kernel = SdotName /\ ps[FieldN] > 0 =>
             /\ ps[FieldOffx] < 64 =>
                  InBuffer(args.x, (ps[FieldN] - 1) * ps[FieldIncx] + 1, "x")
             /\ ps[FieldOffy] < 64 =>
                  InBuffer(args.y, (ps[FieldN] - 1) * ps[FieldIncy] + 1, "y")
        /\ request.kernel = SgemmName =>
             /\ InBuffer(args.a, ps[FieldK] * ps[FieldMr], "a")
             /\ InBuffer(args.b, ps[FieldK] * ps[FieldNr], "b")
             /\ InBuffer(args.c, (ps[FieldMr] - 1) * ps[FieldRsC]
                                   + (ps[FieldNr] - 1) * ps[FieldCsC] + 1, "c")

\* free_arguments unmaps exactly what create_arguments mapped: afterwards
\* no page of a buffer is left mapped, and no page mapped by someone else,
\* the loaded kernel's code included, has been unmapped.
ReleasesExactly ==
  stage = "freed" =>
    memory = [p \in Pages |->
                CASE p \in OtherPages -> "other"
                  [] p \in PagesOf(function, Len(body)) -> "code"
                  [] OTHER -> "free"]
=============================================================================
