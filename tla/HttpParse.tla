----------------------------- MODULE HttpParse ------------------------------
(***************************************************************************)
(* The request parsers of the web server as operators over the received    *)
(* bytes: find_end_of_line and parse_uint32 (src/src/webserver/parse.c),   *)
(* parse_http_parameter and the literal matchers (http.c, parse.c), and    *)
(* parse_request_header, parse_target and parse_request_line (request.c).  *)
(*                                                                         *)
(* A byte is a one-character string; the control and white-space bytes    *)
(* have names (CR, LF, HT).  A pointer into the buffer is a 1-based index  *)
(* and a slice is a pair s..e of indices with e exclusive, as the C code   *)
(* passes (size, pointer) or (start, end); NULL is 0.  A size switch       *)
(* followed by memcmp is equality of byte sequences.                       *)
(***************************************************************************)
EXTENDS Naturals, Sequences, FiniteSetsExt, SequencesExt

CONSTANTS
  KernelNames,  \* on-wire kernel names of the registry (byte sequences)
  Width,        \* bits of the integers parse_uint32 stores (32 in the code)
  ULongWidth    \* bits of unsigned long, what strtoul and %u convert into

ASSUME Width \in Nat \ {0} /\ ULongWidth \in Nat /\ ULongWidth >= Width

CR == "CR"
LF == "LF"
HT == "HT"
SP == " "

\* isspace() in the C locale, over the bytes the models use.
Space == {SP, HT, CR, LF}

DigitSeq == <<"0", "1", "2", "3", "4", "5", "6", "7", "8", "9">>
Digits == Range(DigitSeq)
DigitValue(d) == CHOOSE i \in 0..9 : DigitSeq[i + 1] = d

\* The literals the matchers compare with memcmp.
MethodPost == <<"P", "O", "S", "T">>
CommandRun == <<"r", "u", "n">>
CommandMonitor == <<"m", "o", "n", "i", "t", "o", "r">>
ParamKernel == <<"k", "e", "r", "n", "e", "l">>
HeaderContentLength ==
  <<"C","o","n","t","e","n","t","-","L","e","n","g","t","h">>
HeaderContentType == <<"C","o","n","t","e","n","t","-","T","y","p","e">>
OctetStream ==
  <<"a","p","p","l","i","c","a","t","i","o","n","/",
    "o","c","t","e","t","-","s","t","r","e","a","m">>
ProtocolPrefix == <<"H", "T", "T", "P", "/">>

\* The bytes of the slice s..e.
Bytes(buf, s, e) == SubSeq(buf, s, e - 1)

\* memchr(&buf[s], c, e - s): the first index of c in the slice, or NULL.
MemChr(buf, s, e, c) ==
  LET I == {i \in s..(e - 1) : buf[i] = c}
  IN IF I = {} THEN 0 ELSE Min(I)

\* Mutation of FindEndOfLine: the loop stops one byte early
\* (current < last - 1), missing a CR LF at the very end.
FindEndOfLineShort(buf, s, e) ==
  LET I == {i \in s..(e - 3) : buf[i] = CR /\ buf[i + 1] = LF}
  IN IF I = {} THEN [start |-> e, end |-> e]
     ELSE [start |-> Min(I), end |-> Min(I) + 2]

\* find_end_of_line: the first CR LF of the slice as [start, end), or the
\* empty line at its end when there is none.
FindEndOfLine(buf, s, e) ==
  LET I == {i \in s..(e - 2) : buf[i] = CR /\ buf[i + 1] = LF}
  IN IF I = {} THEN [start |-> e, end |-> e]
     ELSE [start |-> Min(I), end |-> Min(I) + 2]

\* The value of a run of decimal digits.
Decimal(ds) == FoldLeft(LAMBDA acc, d : 10 * acc + DigitValue(d), 0, ds)

\* The first index from i on whose byte is not in S, or Len(buf) + 1.
SkipWhile(buf, i, S) ==
  Min({j \in i..(Len(buf) + 1) : j > Len(buf) \/ buf[j] \notin S})

\* sscanf(str, "%u" or "%hu", &value) == 1 into a w-bit object: white
\* space is skipped, a sign is accepted, at least one digit is needed; the
\* magnitude saturates at ULONG_MAX (strtoul), a minus negates it modulo
\* 2^ULongWidth, and the store keeps the low w bits.
ScanUnsigned(str, w) ==
  LET k == SkipWhile(str, 1, Space)
      neg == k <= Len(str) /\ str[k] = "-"
      d0 == IF k <= Len(str) /\ str[k] \in {"+", "-"} THEN k + 1 ELSE k
      d1 == SkipWhile(str, d0, Digits)
      m == Decimal(SubSeq(str, d0, d1 - 1))
      u == IF m >= 2^ULongWidth THEN 2^ULongWidth - 1 ELSE m
      v == IF neg THEN (2^ULongWidth - u) % 2^ULongWidth ELSE u
  IN IF d1 = d0 THEN [ok |-> FALSE, value |-> 0]
     ELSE [ok |-> TRUE, value |-> v % 2^w]

\* parse_uint32: sscanf(cstring, "%u", value) == 1 on the NUL-terminated
\* copy of a slice, stored into a Width-bit integer.
ParseUint32(str) == ScanUnsigned(str, Width)

\* errno = ERANGE after strtoul(&buf[i], NULL, 10) on bytes that are NOT
\* NUL-terminated: the scan skips white space (CR and LF included) and
\* reads digits past the header line; what lies past the received bytes is
\* uninitialised stack, so there either outcome is possible.
StrtoulRange(buf, i) ==
  LET k == SkipWhile(buf, i, Space)
      d0 == IF k <= Len(buf) /\ buf[k] \in {"+", "-"} THEN k + 1 ELSE k
      d1 == SkipWhile(buf, d0, Digits)
  IN IF d1 > Len(buf) THEN BOOLEAN
     ELSE {Decimal(SubSeq(buf, d0, d1 - 1)) >= 2^ULongWidth}

(***************************************************************************)
(* The literal matchers: parse_http_method, parse_http_header_name,        *)
(* parse_http_content_type (http.c), parse_webrunner_command and           *)
(* parse_webrunner_parameter (parse.c).                                    *)
(***************************************************************************)
ParseHttpMethod(b) == IF b = MethodPost THEN "post" ELSE "unknown"

ParseHttpHeaderName(b) ==
  CASE b = HeaderContentLength -> "content_length"
    [] b = HeaderContentType   -> "content_type"
    [] OTHER                   -> "unknown"

ParseHttpContentType(b) ==
  IF b = OctetStream THEN "application_octet_stream" ELSE "unknown"

ParseWebrunnerCommand(b) ==
  CASE b = CommandRun     -> "run"
    [] b = CommandMonitor -> "monitor"
    [] OTHER              -> "invalid"

ParseWebrunnerParameter(b) == IF b = ParamKernel THEN "kernel" ELSE "invalid"

(***************************************************************************)
(* parse_http_parameter (http.c): one parameter of the query slice s..e.   *)
(* One leading '?' or '&' is skipped; the name ends at the first '=' of    *)
(* the WHOLE rest of the query, and only then does the value end at the    *)
(* next '&', after which the following parameter starts.                   *)
(***************************************************************************)
NullParameter ==
  [name |-> 0, name_size |-> 0, value |-> 0, value_size |-> 0, next |-> 0]

ParseHttpParameter(buf, s, e) ==
  LET q == IF buf[s] \in {"?", "&"} THEN s + 1 ELSE s
      nameEnd == MemChr(buf, q, e, "=")
      valueEnd == MemChr(buf, nameEnd + 1, e, "&")
  IN IF s = e THEN NullParameter
     ELSE IF nameEnd = 0 THEN [NullParameter EXCEPT !.name = q,
                                                    !.name_size = e - q]
     ELSE [name |-> q, name_size |-> nameEnd - q, value |-> nameEnd + 1,
           value_size |-> (IF valueEnd = 0 THEN e ELSE valueEnd)
                            - (nameEnd + 1),
           next |-> IF valueEnd = 0 THEN 0 ELSE valueEnd + 1]

ParameterName(buf, p) == Bytes(buf, p.name, p.name + p.name_size)
ParameterValue(buf, p) == Bytes(buf, p.value, p.value + p.value_size)

(***************************************************************************)
(* parse_request_header (request.c): the header line s..e.  The result is  *)
(* the set of possible "log_fatal was called" outcomes; content_length is  *)
(* stored but never read, so only its errors matter.                       *)
(***************************************************************************)
ParseRequestHeader(buf, s, e) ==
  LET sep == MemChr(buf, s, e, ":")
      name == ParseHttpHeaderName(Bytes(buf, s, sep))
      vs == Min({i \in (sep + 1)..e : i = e \/ buf[i] \notin Space})
      ve == Max({j \in vs..e : j = vs \/ buf[j - 1] \notin Space})
  IN IF sep = 0 \/ name = "unknown" THEN {FALSE}
     ELSE IF name = "content_length" THEN StrtoulRange(buf, vs)
     ELSE {ParseHttpContentType(Bytes(buf, vs, ve)) # "application_octet_stream"}

(***************************************************************************)
(* parse_target and parse_request_line (request.c).  Each check that calls *)
(* log_fatal is a disjunct of Fatal, in the order of the code; TLC         *)
(* evaluates them left to right, as the early returns do.  The result is   *)
(* the pre-parsed request: its kernel and the slice of the query after the *)
(* kernel parameter (query = 0 when there is none).                        *)
(***************************************************************************)
FatalRequest == [fatal |-> TRUE, kernel |-> <<>>, query |-> 0, query_size |-> 0]

\* Mutation of ParseTarget: the command is not checked.
ParseTargetAnyCommand(buf, s, e) ==
  LET command == IF buf[s] = "/" THEN s + 1 ELSE s
      commandEnd == MemChr(buf, command, e, "/")
      uarchEnd == MemChr(buf, commandEnd + 1, e, "?")
      kp == ParseHttpParameter(buf, uarchEnd, e)
      Fatal ==
        \/ commandEnd = 0
        \/ uarchEnd = 0
        \/ kp.name = 0
        \/ ParseWebrunnerParameter(ParameterName(buf, kp)) # "kernel"
        \/ kp.value = 0
        \/ ParameterValue(buf, kp) \notin KernelNames
  IN IF Fatal THEN FatalRequest
     ELSE [fatal |-> FALSE, kernel |-> ParameterValue(buf, kp),
           query |-> kp.next,
           query_size |-> IF kp.next = 0 THEN 0 ELSE e - kp.next]

ParseTarget(buf, s, e) ==
  LET command == IF buf[s] = "/" THEN s + 1 ELSE s
      commandEnd == MemChr(buf, command, e, "/")
      uarch == commandEnd + 1
      uarchEnd == MemChr(buf, uarch, e, "?")
      kp == ParseHttpParameter(buf, uarchEnd, e)
      Fatal ==
        \/ commandEnd = 0
        \/ ParseWebrunnerCommand(Bytes(buf, command, commandEnd)) # "run"
        \/ uarchEnd = 0
        \/ kp.name = 0
        \/ ParseWebrunnerParameter(ParameterName(buf, kp)) # "kernel"
        \/ kp.value = 0
        \/ ParameterValue(buf, kp) \notin KernelNames
  IN IF Fatal THEN FatalRequest
     ELSE [fatal |-> FALSE, kernel |-> ParameterValue(buf, kp),
           query |-> kp.next,
           query_size |-> IF kp.next = 0 THEN 0 ELSE e - kp.next]

ParseRequestLine(buf, s, e) ==
  LET space1 == MemChr(buf, s, e, SP)
      target == space1 + 1
      space2 == MemChr(buf, target, e, SP)
      protocol == space2 + 1
      Fatal ==
        \/ space1 = 0
        \/ space2 = 0
        \/ ParseHttpMethod(Bytes(buf, s, space1)) # "post"
        \/ e - protocol < 8
        \/ Bytes(buf, protocol, protocol + 5) # ProtocolPrefix
  IN IF Fatal THEN FatalRequest ELSE ParseTarget(buf, target, space2)
=============================================================================
