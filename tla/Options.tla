------------------------------ MODULE Options -------------------------------
(***************************************************************************)
(* parse_options() (src/src/webserver/options.c): the loop over argv that  *)
(* main() runs before anything else, one action per branch of its          *)
(* if-else chain.  An argument is a byte sequence, and strcmp() with a     *)
(* literal is equality.  The numeric values go through sscanf with %u      *)
(* (the 32-bit queue size) and %hu (the 16-bit port), as HttpParse         *)
(* models that conversion.  open(O_WRONLY | O_APPEND) succeeds exactly on  *)
(* the names of LogFiles (existing, writable files).  A log descriptor is  *)
(* standard output, standard error, or a file opened by name.              *)
(***************************************************************************)
EXTENDS Naturals, Sequences

CONSTANTS
  Argvs,       \* the command lines main() may be started with: argv[1..]
  LogFiles,    \* the file names open(O_WRONLY | O_APPEND) succeeds on
  ULongWidth,  \* bits of unsigned long (64 in the code)
  QueueWidth,  \* bits of options.queue_size, a uint32_t (32 in the code)
  PortWidth,   \* bits of options.port, a uint16_t (16 in the code)
  IntMax       \* INT_MAX, the limit of listen()'s backlog argument

ASSUME IntMax < 2^QueueWidth /\ QueueWidth <= ULongWidth
ASSUME PortWidth <= ULongWidth

Scan == INSTANCE HttpParse WITH KernelNames <- {}, Width <- QueueWidth

\* The literals of parse_options().
AccessLogFlag == <<"-","-","a","c","c","e","s","s","-","l","o","g">>
ErrorLogFlag  == <<"-","-","e","r","r","o","r","-","l","o","g">>
QueueFlags == {<<"-","q">>,
               <<"-","-","q","u","e","u","e","-","s","i","z","e">>}
PortFlags  == {<<"-","p">>, <<"-","-","p","o","r","t">>}
HelpFlags  == {<<"-","-","h","e","l","p">>, <<"-","h">>}
KnownFlags == {AccessLogFlag, ErrorLogFlag} \cup QueueFlags \cup PortFlags
              \cup HelpFlags

VARIABLES
  argv,     \* the arguments after argv[0]
  argi,     \* the index of the argument the loop looks at
  options,  \* the struct options being filled
  ostate    \* "parsing", "parsed" (returned), "exit_failure", "exit_success"

optionVars == <<argv, argi, options, ostate>>

\* What a log descriptor refers to.
StdLog(s) == [to |-> s, name |-> <<>>]
FileLog(n) == [to |-> "file", name |-> n]

\* The initialiser of struct options.
DefaultOptions ==
  [access_log |-> StdLog("stdout"), error_log |-> StdLog("stderr"),
   port |-> 8081, queue_size |-> 10]

OptionsInit ==
  /\ argv \in Argvs
  /\ argi = 1
  /\ options = DefaultOptions
  /\ ostate = "parsing"

Parsing == ostate = "parsing" /\ argi <= Len(argv)

\* The option at argi needs a value and is the last argument: the message,
\* the help text, exit(EXIT_FAILURE).
MissingValue ==
  /\ Parsing
  /\ argv[argi] \in KnownFlags \ HelpFlags
  /\ argi = Len(argv)
  /\ ostate' = "exit_failure"
  /\ UNCHANGED <<argv, argi, options>>

\* --access-log FILE and --error-log FILE: open the file for appending;
\* exit(EXIT_FAILURE) when open() returns -1.
LogOption(flag, field) ==
  /\ Parsing
  /\ argv[argi] = flag
  /\ argi < Len(argv)
  /\ IF argv[argi + 1] \in LogFiles
       THEN /\ options' = [options EXCEPT ![field] = FileLog(argv[argi + 1])]
            /\ argi' = argi + 2
            /\ UNCHANGED ostate
       ELSE /\ ostate' = "exit_failure"
            /\ UNCHANGED <<argi, options>>
  /\ UNCHANGED argv

AccessLogOption == LogOption(AccessLogFlag, "access_log")
ErrorLogOption == LogOption(ErrorLogFlag, "error_log")

\* -q N: sscanf "%" SCNu32 into options.queue_size, then the check against
\* INT_MAX.  sscanf stores before the check, but a failed check exits.
QueueSizeOption ==
  /\ Parsing
  /\ argv[argi] \in QueueFlags
  /\ argi < Len(argv)
  /\ LET r == Scan!ScanUnsigned(argv[argi + 1], QueueWidth)
     IN IF r.ok /\ r.value <= IntMax
          THEN /\ options' = [options EXCEPT !.queue_size = r.value]
               /\ argi' = argi + 2
               /\ UNCHANGED ostate
          ELSE /\ ostate' = "exit_failure"
               /\ UNCHANGED <<argi, options>>
  /\ UNCHANGED argv

\* Mutation of PortOption: the value is stored in queue_size.
PortOptionIntoQueue ==
  /\ Parsing
  /\ argv[argi] \in PortFlags
  /\ argi < Len(argv)
  /\ LET r == Scan!ScanUnsigned(argv[argi + 1], PortWidth)
     IN IF r.ok
          THEN /\ options' = [options EXCEPT !.queue_size = r.value]
               /\ argi' = argi + 2
               /\ UNCHANGED ostate
          ELSE /\ ostate' = "exit_failure"
               /\ UNCHANGED <<argi, options>>
  /\ UNCHANGED argv

\* -p N: sscanf "%" SCNu16 into options.port; no range check follows.
PortOption ==
  /\ Parsing
  /\ argv[argi] \in PortFlags
  /\ argi < Len(argv)
  /\ LET r == Scan!ScanUnsigned(argv[argi + 1], PortWidth)
     IN IF r.ok
          THEN /\ options' = [options EXCEPT !.port = r.value]
               /\ argi' = argi + 2
               /\ UNCHANGED ostate
          ELSE /\ ostate' = "exit_failure"
               /\ UNCHANGED <<argi, options>>
  /\ UNCHANGED argv

\* --help or -h: the help text, exit(EXIT_SUCCESS).
HelpOption ==
  /\ Parsing
  /\ argv[argi] \in HelpFlags
  /\ ostate' = "exit_success"
  /\ UNCHANGED <<argv, argi, options>>

\* Any other argument: the message, the help text, exit(EXIT_FAILURE).
UnknownOption ==
  /\ Parsing
  /\ argv[argi] \notin KnownFlags
  /\ ostate' = "exit_failure"
  /\ UNCHANGED <<argv, argi, options>>

\* argi reaches argc: parse_options() returns the record.
OptionsParsed ==
  /\ ostate = "parsing"
  /\ argi > Len(argv)
  /\ ostate' = "parsed"
  /\ UNCHANGED <<argv, argi, options>>

ParseOptions ==
  \/ MissingValue \/ AccessLogOption \/ ErrorLogOption \/ QueueSizeOption
  \/ PortOption \/ HelpOption \/ UnknownOption \/ OptionsParsed

(***************************************************************************)
(* Reference: what the command line asks for, per spec section 6 (CLI).   *)
(* The value of an option is the word after its last occurrence, read as  *)
(* a signed decimal number; the default when the option is absent.         *)
(***************************************************************************)
SignedDecimal(w) ==
  IF w # <<>> /\ w[1] = "-" THEN 0 - Scan!Decimal(Tail(w))
  ELSE Scan!Decimal(w)

\* The word after the last occurrence of one of flags, if any.
Given(flags) == \E k \in 1 .. Len(argv) - 1 : argv[k] \in flags
LastValue(flags) ==
  argv[Scan!Max({k \in 1 .. Len(argv) - 1 : argv[k] \in flags}) + 1]

RequestedOptions ==
  [access_log |-> IF Given({AccessLogFlag})
                    THEN FileLog(LastValue({AccessLogFlag}))
                    ELSE StdLog("stdout"),
   error_log  |-> IF Given({ErrorLogFlag})
                    THEN FileLog(LastValue({ErrorLogFlag}))
                    ELSE StdLog("stderr"),
   port       |-> IF Given(PortFlags) THEN SignedDecimal(LastValue(PortFlags))
                  ELSE 8081,
   queue_size |-> IF Given(QueueFlags)
                    THEN SignedDecimal(LastValue(QueueFlags)) ELSE 10]

\* The ranges spec section 6 gives the numeric options.
InRange(o) ==
  /\ o.port \in 0 .. 2^PortWidth - 1
  /\ o.queue_size \in 1 .. IntMax
=============================================================================
