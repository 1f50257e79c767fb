----------------------------- MODULE MCServer -------------------------------
(* Model-checking instance of Server: three clients, room for two client  *)
(* sockets in the parent, so that two leaked sockets fill the table.       *)
(* The integer widths are scaled down from 64/32/16 bits (unsigned long,   *)
(* uint32_t, uint16_t) to 24/20/16, keeping their order and INT_MAX as the *)
(* largest signed value of the queue size's width, so that 70000 still     *)
(* wraps into a port and -1 into a value above INT_MAX.                    *)
EXTENDS Server, TLC

CONSTANTS c1, c2, c3

MCClients == {c1, c2, c3}

MCFdLimit == 2

MCULongWidth == 24
MCQueueWidth == 20
MCPortWidth == 16
MCIntMax == 2^19 - 1

\* Arguments, as the bytes of each word.
Port == <<"-", "-", "p", "o", "r", "t">>
QueueSize == <<"-", "-", "q", "u", "e", "u", "e", "-", "s", "i", "z", "e">>
N8080 == <<"8", "0", "8", "0">>
ALog == <<"a", ".", "l", "o", "g">>
ELog == <<"e", ".", "l", "o", "g">>
MissingLog == <<"x", ".", "l", "o", "g">>

MCLogFiles == {ALog, ELog}

\* The defaults; each option, in its short and long form, given once or
\* twice; the log files; and every exit of parse_options(): help, an
\* unknown option, a missing value, a file open() refuses, a number sscanf
\* refuses, a backlog above INT_MAX.
MCArgvs ==
  { <<>>,
    <<Port, N8080, <<"-", "q">>, <<"5">>>>,
    <<<<"-", "p">>, <<"8", "0">>, <<"-", "p">>, N8080>>,
    <<ErrorLogFlag, ELog, AccessLogFlag, ALog, QueueSize, <<"0">>>>,
    <<AccessLogFlag, MissingLog>>,
    <<<<"-", "q">>, <<"-", "1">>>>,
    <<<<"-", "p">>, <<"x">>>>,
    <<<<"-", "h">>, <<"-", "v">>>>,
    <<<<"-", "v">>>>,
    <<<<"-", "q">>>> }

\* A port and a backlog outside the ranges of spec 6.
MCArgvsOutOfRange ==
  { <<<<"-", "p">>, <<"7", "0", "0", "0", "0">>>> }

MCArgvsDefault == { <<>> }

\* Clients are interchangeable: no action or safety property names one.
MCSymmetry == Permutations(MCClients)

=============================================================================
