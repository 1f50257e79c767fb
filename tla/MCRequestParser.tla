--------------------------- MODULE MCRequestParser ---------------------------
(***************************************************************************)
(* Requests for RequestParser: one well-formed base request, the request   *)
(* line varied one piece at a time, and the well-formed line with every    *)
(* combination of query parameters, header lines and body.                 *)
(***************************************************************************)
EXTENDS RequestParser

\* The registry of the model: the three kernels, their fields and their
\* defaults (spec section 3).
MCKernelNames == {SdotName, SgemmName, PlaygroundName}
MCDefaults ==
  (SdotName :> ((FieldN :> 1) @@ (FieldIncx :> 1) @@ (FieldOffx :> 0)
                  @@ (FieldIncy :> 1) @@ (FieldOffy :> 0)))
  @@ (SgemmName :> ((FieldK :> 1) @@ (FieldMr :> 1) @@ (FieldNr :> 1)
                      @@ (FieldRsC :> 1) @@ (FieldCsC :> 1)))
  @@ (PlaygroundName :> (FieldIterations :> 1))

\* Six pages of address range with one in use: after the loaded kernel
\* takes the highest, two free runs of two pages.
MCPages == 1..6
MCOtherPages == {3}

Http11 == <<"H", "T", "T", "P", "/", "1", ".", "1">>
Get == <<"G", "E", "T">>

ContentType == HeaderContentType \o <<":", SP>> \o OctetStream
ContentTypeText == HeaderContentType \o <<":", SP, "t", "e", "x", "t">>
ContentLength == HeaderContentLength \o <<":", SP, "1">>
OtherHeader == <<"H", "o", "s", "t", ":", SP, "h">>

Base == [method |-> MethodPost, command |-> CommandRun, uarch |-> <<"z">>,
         kernel |-> SdotName, params |-> <<>>, protocol |-> Http11,
         headers |-> <<>>, body |-> <<"E">>]

Set(f, v) == f \o <<"=">> \o v

\* Queries whose every parameter is name=value or a bare trailing name, with
\* offsets inside the 64 bytes of slack: two-page buffers (n = 1024), a
\* three-page y with no free run left for it, an unknown name, a "+" sign,
\* and an n too large for the free pages.
WellFormedQueries ==
  { <<>>,
    << Set(FieldN, <<"1", "0", "2", "4">>) >>,
    << Set(FieldN, <<"1", "0", "2", "4">>), Set(FieldIncy, <<"2">>) >>,
    << Set(FieldN, <<"2">>), Set(FieldIncx, <<"3">>) >>,
    << <<"z", "=", "4">>, Set(FieldOffx, <<"+", "4">>), Set(FieldN, <<"9">>) >>,
    << Set(FieldN, <<"3">>), FieldIncy >>,
    << Set(FieldN, <<"2">>), <<>> >>,
    << Set(FieldN, <<"4", "0", "9", "5">>) >> }

HeaderBlocks ==
  { <<>>, <<ContentType>>, <<ContentLength, OtherHeader>>, <<ContentTypeText>> }

LineVariants ==
  { [Base EXCEPT !.method = Get],
    [Base EXCEPT !.command = CommandMonitor],
    [Base EXCEPT !.kernel = <<"q">>],
    [Base EXCEPT !.protocol = <<"H", "T", "T", "P", "/", "1">>] }

\* sgemm with its defaults, with the sizes of spec section 8 C (A one page,
\* B two, C one), with a C of two pages read at row stride 512, with an A
\* and a B of two pages each, which leave no page for C, and with an A and
\* a B longer than any free run of pages; playground
\* with its default and with an iteration count.
OtherKernelRequests ==
  { [Base EXCEPT !.kernel = SgemmName, !.params = q] :
      q \in { <<>>,
              << Set(FieldK, <<"1", "2", "8">>), Set(FieldMr, <<"6">>),
                 Set(FieldNr, <<"1", "6">>), Set(FieldRsC, <<"1">>),
                 Set(FieldCsC, <<"6">>) >>,
              << Set(FieldMr, <<"4">>), Set(FieldRsC, <<"5", "1", "2">>) >>,
              << Set(FieldK, <<"2", "0", "4", "8">>) >>,
              << Set(FieldK, <<"4", "0", "9", "5">>) >>,
              << Set(FieldNr, <<"3", "0", "7", "2">>) >> } }
  \cup
  { [Base EXCEPT !.kernel = PlaygroundName, !.params = q] :
      q \in { <<>>, << Set(FieldIterations, <<"7">>) >> } }

MCRequests ==
  LineVariants \cup OtherKernelRequests \cup
  { [Base EXCEPT !.params = q, !.headers = h, !.body = b] :
      q \in WellFormedQueries, h \in HeaderBlocks,
      b \in {<<>>, <<"E", "L", "F">>} }

\* A parameter without "=" before one with it, and a negative value.
MCMalformedQueries ==
  { [Base EXCEPT !.params = << FieldN, Set(FieldIncx, <<"3">>) >>],
    [Base EXCEPT !.params = << Set(FieldN, <<"-", "1">>) >>] }

\* An offset of a whole page into a two-page buffer.
MCPageOffset ==
  { [Base EXCEPT !.params = << Set(FieldN, <<"1", "0", "2", "4">>),
                               Set(FieldOffx, <<"4", "0", "9", "6">>) >>] }

\* A request with a body, received in as many pieces as TCP likes.
MCBodyRequests ==
  { [Base EXCEPT !.params = << Set(FieldN, <<"2">>) >>, !.body = <<"E", "L", "F">>] }
=============================================================================
