------------------------------ MODULE Perfctr -------------------------------
(***************************************************************************)
(* The performance-counter catalogue of src/src/runner/perfctr.c as        *)
(* operators: get_x86_cpu_info() on the eax word of CPUID leaf 1, the      *)
(* choice of a model table in init_performance_counters(), and the raw     *)
(* `config` word each table entry is opened with.                          *)
(*                                                                         *)
(* A table is the sequence of its entries [event, umask, inv, cmask,      *)
(* edge], as the designated initialisers give them (an omitted field is    *)
(* 0).  A counter's name is abstracted to its table and index.  The        *)
(* tables are complete; Picks chooses which entries of the selected table  *)
(* the model opens, so that a model of the request stays small.            *)
(***************************************************************************)
EXTENDS Naturals, Sequences, Bitwise, TLC

CONSTANTS
  Picks  \* Picks[t]: the indices of table t's entries the model opens

\* Mutation of GetX86CpuInfo: the extended model is added for family 6
\* only, as on Intel, not for family 0xF.
GetX86CpuInfoIntelModel(eax) ==
  LET model == shiftR(eax, 4) & 15
      family == shiftR(eax, 8) & 15
      extendedModel == shiftR(eax, 16) & 15
      extendedFamily == shiftR(eax, 20) & 255
  IN [display_family |-> IF family = 15 THEN family + extendedFamily
                                         ELSE family,
      display_model |-> IF family = 6 THEN model + extendedModel * 16
                                      ELSE model]

\* get_x86_cpu_info(): the display family and model of the eax word.
GetX86CpuInfo(eax) ==
  LET model == shiftR(eax, 4) & 15
      family == shiftR(eax, 8) & 15
      extendedModel == shiftR(eax, 16) & 15
      extendedFamily == shiftR(eax, 20) & 255
  IN [display_family |-> IF family = 15 THEN family + extendedFamily
                                         ELSE family,
      display_model |-> IF family \in {6, 15} THEN model + extendedModel * 16
                                              ELSE model]

\* The table init_performance_counters() selects, or "none" for a CPU it
\* does not know.  The three tests of the code are on distinct families,
\* so at most one of them assigns.  (display_model & ~0xF) keeps the bits
\* above the low nibble, the model's high digit times 16.
SelectSpecification(info) ==
  LET f == info.display_family
      m == info.display_model
      high == m - (m & 15)
  IN CASE f = 6 /\ m \in {61, 71}          -> "broadwell"
       [] f = 6 /\ m \in {60, 69, 70}      -> "haswell"
       [] f = 6 /\ m = 58                  -> "ivybridge"
       [] f = 6 /\ m \in {28, 38, 39, 53, 54} -> "atom"
       [] f = 21 /\ high = 0               -> "bulldozer"
       [] f = 21 /\ high = 48              -> "steamroller"
       [] f = 20 /\ high = 0               -> "bobcat"
       [] OTHER                            -> "none"

\* The raw config word: event | umask << 8 | edge << 18 | inv << 23 |
\* cmask << 24, each field widened to uint32_t before the shift.
Config(e) ==
  e.event | (e.umask * 2^8) | (e.edge * 2^18) | (e.inv * 2^23)
    | (e.cmask * 2^24)

\* struct performance_counter_specification, and the initialiser of an
\* entry that sets only .event and .umask.
P(event, umask, inv, cmask, edge) ==
  [event |-> event, umask |-> umask, inv |-> inv, cmask |-> cmask,
   edge |-> edge]
E(event, umask) == P(event, umask, 0, 0, 0)

\* broadwell_specification[] (perfctr.c lines 54-114).
BroadwellSpecification ==
  << E(\h03, \h02), E(\h03, \h08), E(\h05, \h01), E(\h05, \h02),
     E(\h0E, \h01), E(\h0E, \h10), E(\h0E, \h20), E(\h0E, \h40),
     E(\h14, \h01), E(\h51, \h01), E(\h58, \h04), E(\h58, \h08),
     E(\h58, \h01), E(\h58, \h02), E(\h5E, \h01), E(\h79, \h02),
     E(\h79, \h04), E(\h79, \h08), E(\h79, \h10), E(\h79, \h20),
     E(\h79, \h30), P(\h79, \h18, 0, 1, 0), P(\h79, \h18, 0, 4, 0),
     P(\h79, \h18, 0, 1, 0), P(\h79, \h18, 0, 4, 0), E(\h79, \h3C),
     E(\h80, \h02), E(\h87, \h01), E(\h9C, \h01), E(\hA1, \h01),
     E(\hA1, \h02), E(\hA1, \h04), E(\hA1, \h08), E(\hA1, \h10),
     E(\hA1, \h20), E(\hA1, \h40), E(\hA1, \h80), E(\hA2, \h01),
     E(\hA2, \h04), E(\hA2, \h08), E(\hA2, \h10), E(\hA8, \h01),
     E(\hAB, \h02), E(\hB1, \h01), P(\hB1, \h01, 0, 1, 0), E(\hC0, \h00),
     E(\hC0, \h02), E(\hC1, \h08), E(\hC1, \h10), E(\hC1, \h40),
     E(\hC2, \h01), P(\hC2, \h01, 1, 1, 0), E(\hC2, \h02), E(\hCA, \h02),
     E(\hCA, \h04), E(\hCA, \h08), E(\hCA, \h10), E(\hCA, \h1E),
     E(\hCC, \h20) >>

\* haswell_specification[] (perfctr.c lines 117-162).
HaswellSpecification ==
  << E(\h58, \h04), E(\h58, \h08), E(\h58, \h01), E(\h58, \h02),
     E(\hA1, \h01), E(\hA1, \h02), E(\hA1, \h04), E(\hA1, \h08),
     E(\hA1, \h10), E(\hA1, \h20), E(\hA1, \h40), E(\hA1, \h80),
     E(\hB1, \h02), E(\hA2, \h04), E(\hA2, \h08), E(\hA2, \h10),
     E(\hC1, \h08), E(\hC1, \h10), E(\hC1, \h40), E(\hC2, \h01),
     P(\hC2, \h01, 1, 1, 0), P(\hC2, \h01, 0, 1, 0), E(\hC2, \h02),
     E(\hA8, \h01), E(\h0E, \h01), P(\h0E, \h01, 1, 1, 0), E(\h0E, \h10),
     E(\h0E, \h20), E(\h0E, \h40), E(\h79, \h02), E(\h79, \h04),
     E(\h79, \h08), E(\h79, \h10), E(\h79, \h20), E(\h79, \h30),
     P(\h79, \h18, 0, 1, 0), P(\h79, \h24, 0, 4, 0), P(\h79, \h24, 0, 1, 0),
     P(\h79, \h24, 0, 4, 0), E(\h79, \h3C), E(\h80, \h02), E(\h87, \h01),
     E(\h87, \h04), E(\h5E, \h01) >>

\* ivybridge_specification[] (perfctr.c lines 165-211).
IvybridgeSpecification ==
  << E(\h0E, \h01), E(\h0E, \h10), E(\h0E, \h20), E(\h0E, \h40),
     E(\h10, \h01), E(\h10, \h10), E(\h10, \h20), E(\h10, \h40),
     E(\h10, \h80), E(\h11, \h01), E(\h11, \h01), E(\hA1, \h01),
     E(\hA1, \h02), E(\hA1, \h0C), E(\hA1, \h30), E(\hA1, \h40),
     E(\hA1, \h80), E(\h79, \h02), E(\h79, \h04), E(\h79, \h08),
     E(\h79, \h10), E(\h79, \h20), E(\h79, \h30), P(\h79, \h18, 0, 1, 0),
     P(\h79, \h18, 0, 4, 0), P(\h79, \h24, 0, 1, 0), P(\h79, \h24, 0, 4, 0),
     E(\h79, \h3C), E(\h80, \h04), E(\h80, \h02), E(\h87, \h01),
     E(\h87, \h04), E(\h9C, \h01), E(\hA2, \h01), E(\hA2, \h04),
     E(\hA2, \h08), E(\hA2, \h10), E(\hA8, \h01), E(\hAB, \h01),
     E(\hAB, \h02), E(\hAC, \h08), E(\hC1, \h08), E(\hC1, \h10),
     E(\hC1, \h20), E(\hC1, \h80) >>

\* atom_specification[] (perfctr.c lines 214-271).
AtomSpecification ==
  << E(\h02, \h81), E(\h06, \h00), E(\h07, \h01), E(\h07, \h06),
     E(\h07, \h08), E(\h08, \h07), E(\h08, \h05), E(\h08, \h09),
     E(\h08, \h06), P(\h0C, \h03, 0, 0, 1), E(\h0C, \h03), E(\h10, \h01),
     E(\h10, \h81), E(\h11, \h01), E(\h11, \h01), E(\h12, \h01),
     E(\h12, \h81), E(\h13, \h01), E(\h13, \h81), E(\h14, \h01),
     E(\h40, \h21), E(\h40, \h22), E(\h80, \h03), E(\h80, \h02),
     E(\hAA, \h02), E(\hAA, \h03), E(\hB0, \h00), E(\hB0, \h80),
     E(\hB1, \h00), E(\hB1, \h80), E(\hB3, \h01), E(\hB3, \h81),
     E(\hB3, \h02), E(\hB3, \h82), E(\hB3, \h04), E(\hB3, \h84),
     E(\hB3, \h08), E(\hB3, \h88), E(\hB3, \h10), E(\hB3, \h90),
     E(\hB3, \h20), E(\hB3, \hA0), E(\hC0, \h00), E(\hC2, \h10),
     E(\hC7, \h01), E(\hC7, \h02), E(\hC7, \h04), E(\hC7, \h08),
     E(\hC7, \h10), E(\hCA, \h01), E(\hCA, \h02), E(\hCA, \h04),
     E(\hCA, \h08), E(\hCD, \h00), E(\hCE, \h00), E(\hCD, \h00) >>

\* steamroller_specification[] (perfctr.c lines 273-319).
SteamrollerSpecification ==
  << E(\h00, \h01), E(\h00, \h02), E(\h00, \h04), E(\h00, \h10),
     E(\h00, \h20), E(\h00, \h40), E(\h01, \h00), P(\h01, \h00, 1, 0, 0),
     E(\h03, \h01), E(\h03, \h02), E(\h03, \h04), E(\h03, \h08),
     E(\h03, \h10), E(\h03, \h20), E(\h03, \h40), E(\h03, \h80),
     E(\h04, \h01), E(\h04, \h02), E(\h04, \h04), E(\h04, \h08),
     E(\h05, \h01), E(\h05, \h02), E(\h05, \h04), E(\h05, \h08),
     E(\h23, \h01), E(\h23, \h02), E(\h29, \h01), E(\h29, \h02),
     E(\h29, \h04), E(\h2A, \h01), E(\h2A, \h02), E(\hC0, \h00),
     E(\hCB, \h04), E(\hCB, \h02), E(\hCB, \h01), E(\hD1, \h00),
     E(\hD3, \h00), E(\hD5, \h00), E(\hD6, \h00), E(\hD7, \h00),
     E(\hD8, \h00), E(\hD9, \h00) >>

\* bulldozer_specification[] (perfctr.c lines 321-368).
BulldozerSpecification ==
  << E(\h00, \h01), E(\h00, \h02), E(\h00, \h04), E(\h00, \h08),
     E(\h00, \h10), E(\h00, \h20), E(\h00, \h40), E(\h00, \h80),
     E(\h01, \h00), P(\h01, \h00, 1, 0, 0), E(\h03, \h01), E(\h03, \h02),
     E(\h03, \h04), E(\h03, \h08), E(\h03, \h10), E(\h03, \h20),
     E(\h03, \h40), E(\h03, \h80), E(\h04, \h01), E(\h04, \h02),
     E(\h04, \h04), E(\h04, \h08), E(\h05, \h01), E(\h05, \h02),
     E(\h05, \h04), E(\h05, \h08), E(\h23, \h01), E(\h23, \h02),
     E(\h29, \h01), E(\h29, \h02), E(\h29, \h04), E(\h2A, \h01),
     E(\h87, \h00), E(\hC0, \h00), E(\hC1, \h00), E(\hCB, \h04),
     E(\hCB, \h02), E(\hCB, \h01), E(\hD0, \h00), E(\hD1, \h00),
     E(\hD3, \h00), E(\hD5, \h00), E(\hD6, \h00), E(\hD7, \h00),
     E(\hD8, \h00), E(\hD9, \h00) >>

\* bobcat_specification[] (perfctr.c lines 370-407).
BobcatSpecification ==
  << E(\h00, \h01), E(\h00, \h02), E(\h01, \h00), P(\h01, \h00, 1, 0, 0),
     E(\h02, \h00), E(\h03, \h41), E(\h03, \h42), E(\h03, \h44),
     E(\h03, \h48), E(\h03, \h50), E(\h03, \h60), E(\h04, \h04),
     E(\h04, \h08), E(\h05, \h01), E(\h05, \h02), E(\h05, \h04),
     E(\h05, \h08), E(\h11, \h01), E(\h11, \h02), E(\h11, \h04),
     E(\h23, \h00), E(\h2A, \h04), E(\h2A, \h02), E(\h2A, \h01),
     E(\h4B, \h01), E(\h4B, \h02), E(\h4B, \h04), E(\h87, \h00),
     E(\hC0, \h00), E(\hC1, \h00), E(\hC2, \h00), E(\hC3, \h00),
     E(\hC4, \h00), E(\hC5, \h00), E(\hCB, \h02), E(\hCB, \h01) >>

Tables ==
  [broadwell |-> BroadwellSpecification, haswell |-> HaswellSpecification,
   ivybridge |-> IvybridgeSpecification, atom |-> AtomSpecification,
   steamroller |-> SteamrollerSpecification,
   bulldozer |-> BulldozerSpecification, bobcat |-> BobcatSpecification]

\* The name of entry j of table t (the .name string, abstracted).
EntryName(t, j) == t \o "." \o ToString(j)

\* The counters init_performance_counters() opens, in order: the generic
\* cycles and instructions counters, then one raw counter per entry of
\* the selected table.
InitPerformanceCounters(eax) ==
  LET t == SelectSpecification(GetX86CpuInfo(eax))
      picks == IF t = "none" THEN <<>> ELSE Picks[t]
  IN << [name |-> "Cycles", type |-> "hardware", config |-> "cpu_cycles"],
        [name |-> "Instructions", type |-> "hardware",
         config |-> "instructions"] >>
     \o [j \in 1 .. Len(picks) |->
           [name |-> EntryName(t, picks[j]), type |-> "raw",
            config |-> Config(Tables[t][picks[j]])]]

(***************************************************************************)
(* Reference definitions: spec 4.2 and spec 3 in arithmetic, and the       *)
(* DisplayFamily_DisplayModel values each table is documented for (the     *)
(* comments above the Intel tables; the AMD families by model range).      *)
(***************************************************************************)
DisplayFamily(eax) ==
  LET family == (eax \div 2^8) % 16
  IN family + (IF family = 15 THEN ((eax \div 2^20) % 256) ELSE 0)

DisplayModel(eax) ==
  LET family == (eax \div 2^8) % 16
  IN ((eax \div 2^4) % 16)
       + (IF family \in {6, 15} THEN ((eax \div 2^16) % 16) * 16 ELSE 0)

DocumentedFor ==
  [broadwell   |-> {<<6, 61>>, <<6, 71>>},
   haswell     |-> {<<6, 60>>, <<6, 69>>, <<6, 70>>},
   ivybridge   |-> {<<6, 58>>},
   atom        |-> {<<6, 28>>, <<6, 38>>, <<6, 39>>, <<6, 53>>, <<6, 54>>},
   bulldozer   |-> {<<21, m>> : m \in 0 .. 15},
   steamroller |-> {<<21, m>> : m \in 48 .. 63},
   bobcat      |-> {<<20, m>> : m \in 0 .. 15}]

ASSUME DOMAIN Picks = DOMAIN DocumentedFor /\ DOMAIN Tables = DOMAIN Picks
ASSUME \A t \in DOMAIN Picks :
         \A k \in DOMAIN Picks[t] : Picks[t][k] \in 1 .. Len(Tables[t])

SpecConfig(e) ==
  e.event + e.umask * 2^8 + e.edge * 2^18 + e.inv * 2^23 + e.cmask * 2^24
=============================================================================
