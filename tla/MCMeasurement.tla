--------------------------- MODULE MCMeasurement ---------------------------
(* Model-checking instance of Measurement: three iterations per pass give  *)
(* odd and even sample counts; a 3-bit word with samples up to 6 makes the *)
(* sum of two central samples exceed the word, so the overflow-safe        *)
(* average is exercised at its boundary.                                  *)
EXTENDS Measurement

MCMaxIterations == 3
MCWidth == 3
MCMaxSample == 6
=============================================================================
