-------------------------- MODULE MCNumberMetadata --------------------------
(***************************************************************************)
(* Inputs for NumberMetadata: with an int of six bits, -32..31, every      *)
(* sequence of at most two numbers.  The last Fibonacci number that fits   *)
(* is 21, the divisor sums of 24 and 30 do not fit, 8 and 27 are cubes.    *)
(***************************************************************************)
EXTENDS NumberMetadata

MCInputs == UNION {[1..n -> Ints] : n \in 0..2}
MCFaults == FaultNames
=============================================================================
