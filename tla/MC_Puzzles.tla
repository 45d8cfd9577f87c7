----------------------------- MODULE MC_Puzzles -----------------------------
(* Bytes, and floats of eight bits: four of exponent, three of fraction.   *)
EXTENDS Puzzles

MC_Halves == <<4, 2, 1>>
MC_Sample == {{}, {0}, {7}, {0, 2, 4, 6}, 0..6, 0..7}

=============================================================================
