---------------------------- MODULE MC_DataDriver ----------------------------
(* An integer puzzle and a floating-point one.                             *)
EXTENDS DataDriver

MC_Rating == <<1, 4>>
MC_TestCount == <<1, 2>>

=============================================================================
