------------------------------ MODULE MC_Btest ------------------------------
(* Three functions: a no-argument one, called once, and two called twice.  *)
EXTENDS Btest

MC_Rating == <<1, 4, 2>>
MC_TestCount == <<1, 2, 2>>

=============================================================================
