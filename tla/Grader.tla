------------------------------- MODULE Grader -------------------------------
(***************************************************************************)
(* What a user of btest (src/lab/data/btest.c, and the driver that parses  *)
(* its table) is promised: verdicts are given in table order, at most one  *)
(* to a function; one that misbehaves on its tests never passes; the       *)
(* totals are those of the verdicts.  It says nothing of signals, and it   *)
(* may stop before the last function, as btest does when a solution faults.*)
(***************************************************************************)
EXTENDS Integers

CONSTANT N

Funcs == 1..N

VARIABLES weight,       \* rating of each selected function, 0 when not selected
          defective,    \* functions that misbehave on one of their tests
          verdict,      \* verdict of each function
          points,
          outOf

vars == <<weight, defective, verdict, points, outOf>>

Init ==
    /\ weight \in [Funcs -> Nat]
    /\ defective \in SUBSET Funcs
    /\ verdict = [f \in Funcs |-> "none"]
    /\ points = 0
    /\ outOf = 0

Turn(f) ==
    /\ verdict[f] = "none"
    /\ \A g \in 1..(f - 1) : verdict[g] # "none"

Skip(f) ==
    /\ Turn(f) /\ weight[f] = 0
    /\ verdict' = [verdict EXCEPT ![f] = "skipped"]
    /\ UNCHANGED <<weight, defective, points, outOf>>

Pass(f) ==
    /\ Turn(f) /\ weight[f] > 0 /\ f \notin defective
    /\ verdict' = [verdict EXCEPT ![f] = "passed"]
    /\ points' = points + weight[f]
    /\ outOf' = outOf + weight[f]
    /\ UNCHANGED <<weight, defective>>

Fail(f) ==
    /\ Turn(f) /\ weight[f] > 0
    /\ verdict' = [verdict EXCEPT ![f] = "failed"]
    /\ outOf' = outOf + weight[f]
    /\ UNCHANGED <<weight, defective, points>>

Next == \E f \in Funcs : Skip(f) \/ Pass(f) \/ Fail(f)

Spec == Init /\ [][Next]_vars

=============================================================================
