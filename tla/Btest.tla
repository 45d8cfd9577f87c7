------------------------------- MODULE Btest -------------------------------
(***************************************************************************)
(* The data lab's test harness, src/lab/data/btest.c: run_tests walks the  *)
(* table test_set, test_function calls one puzzle on its test values, and  *)
(* SIGALRM, set by alarm(timeout_limit), ends a puzzle that loops by       *)
(* jumping (siglongjmp) to the envbuf that test_function filled.           *)
(*                                                                         *)
(* The alarm is never cancelled.  It stays pending after test_function     *)
(* returned, so that the handler can run at any later point of the program *)
(* until the next function calls alarm() again.  What the jump does there  *)
(* depends on the stack:                                                   *)
(*   "live"        a test_function frame is active, at the address of the  *)
(*                 frame that filled envbuf: the jump lands in the active  *)
(*                 one;                                                    *)
(*   "dead"        test_function returned and nothing was called since:    *)
(*                 undefined, the build resumes the dead frame (and with   *)
(*                 it run_tests' saved registers) or faults;               *)
(*   "overwritten" another call reused its stack: the build faults.        *)
(***************************************************************************)
EXTENDS Integers, FiniteSets, Sequences, FiniteSetsExt, SequencesExt

CONSTANTS
    N,              \* entries of test_set before the NULL sentinel
    Rating,         \* their ratings
    TestCount,      \* calls test_function makes of each: the product of gen_vals' counts
    DeviatesAt,     \* calls at which a solution may deviate: in the code, any
    GlobalRatings,  \* values of -r (0: not given)
    Limits          \* values of -T, in seconds (0 or less: no timeout)

Funcs == 1..N

ASSUME BtestAssumption ==
    /\ N \in Nat
    /\ Rating \in [Funcs -> Nat \ {0}]
    /\ TestCount \in [Funcs -> Nat \ {0}]
    /\ DeviatesAt \subseteq Nat \ {0} /\ 1 \in DeviatesAt
    /\ GlobalRatings \subseteq Nat
    /\ Limits \subseteq Int

NoFunc   == 0       \* test_fname is NULL, or the alarm or envbuf is unset
Unknown  == N + 1   \* -f with a name that is in no entry

(* What a solution does: it agrees with the reference on every call, or    *)
(* call number "at" gives another value, never returns, or faults.         *)
Solution ==
    {s \in [kind : {"right", "wrong", "loops", "crashes"}, at : DeviatesAt] :
        s.kind = "right" => s.at = 1}

Option == [grade  : BOOLEAN,
           fname  : {NoFunc, Unknown} \cup Funcs,
           rating : GlobalRatings,
           limit  : Limits]

(* What it prints: score rows, and "Timed out" messages (the function they *)
(* name, the one whose alarm expired).                                     *)
Row == [kind : {"row"}, fn : Funcs, tpoints : Nat, rating : Nat, errors : 0..1]
TimeOutMessage == [kind : {"timeout"}, fn : Funcs, by : Funcs]

VARIABLES
    opt,        \* command line
    sol,        \* the student's solutions
    prompt,     \* the timing: every alarm expires within its own function's calls
    pc,         \* where the program is
    i,          \* run_tests: index in test_set
    a,          \* test_function: calls made so far (a1, a2, a3 in one)
    terrors,    \* value test_function returns
    errors,     \* run_tests: sum of terrors
    points,     \* run_tests: points
    maxPoints,  \* run_tests: max_points
    credited,   \* entries whose rating was added to points
    output,     \* what was printed so far
    timer,      \* the function whose alarm(timeout_limit) is pending, or NoFunc
    envbuf,     \* the function that last filled envbuf, or NoFunc
    blocked,    \* SIGALRM is in the process's signal mask
    frame       \* the stack of the last test_function call

input   == <<opt, sol, prompt>>
results == <<errors, points, maxPoints, credited>>
signals == <<timer, envbuf, blocked>>
vars == <<input, pc, i, a, terrors, frame, results, output, signals>>

TypeOK ==
    /\ opt \in Option
    /\ sol \in [Funcs -> Solution]
    /\ prompt \in BOOLEAN
    /\ pc \in {"select", "gen", "setjmp", "alarm", "test", "score", "row", "done", "crashed"}
    /\ i \in 1..(N + 1)
    /\ pc \in {"gen", "setjmp", "alarm", "test", "score", "row"} => i \in Funcs
    /\ a \in Nat
    /\ terrors \in 0..1
    /\ errors \in Nat
    /\ points \in Nat
    /\ maxPoints \in Nat
    /\ credited \subseteq Funcs
    /\ output \in Seq(Row \cup TimeOutMessage)
    /\ timer \in {NoFunc} \cup Funcs
    /\ envbuf \in {NoFunc} \cup Funcs
    /\ blocked \in BOOLEAN
    /\ frame \in {"live", "dead", "overwritten"}

Selected(f) == opt.fname \in {NoFunc, f}
RatingOf(f) == IF opt.rating # 0 THEN opt.rating ELSE Rating[f]
Reaches(f, n) == sol[f].kind # "right" /\ sol[f].at = n

Init ==
    /\ opt \in Option
    /\ sol \in [Funcs -> Solution]
    /\ prompt \in BOOLEAN
    /\ pc = "select" /\ i = 1 /\ a = 0 /\ terrors = 0
    /\ errors = 0 /\ points = 0 /\ maxPoints = 0 /\ credited = {} /\ output = <<>>
    /\ timer = NoFunc /\ envbuf = NoFunc /\ blocked = FALSE
    /\ frame = "overwritten"

-----------------------------------------------------------------------------
(* run_tests: the loop head *)

SkipTest ==
    /\ pc = "select" /\ i \in Funcs /\ ~Selected(i)
    /\ i' = i + 1
    /\ frame' = "overwritten"           \* strcmp ran
    /\ UNCHANGED <<input, pc, a, terrors, results, output, signals>>

CallTest ==
    /\ pc = "select" /\ i \in Funcs /\ Selected(i)
    /\ pc' = "gen"
    /\ frame' = "live"
    /\ UNCHANGED <<input, i, a, terrors, results, output, signals>>

FinishTests ==
    /\ pc = "select" /\ i = N + 1
    /\ pc' = "done"
    /\ UNCHANGED <<input, i, a, terrors, frame, results, output, signals>>

-----------------------------------------------------------------------------
(* test_function *)

(* Mutant: the alarm is set and envbuf is left as it was. *)
GenerateValues_NoSetJump ==
    /\ pc = "gen"
    /\ pc' = IF opt.limit > 0 THEN "alarm" ELSE "test"
    /\ a' = 0 /\ terrors' = 0
    /\ UNCHANGED <<input, i, frame, results, output, signals>>

GenerateValues ==
    /\ pc = "gen"
    /\ pc' = IF opt.limit > 0 THEN "setjmp" ELSE "test"
    /\ a' = 0
    /\ terrors' = 0
    /\ UNCHANGED <<input, i, frame, results, output, signals>>

SetJump ==
    /\ pc = "setjmp"
    /\ pc' = "alarm"
    /\ envbuf' = i
    /\ UNCHANGED <<input, i, a, terrors, frame, results, output, timer, blocked>>

(* Mutant: the alarm is set for the first function only. *)
SetAlarm_FirstOnly ==
    /\ pc = "alarm"
    /\ pc' = "test"
    /\ timer' = IF i = 1 THEN i ELSE timer
    /\ UNCHANGED <<input, i, a, terrors, frame, results, output, envbuf, blocked>>

SetAlarm ==
    /\ pc = "alarm"
    /\ pc' = "test"
    /\ timer' = i
    /\ UNCHANGED <<input, i, a, terrors, frame, results, output, envbuf, blocked>>

TestAgrees ==
    /\ pc = "test" /\ a < TestCount[i] /\ ~Reaches(i, a + 1)
    /\ a' = a + 1
    /\ UNCHANGED <<input, pc, i, terrors, frame, results, output, signals>>

(* The first error ends the test. *)
TestDisagrees ==
    /\ pc = "test" /\ a < TestCount[i] /\ Reaches(i, a + 1) /\ sol[i].kind = "wrong"
    /\ terrors' = 1
    /\ pc' = "score"
    /\ frame' = "dead"
    /\ UNCHANGED <<input, i, a, results, output, signals>>

(* Only SIGALRM has a handler: the fault of a solution ends btest, and no  *)
(* line is printed for this function or for those that follow it.          *)
SolutionCrashes ==
    /\ pc = "test" /\ a < TestCount[i] /\ Reaches(i, a + 1) /\ sol[i].kind = "crashes"
    /\ pc' = "crashed"
    /\ frame' = "overwritten"
    /\ UNCHANGED <<input, i, a, terrors, results, output, signals>>

(* Mutant: the loop over the test values stops one short. *)
AllTestsRun_OffByOne ==
    /\ pc = "test" /\ a = TestCount[i] - 1
    /\ pc' = "score"
    /\ frame' = "dead"
    /\ UNCHANGED <<input, i, a, terrors, results, output, signals>>

AllTestsRun ==
    /\ pc = "test" /\ a = TestCount[i]
    /\ pc' = "score"
    /\ frame' = "dead"
    /\ UNCHANGED <<input, i, a, terrors, results, output, signals>>

-----------------------------------------------------------------------------
(* run_tests: after the call *)

(* Mutants: -r is used for max_points only; the score is not used. *)
Points_TableRating(t) == IF t = 0 THEN Rating[i] ELSE 0
Points_Unscored(t) == RatingOf(i)

Points(t) == IF t = 0 THEN RatingOf(i) ELSE 0

Score ==
    /\ pc = "score"
    /\ pc' = "row"
    /\ errors' = errors + terrors
    /\ points' = points + Points(terrors)
    /\ maxPoints' = maxPoints + RatingOf(i)
    /\ credited' = IF terrors = 0 THEN credited \cup {i} ELSE credited
    /\ UNCHANGED <<input, i, a, terrors, frame, output, signals>>

(* Mutant: a failed function has no row, also with -g. *)
RowWanted_PassedOnly == terrors < 1

RowWanted == opt.grade \/ terrors < 1

PrintRow ==
    /\ pc = "row"
    /\ pc' = "select"
    /\ i' = i + 1
    /\ IF RowWanted
       THEN /\ output' = Append(output, [kind |-> "row", fn |-> i, tpoints |-> Points(terrors),
                                         rating |-> RatingOf(i), errors |-> terrors])
            /\ frame' = "overwritten"   \* printf ran
       ELSE UNCHANGED <<output, frame>>
    /\ UNCHANGED <<input, a, terrors, errors, points, maxPoints, credited, signals>>

-----------------------------------------------------------------------------
(* SIGALRM: timeout_handler jumps, sigsetjmp returns 1 in the frame of f.  *)
(* The signal is blocked while the handler runs; sigsetjmp(envbuf, 1)      *)
(* saved the mask, so that the jump out of the handler unblocks it.        *)

(* Mutant: sigsetjmp(envbuf, 0), the signal stays blocked. *)
BlockedAfterJump_NotSaved == TRUE

BlockedAfterJump == FALSE

TimeOut(f) ==
    /\ timer # NoFunc
    /\ timer' = NoFunc
    /\ blocked' = BlockedAfterJump
    /\ output' = Append(output, [kind |-> "timeout", fn |-> f, by |-> timer])
    /\ terrors' = 1
    /\ i' = f
    /\ pc' = "score"
    /\ frame' = "dead"
    /\ UNCHANGED <<input, a, results, envbuf>>

TimeOutLive ==
    /\ frame = "live"
    /\ TimeOut(i)

TimeOutDead ==
    /\ frame = "dead" /\ pc \notin {"done", "crashed"}
    /\ TimeOut(envbuf)

TimeOutFault ==
    /\ timer # NoFunc
    /\ frame # "live" /\ pc \notin {"done", "crashed"}
    /\ timer' = NoFunc
    /\ pc' = "crashed"
    /\ UNCHANGED <<input, i, a, terrors, frame, results, output, envbuf, blocked>>

-----------------------------------------------------------------------------
Step ==
    \/ SkipTest \/ CallTest \/ FinishTests
    \/ GenerateValues \/ SetJump \/ SetAlarm
    \/ TestAgrees \/ TestDisagrees \/ SolutionCrashes \/ AllTestsRun
    \/ Score \/ PrintRow

(* The timing the program relies on, prompt, is that an alarm expires in   *)
(* the calls of the function that set it, never after that function        *)
(* returned.  Without it an alarm expires at any later step.               *)
Sigalrm ==
    /\ ~blocked
    /\ prompt => pc = "test"
    /\ TimeOutLive \/ TimeOutDead \/ TimeOutFault

Next == Step \/ Sigalrm

Spec == Init /\ [][Next]_vars

(* The process runs until it exits, and a pending alarm expires.           *)
FairSpec == Spec /\ WF_vars(Step) /\ WF_vars(Sigalrm)

-----------------------------------------------------------------------------
(* Properties *)

Caught(f) == sol[f].kind # "right" /\ sol[f].at <= TestCount[f]

(* run_tests never awards more points than are attainable, whichever       *)
(* functions are re-scored by a late alarm.                                *)
PointsWithinMax == points <= maxPoints

(* A function that gives a wrong value, loops or faults on one of the      *)
(* values it is called with is never credited: not by a timeout, a late    *)
(* alarm, or a jump to a frame that had returned.                          *)
NoUndeservedCredit == \A f \in credited : ~Caught(f)

(* The handler never jumps through an envbuf that no sigsetjmp has filled. *)
NoJumpBeforeSetjmp == timer # NoFunc => envbuf # NoFunc

(* With a timeout the run always ends, even when solutions loop.           *)
Terminates == opt.limit > 0 => <>(pc \in {"done", "crashed"})

(* However often a function is re-scored its rating is credited at most    *)
(* once: the points are the ratings of the functions that passed.          *)
CreditedOnce == points = MapThenSumSet(RatingOf, credited)

Rows == {n \in DOMAIN output : output[n].kind = "row"}
RowPoints(n) == output[n].tpoints
RowRating(n) == output[n].rating

(* The rows an autograder adds up (-g) and the total that btest prints     *)
(* agree, when no alarm outlives its function.                             *)
RowsAddUp ==
    prompt /\ opt.grade /\ pc = "done" =>
        points = MapThenSumSet(RowPoints, Rows) /\ maxPoints = MapThenSumSet(RowRating, Rows)

(* The refinement mapping to Grader: the verdicts given so far.            *)
Decided(f) == f < i \/ (f = i /\ pc = "row")
Verdict(f) == IF ~Decided(f) THEN "none"
              ELSE IF ~Selected(f) THEN "skipped"
              ELSE IF f \in credited THEN "passed" ELSE "failed"

Graded == INSTANCE Grader WITH
    weight    <- [f \in Funcs |-> IF Selected(f) THEN RatingOf(f) ELSE 0],
    defective <- {f \in Funcs : Caught(f)},
    verdict   <- [f \in Funcs |-> Verdict(f)],
    outOf     <- maxPoints

(* When no alarm outlives its function, every function gets at most one    *)
(* verdict, in order, and the totals are those of the verdicts: the        *)
(* harness implements Grader's safety part.                                *)
ImplementsGrader ==
    (prompt => Graded!Init) /\ [][prompt => Graded!Next]_(Graded!vars)

EndsBtest(f) == Selected(f) /\ Caught(f) /\ sol[f].kind = "crashes"

(* ... and, with a timeout, each function does get its verdict, also those *)
(* that come after any number that loop: the alarm works again after each  *)
(* jump.  A function that faults ends btest; only those before it are sure *)
(* of a verdict.                                                           *)
EveryFunctionGraded ==
    prompt /\ opt.limit > 0 =>
        \A f \in Funcs : (\A g \in 1..f : ~EndsBtest(g)) => <>(Verdict(f) # "none")

(* "Timed out after %d secs": a function is reported as timed out only     *)
(* when the alarm that expired is its own.                                 *)
TimedOutByOwnAlarm ==
    \A n \in DOMAIN output : output[n].kind = "timeout" => output[n].fn = output[n].by

=============================================================================
