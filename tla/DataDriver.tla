----------------------------- MODULE DataDriver -----------------------------
(***************************************************************************)
(* The data lab's grading driver, src/lab/data/driver.pl, around btest: it *)
(* tests the submission twice, once with the functions that break a coding *)
(* rule emptied by "dlc -z" (correctness), once with those that use too    *)
(* many operators emptied as well, by "dlc -Z" (performance), and totals   *)
(* the two tables that btest printed.                                      *)
(*                                                                         *)
(* The state of Btest is that of the btest process that runs now, or ran   *)
(* last.  The operator counts of "dlc -e" are left out.                    *)
(***************************************************************************)
EXTENDS Btest

CONSTANT FloatPuzzles   \* the puzzles in which dlc accepts loops and the operator /

Timeout     == 10       \* btest's TIMEOUT_LIMIT
TableRating == 0        \* no -r
PerfRating  == 2        \* -r 2

ASSUME DataDriverAssumption ==
    /\ FloatPuzzles \subseteq Funcs
    /\ Timeout \in Limits
    /\ {TableRating, PerfRating} \subseteq GlobalRatings

(* What the driver takes for the puzzle's name of a line of the table: a   *)
(* puzzle, or, in the two lines that tell of a timeout, nothing and "10".  *)
NoName == 0
Ten    == N + 1
Entry  == [name : {NoName, Ten} \cup Funcs, points : Nat, rating : Nat]

VARIABLES
    submission, \* what the student's functions do
    illegal,    \* those that break a coding rule
    over,       \* the other ones that use too many operators
    dpc,        \* the command that the driver runs, or is about to run
    bits_c,     \* the source that bits.c is, in the scratch directory
    zapped_out, \* btest-zapped.out: what the first run printed
    Zapped_out, \* btest-Zapped.out
    c_table,    \* the lines read as correctness results
    p_table,    \* ... as performance results
    stale       \* a copy over bits.c failed

given  == <<submission, illegal, over>>
files  == <<bits_c, stale, zapped_out, Zapped_out>>
tables == <<c_table, p_table>>
dvars  == <<given, dpc, files, tables, vars>>

DriverTypeOK ==
    /\ TypeOK
    /\ dpc \in {"getopts", "mkdir", "cp infile", "cp files", "chdir", "cp save", "dlc -z",
               "cp zap", "make btest", "btest -g", "dlc -Z", "cp Zap", "make btest again",
               "btest -g -r 2", "dlc -e", "read correctness", "read performance", "report",
               "clean", "done", "died"}
    /\ stale \in BOOLEAN
    /\ bits_c \in {"none", "submitted", "zapped", "Zapped"}
    /\ zapped_out \in Seq(Row \cup TimeOutMessage)
    /\ Zapped_out \in Seq(Row \cup TimeOutMessage)
    /\ c_table \in Seq(Entry)
    /\ p_table \in Seq(Entry)

Options(rating) ==
    [grade |-> TRUE, fname |-> NoFunc, rating |-> rating, limit |-> Timeout]

(* An integer puzzle that loops or faults is illegal: dlc accepts no loop, *)
(* call, cast, / or % in it.                                               *)
DriverInit ==
    /\ submission \in [Funcs -> Solution]
    /\ illegal \in SUBSET Funcs /\ over \in SUBSET (Funcs \ illegal)
    /\ {f \in Funcs : submission[f].kind \in {"loops", "crashes"}} \subseteq illegal \cup FloatPuzzles
    /\ dpc = "getopts" /\ bits_c = "none" /\ stale = FALSE
    /\ zapped_out = <<>> /\ Zapped_out = <<>>
    /\ c_table = <<>> /\ p_table = <<>>
    /\ opt = Options(TableRating) /\ sol = submission /\ prompt \in BOOLEAN
    /\ pc = "done" /\ i = 1 /\ a = 0 /\ terrors = 0
    /\ errors = 0 /\ points = 0 /\ maxPoints = 0 /\ credited = {} /\ output = <<>>
    /\ timer = NoFunc /\ envbuf = NoFunc /\ blocked = FALSE /\ frame = "overwritten"

-----------------------------------------------------------------------------
(* The commands                                                            *)

(* system(), of a command whose status is looked at: it may fail.          *)
Succeeds(command, next) == dpc = command /\ dpc' = next
Fails(command)          == dpc = command /\ dpc' = "died"
Checked(command, next)  == Succeeds(command, next) \/ Fails(command)

(* check_nickname refuses some values of -u.                               *)
CheckNickname ==
    /\ Checked("getopts", "mkdir")
    /\ UNCHANGED <<given, files, tables, vars>>

(* The scratch directory is removed again when it cannot be filled; a      *)
(* later failure leaves it behind.                                         *)
MakeScratch ==
    /\ \/ /\ \/ Checked("mkdir", "cp infile")
             \/ Succeeds("cp files", "chdir")
             \/ Succeeds("chdir", "cp save")
             \/ Checked("cp save", "dlc -z")
          /\ UNCHANGED bits_c
       \/ Succeeds("cp infile", "cp files") /\ bits_c' = "submitted"
       \/ \E command \in {"cp infile", "cp files", "chdir"} : Fails(command) /\ bits_c' = "none"
    /\ UNCHANGED <<given, stale, zapped_out, Zapped_out, tables, vars>>

(* zap-bits.c, Zap-bits.c and the operator counts come from dlc; what they *)
(* are is a function of the submission: see Zapped.                        *)
RunDlc ==
    /\ \/ Checked("dlc -z", "cp zap")
       \/ Checked("dlc -Z", "cp Zap")
       \/ Checked("dlc -e", "read correctness")
    /\ UNCHANGED <<given, files, tables, vars>>

(* Mutants: the first copy is forgotten; the second takes the student's    *)
(* own file, which is in save-bits.c.                                      *)
CopyZapped_Forgotten ==
    /\ dpc = "cp zap"
    /\ dpc' = "make btest"
    /\ UNCHANGED <<given, files, tables, vars>>

CopyZappedAgain_Saved ==
    /\ dpc = "cp Zap"
    /\ dpc' = "make btest again"
    /\ bits_c' = "submitted"
    /\ UNCHANGED <<given, stale, zapped_out, Zapped_out, tables, vars>>

(* The status of the two copies over bits.c is not looked at.              *)
CopyOver(source) ==
    /\ \/ bits_c' = source /\ UNCHANGED stale
       \/ stale' = TRUE /\ UNCHANGED bits_c
    /\ UNCHANGED <<given, zapped_out, Zapped_out, tables, vars>>

CopyZapped ==
    /\ dpc = "cp zap"
    /\ dpc' = "make btest"
    /\ CopyOver("zapped")

CopyZappedAgain ==
    /\ dpc = "cp Zap"
    /\ dpc' = "make btest again"
    /\ CopyOver("Zapped")

-----------------------------------------------------------------------------
(* btest                                                                   *)

(* An emptied function returns 4, whatever its arguments.                  *)
Empty == [kind |-> "wrong", at |-> 1]

Emptied(source) ==
    CASE source = "zapped" -> illegal
      [] source = "Zapped" -> illegal \cup over
      [] OTHER -> {}

(* Mutant: btest runs without a time limit.                                *)
Exec_NoTimeout(rating) ==
    /\ opt' = [Options(rating) EXCEPT !.limit = 0]
    /\ sol' = [f \in Funcs |-> IF f \in Emptied(bits_c) THEN Empty ELSE submission[f]]
    /\ pc' = "select" /\ i' = 1 /\ a' = 0 /\ terrors' = 0
    /\ errors' = 0 /\ points' = 0 /\ maxPoints' = 0 /\ credited' = {} /\ output' = <<>>
    /\ timer' = NoFunc /\ envbuf' = NoFunc /\ blocked' = FALSE /\ frame' = "overwritten"

Exec(rating) ==
    /\ opt' = Options(rating)
    /\ sol' = [f \in Funcs |-> IF f \in Emptied(bits_c) THEN Empty ELSE submission[f]]
    /\ pc' = "select" /\ i' = 1 /\ a' = 0 /\ terrors' = 0
    /\ errors' = 0 /\ points' = 0 /\ maxPoints' = 0 /\ credited' = {} /\ output' = <<>>
    /\ timer' = NoFunc /\ envbuf' = NoFunc /\ blocked' = FALSE /\ frame' = "overwritten"

(* make btestexplicit: always recompiles bits.c as it is now.              *)
MakeBtest(command, rating, next) ==
    /\ \/ Succeeds(command, next) /\ Exec(rating) /\ UNCHANGED prompt
       \/ Fails(command) /\ UNCHANGED vars
    /\ UNCHANGED <<given, files, tables>>

BuildAndTest ==
    \/ MakeBtest("make btest", TableRating, "btest -g")
    \/ MakeBtest("make btest again", PerfRating, "btest -g -r 2")

Testing == dpc \in {"btest -g", "btest -g -r 2"}

BtestStep ==
    /\ Testing /\ Step
    /\ UNCHANGED <<given, dpc, files, tables>>

BtestSigalrm ==
    /\ Testing /\ Sigalrm
    /\ UNCHANGED <<given, dpc, files, tables>>

(* The status of btest is 0 unless a signal ended it.                      *)
BtestEnds ==
    /\ Testing /\ pc \in {"done", "crashed"}
    /\ IF dpc = "btest -g"
       THEN /\ dpc' = IF pc = "crashed" THEN "died" ELSE "dlc -Z"
            /\ zapped_out' = output
            /\ UNCHANGED Zapped_out
       ELSE /\ dpc' = IF pc = "crashed" THEN "died" ELSE "dlc -e"
            /\ Zapped_out' = output
            /\ UNCHANGED zapped_out
    /\ UNCHANGED <<given, bits_c, stale, tables, vars>>

-----------------------------------------------------------------------------
(* The results                                                             *)

(* Every line between "Score" and "Total" is split at white space into     *)
(* nothing, points, rating, errors and name; text counts as the number 0.  *)
(* "ERROR: Test <name> failed." and "  Timed out after 10 secs (...)" are  *)
(* such lines.                                                             *)
EntriesOf(line) ==
    IF line.kind = "row"
    THEN <<[name |-> line.fn, points |-> line.tpoints, rating |-> line.rating]>>
    ELSE <<[name |-> NoName, points |-> 0, rating |-> 0],
           [name |-> Ten, points |-> 0, rating |-> 0]>>

(* Mutant: the line "Total points: p/r" is read as a result too, with r as *)
(* its rating.                                                             *)
Table_WithTotal(lines) ==
    Append(FlattenSeq([n \in DOMAIN lines |-> EntriesOf(lines[n])]),
           [name |-> NoName, points |-> 0, rating |-> 1])

Table(lines) == FlattenSeq([n \in DOMAIN lines |-> EntriesOf(lines[n])])

(* "open(...) or die". *)
CollectCorrectness ==
    /\ \/ Succeeds("read correctness", "read performance") /\ c_table' = Table(zapped_out)
       \/ Fails("read correctness") /\ UNCHANGED c_table
    /\ UNCHANGED <<given, files, p_table, vars>>

(* Here the table is opened, and then the file of the operator counts.     *)
CollectPerformance ==
    /\ \/ Succeeds("read performance", "report") /\ p_table' = Table(Zapped_out)
       \/ Fails("read performance") /\ p_table' \in {p_table, Table(Zapped_out)}
    /\ UNCHANGED <<given, files, c_table, vars>>

(* driver_post exits when the result server does not answer OK.            *)
Report ==
    /\ Checked("report", "clean")
    /\ UNCHANGED <<given, files, tables, vars>>

Clean ==
    /\ dpc = "clean"
    /\ dpc' = "done"
    /\ bits_c' = "none"
    /\ UNCHANGED <<given, stale, zapped_out, Zapped_out, tables, vars>>

-----------------------------------------------------------------------------
DriverStep ==
    \/ CheckNickname \/ MakeScratch \/ RunDlc
    \/ CopyZapped \/ CopyZappedAgain \/ BuildAndTest \/ BtestEnds
    \/ CollectCorrectness \/ CollectPerformance \/ Report \/ Clean

DriverNext == DriverStep \/ BtestStep \/ BtestSigalrm

DriverSpec == DriverInit /\ [][DriverNext]_dvars

(* Both processes run, and a pending alarm expires.                        *)
FairDriverSpec ==
    DriverSpec /\ WF_dvars(DriverStep) /\ WF_dvars(BtestStep) /\ WF_dvars(BtestSigalrm)

-----------------------------------------------------------------------------
(* Properties *)

(* The hash tables: the last line with a name counts. *)
PointsOf(table, name) ==
    LET lines == {n \in DOMAIN table : table[n].name = name}
    IN  IF lines = {} THEN 0 ELSE table[Max(lines)].points
RatingIn(table, name) ==
    LET lines == {n \in DOMAIN table : table[n].name = name}
    IN  IF lines = {} THEN 0 ELSE table[Max(lines)].rating
SumOf(table, Of(_)) == MapThenSumSet(LAMBDA n : Of(table[n]), DOMAIN table)
EntryPoints(e) == e.points
EntryRating(e) == e.rating

Reported == dpc \in {"clean", "done"}

Right(f) == submission[f].kind = "right" \/ submission[f].at > TestCount[f]
TimedOut(lines, f) == \E n \in DOMAIN lines : lines[n].kind = "timeout" /\ lines[n].fn = f

(* No puzzle gets performance points without correctness points: the       *)
(* second run tests no function that the first did not, even when a copy   *)
(* of bits.c failed unnoticed and a run tested the wrong source.  Only a   *)
(* function too slow for the first run and in time in the second can.      *)
NoPerformanceWithoutCorrectness ==
    Reported /\ prompt =>
        \A f \in Funcs : PointsOf(p_table, f) > 0 =>
            PointsOf(c_table, f) > 0 \/ TimedOut(zapped_out, f)

(* The points reported are those deserved: by the rules, by the number of  *)
(* operators and by the tests, which a function must pass in time.  The    *)
(* copies over bits.c, which the driver does not look at, are taken to     *)
(* succeed.                                                                *)
ScoresEarned ==
    Reported /\ prompt /\ ~stale =>
        \A f \in Funcs :
            /\ PointsOf(c_table, f) =
                   IF Right(f) /\ f \notin illegal /\ ~TimedOut(zapped_out, f)
                   THEN Rating[f] ELSE 0
            /\ PointsOf(p_table, f) =
                   IF Right(f) /\ f \notin illegal \cup over /\ ~TimedOut(Zapped_out, f)
                   THEN PerfRating ELSE 0

(* The totals are those of the puzzles, whatever other lines btest printed *)
(* into its tables.                                                        *)
TotalsOfPuzzles ==
    Reported /\ prompt =>
        \A table \in {c_table, p_table} :
            /\ SumOf(table, EntryPoints) = MapThenSumSet(LAMBDA f : PointsOf(table, f), Funcs)
            /\ SumOf(table, EntryRating) = MapThenSumSet(LAMBDA f : RatingIn(table, f), Funcs)

(* The driver ends, also when functions of the submission loop or fault.   *)
DriverEnds == <>(dpc \in {"done", "died"})

(* driver.pl: "Read and record a puzzle's name and score".                 *)
NamesArePuzzles ==
    prompt => \A n \in DOMAIN c_table : c_table[n].name \in Funcs

=============================================================================
