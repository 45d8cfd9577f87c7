-------------------------- MODULE DataDriverProofs --------------------------
(* Theorems about DataDriver, for every submission, and every failure of a *)
(* command that the driver looks at or not.                                *)
EXTENDS DataDriver, BtestProofs

-----------------------------------------------------------------------------
(* What btest -g prints about all functions, when no alarm outlives its    *)
(* function: a row for each one it is past, with its points.               *)

Orderly == prompt /\ opt.grade /\ opt.fname = NoFunc

Scored(f) == IF Caught(f) \/ TimedOut(output, f) THEN 0 ELSE RatingOf(f)

RowsRight ==
    \A n \in Rows :
        /\ output[n].fn \in Funcs /\ output[n].fn < i
        /\ output[n].rating = RatingOf(output[n].fn)
        /\ output[n].tpoints = Scored(output[n].fn)

RowsComplete == \A f \in Funcs : f < i => \E n \in Rows : output[n].fn = f

RowsOnce == \A m, n \in Rows : output[m].fn = output[n].fn => m = n

TimeoutsPast ==
    \A f \in Funcs : TimedOut(output, f) => f < i \/ (f = i /\ pc \in {"score", "row"})

ErrorsInv == pc \in {"score", "row"} => (terrors = 0 <=> ~Caught(i) /\ ~TimedOut(output, i))

EndInv == pc = "done" => i = N + 1

PrintedInv ==
    RowsRight /\ RowsComplete /\ RowsOnce /\ TimeoutsPast /\ ErrorsInv /\ EndInv

LEMMA InitPrintedInv == Init => PrintedInv
  <1> SUFFICES ASSUME Init PROVE PrintedInv
    OBVIOUS
  <1>1. Rows = {} /\ \A f : ~TimedOut(output, f)
    BY DEF Init, Rows, TimedOut
  <1>2. \A f \in Funcs : ~(f < i)
    BY BtestAssumption DEF Init, Funcs
  <1>3. QED
    BY <1>1, <1>2 DEF Init, PrintedInv, RowsRight, RowsComplete, RowsOnce, TimeoutsPast,
       ErrorsInv, EndInv

(* The lines printed stay as they are ...                                  *)
LEMMA SameLines ==
    ASSUME UNCHANGED <<output, opt, sol>>
    PROVE  /\ Rows' = Rows
           /\ \A f : TimedOut(output, f)' <=> TimedOut(output, f)
           /\ \A f : Caught(f)' <=> Caught(f)
           /\ \A f : RatingOf(f)' = RatingOf(f)
           /\ \A f : Scored(f)' = Scored(f)
  BY DEF Rows, TimedOut, Caught, RatingOf, Scored

(* ... when a step prints nothing.                                         *)
LEMMA QuietStep ==
    ASSUME IInv, PrintedInv, UNCHANGED <<output, opt, sol, i>>,
           pc \in {"score", "row"} => pc' \in {"score", "row"},
           pc' \in {"score", "row"} =>
               (terrors' = 0 <=> ~Caught(i) /\ ~TimedOut(output, i)),
           pc' = "done" => i = N + 1
    PROVE  PrintedInv'
  <1> USE SameLines
  <1>1. RowsRight' /\ RowsComplete' /\ RowsOnce'
    BY DEF PrintedInv, RowsRight, RowsComplete, RowsOnce
  <1>2. TimeoutsPast'
    BY DEF PrintedInv, TimeoutsPast
  <1>3. ErrorsInv' /\ EndInv'
    BY DEF ErrorsInv, EndInv
  <1>4. QED
    BY <1>1, <1>2, <1>3 DEF PrintedInv

(* A function's first error is in its calls, and without one it passes.    *)
LEMMA Verdicts ==
    ASSUME IInv, PrintedInv, TestDisagrees \/ AllTestsRun
    PROVE  terrors' = 0 <=> ~Caught(i) /\ ~TimedOut(output, i)
  <1>1. /\ pc = "test" /\ i \in Funcs /\ terrors = 0 /\ a \in Nat
        /\ TestCount[i] \in Nat /\ sol[i].at \in Nat \ {0}
    BY BtestAssumption DEF IInv, TypeOK, AgreedInv, TestDisagrees, AllTestsRun, Solution
  <1>2. ~TimedOut(output, i)
    <2>1. ~(i < i)
      BY <1>1 DEF Funcs
    <2>2. QED
      BY <1>1, <2>1 DEF PrintedInv, TimeoutsPast
  <1>3. CASE TestDisagrees
    BY <1>1, <1>3 DEF TestDisagrees, Caught, Reaches
  <1>4. CASE AllTestsRun
    <2>1. terrors' = 0 /\ a = TestCount[i]
      BY <1>1, <1>4 DEF AllTestsRun
    <2>2. \A n \in 1..a : ~Reaches(i, n)
      BY <1>1 DEF IInv, AgreedInv
    <2>3. ~Caught(i)
      BY <1>1, <2>1, <2>2 DEF Caught, Reaches
    <2>4. QED
      BY <1>2, <2>1, <2>3
  <1>5. QED
    BY <1>3, <1>4

LEMMA PrintRowPrinted ==
    ASSUME IInv, IInv', PrintedInv, Orderly, PrintRow
    PROVE  PrintedInv'
  <1> DEFINE row == [kind |-> "row", fn |-> i, tpoints |-> Points(terrors),
                     rating |-> RatingOf(i), errors |-> terrors]
             last == Len(output) + 1
  <1>1. /\ pc = "row" /\ pc' = "select" /\ i' = i + 1 /\ output' = Append(output, row)
        /\ UNCHANGED <<opt, sol>>
    BY DEF PrintRow, RowWanted, Orderly, input
  <1>2. row.kind = "row" /\ row.fn = i /\ row.tpoints = Points(terrors) /\ row.rating = RatingOf(i)
    OBVIOUS
  <1> HIDE DEF row
  <1>3. /\ Len(output) \in Nat /\ DOMAIN output = 1..Len(output)
        /\ DOMAIN output' = 1..(Len(output) + 1) /\ output'[Len(output) + 1] = row
        /\ \A n \in 1..Len(output) : output'[n] = output[n]
        /\ Rows \subseteq 1..Len(output)
        /\ Rows' = IF row.kind = "row" THEN Rows \cup {Len(output) + 1} ELSE Rows
    BY <1>1, MoreRows DEF IInv
  <1>4. /\ DOMAIN output' = DOMAIN output \cup {last} /\ output'[last] = row
        /\ \A n \in DOMAIN output : output'[n] = output[n]
        /\ Rows \subseteq DOMAIN output
        /\ Rows' = Rows \cup {last}
    <2>1. 1..(Len(output) + 1) = (1..Len(output)) \cup {Len(output) + 1}
      BY <1>3
    <2>2. QED
      BY <1>2, <1>3, <2>1
  <1> HIDE DEF last
  <1>5. i \in Funcs /\ i \in Int /\ N \in Nat
    BY <1>1, BtestAssumption DEF IInv, TypeOK
  <1>6. \A f : TimedOut(output, f)' <=> TimedOut(output, f)
    BY <1>2, <1>4 DEF TimedOut
  <1>7. \A f : Scored(f)' = Scored(f) /\ RatingOf(f)' = RatingOf(f) /\ (Caught(f)' <=> Caught(f))
    BY <1>1, <1>6 DEF Scored, RatingOf, Caught
  <1>8. Points(terrors) = Scored(i)
    BY <1>1 DEF PrintedInv, ErrorsInv, Scored, Points
  <1>9. RowsRight'
    <2>1. \A n \in Rows : output'[n] = output[n]
      BY <1>4
    <2>2. \A n \in Rows : /\ output[n].fn \in Funcs /\ output[n].fn < i'
                          /\ output[n].rating = RatingOf(output[n].fn)
                          /\ output[n].tpoints = Scored(output[n].fn)
      BY <1>1, <1>5 DEF PrintedInv, RowsRight, Funcs
    <2>3. row.fn \in Funcs /\ row.fn < i'
      BY <1>1, <1>2, <1>5
    <2>4. QED
      BY <1>2, <1>4, <1>7, <1>8, <2>1, <2>2, <2>3 DEF RowsRight
  <1>10. RowsComplete'
    <2>1. \A f \in Funcs : f < i' => f < i \/ f = i
      BY <1>1, <1>5 DEF Funcs
    <2>2. QED
      BY <1>2, <1>4, <2>1 DEF PrintedInv, RowsComplete
  <1>11. RowsOnce'
    <2>1. \A n \in Rows : output[n].fn # i
      BY <1>5 DEF PrintedInv, RowsRight
    <2>2. QED
      BY <1>2, <1>4, <2>1 DEF PrintedInv, RowsOnce
  <1>12. TimeoutsPast'
    <2>1. \A f \in Funcs : f < i \/ f = i => f < i'
      BY <1>1, <1>5 DEF Funcs
    <2>2. QED
      BY <1>6, <2>1 DEF PrintedInv, TimeoutsPast
  <1>13. ErrorsInv' /\ EndInv'
    BY <1>1 DEF ErrorsInv, EndInv
  <1>14. QED
    BY <1>9, <1>10, <1>11, <1>12, <1>13 DEF PrintedInv

LEMMA SigalrmPrinted ==
    ASSUME IInv, IInv', PrintedInv, Orderly, Sigalrm
    PROVE  PrintedInv'
  <1> DEFINE message == [kind |-> "timeout", fn |-> i, by |-> timer]
             last == Len(output) + 1
  <1>1. pc = "test" /\ frame = "live"
    BY DEF Orderly, Sigalrm, IInv, FrameInv, InTest
  <1>2. /\ pc' = "score" /\ i' = i /\ terrors' = 1 /\ output' = Append(output, message)
        /\ UNCHANGED <<opt, sol>>
    BY <1>1 DEF Sigalrm, TimeOutLive, TimeOutDead, TimeOutFault, TimeOut, input
  <1>3. message.kind = "timeout" /\ message.fn = i
    OBVIOUS
  <1> HIDE DEF message
  <1>4. /\ Len(output) \in Nat /\ DOMAIN output = 1..Len(output)
        /\ DOMAIN output' = 1..(Len(output) + 1) /\ output'[Len(output) + 1] = message
        /\ \A n \in 1..Len(output) : output'[n] = output[n]
        /\ Rows \subseteq 1..Len(output)
        /\ Rows' = IF message.kind = "row" THEN Rows \cup {Len(output) + 1} ELSE Rows
    BY <1>2, MoreRows DEF IInv
  <1>5. /\ DOMAIN output' = DOMAIN output \cup {last} /\ output'[last] = message
        /\ \A n \in DOMAIN output : output'[n] = output[n]
        /\ Rows \subseteq DOMAIN output /\ Rows' = Rows
    <2>1. 1..(Len(output) + 1) = (1..Len(output)) \cup {Len(output) + 1}
      BY <1>4
    <2>2. QED
      BY <1>3, <1>4, <2>1
  <1> HIDE DEF last
  <1>6. \A f : TimedOut(output, f)' <=> TimedOut(output, f) \/ f = i
    BY <1>3, <1>5 DEF TimedOut
  <1>7. \A f : RatingOf(f)' = RatingOf(f) /\ (Caught(f)' <=> Caught(f))
    BY <1>2 DEF RatingOf, Caught
  <1>8. \A f : f # i => Scored(f)' = Scored(f)
    BY <1>6, <1>7 DEF Scored
  <1>9. i \in Int /\ i \in Funcs
    BY <1>1 DEF IInv, TypeOK, Funcs
  <1>10. RowsRight'
    <2>1. \A n \in Rows : output'[n] = output[n] /\ output[n].fn # i
      BY <1>5, <1>9 DEF PrintedInv, RowsRight
    <2>2. QED
      BY <1>2, <1>5, <1>7, <1>8, <2>1 DEF PrintedInv, RowsRight
  <1>11. RowsComplete'
    BY <1>2, <1>5 DEF PrintedInv, RowsComplete
  <1>12. RowsOnce'
    BY <1>2, <1>5 DEF PrintedInv, RowsOnce
  <1>13. TimeoutsPast'
    BY <1>2, <1>6 DEF PrintedInv, TimeoutsPast
  <1>14. ErrorsInv' /\ EndInv'
    BY <1>2, <1>6, <1>9 DEF ErrorsInv, EndInv
  <1>15. QED
    BY <1>10, <1>11, <1>12, <1>13, <1>14 DEF PrintedInv

LEMMA NextPrintedInv ==
    ASSUME IInv, IInv', PrintedInv, Orderly, [Next]_vars
    PROVE  PrintedInv'
  <1>1. UNCHANGED <<opt, sol>>
    BY PromptUnchanged
  <1>2. CASE SkipTest
    BY <1>2 DEF SkipTest, Selected, Orderly
  <1>3. CASE PrintRow
    BY <1>3, PrintRowPrinted
  <1>4. CASE Sigalrm
    BY <1>4, SigalrmPrinted
  <1>5. CASE TestDisagrees \/ AllTestsRun
    <2>1. UNCHANGED <<output, i>> /\ pc = "test" /\ pc' = "score"
      BY <1>5 DEF TestDisagrees, AllTestsRun
    <2>2. QED
      BY <1>1, <1>5, <2>1, Verdicts, QuietStep
  <1>6. CASE Score
    <2>1. UNCHANGED <<output, i, terrors>> /\ pc = "score" /\ pc' = "row"
      BY <1>6 DEF Score
    <2>2. QED
      BY <1>1, <2>1, QuietStep DEF PrintedInv, ErrorsInv
  <1>7. CASE UNCHANGED vars
    <2>1. UNCHANGED <<output, i, terrors, pc>>
      BY <1>7 DEF vars
    <2>2. QED
      BY <1>1, <2>1, QuietStep DEF PrintedInv, ErrorsInv, EndInv
  <1>8. CASE \/ CallTest \/ FinishTests \/ GenerateValues \/ SetJump \/ SetAlarm
            \/ TestAgrees \/ SolutionCrashes
    <2>1. /\ UNCHANGED <<output, i>>
          /\ pc \notin {"score", "row"} /\ pc' \notin {"score", "row"}
          /\ pc' = "done" => i = N + 1
      BY <1>8 DEF CallTest, FinishTests, GenerateValues, SetJump, SetAlarm, TestAgrees,
         SolutionCrashes
    <2>2. QED
      BY <1>1, <2>1, QuietStep
  <1>9. QED
    BY <1>2, <1>3, <1>4, <1>5, <1>6, <1>7, <1>8 DEF Next, Step

-----------------------------------------------------------------------------
(* The driver around it.  The process that runs has the options and the    *)
(* source that the driver gave it, and what a run printed is, from its end *)
(* on, what it deserved on its source.                                     *)

SolutionOf(source) == [f \in Funcs |-> IF f \in Emptied(source) THEN Empty ELSE submission[f]]

Deserving(source) == {f \in Funcs : Right(f) /\ f \notin Emptied(source)}

RowsOf(lines)    == {n \in DOMAIN lines : lines[n].kind = "row"}
Worth(rating, f) == IF rating # 0 THEN rating ELSE Rating[f]

PrintedBy(lines, deserving, rating) ==
    /\ lines \in Seq(Row \cup TimeOutMessage)
    /\ \A f \in Funcs : \E n \in RowsOf(lines) : lines[n].fn = f
    /\ \A m, n \in RowsOf(lines) : lines[m].fn = lines[n].fn => m = n
    /\ \A n \in RowsOf(lines) :
          /\ lines[n].rating = Worth(rating, lines[n].fn)
          /\ lines[n].tpoints = IF lines[n].fn \in deserving /\ ~TimedOut(lines, lines[n].fn)
                                THEN Worth(rating, lines[n].fn) ELSE 0

GivenInv ==
    /\ submission \in [Funcs -> Solution]
    /\ illegal \subseteq Funcs /\ over \subseteq Funcs

ProcessInv ==
    Testing =>
        /\ opt = Options(IF dpc = "btest -g" THEN TableRating ELSE PerfRating)
        /\ sol = SolutionOf(bits_c)
        /\ prompt => PrintedInv

First   == {"make btest", "btest -g"}
Between == {"dlc -Z", "cp Zap"}
Second  == {"make btest again", "btest -g -r 2"}
After   == {"dlc -e", "read correctness", "read performance", "report", "clean", "done"}

(* A copy that failed is remembered in stale.                              *)
SourceInv ==
    ~stale =>
        /\ dpc \in First \cup Between => bits_c = "zapped"
        /\ dpc \in Second => bits_c = "Zapped"

(* Whatever copies failed, the second run's source has the more functions  *)
(* emptied.                                                                *)
RunsInv ==
    prompt =>
        /\ dpc \in Between => PrintedBy(zapped_out, Deserving(bits_c), TableRating)
        /\ dpc \in Second =>
              \E s \in SUBSET Funcs :
                  /\ PrintedBy(zapped_out, s, TableRating)
                  /\ Deserving(bits_c) \subseteq s
                  /\ ~stale => s = Deserving("zapped")
        /\ dpc \in After =>
              \E s, t \in SUBSET Funcs :
                  /\ PrintedBy(zapped_out, s, TableRating)
                  /\ PrintedBy(Zapped_out, t, PerfRating)
                  /\ t \subseteq s
                  /\ ~stale => s = Deserving("zapped") /\ t = Deserving("Zapped")

TablesInv ==
    /\ dpc \in {"read performance", "report", "clean", "done"} => c_table = Table(zapped_out)
    /\ dpc \in {"report", "clean", "done"} => p_table = Table(Zapped_out)

DInv ==
    /\ IInv /\ GivenInv
    /\ ProcessInv
    /\ SourceInv
    /\ RunsInv
    /\ TablesInv

LEMMA EmptiedIs ==
    /\ Emptied("zapped") = illegal
    /\ Emptied("Zapped") = illegal \cup over
    /\ \A source : source \notin {"zapped", "Zapped"} => Emptied(source) = {}
  BY DEF Emptied

LEMMA DeservingLess ==
    ASSUME NEW source
    PROVE  Deserving("Zapped") \subseteq Deserving(source)
  <1>1. Emptied(source) \subseteq Emptied("Zapped")
    <2>1. CASE source = "zapped"
      BY <2>1, EmptiedIs
    <2>2. CASE source = "Zapped"
      BY <2>2
    <2>3. CASE source \notin {"zapped", "Zapped"}
      BY <2>3, EmptiedIs
    <2>4. QED
      BY <2>1, <2>2, <2>3
  <1>2. QED
    BY <1>1 DEF Deserving

(* A run that ended has printed what its source deserves.                  *)
LEMMA RunEnds ==
    ASSUME IInv, GivenInv, PrintedInv, pc = "done",
           NEW rating \in {TableRating, PerfRating}, opt = Options(rating),
           NEW source, sol = SolutionOf(source)
    PROVE  PrintedBy(output, Deserving(source), rating)
  <1>1. i = N + 1 /\ N \in Nat
    BY BtestAssumption DEF PrintedInv, EndInv
  <1>2. \A f \in Funcs : RatingOf(f) = Worth(rating, f)
    BY DEF RatingOf, Worth, Options
  <1>3. \A f \in Funcs : Caught(f) <=> f \notin Deserving(source)
    <2> SUFFICES ASSUME NEW f \in Funcs PROVE Caught(f) <=> f \notin Deserving(source)
      OBVIOUS
    <2>1. TestCount[f] \in Nat \ {0}
      BY BtestAssumption
    <2>2. CASE f \in Emptied(source)
      BY <2>1, <2>2 DEF SolutionOf, Caught, Empty, Deserving
    <2>3. CASE f \notin Emptied(source)
      <3>1. sol[f] = submission[f]
        BY <2>3 DEF SolutionOf
      <3>2. submission[f].at \in Int
        <4>1. submission[f] \in Solution
          BY DEF GivenInv
        <4>2. submission[f].at \in DeviatesAt
          BY <4>1 DEF Solution
        <4>3. DeviatesAt \subseteq Nat \ {0}
          BY BtestAssumption
        <4>4. DeviatesAt \subseteq Int
          BY <4>3
        <4>5. QED
          BY <4>2, <4>4
      <3>3. QED
        BY <2>1, <2>3, <3>1, <3>2 DEF Caught, Deserving, Right
    <2>4. QED
      BY <2>2, <2>3
  <1>4. \A f \in Funcs : f < i
    BY <1>1 DEF Funcs
  <1>5. Rows = RowsOf(output)
    BY DEF Rows, RowsOf
  <1>6. output \in Seq(Row \cup TimeOutMessage)
    BY DEF IInv, TypeOK
  <1>7. \A n \in Rows :
            /\ output[n].rating = Worth(rating, output[n].fn)
            /\ output[n].tpoints =
                   IF output[n].fn \in Deserving(source) /\ ~TimedOut(output, output[n].fn)
                   THEN Worth(rating, output[n].fn) ELSE 0
    BY <1>2, <1>3 DEF PrintedInv, RowsRight, Scored
  <1>8. QED
    BY <1>4, <1>5, <1>6, <1>7 DEF PrintedBy, PrintedInv, RowsComplete, RowsOnce

LEMMA OptionsType ==
    ASSUME NEW rating \in {TableRating, PerfRating}
    PROVE  Options(rating) \in Option
  BY DataDriverAssumption DEF Options, Option

(* Every run starts in an initial state of the harness.                    *)
LEMMA ExecInit ==
    ASSUME IInv, GivenInv, NEW rating \in {TableRating, PerfRating}, Exec(rating),
           UNCHANGED prompt
    PROVE  Init' /\ opt' = Options(rating) /\ sol' = SolutionOf(bits_c)
  <1>1. Empty \in Solution
    BY BtestAssumption DEF Empty, Solution
  <1>2. sol' = SolutionOf(bits_c) /\ sol' \in [Funcs -> Solution]
    BY <1>1 DEF Exec, SolutionOf, GivenInv
  <1>3. opt' = Options(rating) /\ opt' \in Option
    BY OptionsType DEF Exec
  <1>4. prompt' \in BOOLEAN
    BY DEF IInv, TypeOK
  <1>5. QED
    BY <1>2, <1>3, <1>4 DEF Exec, Init

LEMMA InitDInv == DriverInit => DInv
  <1> SUFFICES ASSUME DriverInit PROVE DInv
    OBVIOUS
  <1> USE DEF DriverInit
  <1>1. IInv
    <2>1. output \in Seq(Row \cup TimeOutMessage)
      BY EmptySeq
    <2>2. opt \in Option
      BY OptionsType
    <2>3. blocked \in BOOLEAN
      OBVIOUS
    <2>4. TypeOK
      BY <2>1, <2>2, <2>3, BtestAssumption DEF TypeOK, NoFunc, Funcs
    <2>5. QED
      BY <2>4 DEF IInv, FrameInv, JumpInv, AgreedInv, NoJumpBeforeSetjmp, InTest, NoFunc,
         PointsWithinMax, NoUndeservedCredit
  <1>2. GivenInv
    BY DEF GivenInv
  <1>3. ProcessInv /\ SourceInv /\ RunsInv /\ TablesInv
    BY DEF ProcessInv, SourceInv, RunsInv, TablesInv, Testing, First, Between, Second, After
  <1>4. QED
    BY <1>1, <1>2, <1>3 DEF DInv

-----------------------------------------------------------------------------
(* The steps that the driver takes between the runs.                       *)

LEMMA NextGiven ==
    DriverNext => UNCHANGED given
  BY DEF DriverNext, DriverStep, BtestStep, BtestSigalrm, CheckNickname, MakeScratch, RunDlc,
     CopyZapped, CopyZappedAgain, CopyOver, BuildAndTest, MakeBtest, BtestEnds,
     CollectCorrectness, CollectPerformance, Report, Clean

LEMMA SameGiven ==
    ASSUME UNCHANGED given
    PROVE  /\ GivenInv' <=> GivenInv
           /\ \A source : Deserving(source)' = Deserving(source)
           /\ \A source : SolutionOf(source)' = SolutionOf(source)
  BY DEF given, GivenInv, Deserving, SolutionOf, Emptied, Right

(* Only make and btest itself change the state of the process.             *)
LEMMA SameProcess ==
    [DriverNext]_dvars /\ ~BuildAndTest => [Next]_vars
  BY DEF DriverNext, DriverStep, dvars, Next, BtestStep, BtestSigalrm, CheckNickname,
     MakeScratch, RunDlc, CopyZapped, CopyZappedAgain, CopyOver, BtestEnds,
     CollectCorrectness, CollectPerformance, Report, Clean

(* make btestexplicit and the start of btest.                              *)
LEMMA BuildStarts ==
    ASSUME DInv, BuildAndTest
    PROVE  /\ UNCHANGED <<given, files, tables, prompt>>
           /\ \/ dpc' = "died" /\ UNCHANGED vars
              \/ /\ dpc = "make btest" /\ dpc' = "btest -g"
                 /\ Init' /\ opt' = Options(TableRating) /\ sol' = SolutionOf(bits_c)
              \/ /\ dpc = "make btest again" /\ dpc' = "btest -g -r 2"
                 /\ Init' /\ opt' = Options(PerfRating) /\ sol' = SolutionOf(bits_c)
  <1>1. IInv /\ GivenInv
    BY DEF DInv
  <1>2. CASE MakeBtest("make btest", TableRating, "btest -g")
    <2>1. UNCHANGED <<given, files, tables>>
      BY <1>2 DEF MakeBtest
    <2>2. CASE UNCHANGED vars /\ dpc' = "died"
      BY <2>1, <2>2 DEF vars, input
    <2>3. CASE dpc = "make btest" /\ dpc' = "btest -g" /\ Exec(TableRating) /\ UNCHANGED prompt
      BY <1>1, <2>1, <2>3, ExecInit
    <2>4. QED
      BY <1>2, <2>2, <2>3 DEF MakeBtest, Succeeds, Fails
  <1>3. CASE MakeBtest("make btest again", PerfRating, "btest -g -r 2")
    <2>1. UNCHANGED <<given, files, tables>>
      BY <1>3 DEF MakeBtest
    <2>2. CASE UNCHANGED vars /\ dpc' = "died"
      BY <2>1, <2>2 DEF vars, input
    <2>3. CASE dpc = "make btest again" /\ dpc' = "btest -g -r 2" /\ Exec(PerfRating)
               /\ UNCHANGED prompt
      BY <1>1, <2>1, <2>3, ExecInit
    <2>4. QED
      BY <1>3, <2>2, <2>3 DEF MakeBtest, Succeeds, Fails
  <1>4. QED
    BY <1>2, <1>3 DEF BuildAndTest

LEMMA DriverIInv ==
    ASSUME DInv, [DriverNext]_dvars
    PROVE  IInv' /\ UNCHANGED prompt
  <1>1. (Init => IInv)'
    BY InitIInv, PTL
  <1>2. IInv
    BY DEF DInv
  <1>3. CASE BuildAndTest
    <2>1. UNCHANGED prompt
      BY <1>3, BuildStarts
    <2>2. UNCHANGED vars \/ Init'
      BY <1>3, BuildStarts
    <2>3. QED
      BY <1>1, <1>2, <2>1, <2>2, NextIInv
  <1>4. CASE ~BuildAndTest
    <2>1. [Next]_vars
      BY <1>4, SameProcess
    <2>2. QED
      BY <1>2, <2>1, NextIInv, PromptUnchanged
  <1>5. QED
    BY <1>3, <1>4

(* Where a step that is not of the process leads.                          *)
LEMMA Commands ==
    ASSUME DriverNext, ~BuildAndTest, ~BtestStep, ~BtestSigalrm
    PROVE  ~(dpc' \in {"btest -g", "btest -g -r 2"})
  BY DEF DriverNext, DriverStep, CheckNickname, MakeScratch, RunDlc, CopyZapped,
     CopyZappedAgain, BtestEnds, Testing, CollectCorrectness, CollectPerformance, Report, Clean,
     Checked, Succeeds, Fails

LEMMA NextProcessInv ==
    ASSUME DInv, IInv', [DriverNext]_dvars
    PROVE  ProcessInv'
  <1>1. CASE BuildAndTest
    <2>1. UNCHANGED <<given, bits_c>>
      BY <1>1, BuildStarts DEF files
    <2>2. SolutionOf(bits_c)' = SolutionOf(bits_c)
      BY <2>1, SameGiven DEF SolutionOf, Emptied, given
    <2>3. (Init => PrintedInv)'
      BY InitPrintedInv, PTL
    <2>4. CASE dpc' = "died"
      BY <2>4 DEF ProcessInv, Testing
    <2>5. CASE dpc' = "btest -g" /\ Init' /\ opt' = Options(TableRating)
               /\ sol' = SolutionOf(bits_c)
      BY <2>2, <2>3, <2>5 DEF ProcessInv, Options
    <2>6. CASE dpc' = "btest -g -r 2" /\ Init' /\ opt' = Options(PerfRating)
               /\ sol' = SolutionOf(bits_c)
      BY <2>2, <2>3, <2>6 DEF ProcessInv, Options
    <2>7. QED
      BY <1>1, <2>4, <2>5, <2>6, BuildStarts
  <1>2. CASE BtestStep \/ BtestSigalrm \/ UNCHANGED dvars
    <2>1. [Next]_vars /\ UNCHANGED <<given, bits_c, dpc>>
      BY <1>2 DEF BtestStep, BtestSigalrm, dvars, Next, files
    <2>2. UNCHANGED <<opt, sol, prompt>>
      BY <2>1, PromptUnchanged
    <2>3. SolutionOf(bits_c)' = SolutionOf(bits_c)
      BY <2>1 DEF SolutionOf, Emptied, given
    <2>4. ASSUME Testing, prompt PROVE PrintedInv'
      <3>1. opt = Options(TableRating) \/ opt = Options(PerfRating)
        BY <2>4 DEF DInv, ProcessInv
      <3>2. Orderly
        BY <2>4, <3>1 DEF Orderly, Options
      <3>3. IInv /\ PrintedInv
        BY <2>4 DEF DInv, ProcessInv
      <3>4. QED
        BY <2>1, <3>2, <3>3, NextPrintedInv
    <2>5. QED
      BY <2>1, <2>2, <2>3, <2>4 DEF DInv, ProcessInv, Testing, Options
  <1>3. CASE DriverNext /\ ~BuildAndTest /\ ~BtestStep /\ ~BtestSigalrm
    BY <1>3, Commands DEF ProcessInv, Testing
  <1>4. QED
    BY <1>1, <1>2, <1>3

LEMMA NextSourceInv ==
    ASSUME DInv, [DriverNext]_dvars
    PROVE  SourceInv'
  <1> USE DEF DInv, SourceInv, First, Between, Second
  <1>1. CASE CheckNickname \/ Report
    BY <1>1 DEF CheckNickname, Report, Checked, Succeeds, Fails
  <1>2. CASE MakeScratch
    BY <1>2 DEF MakeScratch, Checked, Succeeds, Fails
  <1>3. CASE RunDlc
    BY <1>3 DEF RunDlc, Checked, Succeeds, Fails, files
  <1>4. CASE CopyZapped
    BY <1>4 DEF CopyZapped, CopyOver
  <1>5. CASE CopyZappedAgain
    BY <1>5 DEF CopyZappedAgain, CopyOver
  <1>6. CASE BuildAndTest
    BY <1>6, BuildStarts DEF files
  <1>7. CASE BtestEnds
    BY <1>7 DEF BtestEnds, Testing
  <1>8. CASE BtestStep \/ BtestSigalrm
    BY <1>8 DEF BtestStep, BtestSigalrm, files
  <1>9. CASE CollectCorrectness \/ CollectPerformance \/ Clean
    BY <1>9 DEF CollectCorrectness, CollectPerformance, Clean, Succeeds, Fails
  <1>10. CASE UNCHANGED dvars
    BY <1>10 DEF dvars, files
  <1>11. QED
    BY <1>1, <1>2, <1>3, <1>4, <1>5, <1>6, <1>7, <1>8, <1>9, <1>10 DEF DriverNext, DriverStep

(* What the runs printed stays what it is.                                 *)
LEMMA SameRuns ==
    ASSUME RunsInv, UNCHANGED <<given, prompt, zapped_out, Zapped_out, stale>>,
           dpc' \in Between => dpc \in Between /\ bits_c' = bits_c,
           dpc' \in Second => dpc \in Second /\ bits_c' = bits_c,
           dpc' \in After => dpc \in After
    PROVE  RunsInv'
  <1>1. \A source : Deserving(source)' = Deserving(source)
    BY SameGiven
  <1>2. bits_c' = bits_c => Deserving(bits_c)' = Deserving(bits_c)
    BY DEF Deserving, Emptied, Right, given
  <1>3. Deserving("zapped")' = Deserving("zapped") /\ Deserving("Zapped")' = Deserving("Zapped")
    BY DEF Deserving, Emptied, Right, given
  <1>4. QED
    BY <1>2, <1>3 DEF RunsInv, Between, Second, After

LEMMA NextRunsInv ==
    ASSUME DInv, UNCHANGED prompt, [DriverNext]_dvars
    PROVE  RunsInv'
  <1>1. RunsInv
    BY DEF DInv
  <1>2. CASE CheckNickname \/ Report \/ CollectCorrectness \/ CollectPerformance
    <2>1. /\ UNCHANGED <<given, zapped_out, Zapped_out, stale, bits_c>>
          /\ \/ dpc' \notin Between \cup Second \cup After
             \/ dpc \in After /\ dpc' \in After
      BY <1>2 DEF CheckNickname, Report, CollectCorrectness, CollectPerformance,
         Checked, Succeeds, Fails, files, Between, Second, After
    <2>2. QED
      BY <1>1, <2>1, SameRuns DEF Between, Second, After
  <1>3. CASE MakeScratch \/ CopyZapped
    <2>1. UNCHANGED <<given, zapped_out, Zapped_out>> /\ dpc' \notin Between \cup Second \cup After
      BY <1>3 DEF MakeScratch, CopyZapped, CopyOver, Checked, Succeeds, Fails, Between, Second, After
    <2>2. QED
      BY <2>1 DEF RunsInv
  <1>4. CASE RunDlc
    <2>1. UNCHANGED <<given, zapped_out, Zapped_out, stale, bits_c>>
      BY <1>4 DEF RunDlc, files
    <2>2. /\ dpc' \in Between => dpc \in Between
          /\ dpc' \in Second => dpc \in Second
          /\ dpc' \in After => dpc \in After
      BY <1>4 DEF RunDlc, Checked, Succeeds, Fails, Between, Second, After
    <2>3. QED
      BY <1>1, <2>1, <2>2, SameRuns
  <1>5. CASE CopyZappedAgain
    <2>1. /\ dpc = "cp Zap" /\ dpc' = "make btest again" /\ UNCHANGED <<given, zapped_out>>
          /\ \/ bits_c' = "Zapped" /\ UNCHANGED stale
             \/ stale' = TRUE /\ UNCHANGED bits_c
      BY <1>5 DEF CopyZappedAgain, CopyOver
    <2>2. Deserving(bits_c)' \subseteq Deserving(bits_c)
      <3>1. CASE bits_c' = "Zapped"
        <4>1. Deserving(bits_c)' = Deserving("Zapped")
          BY <2>1, <3>1 DEF Deserving, Emptied, Right, given
        <4>2. QED
          BY <4>1, DeservingLess
      <3>2. CASE bits_c' = bits_c
        BY <2>1, <3>2 DEF Deserving, Emptied, Right, given
      <3>3. QED
        BY <2>1, <3>1, <3>2
    <2>3. Deserving("zapped")' = Deserving("zapped")
      BY <2>1 DEF Deserving, Emptied, Right, given
    <2>4. prompt => PrintedBy(zapped_out, Deserving(bits_c), TableRating)
      BY <1>1, <2>1 DEF RunsInv, Between
    <2>5. ~stale => bits_c = "zapped"
      BY <2>1 DEF DInv, SourceInv, Between
    <2>6. Deserving(bits_c) \in SUBSET Funcs
      BY DEF Deserving
    <2>7. ~stale' => ~stale
      BY <2>1
    <2>8. ASSUME prompt'
          PROVE  \E s \in SUBSET Funcs :
                     /\ PrintedBy(zapped_out', s, TableRating)
                     /\ Deserving(bits_c)' \subseteq s
                     /\ ~stale' => s = Deserving("zapped")'
      <3>1. PrintedBy(zapped_out', Deserving(bits_c), TableRating)
        BY <2>1, <2>4, <2>8
      <3>2. ~stale' => Deserving(bits_c) = Deserving("zapped")'
        BY <2>3, <2>5, <2>7
      <3>3. QED
        BY <2>2, <2>6, <3>1, <3>2
    <2>9. QED
      BY <2>1, <2>8 DEF RunsInv, Between, Second, After
  <1>6. CASE BuildAndTest
    <2>1. UNCHANGED <<given, zapped_out, Zapped_out, stale, bits_c>>
      BY <1>6, BuildStarts DEF files
    <2>2. /\ dpc' \in Between => dpc \in Between
          /\ dpc' \in Second => dpc \in Second
          /\ dpc' \in After => dpc \in After
      BY <1>6, BuildStarts DEF Between, Second, After
    <2>3. QED
      BY <1>1, <2>1, <2>2, SameRuns
  <1>7. CASE BtestStep \/ BtestSigalrm \/ UNCHANGED dvars
    <2>1. UNCHANGED <<given, zapped_out, Zapped_out, stale, bits_c, dpc>>
      BY <1>7 DEF BtestStep, BtestSigalrm, files, dvars
    <2>2. QED
      BY <1>1, <2>1, SameRuns
  <1>8. CASE Clean
    <2>1. UNCHANGED <<given, zapped_out, Zapped_out, stale>> /\ dpc \in After /\ dpc' = "done"
      BY <1>8 DEF Clean, After
    <2>2. QED
      BY <1>1, <2>1, SameRuns DEF Between, Second, After
  <1>9. CASE BtestEnds
    <2>7. CASE pc = "crashed"
      <3>1. dpc' = "died"
        BY <1>9, <2>7 DEF BtestEnds
      <3>2. QED
        BY <3>1 DEF RunsInv, Between, Second, After
    <2> SUFFICES ASSUME prompt, pc # "crashed"
                 PROVE  RunsInv'
      BY <2>7 DEF RunsInv
    <2>1. /\ Testing /\ pc = "done" /\ UNCHANGED <<given, bits_c, stale>>
      BY <1>9 DEF BtestEnds
    <2>2. PrintedInv /\ pc = "done" /\ sol = SolutionOf(bits_c)
      BY <2>1 DEF DInv, ProcessInv
    <2>3. /\ Deserving("zapped")' = Deserving("zapped") /\ Deserving("Zapped")' = Deserving("Zapped")
          /\ Deserving(bits_c)' = Deserving(bits_c)
      BY <2>1 DEF Deserving, Emptied, Right, given
    <2>4. CASE dpc = "btest -g"
      <3>1. dpc' = "dlc -Z" /\ zapped_out' = output
        BY <1>9, <2>2, <2>4 DEF BtestEnds
      <3>2. opt = Options(TableRating)
        BY <2>1, <2>4 DEF DInv, ProcessInv
      <3>3. PrintedBy(output, Deserving(bits_c), TableRating)
        BY <2>2, <3>2, RunEnds DEF DInv
      <3>4. PrintedBy(zapped_out', Deserving(bits_c)', TableRating)
        BY <2>3, <3>1, <3>3
      <3>5. QED
        BY <3>1, <3>4 DEF RunsInv, Between, Second, After
    <2>5. CASE dpc = "btest -g -r 2"
      <3>1. dpc' = "dlc -e" /\ Zapped_out' = output /\ zapped_out' = zapped_out
        BY <1>9, <2>2, <2>5 DEF BtestEnds
      <3>2. opt = Options(PerfRating)
        BY <2>1, <2>5 DEF DInv, ProcessInv
      <3>3. PrintedBy(output, Deserving(bits_c), PerfRating)
        BY <2>2, <3>2, RunEnds DEF DInv
      <3>4. PICK s \in SUBSET Funcs : /\ PrintedBy(zapped_out, s, TableRating)
                                      /\ Deserving(bits_c) \subseteq s
                                      /\ ~stale => s = Deserving("zapped")
        BY <1>1, <2>5 DEF RunsInv, Second
      <3>5. ~stale => Deserving(bits_c) = Deserving("Zapped")
        BY <2>5 DEF DInv, SourceInv, Second
      <3>6. Deserving(bits_c) \in SUBSET Funcs
        BY DEF Deserving
      <3>7. \E u, t \in SUBSET Funcs :
                /\ PrintedBy(zapped_out', u, TableRating)
                /\ PrintedBy(Zapped_out', t, PerfRating)
                /\ t \subseteq u
                /\ ~stale' => u = Deserving("zapped")' /\ t = Deserving("Zapped")'
        BY <2>1, <2>3, <3>1, <3>3, <3>4, <3>5, <3>6
      <3>8. QED
        BY <3>1, <3>7 DEF RunsInv, Between, Second, After
    <2>6. QED
      BY <2>1, <2>4, <2>5 DEF Testing
  <1>10. QED
    BY <1>2, <1>3, <1>4, <1>5, <1>6, <1>7, <1>8, <1>9 DEF DriverNext, DriverStep

LEMMA NextTablesInv ==
    ASSUME DInv, [DriverNext]_dvars
    PROVE  TablesInv'
  <1> USE DEF DInv, TablesInv
  <1>1. CASE CheckNickname \/ MakeScratch \/ RunDlc
    BY <1>1 DEF CheckNickname, MakeScratch, RunDlc, Checked, Succeeds, Fails
  <1>2. CASE CopyZapped \/ CopyZappedAgain
    BY <1>2 DEF CopyZapped, CopyZappedAgain
  <1>3. CASE BuildAndTest
    BY <1>3, BuildStarts
  <1>4. CASE BtestEnds
    BY <1>4 DEF BtestEnds, Testing
  <1>5. CASE CollectCorrectness
    BY <1>5 DEF CollectCorrectness, Succeeds, Fails, files
  <1>6. CASE CollectPerformance
    BY <1>6 DEF CollectPerformance, Succeeds, Fails, files
  <1>7. CASE Report
    BY <1>7 DEF Report, Checked, Succeeds, Fails, files, tables
  <1>8. CASE Clean
    BY <1>8 DEF Clean, tables
  <1>9. CASE BtestStep \/ BtestSigalrm
    BY <1>9 DEF BtestStep, BtestSigalrm, Testing
  <1>10. CASE UNCHANGED dvars
    BY <1>10 DEF dvars, files, tables
  <1>11. QED
    BY <1>1, <1>2, <1>3, <1>4, <1>5, <1>6, <1>7, <1>8, <1>9, <1>10 DEF DriverNext, DriverStep

(* The driver's inductive invariant holds in every reachable state.        *)
THEOREM DriverInvariance == DriverSpec => []DInv
  <1>1. DriverInit => DInv
    BY InitDInv
  <1>2. DInv /\ [DriverNext]_dvars => DInv'
    <2> SUFFICES ASSUME DInv, [DriverNext]_dvars PROVE DInv'
      OBVIOUS
    <2>1. IInv' /\ UNCHANGED prompt
      BY DriverIInv
    <2>2. UNCHANGED given
      BY NextGiven DEF dvars
    <2>3. GivenInv'
      BY <2>2, SameGiven DEF DInv
    <2>4. QED
      BY <2>1, <2>3, NextProcessInv, NextSourceInv, NextRunsInv, NextTablesInv DEF DInv
  <1>3. QED
    BY <1>1, <1>2, PTL DEF DriverSpec

-----------------------------------------------------------------------------
(* The tables read from what a run printed: an entry for each row and, in  *)
(* between, entries that are no puzzle's and count for nothing.            *)

EntryOf(line) == [name |-> line.fn, points |-> line.tpoints, rating |-> line.rating]

Once(lines) == \A m, n \in RowsOf(lines) : lines[m].fn = lines[n].fn => m = n

ReadTo(table, lines, k) ==
    /\ table \in Seq(Entry)
    /\ \A n \in RowsOf(lines) : n <= k => \E p \in DOMAIN table : table[p] = EntryOf(lines[n])
    /\ \A p \in DOMAIN table :
          \/ table[p].name \notin Funcs /\ table[p].points = 0 /\ table[p].rating = 0
          \/ \E n \in RowsOf(lines) : n <= k /\ table[p] = EntryOf(lines[n])
    /\ Once(lines) =>
          \A p, q \in DOMAIN table :
              table[p].name \in Funcs /\ table[p].name = table[q].name => p = q

LEMMA LineTypes ==
    ASSUME NEW lines \in Seq(Row \cup TimeOutMessage), NEW n \in DOMAIN lines
    PROVE  /\ n \in RowsOf(lines) =>
                  /\ lines[n] \in Row
                  /\ EntriesOf(lines[n]) = <<EntryOf(lines[n])>>
                  /\ EntryOf(lines[n]) \in Entry
           /\ n \notin RowsOf(lines) =>
                  EntriesOf(lines[n]) = <<[name |-> NoName, points |-> 0, rating |-> 0],
                                          [name |-> Ten, points |-> 0, rating |-> 0]>>
           /\ EntriesOf(lines[n]) \in Seq(Entry)
  <1>1. lines[n] \in Row \cup TimeOutMessage
    BY ElementOfSeq, LenProperties
  <1>2. n \in RowsOf(lines) <=> lines[n].kind = "row"
    BY DEF RowsOf
  <1>3. CASE n \in RowsOf(lines)
    <2>1. lines[n] \in Row /\ lines[n].kind = "row"
      BY <1>1, <1>2, <1>3 DEF TimeOutMessage
    <2>2. EntryOf(lines[n]) \in Entry
      BY <2>1 DEF EntryOf, Entry, Row
    <2>3. EntriesOf(lines[n]) = <<EntryOf(lines[n])>>
      BY <2>1 DEF EntriesOf, EntryOf
    <2> DEFINE e == EntryOf(lines[n])
    <2> HIDE DEF e
    <2>4. <<e>> \in Seq(Entry)
      BY <2>2 DEF e
    <2>5. QED
      BY <1>3, <2>1, <2>2, <2>3, <2>4 DEF e
  <1>4. CASE n \notin RowsOf(lines)
    <2> DEFINE d == [name |-> NoName, points |-> 0, rating |-> 0]
               e == [name |-> Ten, points |-> 0, rating |-> 0]
    <2>1. EntriesOf(lines[n]) = <<d, e>>
      BY <1>2, <1>4 DEF EntriesOf
    <2>2. d \in Entry /\ e \in Entry
      BY DEF Entry
    <2>3. ASSUME NEW x \in Entry, NEW y \in Entry PROVE <<x, y>> \in Seq(Entry)
      OBVIOUS
    <2>4. <<d, e>> \in Seq(Entry)
      <3> HIDE DEF d, e
      <3>1. QED
        BY <2>2, <2>3
    <2>5. QED
      BY <1>4, <2>1, <2>4
  <1>5. QED
    BY <1>3, <1>4

LEMMA ReadMore ==
    ASSUME NEW lines \in Seq(Row \cup TimeOutMessage),
           NEW k \in 0..(Len(lines) - 1), NEW table, ReadTo(table, lines, k)
    PROVE  ReadTo(table \o EntriesOf(lines[k + 1]), lines, k + 1)
  <1> DEFINE more == EntriesOf(lines[k + 1])
             longer == table \o more
  <1>1. /\ Len(lines) \in Nat /\ DOMAIN lines = 1..Len(lines) /\ k + 1 \in DOMAIN lines
        /\ RowsOf(lines) \subseteq 1..Len(lines)
    BY LenProperties DEF RowsOf
  <1>2. table \in Seq(Entry) /\ more \in Seq(Entry)
    BY <1>1, LineTypes DEF ReadTo
  <1> DEFINE l == Len(table)
  <1>3. /\ l \in Nat /\ Len(more) \in Nat /\ DOMAIN table = 1..l /\ DOMAIN more = 1..Len(more)
    BY <1>2, LenProperties
  <1>4. /\ longer \in Seq(Entry) /\ DOMAIN longer = 1..(l + Len(more))
        /\ \A p \in 1..l : longer[p] = table[p]
        /\ \A p \in 1..Len(more) : longer[l + p] = more[p]
    <2> HIDE DEF more
    <2>1. longer \in Seq(Entry) /\ Len(longer) = l + Len(more)
      BY <1>2, ConcatProperties
    <2>2. \A p \in 1..(l + Len(more)) : longer[p] = IF p <= l THEN table[p] ELSE more[p - l]
      BY <1>2, ConcatProperties
    <2>3. \A p \in 1..l : longer[p] = table[p]
      BY <1>3, <2>2
    <2>4. ASSUME NEW p \in 1..Len(more) PROVE longer[l + p] = more[p]
      <3>1. l + p \in 1..(l + Len(more)) /\ ~(l + p <= l) /\ (l + p) - l = p
        BY <1>3
      <3>2. QED
        BY <2>2, <3>1
    <2>5. DOMAIN longer = 1..(l + Len(more))
      BY <2>1, LenProperties
    <2>6. QED
      BY <2>1, <2>3, <2>4, <2>5
  <1>5. \A n \in RowsOf(lines) : n <= k + 1 <=> n <= k \/ n = k + 1
    BY <1>1
  <1>6. /\ \A n \in RowsOf(lines) : n <= k => \E p \in DOMAIN table : table[p] = EntryOf(lines[n])
        /\ \A p \in 1..l :
              \/ table[p].name \notin Funcs /\ table[p].points = 0 /\ table[p].rating = 0
              \/ \E n \in RowsOf(lines) : n <= k /\ table[p] = EntryOf(lines[n])
        /\ Once(lines) =>
              \A p, q \in 1..l :
                  table[p].name \in Funcs /\ table[p].name = table[q].name => p = q
    BY <1>3 DEF ReadTo
  <1> HIDE DEF more, longer, l
  <1>7. \A p \in DOMAIN longer : p \in 1..l \/ \E q \in 1..Len(more) : p = l + q
    <2> SUFFICES ASSUME NEW p \in 1..(l + Len(more)), p > l
                 PROVE  \E q \in 1..Len(more) : p = l + q
      BY <1>3, <1>4
    <2>1. p - l \in 1..Len(more) /\ p = l + (p - l)
      BY <1>3
    <2>2. QED
      BY <2>1
  <1>8. /\ 1..l \subseteq DOMAIN longer
        /\ \A q \in 1..Len(more) : l + q \in DOMAIN longer
    BY <1>3, <1>4
  <1>9. CASE k + 1 \in RowsOf(lines)
    <2>1. more = <<EntryOf(lines[k + 1])>> /\ lines[k + 1] \in Row
      BY <1>1, <1>9, LineTypes DEF more
    <2>2. Len(more) = 1 /\ more[1] = EntryOf(lines[k + 1])
      BY <2>1
    <2>3. \A p \in DOMAIN longer : p \in 1..l \/ p = l + 1
      BY <1>7, <2>2
    <2>4. longer[l + 1] = EntryOf(lines[k + 1]) /\ l + 1 \in DOMAIN longer
      BY <1>4, <1>8, <2>2
    <2>5. \A n \in RowsOf(lines) : n <= k + 1 =>
              \E p \in DOMAIN longer : longer[p] = EntryOf(lines[n])
      BY <1>3, <1>4, <1>5, <1>6, <1>8, <2>4
    <2>6. \A p \in DOMAIN longer :
              \/ longer[p].name \notin Funcs /\ longer[p].points = 0 /\ longer[p].rating = 0
              \/ \E n \in RowsOf(lines) : n <= k + 1 /\ longer[p] = EntryOf(lines[n])
      <3>1. \A p \in 1..l :
              \/ longer[p].name \notin Funcs /\ longer[p].points = 0 /\ longer[p].rating = 0
              \/ \E n \in RowsOf(lines) : n <= k + 1 /\ longer[p] = EntryOf(lines[n])
        BY <1>4, <1>5, <1>6
      <3>2. k + 1 <= k + 1
        OBVIOUS
      <3>3. QED
        BY <1>9, <2>3, <2>4, <3>1, <3>2
    <2>7. Once(lines) =>
              \A p \in 1..l : longer[p].name \in Funcs => longer[p].name # longer[l + 1].name
      <3> SUFFICES ASSUME Once(lines), NEW p \in 1..l, table[p].name \in Funcs
                   PROVE  table[p].name # lines[k + 1].fn
        BY <1>4, <2>4 DEF EntryOf
      <3>1. PICK n \in RowsOf(lines) : n <= k /\ table[p] = EntryOf(lines[n])
        BY <1>6
      <3>2. n # k + 1
        BY <1>1, <3>1
      <3>3. lines[n].fn # lines[k + 1].fn
        BY <1>9, <3>2 DEF Once
      <3>4. QED
        BY <3>1, <3>3 DEF EntryOf
    <2>8. Once(lines) =>
              \A p, q \in DOMAIN longer :
                  longer[p].name \in Funcs /\ longer[p].name = longer[q].name => p = q
      BY <1>4, <1>6, <2>3, <2>7
    <2>9. QED
      BY <1>4, <2>5, <2>6, <2>8 DEF ReadTo, longer, more
  <1>10. CASE k + 1 \notin RowsOf(lines)
    <2>1. more = <<[name |-> NoName, points |-> 0, rating |-> 0],
                   [name |-> Ten, points |-> 0, rating |-> 0]>>
      BY <1>1, <1>10, LineTypes DEF more
    <2>2. \A q \in 1..Len(more) : /\ more[q].name \notin Funcs
                                  /\ more[q].points = 0 /\ more[q].rating = 0
      <3>1. NoName \notin Funcs /\ Ten \notin Funcs
        BY BtestAssumption DEF NoName, Ten, Funcs
      <3>2. 1..Len(more) = {1, 2}
        BY <2>1
      <3>3. /\ more[1].name = NoName /\ more[1].points = 0 /\ more[1].rating = 0
            /\ more[2].name = Ten /\ more[2].points = 0 /\ more[2].rating = 0
        BY <2>1
      <3>4. QED
        BY <3>1, <3>2, <3>3
    <2>3. \A p \in DOMAIN longer : p \in 1..l \/ 
              (longer[p].name \notin Funcs /\ longer[p].points = 0 /\ longer[p].rating = 0)
      BY <1>4, <1>7, <2>2
    <2>4. \A n \in RowsOf(lines) : n <= k + 1 =>
              \E p \in DOMAIN longer : longer[p] = EntryOf(lines[n])
      BY <1>3, <1>4, <1>5, <1>6, <1>8, <1>10
    <2>5. \A p \in DOMAIN longer :
              \/ longer[p].name \notin Funcs /\ longer[p].points = 0 /\ longer[p].rating = 0
              \/ \E n \in RowsOf(lines) : n <= k + 1 /\ longer[p] = EntryOf(lines[n])
      BY <1>4, <1>5, <1>6, <2>3
    <2>6. Once(lines) =>
              \A p, q \in DOMAIN longer :
                  longer[p].name \in Funcs /\ longer[p].name = longer[q].name => p = q
      BY <1>4, <1>6, <2>3
    <2>7. QED
      BY <1>4, <2>4, <2>5, <2>6 DEF ReadTo, longer, more
  <1>11. QED
    BY <1>9, <1>10

(* The lines up to each one, joined: FlattenSeq's recursive function.      *)
Joined(f, lines) ==
    /\ f[1] = EntriesOf(lines[1])
    /\ \A n \in 2..Len(lines) : f[n] = f[n - 1] \o EntriesOf(lines[n])

LEMMA TableJoins ==
    ASSUME NEW lines \in Seq(Row \cup TimeOutMessage), lines # <<>>
    PROVE  \E f : Joined(f, lines) /\ Table(lines) = f[Len(lines)]
  <1> DEFINE L == Len(lines)
             D == 1..L
             V == Seq(Entry)
             seqs == [n \in DOMAIN lines |-> EntriesOf(lines[n])]
             rank == [n \in D |-> n]
             next == [n \in D |-> IF n = 1 THEN 1 ELSE n - 1]
             op   == [n \in D |-> [v \in V |-> v \o seqs[n]]]
             Body(f) == [n \in 1..Len(seqs) |-> IF n = 1 THEN seqs[n] ELSE f[n - 1] \o seqs[n]]
  <1>1. L \in Nat \ {0} /\ DOMAIN lines = D
    BY EmptySeq, LenProperties
  <1>2. /\ seqs \in [D -> V] /\ \A n \in D : seqs[n] = EntriesOf(lines[n]) /\ seqs[n] \in V
    BY <1>1, LineTypes
  <1>3. Len(seqs) = L
    <2>1. seqs \in [1..L -> V]
      BY <1>2
    <2>2. seqs \in Seq(V)
      BY <1>1, <2>1
    <2>3. DOMAIN seqs = 1..Len(seqs) /\ Len(seqs) \in Nat
      BY <2>2, LenProperties
    <2>4. DOMAIN seqs = 1..L
      BY <2>1
    <2>5. QED
      BY <1>1, <2>3, <2>4
  <1>4. Table(lines) = (CHOOSE f : f = Body(f))[L]
    BY <1>1, <1>3 DEF Table, FlattenSeq
  <1>5. /\ rank \in [D -> 0..L] /\ next \in [D -> D]
        /\ \A n \in D : rank[n] = n /\ (n # 1 => next[n] = n - 1)
    BY <1>1
  <1>6. op \in [D -> [V -> V]] /\ \A n \in D, v \in V : op[n][v] = v \o seqs[n]
    <2>1. \A n \in D, v \in V : v \o seqs[n] \in V
      BY <1>2, ConcatProperties
    <2>2. QED
      BY <2>1
  <1> HIDE DEF rank, next, op, seqs, V
  <1>7. Descends(rank, next, {1}, D)
    <2>1. \A n \in D : n # 1 => n - 1 \in D /\ n - 1 < n
      BY <1>1
    <2>2. QED
      BY <1>5, <2>1 DEF Descends
  <1>8. PICK g \in [D -> V] : Recursive(g, seqs, op, next, {1}, D)
    <2>1. L \in Nat
      BY <1>1
    <2> HIDE DEF D, L
    <2>2. QED
      BY <1>2, <1>5, <1>6, <1>7, <2>1, Recursion
  <1>9. g = Body(g)
    <2>1. ASSUME NEW n \in D
          PROVE  g[n] = IF n = 1 THEN seqs[n] ELSE g[n - 1] \o seqs[n]
      <3>1. CASE n = 1
        BY <1>8, <3>1 DEF Recursive
      <3>2. CASE n # 1
        <4>1. n - 1 \in D /\ next[n] = n - 1
          BY <1>1, <1>5, <3>2
        <4>2. g[n] = op[n][g[next[n]]] /\ g[n - 1] \in V
          BY <1>8, <3>2, <4>1, SMTT(30) DEF Recursive
        <4>3. QED
          BY <1>6, <3>2, <4>1, <4>2
      <3>3. QED
        BY <3>1, <3>2
    <2>2. QED
      BY <1>3, <1>8, <2>1
  <1> DEFINE f == CHOOSE h : h = Body(h)
  <1>10. f = Body(f)
    BY <1>9, Zenon
  <1> HIDE DEF f
  <1>11. \A n \in D : f[n] = IF n = 1 THEN seqs[n] ELSE f[n - 1] \o seqs[n]
    BY <1>3, <1>10
  <1>12. Joined(f, lines)
    <2>1. f[1] = EntriesOf(lines[1])
      BY <1>1, <1>2, <1>11
    <2>2. \A n \in 2..L : n \in D /\ n # 1
      BY <1>1
    <2>3. \A n \in 2..L : f[n] = f[n - 1] \o EntriesOf(lines[n])
      BY <1>2, <1>11, <2>2
    <2>4. QED
      BY <2>1, <2>3 DEF Joined
  <1>13. QED
    BY <1>4, <1>12 DEF f

LEMMA TableReads ==
    ASSUME NEW lines \in Seq(Row \cup TimeOutMessage)
    PROVE  ReadTo(Table(lines), lines, Len(lines))
  <1>1. Len(lines) \in Nat /\ DOMAIN lines = 1..Len(lines) /\ RowsOf(lines) \subseteq 1..Len(lines)
    BY LenProperties DEF RowsOf
  <1>2. ReadTo(<<>>, lines, 0)
    <2>1. <<>> \in Seq(Entry)
      BY EmptySeq
    <2>2. DOMAIN <<>> = {}
      OBVIOUS
    <2>3. \A n \in RowsOf(lines) : ~(n <= 0)
      BY <1>1
    <2>4. QED
      BY <2>1, <2>2, <2>3 DEF ReadTo
  <1>3. CASE lines = <<>>
    <2>1. DOMAIN lines = {} /\ Len(lines) = 0
      BY <1>3
    <2>2. [n \in DOMAIN lines |-> EntriesOf(lines[n])] = <<>>
      BY <2>1
    <2>3. Table(lines) = <<>>
      BY <2>2 DEF Table, FlattenSeq
    <2>4. QED
      BY <1>2, <2>1, <2>3
  <1>4. CASE lines # <<>>
    <2>1. PICK f : Joined(f, lines) /\ Table(lines) = f[Len(lines)]
      BY <1>4, TableJoins
    <2>2. Len(lines) >= 1
      BY <1>4, EmptySeq
    <2> DEFINE T == {k \in 1..Len(lines) : ReadTo(f[k], lines, k)}
    <2>3. 1 \in T
      <3>1. ReadTo(<<>> \o EntriesOf(lines[0 + 1]), lines, 0 + 1)
        <4>1. 0 \in 0..(Len(lines) - 1)
          BY <1>1, <2>2
        <4>2. QED
          BY <1>2, <4>1, ReadMore
      <3>2. <<>> \o EntriesOf(lines[1]) = EntriesOf(lines[1])
        <4>1. EntriesOf(lines[1]) \in Seq(Entry)
          BY <1>1, <2>2, LineTypes
        <4>2. QED
          BY <4>1, ConcatEmptySeq
      <3>3. QED
        BY <1>1, <2>1, <2>2, <3>1, <3>2 DEF Joined
    <2>4. ASSUME NEW k \in 1..(Len(lines) - 1), k \in T PROVE k + 1 \in T
      <3>1. k \in 0..(Len(lines) - 1) /\ k + 1 \in 2..Len(lines) /\ k + 1 \in 1..Len(lines)
            /\ (k + 1) - 1 = k
        BY <1>1
      <3> DEFINE t == f[k]
      <3>2. ReadTo(t, lines, k)
        BY <2>4
      <3>3. f[k + 1] = t \o EntriesOf(lines[k + 1])
        BY <2>1, <3>1 DEF Joined
      <3> HIDE DEF t
      <3>4. ReadTo(t \o EntriesOf(lines[k + 1]), lines, k + 1)
        BY <3>1, <3>2, ReadMore
      <3>5. QED
        BY <3>1, <3>3, <3>4
    <2>5. Len(lines) \in T
      <3>1. 1..Len(lines) \subseteq T
        <4>1. 1 \in Int /\ Len(lines) \in Int /\ \A k \in 1..(Len(lines) - 1) : k \in T => k + 1 \in T
          BY <1>1, <2>4
        <4> HIDE DEF T
        <4>2. QED
          BY <2>3, <4>1, IntervalInduction
      <3>2. QED
        BY <1>1, <2>2, <3>1
    <2>6. QED
      BY <2>1, <2>5
  <1>5. QED
    BY <1>3, <1>4

-----------------------------------------------------------------------------
(* The scores *)

(* Each puzzle has one entry in a table, which is that of its row.         *)
LEMMA PuzzleEntry ==
    ASSUME NEW lines, NEW deserving, NEW rating, PrintedBy(lines, deserving, rating),
           NEW f \in Funcs
    PROVE  \E p \in DOMAIN Table(lines) :
               /\ {n \in DOMAIN Table(lines) : Table(lines)[n].name = f} = {p}
               /\ Table(lines)[p].points =
                      IF f \in deserving /\ ~TimedOut(lines, f) THEN Worth(rating, f) ELSE 0
               /\ Table(lines)[p].rating = Worth(rating, f)
               /\ PointsOf(Table(lines), f) = Table(lines)[p].points
               /\ RatingIn(Table(lines), f) = Table(lines)[p].rating
  <1> DEFINE table == Table(lines)
  <1>1. lines \in Seq(Row \cup TimeOutMessage) /\ Once(lines)
    BY DEF PrintedBy, Once
  <1>2. ReadTo(table, lines, Len(lines))
    BY <1>1, TableReads
  <1>3. PICK n \in RowsOf(lines) : lines[n].fn = f
    BY DEF PrintedBy
  <1>4. n <= Len(lines)
    BY <1>1, LenProperties DEF RowsOf
  <1> HIDE DEF table
  <1>5. PICK p \in DOMAIN table : table[p] = EntryOf(lines[n])
    BY <1>2, <1>3, <1>4 DEF ReadTo
  <1>6. table[p].name = f /\ table[p].points = lines[n].tpoints /\ table[p].rating = lines[n].rating
    BY <1>3, <1>5 DEF EntryOf
  <1>7. {m \in DOMAIN table : table[m].name = f} = {p}
    BY <1>1, <1>2, <1>5, <1>6 DEF ReadTo
  <1>8. DOMAIN table \subseteq Nat
    <2>1. table \in Seq(Entry)
      BY <1>2 DEF ReadTo
    <2>2. QED
      BY <2>1, LenProperties
  <1>9. Max({p}) = p
    BY <1>5, <1>8 DEF Max
  <1>10. PointsOf(table, f) = table[p].points /\ RatingIn(table, f) = table[p].rating
    BY <1>7, <1>9 DEF PointsOf, RatingIn
  <1>11. /\ table[p].points =
                IF f \in deserving /\ ~TimedOut(lines, f) THEN Worth(rating, f) ELSE 0
         /\ table[p].rating = Worth(rating, f)
    BY <1>3, <1>6 DEF PrintedBy
  <1>12. QED
    BY <1>5, <1>7, <1>10, <1>11 DEF table

LEMMA ReportedRuns ==
    ASSUME DInv, Reported, prompt
    PROVE  \E s, t \in SUBSET Funcs :
               /\ PrintedBy(zapped_out, s, TableRating)
               /\ PrintedBy(Zapped_out, t, PerfRating)
               /\ t \subseteq s
               /\ ~stale => s = Deserving("zapped") /\ t = Deserving("Zapped")
  BY DEF DInv, RunsInv, Reported, After

LEMMA ReportedTables ==
    ASSUME DInv, Reported
    PROVE  c_table = Table(zapped_out) /\ p_table = Table(Zapped_out)
  BY DEF DInv, TablesInv, Reported

(* The performance run scores no function that the correctness run did not *)
(* score, unless that one timed out, even when a run tested the wrong      *)
(* source because a copy of bits.c failed.                                 *)
THEOREM PerformanceNeedsCorrectness == DriverSpec => []NoPerformanceWithoutCorrectness
  <1>1. DInv => NoPerformanceWithoutCorrectness
    <2> SUFFICES ASSUME DInv, Reported, prompt, NEW f \in Funcs, PointsOf(p_table, f) > 0
                 PROVE  PointsOf(c_table, f) > 0 \/ TimedOut(zapped_out, f)
      BY DEF NoPerformanceWithoutCorrectness
    <2>1. PICK s, t \in SUBSET Funcs :
              /\ PrintedBy(zapped_out, s, TableRating)
              /\ PrintedBy(Zapped_out, t, PerfRating)
              /\ t \subseteq s
      BY ReportedRuns
    <2>2. PointsOf(p_table, f) =
              IF f \in t /\ ~TimedOut(Zapped_out, f) THEN Worth(PerfRating, f) ELSE 0
      BY <2>1, PuzzleEntry, ReportedTables
    <2>3. PointsOf(c_table, f) =
              IF f \in s /\ ~TimedOut(zapped_out, f) THEN Worth(TableRating, f) ELSE 0
      BY <2>1, PuzzleEntry, ReportedTables
    <2>4. f \in s
      BY <2>1, <2>2
    <2>5. Worth(TableRating, f) > 0
      BY BtestAssumption DEF Worth, TableRating
    <2>6. QED
      BY <2>3, <2>4, <2>5
  <1>2. QED
    BY <1>1, DriverInvariance, PTL

(* The reported points are those deserved by the coding rules, the number  *)
(* of operators and the tests.                                             *)
THEOREM PointsDeserved == DriverSpec => []ScoresEarned
  <1>1. DInv => ScoresEarned
    <2> SUFFICES ASSUME DInv, Reported, prompt, ~stale, NEW f \in Funcs
                 PROVE  /\ PointsOf(c_table, f) =
                               IF Right(f) /\ f \notin illegal /\ ~TimedOut(zapped_out, f)
                               THEN Rating[f] ELSE 0
                        /\ PointsOf(p_table, f) =
                               IF Right(f) /\ f \notin illegal \cup over
                                  /\ ~TimedOut(Zapped_out, f)
                               THEN PerfRating ELSE 0
      BY DEF ScoresEarned
    <2>1. /\ PrintedBy(zapped_out, Deserving("zapped"), TableRating)
          /\ PrintedBy(Zapped_out, Deserving("Zapped"), PerfRating)
      BY ReportedRuns
    <2>2. PointsOf(p_table, f) =
              IF f \in Deserving("Zapped") /\ ~TimedOut(Zapped_out, f)
              THEN Worth(PerfRating, f) ELSE 0
      BY <2>1, PuzzleEntry, ReportedTables
    <2>3. PointsOf(c_table, f) =
              IF f \in Deserving("zapped") /\ ~TimedOut(zapped_out, f)
              THEN Worth(TableRating, f) ELSE 0
      BY <2>1, PuzzleEntry, ReportedTables
    <2>4. Worth(TableRating, f) = Rating[f] /\ Worth(PerfRating, f) = PerfRating
      BY DEF Worth, TableRating, PerfRating
    <2>5. /\ f \in Deserving("zapped") <=> Right(f) /\ f \notin illegal
          /\ f \in Deserving("Zapped") <=> Right(f) /\ f \notin illegal \cup over
      BY EmptiedIs DEF Deserving
    <2>6. QED
      BY <2>2, <2>3, <2>4, <2>5
  <1>2. QED
    BY <1>1, DriverInvariance, PTL

-----------------------------------------------------------------------------
(* The totals *)

LEMMA PuzzlesSum ==
    ASSUME NEW table, \A f \in Funcs : PointsOf(table, f) \in Int /\ RatingIn(table, f) \in Int
    PROVE  /\ MapThenSumSet(LAMBDA f : PointsOf(table, f), Funcs)
                  = Total([f \in Funcs |-> PointsOf(table, f)], Funcs)
           /\ MapThenSumSet(LAMBDA f : RatingIn(table, f), Funcs)
                  = Total([f \in Funcs |-> RatingIn(table, f)], Funcs)
  <1>1. ASSUME NEW w \in [Funcs -> Int],
               NEW sum, sum = CHOOSE g : g = [s \in SUBSET Funcs |-> IF s = {} THEN 0
                                  ELSE w[CHOOSE x \in s : TRUE] + g[s \ {CHOOSE x \in s : TRUE}]]
        PROVE  sum[Funcs] = Total(w, Funcs)
    <2>1. sum = CHOOSE g : IsFold(g, w, Funcs)
      BY <1>1 DEF IsFold
    <2>2. \A f \in Funcs : w[f] \in Int
      OBVIOUS
    <2>3. QED
      BY <2>1, <2>2, FuncsFinite, ChosenFold
  <1>2. MapThenSumSet(LAMBDA f : PointsOf(table, f), Funcs)
            = Total([f \in Funcs |-> PointsOf(table, f)], Funcs)
    <2> DEFINE w == [f \in Funcs |-> PointsOf(table, f)]
               sum == CHOOSE g : g = [s \in SUBSET Funcs |-> IF s = {} THEN 0
                          ELSE w[CHOOSE x \in s : TRUE] + g[s \ {CHOOSE x \in s : TRUE}]]
               fold == CHOOSE g : g = [s \in SUBSET Funcs |-> IF s = {} THEN 0
                          ELSE PointsOf(table, CHOOSE x \in s : TRUE)
                                   + g[s \ {CHOOSE x \in s : TRUE}]]
    <2>1. MapThenSumSet(LAMBDA f : PointsOf(table, f), Funcs) = fold[Funcs]
      BY DEF MapThenSumSet, MapThenFoldSet
    <2>2. \A s \in SUBSET Funcs : s # {} =>
              w[CHOOSE x \in s : TRUE] = PointsOf(table, CHOOSE x \in s : TRUE)
      OBVIOUS
    <2>3. fold = sum
      <3>1. \A g : (g = [s \in SUBSET Funcs |-> IF s = {} THEN 0
                            ELSE w[CHOOSE x \in s : TRUE] + g[s \ {CHOOSE x \in s : TRUE}]])
                   <=> (g = [s \in SUBSET Funcs |-> IF s = {} THEN 0
                                ELSE PointsOf(table, CHOOSE x \in s : TRUE)
                                         + g[s \ {CHOOSE x \in s : TRUE}]])
        <4> HIDE DEF w
        <4>1. QED
          BY <2>2
      <3> HIDE DEF w
      <3>2. QED
        BY <3>1
    <2>4. w \in [Funcs -> Int]
      OBVIOUS
    <2> HIDE DEF w
    <2>5. sum[Funcs] = Total(w, Funcs)
      BY <1>1, <2>4
    <2>6. QED
      BY <2>1, <2>3, <2>5 DEF w
  <1>3. MapThenSumSet(LAMBDA f : RatingIn(table, f), Funcs)
            = Total([f \in Funcs |-> RatingIn(table, f)], Funcs)
    <2> DEFINE w == [f \in Funcs |-> RatingIn(table, f)]
               sum == CHOOSE g : g = [s \in SUBSET Funcs |-> IF s = {} THEN 0
                          ELSE w[CHOOSE x \in s : TRUE] + g[s \ {CHOOSE x \in s : TRUE}]]
               fold == CHOOSE g : g = [s \in SUBSET Funcs |-> IF s = {} THEN 0
                          ELSE RatingIn(table, CHOOSE x \in s : TRUE)
                                   + g[s \ {CHOOSE x \in s : TRUE}]]
    <2>1. MapThenSumSet(LAMBDA f : RatingIn(table, f), Funcs) = fold[Funcs]
      BY DEF MapThenSumSet, MapThenFoldSet
    <2>2. \A s \in SUBSET Funcs : s # {} =>
              w[CHOOSE x \in s : TRUE] = RatingIn(table, CHOOSE x \in s : TRUE)
      OBVIOUS
    <2>3. fold = sum
      <3>1. \A g : (g = [s \in SUBSET Funcs |-> IF s = {} THEN 0
                            ELSE w[CHOOSE x \in s : TRUE] + g[s \ {CHOOSE x \in s : TRUE}]])
                   <=> (g = [s \in SUBSET Funcs |-> IF s = {} THEN 0
                                ELSE RatingIn(table, CHOOSE x \in s : TRUE)
                                         + g[s \ {CHOOSE x \in s : TRUE}]])
        <4> HIDE DEF w
        <4>1. QED
          BY <2>2
      <3> HIDE DEF w
      <3>2. QED
        BY <3>1
    <2>4. w \in [Funcs -> Int]
      OBVIOUS
    <2> HIDE DEF w
    <2>5. sum[Funcs] = Total(w, Funcs)
      BY <1>1, <2>4
    <2>6. QED
      BY <2>1, <2>3, <2>5 DEF w
  <1>4. QED
    BY <1>2, <1>3

LEMMA EntriesSum ==
    ASSUME NEW table \in Seq(Entry)
    PROVE  /\ IsFiniteSet(DOMAIN table)
           /\ \A n \in DOMAIN table : table[n].points \in Int /\ table[n].rating \in Int
           /\ SumOf(table, EntryPoints) = Total([n \in DOMAIN table |-> table[n].points], DOMAIN table)
           /\ SumOf(table, EntryRating) = Total([n \in DOMAIN table |-> table[n].rating], DOMAIN table)
  <1> DEFINE D == DOMAIN table
  <1>1. IsFiniteSet(D) /\ \A n \in D : table[n].points \in Int /\ table[n].rating \in Int
    <2>1. D = 1..Len(table) /\ Len(table) \in Nat
      BY LenProperties
    <2>2. IsFiniteSet(1..Len(table))
      <3>1. 1 \in Int /\ Len(table) \in Int
        BY <2>1
      <3>2. QED
        BY <3>1, FS_Interval
    <2>3. \A n \in D : table[n] \in Entry
      BY <2>1, ElementOfSeq
    <2>4. QED
      BY <2>1, <2>2, <2>3 DEF Entry
  <1>2. SumOf(table, EntryPoints) = Total([n \in DOMAIN table |-> table[n].points], DOMAIN table)
    <2> DEFINE w == [n \in D |-> table[n].points]
               sum == CHOOSE g : g = [s \in SUBSET D |-> IF s = {} THEN 0
                          ELSE w[CHOOSE x \in s : TRUE] + g[s \ {CHOOSE x \in s : TRUE}]]
               fold == CHOOSE g : g = [s \in SUBSET D |-> IF s = {} THEN 0
                          ELSE table[CHOOSE x \in s : TRUE].points
                                   + g[s \ {CHOOSE x \in s : TRUE}]]
    <2>1. SumOf(table, EntryPoints) = fold[D]
      BY DEF SumOf, MapThenSumSet, MapThenFoldSet, EntryPoints
    <2>2. \A s \in SUBSET D : s # {} =>
              w[CHOOSE x \in s : TRUE] = table[CHOOSE x \in s : TRUE].points
      OBVIOUS
    <2>3. \A n \in D : w[n] = table[n].points /\ w[n] \in Int
      BY <1>1
    <2>4. fold = sum
      <3> HIDE DEF w
      <3>1. \A g : (g = [s \in SUBSET D |-> IF s = {} THEN 0
                            ELSE w[CHOOSE x \in s : TRUE] + g[s \ {CHOOSE x \in s : TRUE}]])
                   <=> (g = [s \in SUBSET D |-> IF s = {} THEN 0
                                ELSE table[CHOOSE x \in s : TRUE].points
                                         + g[s \ {CHOOSE x \in s : TRUE}]])
        BY <2>2
      <3>2. QED
        BY <3>1
    <2> HIDE DEF w
    <2>5. sum = CHOOSE g : IsFold(g, w, D)
      BY DEF IsFold
    <2> HIDE DEF sum, D
    <2>6. sum[D] = Total(w, D)
      BY <1>1, <2>3, <2>5, ChosenFold
    <2>7. QED
      BY <2>1, <2>4, <2>6 DEF w, D
  <1>3. SumOf(table, EntryRating) = Total([n \in DOMAIN table |-> table[n].rating], DOMAIN table)
    <2> DEFINE w == [n \in D |-> table[n].rating]
               sum == CHOOSE g : g = [s \in SUBSET D |-> IF s = {} THEN 0
                          ELSE w[CHOOSE x \in s : TRUE] + g[s \ {CHOOSE x \in s : TRUE}]]
               fold == CHOOSE g : g = [s \in SUBSET D |-> IF s = {} THEN 0
                          ELSE table[CHOOSE x \in s : TRUE].rating
                                   + g[s \ {CHOOSE x \in s : TRUE}]]
    <2>1. SumOf(table, EntryRating) = fold[D]
      BY DEF SumOf, MapThenSumSet, MapThenFoldSet, EntryRating
    <2>2. \A s \in SUBSET D : s # {} =>
              w[CHOOSE x \in s : TRUE] = table[CHOOSE x \in s : TRUE].rating
      OBVIOUS
    <2>3. \A n \in D : w[n] = table[n].rating /\ w[n] \in Int
      BY <1>1
    <2>4. fold = sum
      <3> HIDE DEF w
      <3>1. \A g : (g = [s \in SUBSET D |-> IF s = {} THEN 0
                            ELSE w[CHOOSE x \in s : TRUE] + g[s \ {CHOOSE x \in s : TRUE}]])
                   <=> (g = [s \in SUBSET D |-> IF s = {} THEN 0
                                ELSE table[CHOOSE x \in s : TRUE].rating
                                         + g[s \ {CHOOSE x \in s : TRUE}]])
        BY <2>2
      <3>2. QED
        BY <3>1
    <2> HIDE DEF w
    <2>5. sum = CHOOSE g : IsFold(g, w, D)
      BY DEF IsFold
    <2> HIDE DEF sum, D
    <2>6. sum[D] = Total(w, D)
      BY <1>1, <2>3, <2>5, ChosenFold
    <2>7. QED
      BY <2>1, <2>4, <2>6 DEF w, D
  <1>4. QED
    BY <1>1, <1>2, <1>3

TotalsAgree(table) ==
    /\ SumOf(table, EntryPoints) = MapThenSumSet(LAMBDA f : PointsOf(table, f), Funcs)
    /\ SumOf(table, EntryRating) = MapThenSumSet(LAMBDA f : RatingIn(table, f), Funcs)

(* Every entry counts under its puzzle's name, once.                       *)
LEMMA TableTotals ==
    ASSUME NEW lines, NEW deserving, NEW rating \in {TableRating, PerfRating},
           PrintedBy(lines, deserving, rating)
    PROVE  TotalsAgree(Table(lines))
  <1> DEFINE table  == Table(lines)
             D      == DOMAIN table
             name   == [n \in D |-> table[n].name]
             points_of  == [n \in D |-> table[n].points]
             ratings_of == [n \in D |-> table[n].rating]
             scores  == [f \in Funcs |-> PointsOf(table, f)]
             ratings == [f \in Funcs |-> RatingIn(table, f)]
  <1>1. ReadTo(table, lines, Len(lines))
    BY TableReads DEF PrintedBy, Once
  <1>2. \A f \in Funcs : Worth(rating, f) \in Int
    BY BtestAssumption DEF Worth, TableRating, PerfRating
  <1>3. \A f \in Funcs : \E p \in D :
            /\ {n \in D : table[n].name = f} = {p}
            /\ PointsOf(table, f) = table[p].points
            /\ RatingIn(table, f) = table[p].rating
    BY PuzzleEntry
  <1> HIDE DEF table
  <1>4. /\ table \in Seq(Entry)
        /\ \A p \in D : table[p].name \notin Funcs => table[p].points = 0 /\ table[p].rating = 0
    <2>1. ASSUME NEW p \in D, NEW n \in RowsOf(lines), table[p] = EntryOf(lines[n])
          PROVE  table[p].name \in Funcs
      <3>1. n \in DOMAIN lines /\ lines \in Seq(Row \cup TimeOutMessage)
        BY DEF RowsOf, PrintedBy
      <3>2. lines[n] \in Row
        BY <3>1, LineTypes
      <3>3. QED
        BY <2>1, <3>2 DEF EntryOf, Row
    <2>2. QED
      BY <1>1, <2>1 DEF ReadTo
  <1>5. /\ IsFiniteSet(D)
        /\ \A n \in D : table[n].points \in Int /\ table[n].rating \in Int
        /\ SumOf(table, EntryPoints) = Total(points_of, D)
        /\ SumOf(table, EntryRating) = Total(ratings_of, D)
    BY <1>4, EntriesSum
  <1>6. \A f \in Funcs : PointsOf(table, f) \in Int /\ RatingIn(table, f) \in Int
    BY <1>3, <1>5
  <1>7. /\ MapThenSumSet(LAMBDA f : PointsOf(table, f), Funcs) = Total(scores, Funcs)
        /\ MapThenSumSet(LAMBDA f : RatingIn(table, f), Funcs) = Total(ratings, Funcs)
    BY <1>6, PuzzlesSum
  <1>8. IsFiniteSet(Funcs)
    BY FuncsFinite
  <1>9. /\ \A f \in Funcs : scores[f] \in Int /\ ratings[f] \in Int
        /\ \A p \in D : /\ points_of[p] \in Int /\ ratings_of[p] \in Int
                        /\ name[p] \notin Funcs => points_of[p] = 0 /\ ratings_of[p] = 0
    BY <1>4, <1>5, <1>6
  <1>10. \A f \in Funcs : \E p \in D : {n \in D : name[n] = f} = {p} /\ points_of[p] = scores[f]
                                       /\ ratings_of[p] = ratings[f]
    <2> SUFFICES ASSUME NEW f \in Funcs
                 PROVE  \E p \in D : {n \in D : name[n] = f} = {p} /\ points_of[p] = scores[f]
                                     /\ ratings_of[p] = ratings[f]
      OBVIOUS
    <2>1. PICK p \in D : /\ {n \in D : table[n].name = f} = {p}
                         /\ PointsOf(table, f) = table[p].points
                         /\ RatingIn(table, f) = table[p].rating
      BY <1>3
    <2>2. {n \in D : name[n] = f} = {p}
      BY <2>1
    <2>3. points_of[p] = scores[f] /\ ratings_of[p] = ratings[f]
      BY <2>1
    <2>4. QED
      BY <2>2, <2>3
  <1> HIDE DEF D, name, points_of, ratings_of, scores, ratings
  <1>11. Total(points_of, D) = Total(scores, Funcs)
    <2>1. /\ \A p \in D : points_of[p] \in Int
          /\ \A f \in Funcs : scores[f] \in Int
          /\ CountedByName(points_of, D, name, scores, Funcs)
      BY <1>9, <1>10 DEF CountedByName
    <2>2. IsFiniteSet(D)
      BY <1>5
    <2>3. QED
      BY <1>8, <2>1, <2>2, TotalByName
  <1>12. Total(ratings_of, D) = Total(ratings, Funcs)
    <2>1. /\ \A p \in D : ratings_of[p] \in Int
          /\ \A f \in Funcs : ratings[f] \in Int
          /\ CountedByName(ratings_of, D, name, ratings, Funcs)
      BY <1>9, <1>10 DEF CountedByName
    <2>2. IsFiniteSet(D)
      BY <1>5
    <2>3. QED
      BY <1>8, <2>1, <2>2, TotalByName
  <1>13. TotalsAgree(table)
    BY <1>5, <1>7, <1>11, <1>12 DEF TotalsAgree
  <1>14. QED
    BY <1>13 DEF table

(* The totals of both tables are those of the puzzles' own entries,        *)
(* whatever lines btest printed between its rows.                          *)
THEOREM TotalsRight == DriverSpec => []TotalsOfPuzzles
  <1>1. DInv => TotalsOfPuzzles
    <2> SUFFICES ASSUME DInv, Reported, prompt, NEW table \in {c_table, p_table}
                 PROVE  TotalsAgree(table)
      BY DEF TotalsOfPuzzles, TotalsAgree
    <2>1. PICK s, t \in SUBSET Funcs : /\ PrintedBy(zapped_out, s, TableRating)
                                       /\ PrintedBy(Zapped_out, t, PerfRating)
      BY ReportedRuns
    <2>2. CASE table = c_table
      BY <2>1, <2>2, ReportedTables, TableTotals
    <2>3. CASE table = p_table
      BY <2>1, <2>3, ReportedTables, TableTotals
    <2>4. QED
      BY <2>2, <2>3
  <1>2. QED
    BY <1>1, DriverInvariance, PTL

-----------------------------------------------------------------------------
(* Types *)

LEMMA TableType ==
    ASSUME NEW lines \in Seq(Row \cup TimeOutMessage)
    PROVE  Table(lines) \in Seq(Entry)
  BY TableReads DEF ReadTo

LEMMA NextDriverTypeOK ==
    ASSUME DInv, DriverTypeOK, [DriverNext]_dvars
    PROVE  DriverTypeOK'
  <1>1. TypeOK' /\ output \in Seq(Row \cup TimeOutMessage)
    BY DriverIInv DEF IInv, DInv, TypeOK
  <1> USE <1>1 DEF DriverTypeOK
  <1>2. CASE CheckNickname \/ Report
    BY <1>2 DEF CheckNickname, Report, Checked, Succeeds, Fails, files, tables
  <1>3. CASE MakeScratch
    BY <1>3 DEF MakeScratch, Checked, Succeeds, Fails, tables
  <1>4. CASE RunDlc
    BY <1>4 DEF RunDlc, Checked, Succeeds, Fails, files, tables
  <1>5. CASE CopyZapped \/ CopyZappedAgain
    BY <1>5 DEF CopyZapped, CopyZappedAgain, CopyOver, tables
  <1>6. CASE BuildAndTest
    BY <1>6, BuildStarts DEF files, tables
  <1>7. CASE BtestEnds
    BY <1>7 DEF BtestEnds, tables
  <1>8. CASE CollectCorrectness
    BY <1>8, TableType DEF CollectCorrectness, Succeeds, Fails, files
  <1>9. CASE CollectPerformance
    BY <1>9, TableType DEF CollectPerformance, Succeeds, Fails, files
  <1>10. CASE Clean
    BY <1>10 DEF Clean, tables
  <1>11. CASE BtestStep \/ BtestSigalrm
    BY <1>11 DEF BtestStep, BtestSigalrm, files, tables
  <1>12. CASE UNCHANGED dvars
    BY <1>12 DEF dvars, files, tables
  <1>13. QED
    BY <1>2, <1>3, <1>4, <1>5, <1>6, <1>7, <1>8, <1>9, <1>10, <1>11, <1>12
       DEF DriverNext, DriverStep

(* The driver's variables keep their types, also those of the btest that   *)
(* it runs, and of what it reads from btest's output.                      *)
THEOREM DriverTypeCorrect == DriverSpec => []DriverTypeOK
  <1>1. DriverInit => DriverTypeOK
    <2> SUFFICES ASSUME DriverInit PROVE DriverTypeOK
      OBVIOUS
    <2>1. TypeOK
      BY InitDInv DEF DInv, IInv
    <2>2. <<>> \in Seq(Row \cup TimeOutMessage) /\ <<>> \in Seq(Entry)
      BY EmptySeq
    <2>3. QED
      BY <2>1, <2>2 DEF DriverInit, DriverTypeOK
  <1>2. DInv /\ DriverTypeOK /\ [DriverNext]_dvars => DriverTypeOK'
    BY NextDriverTypeOK
  <1>3. QED
    BY <1>1, <1>2, DriverInvariance, PTL DEF DriverSpec
=============================================================================
