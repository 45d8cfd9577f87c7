---------------------------- MODULE BtestProofs ----------------------------
(* Theorems about Btest, for every table, option and solution.             *)
EXTENDS Btest, InductionLemmas, SequenceTheorems, TLAPS

InTest == {"gen", "setjmp", "alarm", "test"}

(* Why the properties are inductive: a frame is live exactly in the code   *)
(* of test_function, an alarm is pending only after a sigsetjmp, and a     *)
(* function that is about to be scored without error has agreed with the   *)
(* reference on all its calls.                                             *)
FrameInv == frame = "live" <=> pc \in InTest

JumpInv ==
    /\ pc = "alarm" => envbuf # NoFunc
    /\ NoJumpBeforeSetjmp

AgreedInv ==
    /\ pc \in {"setjmp", "alarm"} => a = 0 /\ terrors = 0
    /\ pc \in {"test", "score", "row"} /\ terrors = 0 =>
          \A n \in 1..a : ~Reaches(i, n)
    /\ pc \in {"score", "row"} /\ terrors = 0 => a = TestCount[i]
    /\ pc = "test" => a <= TestCount[i] /\ terrors = 0

IInv ==
    /\ TypeOK
    /\ FrameInv
    /\ JumpInv
    /\ AgreedInv
    /\ PointsWithinMax
    /\ NoUndeservedCredit

LEMMA RatingType ==
    ASSUME TypeOK, NEW f \in Funcs
    PROVE  RatingOf(f) \in Nat
  BY BtestAssumption DEF TypeOK, RatingOf, Option, Funcs

LEMMA TimeOutOutput ==
    ASSUME TypeOK, NEW f \in Funcs, timer \in Funcs, TimeOut(f)
    PROVE  output' \in Seq(Row \cup TimeOutMessage)
  <1> DEFINE message == [kind |-> "timeout", fn |-> f, by |-> timer]
  <1>1. message \in Row \cup TimeOutMessage
    BY DEF TimeOutMessage
  <1> HIDE DEF message
  <1>2. output' = Append(output, message)
    BY DEF TimeOut, message
  <1>3. QED
    BY <1>1, <1>2, AppendProperties DEF TypeOK

LEMMA InitIInv == Init => IInv
  <1> SUFFICES ASSUME Init PROVE IInv
    OBVIOUS
  <1>1. TypeOK
    <2>1. output \in Seq(Row \cup TimeOutMessage)
      BY EmptySeq DEF Init
    <2>2. blocked \in BOOLEAN
      BY DEF Init
    <2>3. /\ opt \in Option /\ sol \in [Funcs -> Solution] /\ prompt \in BOOLEAN
          /\ pc = "select" /\ i = 1 /\ a = 0 /\ terrors = 0
          /\ errors = 0 /\ points = 0 /\ maxPoints = 0 /\ credited = {}
          /\ timer = NoFunc /\ envbuf = NoFunc /\ frame = "overwritten"
      BY Zenon DEF Init
    <2>4. QED
      BY <2>1, <2>2, <2>3, BtestAssumption DEF TypeOK, NoFunc, Funcs
  <1>2. FrameInv /\ JumpInv /\ AgreedInv
    BY DEF Init, FrameInv, JumpInv, AgreedInv, NoJumpBeforeSetjmp, InTest, NoFunc
  <1>3. PointsWithinMax /\ NoUndeservedCredit
    BY DEF Init, PointsWithinMax, NoUndeservedCredit
  <1>4. QED
    BY <1>1, <1>2, <1>3 DEF IInv

-----------------------------------------------------------------------------

LEMMA NextTypeOK == IInv /\ [Next]_vars => TypeOK'
  <1> SUFFICES ASSUME IInv, [Next]_vars PROVE TypeOK'
    OBVIOUS
  <1> USE BtestAssumption DEF IInv, TypeOK, Funcs, NoFunc, input, results, signals
  <1>1. CASE SkipTest
    BY <1>1 DEF SkipTest
  <1>2. CASE CallTest
    BY <1>2 DEF CallTest
  <1>3. CASE FinishTests
    BY <1>3 DEF FinishTests
  <1>4. CASE GenerateValues
    BY <1>4 DEF GenerateValues
  <1>5. CASE SetJump
    BY <1>5 DEF SetJump
  <1>6. CASE SetAlarm
    BY <1>6 DEF SetAlarm
  <1>7. CASE TestAgrees
    BY <1>7 DEF TestAgrees
  <1>8. CASE TestDisagrees
    BY <1>8 DEF TestDisagrees
  <1>9. CASE AllTestsRun \/ SolutionCrashes
    BY <1>9 DEF AllTestsRun, SolutionCrashes
  <1>10. CASE Score
    <2>1. RatingOf(i) \in Nat
      BY <1>10, RatingType DEF Score
    <2>2. Points(terrors) \in Nat
      BY <2>1 DEF Points
    <2>3. i \in Funcs
      BY <1>10 DEF Score
    <2>4. errors' \in Nat /\ points' \in Nat /\ maxPoints' \in Nat
      BY <1>10, <2>1, <2>2 DEF Score
    <2>5. credited' \subseteq Funcs
      BY <1>10, <2>3 DEF Score
    <2>6. QED
      BY <1>10, <2>3, <2>4, <2>5 DEF Score
  <1>11. CASE PrintRow
    <2>1. RatingOf(i) \in Nat
      BY <1>11, RatingType DEF PrintRow
    <2>2. Points(terrors) \in Nat
      BY <2>1 DEF Points
    <2>3. output' \in Seq(Row \cup TimeOutMessage)
      <3> DEFINE row == [kind |-> "row", fn |-> i, tpoints |-> Points(terrors),
                         rating |-> RatingOf(i), errors |-> terrors]
      <3>1. row \in Row \cup TimeOutMessage
        BY <1>11, <2>1, <2>2 DEF PrintRow, Row
      <3> HIDE DEF row
      <3>2. output' = output \/ output' = Append(output, row)
        BY <1>11 DEF PrintRow, row
      <3>3. output \in Seq(Row \cup TimeOutMessage)
        OBVIOUS
      <3>4. Append(output, row) \in Seq(Row \cup TimeOutMessage)
        BY <3>1, <3>3, AppendProperties
      <3>5. QED
        BY <3>2, <3>3, <3>4
    <2>4. QED
      BY <1>11, <2>3 DEF PrintRow
  <1>12. CASE TimeOutLive
    <2>1. i \in Funcs /\ timer \in Funcs
      BY <1>12 DEF TimeOutLive, TimeOut, FrameInv, InTest
    <2>2. output' \in Seq(Row \cup TimeOutMessage)
      BY <1>12, <2>1, TimeOutOutput DEF TimeOutLive
    <2>3. BlockedAfterJump \in BOOLEAN
      BY DEF BlockedAfterJump
    <2>4. QED
      BY <1>12, <2>1, <2>2, <2>3 DEF TimeOutLive, TimeOut
  <1>13. CASE TimeOutDead
    <2>1. envbuf \in Funcs /\ timer \in Funcs
      BY <1>13 DEF TimeOutDead, TimeOut, JumpInv, NoJumpBeforeSetjmp
    <2>2. output' \in Seq(Row \cup TimeOutMessage)
      BY <1>13, <2>1, TimeOutOutput DEF TimeOutDead
    <2>3. BlockedAfterJump \in BOOLEAN
      BY DEF BlockedAfterJump
    <2>4. QED
      BY <1>13, <2>1, <2>2, <2>3 DEF TimeOutDead, TimeOut
  <1>14. CASE TimeOutFault
    BY <1>14 DEF TimeOutFault
  <1>15. CASE UNCHANGED vars
    BY <1>15 DEF vars
  <1>16. QED
    BY <1>1, <1>2, <1>3, <1>4, <1>5, <1>6, <1>7, <1>8, <1>9, <1>10, <1>11,
       <1>12, <1>13, <1>14, <1>15 DEF Next, Step, Sigalrm

LEMMA NextFrameInv == IInv /\ [Next]_vars => FrameInv' /\ JumpInv'
  <1> SUFFICES ASSUME IInv, [Next]_vars PROVE FrameInv' /\ JumpInv'
    OBVIOUS
  <1> USE DEF IInv, TypeOK, FrameInv, JumpInv, NoJumpBeforeSetjmp, InTest,
              NoFunc, input, results, signals
  <1>1. CASE SkipTest \/ CallTest \/ FinishTests
    BY <1>1 DEF SkipTest, CallTest, FinishTests
  <1>2. CASE GenerateValues \/ SetAlarm
    BY <1>2 DEF GenerateValues, SetAlarm
  <1>3. CASE SetJump
    BY <1>3 DEF SetJump, Funcs
  <1>4. CASE TestAgrees \/ TestDisagrees \/ SolutionCrashes \/ AllTestsRun
    BY <1>4 DEF TestAgrees, TestDisagrees, SolutionCrashes, AllTestsRun
  <1>5. CASE Score \/ PrintRow
    BY <1>5 DEF Score, PrintRow
  <1>6. CASE TimeOutLive \/ TimeOutDead \/ TimeOutFault
    BY <1>6 DEF TimeOutLive, TimeOutDead, TimeOutFault, TimeOut
  <1>7. CASE UNCHANGED vars
    BY <1>7 DEF vars
  <1>8. QED
    BY <1>1, <1>2, <1>3, <1>4, <1>5, <1>6, <1>7 DEF Next, Step, Sigalrm

LEMMA NextAgreedInv == IInv /\ [Next]_vars => AgreedInv'
  <1> SUFFICES ASSUME IInv, [Next]_vars PROVE AgreedInv'
    OBVIOUS
  <1> USE BtestAssumption DEF IInv, TypeOK, AgreedInv, Reaches, input, results, signals
  <1>1. CASE SkipTest \/ CallTest \/ FinishTests
    BY <1>1 DEF SkipTest, CallTest, FinishTests
  <1>2. CASE GenerateValues
    BY <1>2 DEF GenerateValues
  <1>3. CASE SetJump
    BY <1>3 DEF SetJump
  <1>4. CASE SetAlarm
    <2>1. pc' = "test" /\ UNCHANGED <<sol, i, a, terrors>>
      BY <1>4 DEF SetAlarm
    <2>2. a = 0 /\ terrors = 0
      BY <1>4 DEF SetAlarm
    <2>3. i \in Funcs /\ TestCount[i] \in Nat
      BY <1>4 DEF SetAlarm
    <2>4. QED
      BY <2>1, <2>2, <2>3
  <1>5. CASE TestAgrees
    <2>1. \A n \in 1..a : ~Reaches(i, n)
      BY <1>5 DEF TestAgrees
    <2>2. \A n \in 1..(a + 1) : ~Reaches(i, n)
      BY <1>5, <2>1 DEF TestAgrees
    <2>3. QED
      BY <1>5, <2>2 DEF TestAgrees
  <1>6. CASE TestDisagrees \/ SolutionCrashes \/ AllTestsRun
    BY <1>6 DEF TestDisagrees, SolutionCrashes, AllTestsRun
  <1>7. CASE Score \/ PrintRow
    BY <1>7 DEF Score, PrintRow
  <1>8. CASE TimeOutLive \/ TimeOutDead \/ TimeOutFault
    BY <1>8 DEF TimeOutLive, TimeOutDead, TimeOutFault, TimeOut
  <1>9. CASE UNCHANGED vars
    BY <1>9 DEF vars
  <1>10. QED
    BY <1>1, <1>2, <1>3, <1>4, <1>5, <1>6, <1>7, <1>8, <1>9 DEF Next, Step, Sigalrm

LEMMA NextScores ==
    IInv /\ [Next]_vars => PointsWithinMax' /\ NoUndeservedCredit'
  <1> SUFFICES ASSUME IInv, [Next]_vars
               PROVE  PointsWithinMax' /\ NoUndeservedCredit'
    OBVIOUS
  <1> USE DEF PointsWithinMax, NoUndeservedCredit, Caught
  <1>1. CASE Score
    <2> USE <1>1 DEF Score, input
    <2>1. i \in Funcs /\ RatingOf(i) \in Nat /\ points \in Nat /\ maxPoints \in Nat
      BY RatingType DEF IInv, TypeOK
    <2>2. Points(terrors) <= RatingOf(i) /\ Points(terrors) \in Nat
      BY <2>1 DEF Points
    <2>3. PointsWithinMax'
      BY <2>1, <2>2 DEF IInv
    <2>4. ASSUME terrors = 0 PROVE ~Caught(i)
      <3>1. \A n \in 1..TestCount[i] : ~Reaches(i, n)
        BY <2>4 DEF IInv, AgreedInv
      <3>2. sol[i].at \in Nat \ {0} /\ TestCount[i] \in Nat
        BY <2>1, BtestAssumption DEF IInv, TypeOK, Solution
      <3>3. QED
        BY <3>1, <3>2 DEF Reaches
    <2>5. NoUndeservedCredit'
      BY <2>4 DEF IInv
    <2>6. QED
      BY <2>3, <2>5
  <1>2. CASE ~Score
    <2>1. UNCHANGED <<points, maxPoints, credited, sol>>
      BY <1>2 DEF Next, Step, Sigalrm, vars, input, results, signals,
         SkipTest, CallTest, FinishTests, GenerateValues, SetJump, SetAlarm,
         TestAgrees, TestDisagrees, SolutionCrashes, AllTestsRun, PrintRow,
         TimeOutLive, TimeOutDead, TimeOutFault, TimeOut
    <2>2. QED
      BY <2>1 DEF IInv
  <1>3. QED
    BY <1>1, <1>2

-----------------------------------------------------------------------------

(* The inductive invariant holds in every reachable state of the harness,  *)
(* late alarms included.                                                   *)
THEOREM Invariance == Spec => []IInv
  <1>1. Init => IInv
    BY InitIInv
  <1>2. IInv /\ [Next]_vars => IInv'
    BY NextTypeOK, NextFrameInv, NextAgreedInv, NextScores DEF IInv
  <1>3. QED
    BY <1>1, <1>2, PTL DEF Spec

(* btest's variables keep their types: the index never passes the sentinel *)
(* of test_set and a timeout is only reported for an entry of the table.   *)
THEOREM TypeCorrect == Spec => []TypeOK
  <1>1. IInv => TypeOK
    BY DEF IInv
  <1>2. QED
    BY <1>1, Invariance, PTL

(* run_tests never awards more points than are attainable.                 *)
THEOREM ScoreWithinMax == Spec => []PointsWithinMax
  <1>1. IInv => PointsWithinMax
    BY DEF IInv
  <1>2. QED
    BY <1>1, Invariance, PTL

(* run_tests never credits a function that misbehaves on one of its calls. *)
THEOREM CreditDeserved == Spec => []NoUndeservedCredit
  <1>1. IInv => NoUndeservedCredit
    BY DEF IInv
  <1>2. QED
    BY <1>1, Invariance, PTL

(* timeout_handler never jumps through an envbuf that was not filled.      *)
THEOREM JumpTargetSet == Spec => []NoJumpBeforeSetjmp
  <1>1. IInv => NoJumpBeforeSetjmp
    BY DEF IInv, JumpInv
  <1>2. QED
    BY <1>1, Invariance, PTL

-----------------------------------------------------------------------------
(* Credit: a late alarm moves the index back by one at most, and what it   *)
(* re-scores gets no points.                                               *)
LateAlarmInv ==
    /\ pc \in {"setjmp", "alarm"} \/ timer # NoFunc => opt.limit > 0
    /\ pc \in {"alarm", "test"} /\ opt.limit > 0 => envbuf = i
    /\ timer # NoFunc /\ frame = "dead" =>
          envbuf = IF pc \in {"select", "done"} THEN i - 1 ELSE i

CreditedInv ==
    \A f \in credited :
        \/ f < i
        \/ f = i /\ (pc \in {"row", "crashed"} \/ (pc = "score" /\ terrors = 1))

Weights == [f \in Funcs |-> RatingOf(f)]

CreditInv ==
    /\ IInv
    /\ LateAlarmInv
    /\ CreditedInv
    /\ points = Total(Weights, credited)

LEMMA FuncsFinite == IsFiniteSet(Funcs) /\ \A s \in SUBSET Funcs : IsFiniteSet(s)
  <1>1. IsFiniteSet(Funcs)
    BY BtestAssumption, FS_Interval DEF Funcs
  <1>2. QED
    BY <1>1, FS_Subset

LEMMA CreditedSum ==
    ASSUME TypeOK
    PROVE  MapThenSumSet(RatingOf, credited) = Total(Weights, credited)
  <1>1. \A f \in credited : Weights[f] = RatingOf(f) /\ Weights[f] \in Int
    BY RatingType DEF Weights, TypeOK
  <1>2. PICK sum : /\ MapThenSumSet(RatingOf, credited) = sum[credited]
                   /\ sum = CHOOSE f : f = [s \in SUBSET credited |-> IF s = {} THEN 0
                                 ELSE RatingOf(CHOOSE x \in s : TRUE)
                                          + f[s \ {CHOOSE x \in s : TRUE}]]
    BY DEF MapThenSumSet, MapThenFoldSet
  <1>3. \A f : IsFold(f, Weights, credited) <=>
                  f = [s \in SUBSET credited |-> IF s = {} THEN 0
                           ELSE RatingOf(CHOOSE x \in s : TRUE)
                                    + f[s \ {CHOOSE x \in s : TRUE}]]
    <2>1. \A s \in SUBSET credited : s # {} =>
              Weights[CHOOSE x \in s : TRUE] = RatingOf(CHOOSE x \in s : TRUE)
      BY <1>1
    <2>2. QED
      BY <2>1 DEF IsFold
  <1>4. IsFiniteSet(credited)
    BY FuncsFinite DEF TypeOK
  <1>5. sum = CHOOSE f : IsFold(f, Weights, credited)
    BY <1>2, <1>3, ZenonT(40)
  <1>6. sum[credited] = Total(Weights, credited)
    BY <1>1, <1>4, <1>5, ChosenFold
  <1>7. QED
    BY <1>2, <1>6

LEMMA PromptUnchanged == [Next]_vars => UNCHANGED <<opt, sol, prompt>>
  BY DEF Next, Step, Sigalrm, vars, input, SkipTest, CallTest, FinishTests,
     GenerateValues, SetJump, SetAlarm, TestAgrees, TestDisagrees, SolutionCrashes, AllTestsRun,
     Score, PrintRow, TimeOutLive, TimeOutDead, TimeOutFault, TimeOut

LEMMA NextIInv == IInv /\ [Next]_vars => IInv'
  BY NextTypeOK, NextFrameInv, NextAgreedInv, NextScores DEF IInv

LEMMA NextLateAlarmInv == IInv /\ LateAlarmInv /\ [Next]_vars => LateAlarmInv'
  <1> SUFFICES ASSUME IInv, LateAlarmInv, [Next]_vars PROVE LateAlarmInv'
    OBVIOUS
  <1>1. i \in Int
    BY BtestAssumption DEF IInv, TypeOK
  <1> USE <1>1 DEF IInv, FrameInv, InTest, LateAlarmInv, input, results, signals
  <1>2. CASE SkipTest \/ CallTest \/ FinishTests
    BY <1>2 DEF SkipTest, CallTest, FinishTests
  <1>3. CASE GenerateValues
    BY <1>3 DEF GenerateValues
  <1>4. CASE SetJump
    BY <1>4 DEF SetJump
  <1>5. CASE SetAlarm
    BY <1>5 DEF SetAlarm
  <1>6. CASE TestAgrees \/ TestDisagrees \/ SolutionCrashes \/ AllTestsRun
    BY <1>6 DEF TestAgrees, TestDisagrees, SolutionCrashes, AllTestsRun
  <1>7. CASE Score
    BY <1>7 DEF Score
  <1>8. CASE PrintRow
    BY <1>8 DEF PrintRow
  <1>9. CASE TimeOutLive \/ TimeOutDead \/ TimeOutFault
    BY <1>9 DEF TimeOutLive, TimeOutDead, TimeOutFault, TimeOut, NoFunc
  <1>10. CASE UNCHANGED vars
    BY <1>10 DEF vars
  <1>11. QED
    BY <1>2, <1>3, <1>4, <1>5, <1>6, <1>7, <1>8, <1>9, <1>10 DEF Next, Step, Sigalrm

LEMMA NextCreditedInv ==
    IInv /\ LateAlarmInv /\ CreditedInv /\ [Next]_vars => CreditedInv'
  <1> SUFFICES ASSUME IInv, LateAlarmInv, CreditedInv, [Next]_vars PROVE CreditedInv'
    OBVIOUS
  <1>1. i \in Int /\ N \in Nat /\ credited \in SUBSET (1..N)
    BY BtestAssumption DEF IInv, TypeOK, Funcs
  <1> USE <1>1 DEF IInv, FrameInv, InTest, CreditedInv, input, results, signals
  <1>2. CASE SkipTest \/ CallTest \/ FinishTests
    <2>1. credited' = credited /\ i' \in Int /\ i' >= i /\ \A f \in credited : f < i
      BY <1>2 DEF SkipTest, CallTest, FinishTests
    <2>2. QED
      BY <2>1
  <1>3. CASE GenerateValues \/ SetJump \/ SetAlarm
    BY <1>3 DEF GenerateValues, SetJump, SetAlarm
  <1>4. CASE TestAgrees \/ TestDisagrees \/ SolutionCrashes \/ AllTestsRun
    BY <1>4 DEF TestAgrees, TestDisagrees, SolutionCrashes, AllTestsRun
  <1>5. CASE Score
    BY <1>5 DEF Score
  <1>6. CASE PrintRow
    BY <1>6 DEF PrintRow
  <1>7. CASE TimeOutLive
    BY <1>7 DEF TimeOutLive, TimeOut
  <1>8. CASE TimeOutDead
    <2>1. pc' = "score" /\ terrors' = 1 /\ UNCHANGED credited
      BY <1>8 DEF TimeOutDead, TimeOut
    <2>2. i' = IF pc = "select" THEN i - 1 ELSE i
      BY <1>8 DEF TimeOutDead, TimeOut, LateAlarmInv
    <2>3. pc \in {"select", "score", "row"}
      BY <1>8 DEF TimeOutDead, TypeOK
    <2>4. QED
      BY <2>1, <2>2, <2>3
  <1>9. CASE TimeOutFault
    BY <1>9 DEF TimeOutFault
  <1>10. CASE UNCHANGED vars
    BY <1>10 DEF vars
  <1>11. QED
    BY <1>2, <1>3, <1>4, <1>5, <1>6, <1>7, <1>8, <1>9, <1>10 DEF Next, Step, Sigalrm

(* A function's rating is added when it is scored without error for the    *)
(* first time.                                                             *)
LEMMA NextCreditSum ==
    ASSUME CreditInv, [Next]_vars
    PROVE  points' = Total(Weights', credited')
  <1>1. Weights' = Weights
    BY PromptUnchanged DEF Weights, RatingOf
  <1>2. CASE Score /\ terrors = 0
    <2>1. /\ i \in Funcs /\ i \notin credited
          /\ credited' = credited \cup {i} /\ points' = points + RatingOf(i)
      BY <1>2 DEF Score, CreditInv, CreditedInv, IInv, TypeOK, Points
    <2>2. \A f \in credited \cup {i} : Weights[f] \in Int
      BY <2>1, RatingType DEF Weights, CreditInv, IInv, TypeOK
    <2>3. IsFiniteSet(credited)
      BY FuncsFinite DEF CreditInv, IInv, TypeOK
    <2>4. Total(Weights, credited \cup {i}) = Total(Weights, credited) + Weights[i]
      BY <2>1, <2>2, <2>3, TotalAdd
    <2>5. QED
      BY <1>1, <2>1, <2>4 DEF CreditInv, Weights
  <1>3. CASE ~(Score /\ terrors = 0)
    <2>1. points \in Int
      BY DEF CreditInv, IInv, TypeOK
    <2>2. UNCHANGED <<points, credited>>
      BY <1>3, <2>1 DEF Next, Step, Sigalrm, vars, input, results, signals,
         SkipTest, CallTest, FinishTests, GenerateValues, SetJump, SetAlarm,
         TestAgrees, TestDisagrees, SolutionCrashes, AllTestsRun, Score, Points, PrintRow,
         TimeOutLive, TimeOutDead, TimeOutFault, TimeOut
    <2>3. QED
      BY <1>1, <2>2 DEF CreditInv
  <1>4. QED
    BY <1>2, <1>3

LEMMA CreditInvariance == Spec => []CreditInv
  <1>1. Init => CreditInv
    <2> SUFFICES ASSUME Init PROVE CreditInv
      OBVIOUS
    <2>1. points = Total(Weights, credited)
      BY TotalEmpty DEF Init
    <2>2. QED
      BY <2>1, InitIInv DEF Init, CreditInv, LateAlarmInv, CreditedInv
  <1>2. CreditInv /\ [Next]_vars => CreditInv'
    BY NextIInv, NextLateAlarmInv, NextCreditedInv, NextCreditSum DEF CreditInv
  <1>3. QED
    BY <1>1, <1>2, PTL DEF Spec

(* run_tests' points are the ratings of the functions that passed, each    *)
(* counted once, however late an alarm expires and whatever it re-scores.  *)
THEOREM CreditOnce == Spec => []CreditedOnce
  <1>1. CreditInv => CreditedOnce
    BY CreditedSum DEF CreditInv, IInv, CreditedOnce
  <1>2. QED
    BY <1>1, CreditInvariance, PTL

-----------------------------------------------------------------------------
(* The rows: with -g each scored function has one, printed after its       *)
(* scores were added, so that only the function at "row" lacks one.        *)
PointsOfRows  == [n \in Rows |-> RowPoints(n)]
RatingsOfRows == [n \in Rows |-> RowRating(n)]

RowsInv ==
    prompt /\ opt.grade =>
        /\ points    = Total(PointsOfRows, Rows) + (IF pc = "row" THEN Points(terrors) ELSE 0)
        /\ maxPoints = Total(RatingsOfRows, Rows) + (IF pc = "row" THEN RatingOf(i) ELSE 0)

LEMMA RowsType ==
    ASSUME TypeOK
    PROVE  /\ IsFiniteSet(Rows)
           /\ \A n \in Rows : /\ PointsOfRows[n] = RowPoints(n) /\ RowPoints(n) \in Int
                              /\ RatingsOfRows[n] = RowRating(n) /\ RowRating(n) \in Int
           /\ Total(PointsOfRows, Rows) \in Int
           /\ Total(RatingsOfRows, Rows) \in Int
  <1>1. output \in Seq(Row \cup TimeOutMessage) /\ Len(output) \in Nat
        /\ DOMAIN output = 1..Len(output)
    BY LenProperties DEF TypeOK
  <1>2. Rows \subseteq 1..Len(output)
    BY <1>1 DEF Rows
  <1>3. IsFiniteSet(Rows)
    <2>1. 1 \in Int /\ Len(output) \in Int
      BY <1>1
    <2>2. IsFiniteSet(1..Len(output))
      BY <2>1, FS_Interval
    <2>3. QED
      BY <1>2, <2>2, FS_Subset
  <1>4. \A n \in Rows : output[n] \in Row
    <2>1. \A n \in 1..Len(output) : output[n] \in Row \cup TimeOutMessage
      BY <1>1, ElementOfSeq
    <2>2. QED
      BY <1>2, <2>1 DEF Rows, TimeOutMessage
  <1>5. \A n \in Rows : /\ PointsOfRows[n] = RowPoints(n) /\ RowPoints(n) \in Int
                        /\ RatingsOfRows[n] = RowRating(n) /\ RowRating(n) \in Int
    BY <1>4 DEF PointsOfRows, RatingsOfRows, RowPoints, RowRating, Row
  <1>6. Total(PointsOfRows, Rows) \in Int
    BY <1>3, <1>5, TotalType
  <1>7. Total(RatingsOfRows, Rows) \in Int
    BY <1>3, <1>5, TotalType
  <1>8. QED
    BY <1>3, <1>5, <1>6, <1>7

(* What one more line of output does to the rows ...                       *)
LEMMA MoreRows ==
    ASSUME TypeOK, TypeOK', NEW line, output' = Append(output, line)
    PROVE  /\ Len(output) \in Nat /\ DOMAIN output = 1..Len(output)
           /\ DOMAIN output' = 1..(Len(output) + 1) /\ output'[Len(output) + 1] = line
           /\ \A n \in 1..Len(output) : output'[n] = output[n]
           /\ Rows \subseteq 1..Len(output)
           /\ Rows' = IF line.kind = "row" THEN Rows \cup {Len(output) + 1} ELSE Rows
  <1> DEFINE last == Len(output) + 1
  <1>1. output \in Seq(Row \cup TimeOutMessage) /\ Len(output) \in Nat
        /\ DOMAIN output = 1..Len(output)
    BY LenProperties DEF TypeOK
  <1>2. /\ DOMAIN output' = 1..last /\ output'[last] = line
        /\ \A n \in 1..Len(output) : output'[n] = output[n]
    <2>1. output' \in Seq(Row \cup TimeOutMessage)
      BY DEF TypeOK
    <2>2. Len(output') = Len(output) + 1
      BY <1>1
    <2>3. output'[last] = line /\ \A n \in 1..Len(output) : output'[n] = output[n]
      BY <1>1
    <2>4. QED
      BY <1>1, <2>1, <2>2, <2>3
  <1>3. Rows \subseteq 1..Len(output)
    BY <1>1 DEF Rows
  <1>4. Rows' = IF line.kind = "row" THEN Rows \cup {last} ELSE Rows
    <2>1. 1..last = (1..Len(output)) \cup {last}
      BY <1>1
    <2>2. Rows' = {n \in (1..Len(output)) \cup {last} : output'[n].kind = "row"}
      BY <1>2, <2>1 DEF Rows
    <2>3. Rows = {n \in 1..Len(output) : output'[n].kind = "row"}
      BY <1>1, <1>2 DEF Rows
    <2>4. QED
      BY <1>2, <2>2, <2>3
  <1>5. QED
    BY <1>1, <1>2, <1>3, <1>4

(* ... and to their totals.                                                *)
LEMMA MoreOutput ==
    ASSUME TypeOK, TypeOK', NEW line, output' = Append(output, line)
    PROVE  /\ line.kind # "row" => /\ Total(PointsOfRows', Rows') = Total(PointsOfRows, Rows)
                                   /\ Total(RatingsOfRows', Rows') = Total(RatingsOfRows, Rows)
           /\ line.kind = "row" =>
                 /\ Total(PointsOfRows', Rows') = Total(PointsOfRows, Rows) + line.tpoints
                 /\ Total(RatingsOfRows', Rows') = Total(RatingsOfRows, Rows) + line.rating
  <1> DEFINE last == Len(output) + 1
  <1>1. output \in Seq(Row \cup TimeOutMessage) /\ Len(output) \in Nat
        /\ DOMAIN output = 1..Len(output)
    BY MoreRows DEF TypeOK
  <1>2. /\ DOMAIN output' = 1..last /\ output'[last] = line
        /\ \A n \in 1..Len(output) : output'[n] = output[n]
    BY MoreRows
  <1>3. Rows \subseteq 1..Len(output) /\ last \notin Rows /\ last \in Int
    BY <1>1, MoreRows
  <1>4. \A n \in Rows : n \in Rows' /\ RowPoints(n)' = RowPoints(n) /\ RowRating(n)' = RowRating(n)
    <2>1. \A n \in Rows : n \in 1..last /\ output'[n] = output[n]
      BY <1>1, <1>2, <1>3
    <2>2. QED
      BY <1>2, <2>1 DEF Rows, RowPoints, RowRating
  <1>5. Rows' = IF line.kind = "row" THEN Rows \cup {last} ELSE Rows
    BY MoreRows
  <1>6. \A n \in Rows : /\ PointsOfRows[n] \in Int /\ PointsOfRows'[n] = PointsOfRows[n]
                        /\ RatingsOfRows[n] \in Int /\ RatingsOfRows'[n] = RatingsOfRows[n]
    BY <1>4, RowsType DEF PointsOfRows, RatingsOfRows
  <1>7. /\ Total(PointsOfRows', Rows) = Total(PointsOfRows, Rows)
        /\ Total(RatingsOfRows', Rows) = Total(RatingsOfRows, Rows)
    <2>1. IsFiniteSet(Rows)
      BY RowsType
    <2>2. QED
      BY <1>6, <2>1, TotalSame
  <1>8. CASE line.kind # "row"
    BY <1>5, <1>7, <1>8
  <1>9. CASE line.kind = "row"
    <2>1. Rows' = Rows \cup {last} /\ last \in Rows'
      BY <1>5, <1>9
    <2>2. line \in Row
      <3>1. output'[last] \in Row \cup TimeOutMessage
        BY <1>1, <1>2, ElementOfSeq DEF TypeOK
      <3>2. QED
        BY <1>2, <1>9, <3>1 DEF TimeOutMessage
    <2>3. PointsOfRows'[last] = line.tpoints /\ RatingsOfRows'[last] = line.rating
          /\ line.tpoints \in Int /\ line.rating \in Int
      BY <1>2, <2>1, <2>2 DEF PointsOfRows, RatingsOfRows, RowPoints, RowRating, Row
    <2>4. /\ \A n \in Rows \cup {last} : PointsOfRows'[n] \in Int
          /\ \A n \in Rows \cup {last} : RatingsOfRows'[n] \in Int
      BY <1>6, <2>3
    <2>5. IsFiniteSet(Rows) /\ last \notin Rows
      BY <1>3, RowsType
    <2> HIDE DEF last
    <2>6. Total(PointsOfRows', Rows \cup {last}) = Total(PointsOfRows', Rows) + PointsOfRows'[last]
      BY <2>4, <2>5, TotalAdd
    <2>7. Total(RatingsOfRows', Rows \cup {last}) = Total(RatingsOfRows', Rows) + RatingsOfRows'[last]
      BY <2>4, <2>5, TotalAdd
    <2>8. QED
      BY <1>7, <1>9, <2>1, <2>3, <2>6, <2>7
  <1>10. QED
    BY <1>8, <1>9

(* A prompt alarm only moves the program to "score", as a failed test does. *)
LEMMA PromptSigalrm ==
    IInv /\ prompt /\ Sigalrm =>
        pc = "test" /\ pc' = "score" /\ UNCHANGED <<i, points, maxPoints, credited>>
  <1> SUFFICES ASSUME IInv, pc = "test", TimeOutLive \/ TimeOutDead \/ TimeOutFault
               PROVE  pc' = "score" /\ UNCHANGED <<i, points, maxPoints, credited>>
    BY DEF Sigalrm
  <1>1. frame = "live"
    BY DEF IInv, FrameInv, InTest
  <1>2. TimeOut(i)
    BY <1>1 DEF TimeOutLive, TimeOutDead, TimeOutFault
  <1>3. QED
    BY <1>2 DEF TimeOut, results

LEMMA NextRowsInv == IInv /\ IInv' /\ RowsInv /\ [Next]_vars => RowsInv'
  <1> SUFFICES ASSUME IInv, IInv', RowsInv, [Next]_vars, prompt, opt.grade
               PROVE  RowsInv'
    BY PromptUnchanged DEF RowsInv
  <1>1. TypeOK /\ TypeOK' /\ points \in Int /\ maxPoints \in Int
    BY DEF IInv, TypeOK
  <1>2. /\ Total(PointsOfRows, Rows) \in Int /\ Total(RatingsOfRows, Rows) \in Int
    BY <1>1, RowsType
  <1>3. /\ points    = Total(PointsOfRows, Rows) + (IF pc = "row" THEN Points(terrors) ELSE 0)
        /\ maxPoints = Total(RatingsOfRows, Rows) + (IF pc = "row" THEN RatingOf(i) ELSE 0)
    BY DEF RowsInv
  <1>4. ASSUME UNCHANGED output
        PROVE  /\ Total(PointsOfRows', Rows') = Total(PointsOfRows, Rows)
               /\ Total(RatingsOfRows', Rows') = Total(RatingsOfRows, Rows)
    BY <1>4 DEF PointsOfRows, RatingsOfRows, Rows, RowPoints, RowRating
  <1>5. CASE Score
    <2>1. /\ pc = "score" /\ pc' = "row" /\ UNCHANGED <<output, terrors, i, opt>>
          /\ points' = points + Points(terrors) /\ maxPoints' = maxPoints + RatingOf(i)
      BY <1>5 DEF Score, input
    <2>2. Points(terrors)' = Points(terrors) /\ RatingOf(i)' = RatingOf(i)
      BY <2>1 DEF Points, RatingOf
    <2>3. points = Total(PointsOfRows, Rows) /\ maxPoints = Total(RatingsOfRows, Rows)
      BY <1>2, <1>3, <2>1
    <2>4. QED
      BY <1>4, <2>1, <2>2, <2>3 DEF RowsInv
  <1>6. CASE PrintRow
    <2> DEFINE row == [kind |-> "row", fn |-> i, tpoints |-> Points(terrors),
                       rating |-> RatingOf(i), errors |-> terrors]
    <2>1. /\ pc = "row" /\ pc' = "select" /\ output' = Append(output, row)
          /\ UNCHANGED <<points, maxPoints>>
      BY <1>6 DEF PrintRow, RowWanted
    <2>2. row.kind = "row" /\ row.tpoints = Points(terrors) /\ row.rating = RatingOf(i)
      OBVIOUS
    <2> HIDE DEF row
    <2>3. /\ Total(PointsOfRows', Rows') = Total(PointsOfRows, Rows) + Points(terrors)
          /\ Total(RatingsOfRows', Rows') = Total(RatingsOfRows, Rows) + RatingOf(i)
      BY <1>1, <2>1, <2>2, MoreOutput
    <2>4. points = Total(PointsOfRows, Rows) + Points(terrors)
          /\ maxPoints = Total(RatingsOfRows, Rows) + RatingOf(i)
      BY <1>3, <2>1
    <2>5. points' = Total(PointsOfRows', Rows') /\ maxPoints' = Total(RatingsOfRows', Rows')
      BY <2>1, <2>3, <2>4
    <2>6. QED
      BY <1>1, <2>1, <2>5 DEF RowsInv
  <1>7. CASE Sigalrm
    <2> DEFINE message == [kind |-> "timeout", fn |-> i, by |-> timer]
    <2>1. /\ pc = "test" /\ pc' = "score" /\ UNCHANGED <<points, maxPoints>>
      BY <1>7, PromptSigalrm
    <2>2. output' = Append(output, message)
      BY <1>7, <2>1 DEF IInv, FrameInv, InTest, Sigalrm, TimeOutLive, TimeOutDead, TimeOutFault, TimeOut
    <2>3. message.kind # "row"
      OBVIOUS
    <2> HIDE DEF message
    <2>4. /\ Total(PointsOfRows', Rows') = Total(PointsOfRows, Rows)
          /\ Total(RatingsOfRows', Rows') = Total(RatingsOfRows, Rows)
      BY <1>1, <2>2, <2>3, MoreOutput
    <2>5. points' = Total(PointsOfRows', Rows') /\ maxPoints' = Total(RatingsOfRows', Rows')
      BY <1>2, <1>3, <2>1, <2>4
    <2>6. QED
      BY <1>1, <2>1, <2>5 DEF RowsInv
  <1>8. CASE UNCHANGED vars
    BY <1>4, <1>3, <1>8 DEF RowsInv, vars, input, results, Points, RatingOf
  <1>9. CASE Step /\ ~Score /\ ~PrintRow
    <2>1. /\ pc # "row" /\ pc' # "row" /\ UNCHANGED <<output, points, maxPoints>>
      BY <1>9 DEF Step, results, SkipTest, CallTest, FinishTests, GenerateValues, SetJump,
         SetAlarm, TestAgrees, TestDisagrees, SolutionCrashes, AllTestsRun
    <2>2. points' = Total(PointsOfRows', Rows') /\ maxPoints' = Total(RatingsOfRows', Rows')
      BY <1>2, <1>3, <1>4, <2>1
    <2>3. QED
      BY <1>1, <2>1, <2>2 DEF RowsInv
  <1>10. QED
    BY <1>5, <1>6, <1>7, <1>8, <1>9 DEF Next

LEMMA RowsInvariance == Spec => []RowsInv
  <1>1. Init => RowsInv
    <2> SUFFICES ASSUME Init PROVE RowsInv
      OBVIOUS
    <2>1. Rows = {}
      BY DEF Init, Rows
    <2>2. Total(PointsOfRows, Rows) = 0 /\ Total(RatingsOfRows, Rows) = 0
      BY <2>1, TotalEmpty
    <2>3. QED
      BY <2>2 DEF Init, RowsInv
  <1>2. IInv /\ IInv' /\ RowsInv /\ [Next]_vars => RowsInv'
    BY NextRowsInv
  <1>3. QED
    BY <1>1, <1>2, Invariance, PTL DEF Spec

LEMMA RowsSum ==
    ASSUME TypeOK
    PROVE  /\ MapThenSumSet(RowPoints, Rows) = Total(PointsOfRows, Rows)
           /\ MapThenSumSet(RowRating, Rows) = Total(RatingsOfRows, Rows)
  <1>1. IsFiniteSet(Rows)
    BY RowsType
  <1>2. MapThenSumSet(RowPoints, Rows) = Total(PointsOfRows, Rows)
    <2>1. PICK sum : /\ MapThenSumSet(RowPoints, Rows) = sum[Rows]
                     /\ sum = CHOOSE f : f = [s \in SUBSET Rows |-> IF s = {} THEN 0
                                   ELSE RowPoints(CHOOSE x \in s : TRUE)
                                            + f[s \ {CHOOSE x \in s : TRUE}]]
      BY DEF MapThenSumSet, MapThenFoldSet
    <2>2. \A s \in SUBSET Rows : s # {} =>
              PointsOfRows[CHOOSE x \in s : TRUE] = RowPoints(CHOOSE x \in s : TRUE)
      BY RowsType
    <2>3. \A f : IsFold(f, PointsOfRows, Rows) <=>
                    f = [s \in SUBSET Rows |-> IF s = {} THEN 0
                             ELSE RowPoints(CHOOSE x \in s : TRUE)
                                      + f[s \ {CHOOSE x \in s : TRUE}]]
      BY <2>2 DEF IsFold
    <2>4. sum = CHOOSE f : IsFold(f, PointsOfRows, Rows)
      BY <2>1, <2>3, ZenonT(40)
    <2>5. \A n \in Rows : PointsOfRows[n] \in Int
      BY RowsType
    <2>6. sum[Rows] = Total(PointsOfRows, Rows)
      BY <1>1, <2>4, <2>5, ChosenFold
    <2>7. QED
      BY <2>1, <2>6
  <1>3. MapThenSumSet(RowRating, Rows) = Total(RatingsOfRows, Rows)
    <2>1. PICK sum : /\ MapThenSumSet(RowRating, Rows) = sum[Rows]
                     /\ sum = CHOOSE f : f = [s \in SUBSET Rows |-> IF s = {} THEN 0
                                   ELSE RowRating(CHOOSE x \in s : TRUE)
                                            + f[s \ {CHOOSE x \in s : TRUE}]]
      BY DEF MapThenSumSet, MapThenFoldSet
    <2>2. \A s \in SUBSET Rows : s # {} =>
              RatingsOfRows[CHOOSE x \in s : TRUE] = RowRating(CHOOSE x \in s : TRUE)
      BY RowsType
    <2>3. \A f : IsFold(f, RatingsOfRows, Rows) <=>
                    f = [s \in SUBSET Rows |-> IF s = {} THEN 0
                             ELSE RowRating(CHOOSE x \in s : TRUE)
                                      + f[s \ {CHOOSE x \in s : TRUE}]]
      BY <2>2 DEF IsFold
    <2>4. sum = CHOOSE f : IsFold(f, RatingsOfRows, Rows)
      BY <2>1, <2>3, ZenonT(40)
    <2>5. \A n \in Rows : RatingsOfRows[n] \in Int
      BY RowsType
    <2>6. sum[Rows] = Total(RatingsOfRows, Rows)
      BY <1>1, <2>4, <2>5, ChosenFold
    <2>7. QED
      BY <2>1, <2>6
  <1>4. QED
    BY <1>2, <1>3

(* The rows that btest -g prints for an autograder add up to the totals it *)
(* prints, when no alarm outlives its function.                            *)
THEOREM RowsAgree == Spec => []RowsAddUp
  <1>1. IInv /\ RowsInv => RowsAddUp
    <2> SUFFICES ASSUME IInv, RowsInv, prompt, opt.grade, pc = "done"
                 PROVE  points = MapThenSumSet(RowPoints, Rows)
                        /\ maxPoints = MapThenSumSet(RowRating, Rows)
      BY DEF RowsAddUp
    <2>1. TypeOK
      BY DEF IInv
    <2>2. Total(PointsOfRows, Rows) \in Int /\ Total(RatingsOfRows, Rows) \in Int
      BY <2>1, RowsType
    <2>3. points = Total(PointsOfRows, Rows) /\ maxPoints = Total(RatingsOfRows, Rows)
      BY <2>2 DEF RowsInv
    <2>4. QED
      BY <2>1, <2>3, RowsSum
  <1>2. QED
    BY <1>1, Invariance, RowsInvariance, PTL

-----------------------------------------------------------------------------
(* The refinement: what holds of the verdicts when alarms are prompt.      *)
VerdictInv ==
    /\ pc \in InTest \cup {"score", "row"} => Selected(i)
    /\ \A f \in credited : Decided(f)

LEMMA NextVerdictInv == IInv /\ prompt /\ VerdictInv /\ [Next]_vars => VerdictInv'
  <1> SUFFICES ASSUME IInv, prompt, VerdictInv, [Next]_vars PROVE VerdictInv'
    OBVIOUS
  <1>1. i \in Int /\ N \in Nat /\ credited \in SUBSET (1..N)
    BY BtestAssumption DEF IInv, TypeOK, Funcs
  <1>2. UNCHANGED opt
    BY PromptUnchanged
  <1> USE <1>1, <1>2 DEF VerdictInv, Decided, InTest, Selected, results, signals
  <1>3. CASE SkipTest
    <2>1. pc' = "select" /\ i' = i + 1 /\ credited' = credited
      BY <1>3 DEF SkipTest
    <2>2. ASSUME NEW f \in credited PROVE f < i'
      BY <1>3, <2>1 DEF SkipTest
    <2>3. QED
      BY <2>1, <2>2
  <1>11. CASE CallTest \/ FinishTests
    BY <1>11 DEF CallTest, FinishTests
  <1>4. CASE GenerateValues \/ SetJump \/ SetAlarm
    BY <1>4 DEF GenerateValues, SetJump, SetAlarm
  <1>5. CASE TestAgrees \/ TestDisagrees \/ SolutionCrashes \/ AllTestsRun
    BY <1>5 DEF TestAgrees, TestDisagrees, SolutionCrashes, AllTestsRun
  <1>6. CASE Score
    BY <1>6 DEF Score
  <1>7. CASE PrintRow
    BY <1>7 DEF PrintRow
  <1>8. CASE Sigalrm
    BY <1>8, PromptSigalrm
  <1>9. CASE UNCHANGED vars
    BY <1>9 DEF vars
  <1>10. QED
    BY <1>3, <1>4, <1>5, <1>6, <1>7, <1>8, <1>9, <1>11 DEF Next, Step

RefInv == IInv /\ (prompt => VerdictInv)

LEMMA RefInvariance == Spec => []RefInv
  <1>1. Init => RefInv
    BY InitIInv DEF RefInv, Init, VerdictInv, InTest
  <1>2. RefInv /\ [Next]_vars => RefInv'
    <2> SUFFICES ASSUME RefInv, [Next]_vars PROVE RefInv'
      OBVIOUS
    <2>1. IInv'
      BY NextTypeOK, NextFrameInv, NextAgreedInv, NextScores DEF RefInv, IInv
    <2>2. prompt' = prompt
      BY PromptUnchanged
    <2>3. CASE prompt
      BY <2>1, <2>3, NextVerdictInv DEF RefInv
    <2>4. CASE ~prompt
      BY <2>1, <2>2, <2>4 DEF RefInv
    <2>5. QED
      BY <2>3, <2>4
  <1>3. QED
    BY <1>1, <1>2, PTL DEF Spec

LEMMA InitGraded == Init => Graded!Init
  <1> SUFFICES ASSUME Init PROVE Graded!Init
    OBVIOUS
  <1>1. \A f \in Funcs : RatingOf(f) \in Nat
    BY BtestAssumption DEF Init, RatingOf, Option, Funcs
  <1>2. \A f \in Funcs : Verdict(f) = "none"
    BY BtestAssumption DEF Init, Verdict, Decided, Funcs
  <1>3. QED
    BY <1>1, <1>2 DEF Init, Graded!Init, Graded!Funcs, Funcs

(* Steps that give no verdict are stuttering steps of the grader.          *)
LEMMA GradedStutter ==
    ASSUME UNCHANGED <<opt, sol, points, maxPoints, credited>>,
           \A f \in Funcs : Decided(f)' <=> Decided(f)
    PROVE  UNCHANGED Graded!vars
  <1>1. \A f \in Funcs : Verdict(f)' = Verdict(f)
    BY DEF Verdict, Selected
  <1>2. \A f \in Funcs : /\ Selected(f)' <=> Selected(f)
                         /\ RatingOf(f)' = RatingOf(f)
                         /\ Caught(f)' <=> Caught(f)
    BY DEF Selected, RatingOf, Caught
  <1>3. QED
    BY <1>1, <1>2 DEF Graded!vars

LEMMA ScoreGrades ==
    ASSUME RefInv, prompt, Score, NoUndeservedCredit'
    PROVE  Graded!Next
  <1> DEFINE verdict == [f \in Funcs |-> Verdict(f)]
             weight  == [f \in Funcs |-> IF Selected(f) THEN RatingOf(f) ELSE 0]
             bad     == {f \in Funcs : Caught(f)}
  <1> USE DEF Score, input
  <1>1. /\ i \in Funcs /\ N \in Nat /\ pc = "score" /\ pc' = "row" /\ i' = i
        /\ UNCHANGED <<opt, sol>> /\ Selected(i) /\ i \notin credited
    BY BtestAssumption DEF RefInv, VerdictInv, IInv, TypeOK, InTest, Decided, Funcs
  <1>2. verdict' = [verdict EXCEPT ![i] = IF terrors = 0 THEN "passed" ELSE "failed"]
    <2>1. \A f \in Funcs \ {i} : Verdict(f)' = Verdict(f)
      BY <1>1 DEF Verdict, Decided, Selected, Funcs
    <2>2. Verdict(i)' = IF terrors = 0 THEN "passed" ELSE "failed"
      BY <1>1 DEF Verdict, Decided, Selected
    <2>3. QED
      BY <2>1, <2>2
  <1>3. weight' = weight /\ bad' = bad
    BY <1>1 DEF Selected, RatingOf, Caught
  <1>4. Graded!Turn(i)
    BY <1>1 DEF Graded!Turn, Verdict, Decided, Selected, Funcs
  <1>5. weight[i] = RatingOf(i) /\ weight[i] > 0
    <2>1. opt.rating \in Nat /\ Rating[i] \in Nat \ {0}
      BY <1>1, BtestAssumption DEF RefInv, IInv, TypeOK, Option
    <2>2. RatingOf(i) > 0
      BY <2>1 DEF RatingOf
    <2>3. QED
      BY <1>1, <2>2
  <1>6. CASE terrors = 0
    <2>1. i \notin bad
      BY <1>1, <1>6, <1>3 DEF NoUndeservedCredit
    <2>2. points' = points + weight[i] /\ maxPoints' = maxPoints + weight[i]
      BY <1>1, <1>5, <1>6 DEF Points
    <2>3. Graded!Pass(i)
      BY <1>2, <1>3, <1>4, <1>5, <1>6, <2>1, <2>2 DEF Graded!Pass
    <2>4. QED
      BY <1>1, <2>3 DEF Graded!Next, Graded!Funcs, Funcs
  <1>7. CASE terrors # 0
    <2>1. points' = points /\ maxPoints' = maxPoints + weight[i]
      BY <1>1, <1>5, <1>7 DEF Points, RefInv, IInv, TypeOK
    <2>2. Graded!Fail(i)
      BY <1>2, <1>3, <1>4, <1>5, <1>7, <2>1 DEF Graded!Fail
    <2>3. QED
      BY <1>1, <2>2 DEF Graded!Next, Graded!Funcs, Funcs
  <1>8. QED
    BY <1>6, <1>7

LEMMA SkipGrades ==
    ASSUME RefInv, prompt, SkipTest
    PROVE  Graded!Next
  <1> DEFINE verdict == [f \in Funcs |-> Verdict(f)]
             weight  == [f \in Funcs |-> IF Selected(f) THEN RatingOf(f) ELSE 0]
             bad     == {f \in Funcs : Caught(f)}
  <1>1. /\ i \in Funcs /\ N \in Nat /\ pc = "select" /\ pc' = "select" /\ i' = i + 1
        /\ UNCHANGED <<opt, sol, points, maxPoints, credited>> /\ ~Selected(i)
    BY BtestAssumption DEF RefInv, IInv, TypeOK, SkipTest, input, results
  <1>2. verdict' = [verdict EXCEPT ![i] = "skipped"]
    <2>1. \A f \in Funcs \ {i} : Decided(f)' <=> Decided(f)
      BY <1>1 DEF Decided, Funcs
    <2>2. \A f \in Funcs \ {i} : Verdict(f)' = Verdict(f)
      BY <1>1, <2>1 DEF Verdict, Selected
    <2>3. ASSUME NEW f \in Funcs, f = i PROVE Verdict(f)' = "skipped"
      <3>1. Decided(f)'
        BY <1>1, <2>3 DEF Decided, Funcs
      <3>2. ~Selected(f)'
        BY <1>1, <2>3 DEF Selected
      <3>3. QED
        BY <3>1, <3>2 DEF Verdict
    <2>4. QED
      BY <2>2, <2>3
  <1>3. weight' = weight /\ bad' = bad
    BY <1>1 DEF Selected, RatingOf, Caught
  <1>4. Graded!Turn(i)
    BY <1>1 DEF Graded!Turn, Verdict, Decided, Selected, Funcs
  <1>5. weight[i] = 0
    BY <1>1
  <1>6. Graded!Skip(i)
    BY <1>1, <1>2, <1>3, <1>4, <1>5 DEF Graded!Skip
  <1>7. QED
    BY <1>1, <1>6 DEF Graded!Next, Graded!Funcs, Funcs

LEMMA StepGrades ==
    ASSUME RefInv, prompt, [Next]_vars, NoUndeservedCredit'
    PROVE  [Graded!Next]_(Graded!vars)
  <1>1. i \in Int /\ N \in Nat
    BY BtestAssumption DEF RefInv, IInv, TypeOK
  <1>2. UNCHANGED <<opt, sol>>
    BY PromptUnchanged
  <1>3. CASE SkipTest
    BY <1>3, SkipGrades
  <1>4. CASE Score
    BY <1>4, ScoreGrades
  <1>5. CASE PrintRow
    <2>1. UNCHANGED <<points, maxPoints, credited>>
      BY <1>5 DEF PrintRow
    <2>2. \A f \in Funcs : Decided(f)' <=> Decided(f)
      BY <1>1, <1>5 DEF PrintRow, Decided, Funcs
    <2>3. QED
      BY <1>2, <2>1, <2>2, GradedStutter
  <1>6. CASE ~(SkipTest \/ Score \/ PrintRow)
    <2>1. UNCHANGED <<points, maxPoints, credited, i>>
      BY <1>6, PromptSigalrm DEF RefInv, Next, Step, vars, results, CallTest, FinishTests,
         GenerateValues, SetJump, SetAlarm, TestAgrees, TestDisagrees, SolutionCrashes, AllTestsRun
    <2>2. pc' = "row" <=> pc = "row"
      BY <1>6, PromptSigalrm DEF RefInv, Next, Step, vars, CallTest, FinishTests,
         GenerateValues, SetJump, SetAlarm, TestAgrees, TestDisagrees, SolutionCrashes, AllTestsRun
    <2>3. \A f \in Funcs : Decided(f)' <=> Decided(f)
      BY <2>1, <2>2 DEF Decided
    <2>4. QED
      BY <1>2, <2>1, <2>3, GradedStutter
  <1>7. QED
    BY <1>3, <1>4, <1>5, <1>6

(* When no alarm outlives its function, test_function and run_tests        *)
(* implement the safety part of Grader, for every table and option: each   *)
(* function gets one verdict, in order, and the totals are the verdicts'.  *)
THEOREM Refinement == Spec => ImplementsGrader
  <1>1. Init => (prompt => Graded!Init)
    BY InitGraded
  <1>2. RefInv /\ RefInv' /\ [Next]_vars => [prompt => Graded!Next]_(Graded!vars)
    <2> SUFFICES ASSUME RefInv, RefInv', [Next]_vars, prompt
                 PROVE  [Graded!Next]_(Graded!vars)
      OBVIOUS
    <2>1. NoUndeservedCredit'
      BY DEF RefInv, IInv
    <2>2. QED
      BY <2>1, StepGrades
  <1>3. QED
    BY <1>1, <1>2, RefInvariance, PTL DEF Spec, ImplementsGrader

=============================================================================
