------------------------- MODULE CacheDriverProofs -------------------------
(* What test-trans credits, for every number of runs, registration and     *)
(* behaviour of the registered functions, and what driver.py makes of it   *)
(* for every number of matrix sizes.                                       *)
EXTENDS CacheDriver, TLAPS, FiniteSetTheorems

(* The function at i has been validated and is being measured.             *)
Measuring == pc \in {"filter", "sim", "simulating", "collect"}

(* At most the current tracegen or csim-ref is alive, and only while       *)
(* test-trans waits for it or after it has timed out.                      *)
TracerInv ==
    /\ tracers \subseteq {Me} /\ simulators \subseteq {Me}
    /\ tracers # {} => (pc = "wait" /\ status = Running) \/ pc = "exited"
    /\ simulators # {} => pc = "simulating" \/ pc = "exited"
    /\ tracers = {} \/ simulators = {}

(* The files on the way from the trace to the counts are the function's.   *)
FileInv ==
    /\ pc = "wait" => trace = IF status = Running THEN {} ELSE {Me}
    /\ pc = "filter" => trace = {Me}
    /\ pc \in {"sim", "simulating"} => part[i] = {Me}
    /\ pc = "collect" /\ sim_ok => csim_results = File({Me})

StatusInv ==
    /\ pc = "wait" /\ status = 0 => beh[run][i] = "right"
    /\ Measuring => beh[run][i] = "right"

IndexInv ==
    /\ pc = "wait" \/ Measuring => i <= Len(func_list)
    /\ funcid # NoFunc =>
          /\ funcid \in 1..Len(func_list) /\ func_list[funcid] = Submission

ResultInv ==
    /\ pc \in {"start", "loop", "wait", "emitted"} \/ (Measuring /\ funcid # i)
          => (correct = 1 <=> misses.kind = "count")
    /\ Measuring /\ funcid = i => correct = 1
    /\ pc = "start" => funcid = NoFunc

(* What a result line may say of a run.                                    *)
Earned(r, line) ==
    line.correct = 1 => \E f \in 1..Len(func_list) :
        /\ func_list[f] = Submission
        /\ beh[r][f] = "right"
        /\ line.misses = Count({[run |-> r, fn |-> f]})

OutInv ==
    /\ pc \notin {"emitted", "exited"} => out = <<>>
    /\ sim_ok /\ out # <<>> => Earned(run, out[1])

TTInv ==
    /\ TypeOK /\ TracerInv /\ FileInv /\ StatusInv /\ IndexInv /\ ResultInv /\ OutInv
    /\ CorrectIsValidated /\ MissesAreOwnIfSim

-----------------------------------------------------------------------------
(* The types in the form the steps use.                                    *)
MissesType == {INT_MAX, Zero} \cup {Count(o) : o \in Origin}

(* What may be registered.                                                 *)
LEMMA Registered ==
    TypeOK => /\ func_list \in Seq({Submission, "other"})
              /\ Len(func_list) \in 0..MaxFuncs
  BY TestTransAssumption DEF TypeOK

(* The fields of a result line.                                            *)
LEMMA ResultTypes ==
    /\ TypeOK => correct \in {0, 1} /\ misses \in MissesType
    /\ \A c \in {0, 1} : \A m \in MissesType : [correct |-> c, misses |-> m] \in Line
  BY DEF TypeOK, Line, MissesType

(* The tracegen of a registered function is a tracer.                      *)
LEMMA CurrentTracer == TypeOK /\ i <= MaxFuncs => Me \in Tracer
  BY TestTransAssumption DEF TypeOK, Me, Tracer

(* While a function is evaluated the loop's index may be increased.        *)
LEMMA NextIndex ==
    TypeOK /\ IndexInv /\ (pc = "wait" \/ Measuring)
        => i \in 1..MaxFuncs /\ i + 1 \in 1..(MaxFuncs + 1)
  <1> SUFFICES ASSUME TypeOK, IndexInv, pc = "wait" \/ Measuring
               PROVE  i \in 1..MaxFuncs /\ i + 1 \in 1..(MaxFuncs + 1)
    OBVIOUS
  <1>1. i <= Len(func_list) /\ i \in Nat \ {0}
    BY TestTransAssumption DEF IndexInv, TypeOK
  <1>2. PICK n \in 0..MaxFuncs : n = Len(func_list)
    BY Registered
  <1>3. i \in 1..n
    BY <1>1, <1>2, TestTransAssumption
  <1>4. QED
    BY <1>2, <1>3, TestTransAssumption

(* The alarm is set.                                                       *)
LEMMA StartStep == TTInv /\ Start => TTInv'
  <1> SUFFICES ASSUME TTInv, Start PROVE TTInv'
    OBVIOUS
  <1> USE DEF TTInv, children, Start, files, results, inputs
  <1>1. TypeOK'
    BY DEF TypeOK
  <1>2. TracerInv' /\ FileInv'
    <2>1. Me' = Me
      BY DEF Me
    <2>2. QED
      BY <2>1 DEF TracerInv, FileInv
  <1>3. StatusInv' /\ IndexInv'
    BY DEF StatusInv, IndexInv, ResultInv, Measuring
  <1>4. ResultInv' /\ OutInv'
    BY DEF ResultInv, OutInv, Measuring, Earned
  <1>5. CorrectIsValidated' /\ MissesAreOwnIfSim'
    BY DEF CorrectIsValidated, MissesAreOwnIfSim, MissesAreOwn, ValidSubmission
  <1>6. QED
    BY <1>1, <1>2, <1>3, <1>4, <1>5

(* A tracegen is started when the one before it has ended.                 *)
LEMMA TraceStep == TTInv /\ Trace => TTInv'
  <1> SUFFICES ASSUME TTInv, Trace PROVE TTInv'
    OBVIOUS
  <1> USE DEF TTInv, children, Trace, results, inputs
  <1>1. Me' = Me /\ Me \in Tracer
    BY Registered, CurrentTracer, TestTransAssumption DEF Me, TypeOK
  <1>2. TypeOK'
    <2>1. funcid' \in 0..MaxFuncs
      BY Registered, TestTransAssumption DEF TypeOK
    <2>2. tracers' \in Origin /\ trace' \in Origin
      BY <1>1 DEF TypeOK, Origin
    <2>3. QED
      BY <2>1, <2>2 DEF TypeOK, Running
  <1>3. TracerInv' /\ FileInv'
    BY <1>1 DEF TracerInv, FileInv
  <1>4. StatusInv' /\ IndexInv'
    BY Registered, TestTransAssumption DEF StatusInv, IndexInv, Measuring, Running, TypeOK
  <1>5. funcid # NoFunc => funcid' # NoFunc
    BY DEF TypeOK, NoFunc
  <1>6. ResultInv' /\ OutInv'
    BY DEF ResultInv, OutInv, Measuring, Earned
  <1>7. CorrectIsValidated' /\ MissesAreOwnIfSim'
    BY <1>5 DEF CorrectIsValidated, MissesAreOwnIfSim, MissesAreOwn, ValidSubmission
  <1>8. QED
    BY <1>2, <1>3, <1>4, <1>6, <1>7

(* A function that failed leaves nothing in the results.                   *)
LEMMA SkipInvalidStep == TTInv /\ SkipInvalid => TTInv'
  <1> SUFFICES ASSUME TTInv, SkipInvalid PROVE TTInv'
    OBVIOUS
  <1> USE DEF TTInv, children, SkipInvalid, files, results, inputs
  <1>1. i' \in 1..(MaxFuncs + 1)
    BY NextIndex
  <1>2. TypeOK'
    BY <1>1 DEF TypeOK
  <1>3. tracers = {}
    BY DEF TracerInv, Running
  <1>4. TracerInv' /\ FileInv'
    BY <1>3 DEF TracerInv, FileInv
  <1>5. StatusInv' /\ IndexInv'
    BY Registered, TestTransAssumption DEF StatusInv, IndexInv, Measuring, TypeOK
  <1>6. ResultInv' /\ OutInv'
    BY DEF ResultInv, OutInv, Measuring, Earned
  <1>7. CorrectIsValidated' /\ MissesAreOwnIfSim'
    BY DEF CorrectIsValidated, MissesAreOwnIfSim, MissesAreOwn, ValidSubmission
  <1>8. QED
    BY <1>2, <1>4, <1>5, <1>6, <1>7

(* Only here a function becomes correct: its tracegen returned 0.          *)
LEMMA ReadMarkersStep == TTInv /\ ReadMarkers => TTInv'
  <1> SUFFICES ASSUME TTInv, ReadMarkers PROVE TTInv'
    OBVIOUS
  <1> USE DEF TTInv, children, ReadMarkers, Validated, Correct, inputs
  <1>1. TypeOK'
    <2>1. correct' \in {0, 1} /\ misses' \in MissesType
      BY ResultTypes
    <2>2. [correct |-> correct', misses |-> misses'] \in Line
      BY <2>1, ResultTypes
    <2>3. QED
      BY <2>2 DEF TypeOK, files
  <1>2. Me' = Me
    BY DEF Me
  <1>3. TracerInv' /\ FileInv'
    BY <1>2 DEF TracerInv, FileInv, Running, files
  <1>4. StatusInv' /\ IndexInv'
    BY DEF StatusInv, IndexInv, Measuring
  <1>5. ResultInv' /\ OutInv'
    BY DEF ResultInv, OutInv, Measuring, Earned
  <1>6. CorrectIsValidated'
    <2>1. funcid = i => ValidSubmission(i)
      BY DEF IndexInv, StatusInv, ValidSubmission, TypeOK, NoFunc
    <2>2. i # NoFunc
      BY DEF TypeOK, NoFunc
    <2>3. funcid = i => i \in 1..Len(func_list)
      BY <2>1 DEF ValidSubmission
    <2>4. QED
      BY <2>1, <2>2, <2>3 DEF CorrectIsValidated, ValidSubmission
  <1>7. MissesAreOwnIfSim'
    BY DEF MissesAreOwnIfSim, MissesAreOwn, ValidSubmission
  <1>8. QED
    BY <1>1, <1>3, <1>4, <1>5, <1>6, <1>7

(* The trace that is filtered is complete.                                 *)
LEMMA FilterStep == TTInv /\ Filter => TTInv'
  <1> SUFFICES ASSUME TTInv, Filter PROVE TTInv'
    OBVIOUS
  <1> USE DEF TTInv, children, Filter, results, inputs
  <1>1. i \in 1..MaxFuncs
    BY NextIndex DEF Measuring
  <1>2. part' \in [1..MaxFuncs -> Origin] /\ part'[i] = trace
    BY <1>1 DEF TypeOK
  <1>3. TypeOK'
    BY <1>2 DEF TypeOK
  <1>4. Me' = Me
    BY DEF Me
  <1>5. TracerInv' /\ FileInv'
    BY <1>2, <1>4 DEF TracerInv, FileInv
  <1>6. StatusInv' /\ IndexInv'
    BY DEF StatusInv, IndexInv, Measuring
  <1>7. ResultInv' /\ OutInv'
    BY DEF ResultInv, OutInv, Measuring, Earned
  <1>8. CorrectIsValidated' /\ MissesAreOwnIfSim'
    BY DEF CorrectIsValidated, MissesAreOwnIfSim, MissesAreOwn, ValidSubmission
  <1>9. QED
    BY <1>3, <1>5, <1>6, <1>7, <1>8

(* A csim-ref is started when the tracegen has ended.                      *)
LEMMA SimulateStep == TTInv /\ Simulate => TTInv'
  <1> SUFFICES ASSUME TTInv, Simulate PROVE TTInv'
    OBVIOUS
  <1> USE DEF TTInv, Simulate, files, results, inputs
  <1>1. Me' = Me /\ Me \in Tracer
    BY NextIndex, CurrentTracer, TestTransAssumption DEF Me, Measuring
  <1>2. simulators = {} /\ tracers = {} /\ simulators' = {Me}
    BY DEF TracerInv
  <1>3. TypeOK'
    BY <1>1, <1>2 DEF TypeOK, Origin
  <1>4. TracerInv' /\ FileInv'
    BY <1>1, <1>2 DEF TracerInv, FileInv
  <1>5. StatusInv' /\ IndexInv'
    BY DEF StatusInv, IndexInv, Measuring
  <1>6. ResultInv' /\ OutInv'
    BY DEF ResultInv, OutInv, Measuring, Earned
  <1>7. CorrectIsValidated' /\ MissesAreOwnIfSim'
    BY DEF CorrectIsValidated, MissesAreOwnIfSim, MissesAreOwn, ValidSubmission
  <1>8. QED
    BY <1>3, <1>4, <1>5, <1>6, <1>7

(* The counts are recorded for the submission only.                        *)
LEMMA CollectStep == TTInv /\ Collect => TTInv'
  <1> SUFFICES ASSUME TTInv, Collect PROVE TTInv'
    OBVIOUS
  <1> USE DEF TTInv, children, Collect, Misses, inputs
  <1>1. csim_results.of \in Origin
    BY DEF TypeOK, Absent, File
  <1>2. TypeOK'
    <2>1. correct' \in {0, 1} /\ misses' \in MissesType
      BY <1>1, ResultTypes DEF MissesType
    <2>2. [correct |-> correct', misses |-> misses'] \in Line
      BY <2>1, ResultTypes
    <2>3. i' \in 1..(MaxFuncs + 1)
      BY NextIndex DEF Measuring
    <2>4. QED
      BY <2>2, <2>3 DEF TypeOK, files
  <1>3. TracerInv' /\ FileInv'
    BY DEF TracerInv, FileInv, files
  <1>4. StatusInv' /\ IndexInv'
    BY DEF StatusInv, IndexInv, Measuring
  <1>5. funcid # i => UNCHANGED misses
    OBVIOUS
  <1>6. funcid = i => misses' = Count(csim_results.of) /\ correct = 1
    BY DEF ResultInv, Measuring
  <1>7. ResultInv' /\ OutInv'
    BY <1>5, <1>6 DEF ResultInv, OutInv, Measuring, Earned, Count
  <1>8. CorrectIsValidated'
    BY DEF CorrectIsValidated, ValidSubmission
  <1>9. MissesAreOwnIfSim'
    <2>1. sim_ok => csim_results.of = {[run |-> run, fn |-> i]}
      BY DEF FileInv, File, Me
    <2>2. funcid = i => i \in 1..Len(func_list) /\ ValidSubmission(i)
      BY DEF IndexInv, StatusInv, Measuring, ValidSubmission, TypeOK, NoFunc
    <2>3. CASE funcid # i
      BY <1>5, <2>3 DEF MissesAreOwnIfSim, MissesAreOwn, ValidSubmission
    <2>4. CASE funcid = i
      BY <1>6, <2>1, <2>2, <2>4 DEF MissesAreOwnIfSim, MissesAreOwn, ValidSubmission, Count
    <2>5. QED
      BY <2>3, <2>4
  <1>10. QED
    BY <1>2, <1>3, <1>4, <1>7, <1>8, <1>9

(* An assertion loses the output.                                          *)
LEMMA AbortStep == TTInv /\ Abort => TTInv'
  <1> SUFFICES ASSUME TTInv, Abort PROVE TTInv'
    OBVIOUS
  <1> USE DEF TTInv, children, Abort, files, results, inputs
  <1>1. TypeOK'
    <2>1. out' \in Seq(Line)
      OBVIOUS
    <2>2. QED
      BY <2>1 DEF TypeOK
  <1>2. Me' = Me
    BY DEF Me
  <1>3. TracerInv' /\ FileInv'
    BY <1>2 DEF TracerInv, FileInv
  <1>4. StatusInv' /\ IndexInv'
    BY DEF StatusInv, IndexInv, Measuring
  <1>5. ResultInv' /\ OutInv'
    BY DEF ResultInv, OutInv, Measuring, Earned
  <1>6. CorrectIsValidated' /\ MissesAreOwnIfSim'
    BY DEF CorrectIsValidated, MissesAreOwnIfSim, MissesAreOwn, ValidSubmission
  <1>7. QED
    BY <1>1, <1>3, <1>4, <1>5, <1>6

(* The result line says what was earned.                                   *)
LEMMA EmitStep == TTInv /\ Emit => TTInv'
  <1> SUFFICES ASSUME TTInv, Emit PROVE TTInv'
    OBVIOUS
  <1> USE DEF TTInv, children, Emit, files, results, inputs
  <1>1. PICK line \in Line :
            line = IF funcid = NoFunc THEN [correct |-> 0, misses |-> Zero]
                   ELSE [correct |-> correct, misses |-> misses]
    BY ResultTypes DEF MissesType
  <1>2. out' = <<line>>
    BY <1>1 DEF OutInv
  <1>3. TypeOK'
    BY <1>1, <1>2 DEF TypeOK
  <1>4. Me' = Me
    BY DEF Me
  <1>5. TracerInv' /\ FileInv'
    BY <1>4 DEF TracerInv, FileInv
  <1>6. StatusInv' /\ IndexInv'
    BY DEF StatusInv, IndexInv, Measuring
  <1>7. ResultInv'
    BY DEF ResultInv, Measuring
  <1>8. OutInv'
    <2>1. ASSUME sim_ok, line.correct = 1 PROVE Earned(run, line)
      <3>1. funcid # NoFunc /\ correct = 1 /\ line.misses = misses
        BY <1>1, <2>1
      <3>2. misses.kind = "count"
        BY <3>1 DEF ResultInv
      <3>3. PICK f \in 1..Len(func_list) :
                ValidSubmission(f) /\ misses.of = {[run |-> run, fn |-> f]}
        BY <2>1, <3>2 DEF MissesAreOwnIfSim, MissesAreOwn
      <3>4. misses = Count({[run |-> run, fn |-> f]})
        BY <3>2, <3>3, ResultTypes DEF MissesType, INT_MAX, Zero, Count
      <3>5. QED
        BY <3>1, <3>3, <3>4 DEF Earned, ValidSubmission
    <2>2. sim_ok => Earned(run, line)
      BY <2>1 DEF Earned
    <2>3. out'[1] = line
      BY <1>2
    <2>4. QED
      BY <2>2, <2>3 DEF OutInv, Earned
  <1>9. CorrectIsValidated' /\ MissesAreOwnIfSim'
    BY DEF CorrectIsValidated, MissesAreOwnIfSim, MissesAreOwn, ValidSubmission
  <1>10. QED
    BY <1>3, <1>5, <1>6, <1>7, <1>8, <1>9

(* Exit changes no result.                                                 *)
LEMMA ExitStep == TTInv /\ Exit => TTInv'
  <1> SUFFICES ASSUME TTInv, Exit PROVE TTInv'
    OBVIOUS
  <1> USE DEF TTInv, children, Exit, files, results, inputs
  <1>1. TypeOK'
    BY DEF TypeOK
  <1>2. Me' = Me
    BY DEF Me
  <1>3. TracerInv' /\ FileInv'
    BY <1>2 DEF TracerInv, FileInv
  <1>4. StatusInv' /\ IndexInv'
    BY DEF StatusInv, IndexInv, Measuring
  <1>5. ResultInv' /\ OutInv'
    BY DEF ResultInv, OutInv, Measuring, Earned
  <1>6. CorrectIsValidated' /\ MissesAreOwnIfSim'
    BY DEF CorrectIsValidated, MissesAreOwnIfSim, MissesAreOwn, ValidSubmission
  <1>7. QED
    BY <1>1, <1>3, <1>4, <1>5, <1>6

(* The handler's line comes after a result line already printed.           *)
LEMMA TimeOutStep == TTInv /\ TimeOut => TTInv'
  <1> SUFFICES ASSUME TTInv, TimeOut PROVE TTInv'
    OBVIOUS
  <1> USE DEF TTInv, children, TimeOut, files, results, inputs
  <1>1. PICK line \in Line : line = [correct |-> 0, misses |-> Zero]
    BY ResultTypes DEF MissesType
  <1>2. out \in Seq(Line) /\ out' = Append(out, line)
    BY <1>1 DEF TypeOK
  <1>3. TypeOK'
    <2>1. out' \in Seq(Line)
      BY <1>2
    <2>2. QED
      BY <2>1 DEF TypeOK
  <1>4. Me' = Me
    BY DEF Me
  <1>5. TracerInv' /\ FileInv'
    BY <1>4 DEF TracerInv, FileInv
  <1>6. StatusInv' /\ IndexInv'
    BY DEF StatusInv, IndexInv, Measuring
  <1>7. ResultInv'
    BY DEF ResultInv, Measuring
  <1>8. OutInv'
    <2>1. CASE out = <<>>
      BY <1>1, <1>2, <2>1 DEF OutInv, Earned
    <2>2. CASE out # <<>>
      <3>1. out'[1] = out[1]
        BY <1>1, <1>2, <2>2
      <3>2. QED
        BY <2>2, <3>1 DEF OutInv, Earned
    <2>3. QED
      BY <2>1, <2>2
  <1>9. CorrectIsValidated' /\ MissesAreOwnIfSim'
    BY DEF CorrectIsValidated, MissesAreOwnIfSim, MissesAreOwn, ValidSubmission
  <1>10. QED
    BY <1>3, <1>5, <1>6, <1>7, <1>8, <1>9

(* A tracegen that ends is the current one.                                *)
LEMMA TracerEndsStep ==
    ASSUME TTInv, NEW t \in tracers, TracerEnds(t)
    PROVE  TTInv'
  <1> USE DEF TTInv, children, TracerEnds, results, inputs
  <1>1. t = Me /\ Me' = Me
    BY DEF TracerInv, Me
  <1>2. t \in Tracer /\ beh[t.run][t.fn] = beh[run][i]
    BY <1>1 DEF TypeOK, Origin, Me
  <1>3. ExitStatus(t) \in 0..255 /\ (ExitStatus(t) = 0 => beh[run][i] = "right")
    <2>1. beh[t.run][t.fn] \in {"right", "wrong", "crashes"}
      <3>1. t.run \in 1..Runs /\ t.fn \in 1..MaxFuncs
        BY <1>2 DEF Tracer
      <3>2. beh[t.run] \in [1..MaxFuncs -> Behaviours]
        BY <3>1 DEF TypeOK
      <3>3. beh[t.run][t.fn] \in Behaviours
        BY <3>1, <3>2
      <3>4. QED
        BY <3>3, TestTransAssumption
    <2>2. t.fn \in 1..255
      <3>1. t.fn \in 1..MaxFuncs
        BY <1>2 DEF Tracer
      <3>2. MaxFuncs \in 1..255
        BY TestTransAssumption
      <3>3. QED
        BY <3>1, <3>2
    <2>3. QED
      BY <1>2, <2>1, <2>2 DEF ExitStatus
  <1>4. status' \in Running..255 /\ tracers' = {}
    BY <1>1, <1>3 DEF TypeOK, TracerInv, Running
  <1>5. trace' \in Origin
    BY <1>2 DEF TypeOK, Origin
  <1>6. TypeOK'
    BY <1>4, <1>5 DEF TypeOK, Origin
  <1>7. TracerInv'
    BY <1>1, <1>4 DEF TracerInv
  <1>8. FileInv'
    <2>1. pc = "wait" => trace' = {Me} /\ status' # Running
      BY <1>1, <1>3 DEF TracerInv, FileInv, Running
    <2>2. pc \in {"wait", "exited"}
      BY DEF TracerInv
    <2>3. QED
      BY <1>1, <2>1, <2>2 DEF FileInv
  <1>9. StatusInv' /\ IndexInv'
    BY <1>1, <1>3 DEF StatusInv, IndexInv, Measuring, TracerInv
  <1>10. ResultInv' /\ OutInv'
    BY DEF ResultInv, OutInv, Measuring, Earned
  <1>11. CorrectIsValidated' /\ MissesAreOwnIfSim'
    BY DEF CorrectIsValidated, MissesAreOwnIfSim, MissesAreOwn, ValidSubmission
  <1>12. QED
    BY <1>6, <1>7, <1>8, <1>9, <1>10, <1>11

(* The counts are those of the trace, if csim-ref runs.                    *)
LEMMA SimulatorEndsStep ==
    ASSUME TTInv, NEW t \in simulators, SimulatorEnds(t)
    PROVE  TTInv'
  <1> USE DEF TTInv, children, SimulatorEnds, results, inputs
  <1>1. t = Me /\ Me' = Me
    BY DEF TracerInv, Me
  <1>2. t \in Tracer /\ t.fn = i /\ i \in 1..MaxFuncs
    BY <1>1 DEF TypeOK, Origin, Me, Tracer
  <1>3. pc' = (IF pc = "simulating" THEN "collect" ELSE pc) /\ pc \in {"simulating", "exited"}
    BY <1>1 DEF TracerInv
  <1>4. simulators' = {} /\ tracers' = {}
    BY <1>1 DEF TracerInv
  <1>5. csim_results' = IF sim_ok THEN File(part[i]) ELSE csim_results
    BY <1>2
  <1>6. TypeOK'
    <2>1. csim_results' \in {Absent} \cup {File(o) : o \in Origin}
      BY <1>2, <1>5 DEF TypeOK
    <2>2. QED
      BY <1>3, <1>4, <2>1 DEF TypeOK, Origin
  <1>7. TracerInv' /\ FileInv'
    BY <1>1, <1>3, <1>4, <1>5 DEF TracerInv, FileInv
  <1>8. StatusInv' /\ IndexInv'
    BY <1>3 DEF StatusInv, IndexInv, Measuring
  <1>9. ResultInv' /\ OutInv'
    BY <1>3 DEF ResultInv, OutInv, Measuring, Earned
  <1>10. CorrectIsValidated' /\ MissesAreOwnIfSim'
    BY DEF CorrectIsValidated, MissesAreOwnIfSim, MissesAreOwn, ValidSubmission
  <1>11. QED
    BY <1>6, <1>7, <1>8, <1>9, <1>10

LEMMA ChildEndsStep == TTInv /\ ChildEnds => TTInv'
  BY TracerEndsStep, SimulatorEndsStep DEF ChildEnds

(* A step that changes nothing preserves the invariant.                    *)
LEMMA TTStutter == TTInv /\ UNCHANGED ttvars => TTInv'
  <1> SUFFICES ASSUME TTInv, UNCHANGED ttvars PROVE TTInv'
    OBVIOUS
  <1> USE DEF TTInv, children, ttvars, files, results, inputs
  <1>1. TypeOK'
    BY DEF TypeOK
  <1>2. Me' = Me
    BY DEF Me
  <1>3. TracerInv' /\ FileInv'
    BY <1>2 DEF TracerInv, FileInv
  <1>4. StatusInv' /\ IndexInv'
    BY DEF StatusInv, IndexInv, Measuring
  <1>5. ResultInv' /\ OutInv'
    BY DEF ResultInv, OutInv, Measuring, Earned
  <1>6. CorrectIsValidated' /\ MissesAreOwnIfSim'
    BY DEF CorrectIsValidated, MissesAreOwnIfSim, MissesAreOwn, ValidSubmission
  <1>7. QED
    BY <1>1, <1>3, <1>4, <1>5, <1>6

(* The invariant holds when test-trans starts.                             *)
LEMMA TTInit == Init => TTInv
  <1> SUFFICES ASSUME Init PROVE TTInv
    OBVIOUS
  <1> USE DEF Init, ProcessInit
  <1>1. TypeOK
    <2>1. [correct |-> correct, misses |-> misses] \in Line
      BY ResultTypes DEF MissesType
    <2>2. {} \in Origin
      BY DEF Origin
    <2>3. csim_results \in {Absent} \cup {File(o) : o \in Origin}
      BY <2>2
    <2>4. run \in 1..Runs /\ i \in 1..(MaxFuncs + 1) /\ funcid \in 0..MaxFuncs /\ status \in Running..255
      BY TestTransAssumption DEF NoFunc, Running
    <2>5. part \in [1..MaxFuncs -> Origin] /\ out \in Seq(Line)
      BY <2>2
    <2>6. QED
      BY <2>1, <2>2, <2>3, <2>4, <2>5 DEF TypeOK
  <1>2. TracerInv /\ FileInv /\ StatusInv /\ IndexInv
    BY DEF TracerInv, FileInv, StatusInv, IndexInv, Measuring
  <1>3. ResultInv /\ OutInv
    BY DEF ResultInv, OutInv, Measuring, INT_MAX
  <1>4. CorrectIsValidated /\ MissesAreOwnIfSim
    BY DEF CorrectIsValidated, MissesAreOwnIfSim, MissesAreOwn, ValidSubmission, INT_MAX
  <1>5. QED
    BY <1>1, <1>2, <1>3, <1>4 DEF TTInv

(* Every step of test-trans and its children preserves the invariant.      *)
LEMMA TTStep == TTInv /\ (Evaluate \/ TimeOut \/ ChildEnds) => TTInv'
  BY StartStep, TraceStep, SkipInvalidStep, ReadMarkersStep, FilterStep, SimulateStep,
     CollectStep, AbortStep, EmitStep, ExitStep, TimeOutStep, ChildEndsStep
  DEF Evaluate

-----------------------------------------------------------------------------

(* The inductive invariant holds of every execution of test-trans.         *)
THEOREM Invariance == Spec => []TTInv
  <1>1. TTInv /\ [Next]_ttvars => TTInv'
    BY TTStep, TTStutter DEF Next
  <1>2. QED
    BY TTInit, <1>1, PTL DEF Spec

(* eval_perf's results, files and index keep their types.                  *)
THEOREM TypeCorrect == Spec => []TypeOK
  <1>1. TTInv => TypeOK
    BY DEF TTInv
  <1>2. QED
    BY Invariance, <1>1, PTL

(* The submission is recorded as correct only after tracegen has validated *)
(* it, whatever the other functions do and whenever time runs out.         *)
THEOREM CreditIsValidated == Spec => []CorrectIsValidated
  <1>1. TTInv => CorrectIsValidated
    BY DEF TTInv
  <1>2. QED
    BY Invariance, <1>1, PTL

(* Where csim-ref runs, the misses recorded are the submission's own.      *)
THEOREM MissesOwn == Spec => []MissesAreOwnIfSim
  <1>1. TTInv => MissesAreOwnIfSim
    BY DEF TTInv
  <1>2. QED
    BY Invariance, <1>1, PTL

(* eval_perf filters complete traces, each of the function it is at.       *)
THEOREM TraceOwn == Spec => []TraceIsOwn
  <1>1. TTInv => TraceIsOwn
    BY DEF TTInv, FileInv, TraceIsOwn
  <1>2. QED
    BY Invariance, <1>1, PTL

(* The result line has misses exactly if it says the submission is correct. *)
THEOREM PerformanceRecorded == Spec => []PerformanceOfCorrect
  <1>1. TTInv => PerformanceOfCorrect
    BY DEF TTInv, ResultInv, PerformanceOfCorrect
  <1>2. QED
    BY Invariance, <1>1, PTL

(***************************************************************************)
(* driver.py: what it credits, for every number of matrix sizes.           *)
(***************************************************************************)

(* Every output read so far says only what was earned in its run.          *)
SheetInv ==
    /\ \A r \in 1..Runs : sim_ok /\ sheet[r] # <<>> => Earned(r, sheet[r][1])
    /\ dpc = "summary" => \A r \in 1..Runs : sheet[r] # <<>>

DriverVarsOK ==
    /\ dpc \in {"csim", "communicate", "score", "summary", "traceback"}
    /\ csim \in BOOLEAN
    /\ sheet \in [1..Runs -> Seq(Line)]

DInv == TTInv /\ DriverVarsOK /\ SheetInv

(* A line is worth the same before and after a step of test-trans.         *)
LEMMA SheetKept ==
    ASSUME SheetInv, UNCHANGED <<inputs, dpc, sheet>>
    PROVE  SheetInv'
  BY DEF SheetInv, Earned, inputs

LEMMA DriverStart == DriverInit => DInv
  <1> SUFFICES ASSUME DriverInit PROVE DInv
    OBVIOUS
  <1>1. TTInv
    BY TTInit DEF DriverInit
  <1>2. sheet \in [1..Runs -> Seq(Line)] /\ \A r \in 1..Runs : sheet[r] = <<>>
    <2>1. <<>> \in Seq(Line)
      OBVIOUS
    <2>2. QED
      BY <2>1 DEF DriverInit
  <1>3. DriverVarsOK /\ SheetInv
    BY <1>2 DEF DriverInit, DriverVarsOK, SheetInv
  <1>4. QED
    BY <1>1, <1>3 DEF DInv

(* test-trans and its children change neither inputs nor the sheet.        *)
LEMMA ProcessStep ==
    DInv /\ (Evaluate \/ TimeOut \/ ChildEnds) /\ UNCHANGED dvars => DInv'
  <1> SUFFICES ASSUME DInv, Evaluate \/ TimeOut \/ ChildEnds, UNCHANGED dvars PROVE DInv'
    OBVIOUS
  <1>1. TTInv'
    BY TTStep DEF DInv
  <1>2. UNCHANGED inputs
    BY DEF Evaluate, TimeOut, ChildEnds, Start, Trace, SkipInvalid, ReadMarkers, Filter,
           Simulate, Collect, Abort, Emit, Exit, TracerEnds, SimulatorEnds
  <1>3. UNCHANGED <<dpc, csim, sheet>>
    BY DEF dvars
  <1>4. SheetInv'
    BY <1>2, <1>3, SheetKept DEF DInv
  <1>5. DriverVarsOK'
    BY <1>3 DEF DInv, DriverVarsOK
  <1>6. QED
    BY <1>1, <1>4, <1>5 DEF DInv

(* Only driver.py's own variables change.                                  *)
LEMMA OwnStep == DInv /\ (TestCsim \/ Score) => DInv'
  <1> SUFFICES ASSUME DInv, TestCsim \/ Score PROVE DInv'
    OBVIOUS
  <1>1. UNCHANGED ttvars /\ UNCHANGED sheet
    BY DEF TestCsim, Score
  <1>2. TTInv'
    BY <1>1, TTStutter DEF DInv
  <1>3. DriverVarsOK'
    BY <1>1 DEF DInv, DriverVarsOK, TestCsim, Score
  <1>4. UNCHANGED inputs
    BY <1>1 DEF ttvars
  <1>5. SheetInv'
    <2>1. (\A r \in 1..Runs : sim_ok /\ sheet[r] # <<>> => Earned(r, sheet[r][1]))'
      BY <1>1, <1>4 DEF DInv, SheetInv, Earned, inputs
    <2>2. dpc' = "summary" => AllResults
      BY DEF TestCsim, Score
    <2>3. dpc' = "summary" => \A r \in 1..Runs : sheet'[r] # <<>>
      BY <1>1, <2>2 DEF AllResults
    <2>4. QED
      BY <2>1, <2>3 DEF SheetInv
  <1>6. QED
    BY <1>2, <1>3, <1>5 DEF DInv

(* The next run starts with no tracegen alive and with fresh results.      *)
LEMMA NextRun ==
    ASSUME TTInv, PipeClosed, run < Runs, run' = run + 1, NewProcess,
           UNCHANGED <<inputs, children, files>>
    PROVE  TTInv'
  <1> USE DEF TTInv, children, NewProcess, PipeClosed, inputs, files
  <1>1. TypeOK'
    <2>1. [correct |-> correct', misses |-> misses'] \in Line
      BY ResultTypes DEF MissesType
    <2>2. /\ run' \in 1..Runs /\ i' \in 1..(MaxFuncs + 1)
          /\ funcid' \in 0..MaxFuncs /\ status' \in Running..255
      BY TestTransAssumption DEF TypeOK, NoFunc, Running
    <2>3. out' \in Seq(Line)
      OBVIOUS
    <2>4. QED
      BY <2>1, <2>2, <2>3 DEF TypeOK
  <1>2. TracerInv' /\ FileInv' /\ StatusInv' /\ IndexInv'
    BY DEF TracerInv, FileInv, StatusInv, IndexInv, Measuring
  <1>3. ResultInv' /\ OutInv'
    BY DEF ResultInv, OutInv, Measuring, INT_MAX
  <1>4. CorrectIsValidated' /\ MissesAreOwnIfSim'
    BY DEF CorrectIsValidated, MissesAreOwnIfSim, MissesAreOwn, INT_MAX
  <1>5. QED
    BY <1>1, <1>2, <1>3, <1>4

(* The output read is that of the current run.                             *)
LEMMA CommunicateStep == DInv /\ Communicate => DInv'
  <1> SUFFICES ASSUME DInv, Communicate PROVE DInv'
    OBVIOUS
  <1>1. TTInv'
    <2>1. CASE run < Runs
      BY <2>1, NextRun DEF DInv, Communicate
    <2>2. CASE ~(run < Runs)
      BY <2>2, TTStutter DEF DInv, Communicate
    <2>3. QED
      BY <2>1, <2>2
  <1>2. run \in 1..Runs /\ out \in Seq(Line) /\ UNCHANGED inputs
    BY DEF DInv, TTInv, TypeOK, Communicate, ttvars
  <1>3. /\ sheet' \in [1..Runs -> Seq(Line)]
        /\ \A r \in 1..Runs : sheet'[r] = IF r = run THEN out ELSE sheet[r]
    BY <1>2 DEF DInv, DriverVarsOK, Communicate
  <1>4. dpc' \in {"communicate", "score"} /\ csim' = csim
    BY DEF Communicate
  <1>5. DriverVarsOK'
    BY <1>3, <1>4 DEF DInv, DriverVarsOK
  <1>6. ASSUME NEW r \in 1..Runs, sim_ok', sheet'[r] # <<>>
        PROVE  Earned(r, sheet[r][1])'
    <2>1. CASE r = run
      <3>1. sheet'[r] = out /\ Earned(r, out[1])
        BY <1>2, <1>3, <1>6, <2>1 DEF DInv, TTInv, OutInv, inputs
      <3>2. QED
        BY <1>2, <3>1 DEF Earned, inputs
    <2>2. CASE r # run
      <3>1. sheet'[r] = sheet[r] /\ Earned(r, sheet[r][1])
        BY <1>2, <1>3, <1>6, <2>2 DEF DInv, SheetInv, inputs
      <3>2. QED
        BY <1>2, <3>1 DEF Earned, inputs
    <2>3. QED
      BY <2>1, <2>2
  <1>7. SheetInv'
    BY <1>4, <1>6 DEF SheetInv
  <1>8. QED
    BY <1>1, <1>5, <1>7 DEF DInv

-----------------------------------------------------------------------------

(* The inductive invariant holds of every execution of the driver.         *)
THEOREM DriverInvariance == DriverSpec => []DInv
  <1>1. DInv /\ UNCHANGED vars => DInv'
    <2> SUFFICES ASSUME DInv, UNCHANGED vars PROVE DInv'
      OBVIOUS
    <2>1. UNCHANGED ttvars /\ UNCHANGED <<dpc, csim, sheet>>
      BY DEF vars, dvars
    <2>2. UNCHANGED inputs
      BY <2>1 DEF ttvars
    <2>3. QED
      BY <2>1, <2>2, TTStutter, SheetKept DEF DInv, DriverVarsOK
  <1>2. DInv /\ [DriverNext]_vars => DInv'
    BY <1>1, ProcessStep, OwnStep, CommunicateStep DEF DriverNext, TestTransStep, ChildStep
  <1>3. QED
    BY DriverStart, <1>2, PTL DEF DriverSpec

(* The driver's state and that of test-trans keep their types.             *)
THEOREM DriverTypeCorrect == DriverSpec => []DriverTypeOK
  <1>1. DInv => DriverTypeOK
    BY DEF DInv, TTInv, DriverVarsOK, DriverTypeOK
  <1>2. QED
    BY DriverInvariance, <1>1, PTL

(* No two children of test-trans are ever alive, time-outs included: the   *)
(* pipe keeps the driver from the next size.                               *)
THEOREM ChildrenDisjoint == DriverSpec => []OneChild
  <1>1. DInv => OneChild
    <2> SUFFICES ASSUME DInv PROVE OneChild
      OBVIOUS
    <2>1. /\ tracers \in {{}, {Me}} /\ simulators \in {{}, {Me}}
          /\ tracers = {} \/ simulators = {}
      BY DEF DInv, TTInv, TracerInv
    <2>2. Cardinality({}) = 0 /\ Cardinality({Me}) = 1
      BY FS_EmptySet, FS_Singleton
    <2>3. QED
      BY <2>1, <2>2 DEF OneChild
  <1>2. QED
    BY DriverInvariance, <1>1, PTL

(* Points are given only for what was validated and measured at that size. *)
THEOREM SheetEarned == DriverSpec => []SheetIsEarned
  <1>1. DInv => SheetIsEarned
    BY DEF DInv, SheetInv, SheetIsEarned, Earned, Credit, Scored
  <1>2. QED
    BY DriverInvariance, <1>1, PTL

=============================================================================
