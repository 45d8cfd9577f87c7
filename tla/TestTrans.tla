----------------------------- MODULE TestTrans -----------------------------
(***************************************************************************)
(* One run of test-trans (src/lab/cache/test-trans.c): eval_perf evaluates *)
(* the registered transpose functions one by one.  For each, system() runs *)
(* tracegen (src/lab/cache/tracegen.c) under valgrind in a child process   *)
(* that calls and validates the function and leaves a trace; the trace is  *)
(* filtered and given to csim-ref, another child, which leaves its counts  *)
(* in a file.  alarm(120) ends test-trans, not its child.                  *)
(*                                                                         *)
(* The processes communicate through files with fixed names.  What a file  *)
(* holds is modelled by its origin: the set of tracegen processes whose    *)
(* trace it holds, or was computed from.                                   *)
(***************************************************************************)
EXTENDS Integers, FiniteSets, Sequences

CONSTANTS
    Runs,           \* test-trans runs in one directory: 1, 2, ...
    Registrations,  \* what registerFunctions may register: descriptions, in order
    Behaviours,     \* what a function may do when tracegen calls it
    SimRuns,        \* whether csim-ref runs here: TRUE, FALSE or either
    MaxFuncs        \* functions that may be registered: MAX_TRANS_FUNCS

Submission == "Transpose submission"

(* tracegen exits with the number of the function that failed, of which    *)
(* the parent sees 8 bits: with 256 functions the last would look right.   *)
(* MAX_TRANS_FUNCS is 100.                                                 *)

ASSUME TestTransAssumption ==
    /\ Runs \in Nat \ {0}
    /\ MaxFuncs \in 1..255
    /\ Registrations \subseteq Seq({Submission, "other"})
    /\ \A r \in Registrations : Len(r) \in 0..MaxFuncs
    /\ Behaviours \subseteq {"right", "wrong", "crashes", "loops"}
    /\ SimRuns \subseteq BOOLEAN

Tracer   == [run : 1..Runs, fn : 1..MaxFuncs]   \* a tracegen, or a csim-ref, process
Origin   == SUBSET Tracer
Absent   == [exists |-> FALSE, of |-> {}]
File(o)  == [exists |-> TRUE, of |-> o]

NoFunc   == 0       \* -1 in the code, whose functions start at 0
Running  == -1      \* the status of a child that has not exited
INT_MAX  == [kind |-> "INT_MAX", of |-> {}]
Zero     == [kind |-> "zero", of |-> {}]
Count(o) == [kind |-> "count", of |-> o]

VARIABLES
    func_list,      \* descriptions of the registered functions
    beh,            \* what each does in each run
    sim_ok,         \* csim-ref runs
    run,            \* the current run
    pc,             \* where test-trans is
    i,              \* function being evaluated
    status,         \* exit status of the child that runs it
    funcid, correct, misses,    \* results
    alarm,          \* alarm(120) is pending
    out,            \* result lines printed
    tracers,        \* tracegen processes alive
    simulators,     \* csim-ref processes alive
    marker,         \* .marker exists
    trace,          \* trace.tmp
    part,           \* trace.f0, trace.f1, ...
    csim_results    \* .csim_results

results == <<funcid, correct, misses>>
children == <<tracers, simulators>>
files   == <<marker, trace, part, csim_results>>
inputs  == <<func_list, beh, sim_ok>>
ttvars  == <<inputs, run, pc, i, status, results, alarm, out, children, files>>

Line == [correct : 0..1,
         misses  : {INT_MAX, Zero} \cup {Count(o) : o \in Origin}]

TypeOK ==
    /\ func_list \in Registrations
    /\ beh \in [1..Runs -> [1..MaxFuncs -> Behaviours]]
    /\ sim_ok \in SimRuns
    /\ run \in 1..Runs
    /\ pc \in {"start", "loop", "wait", "filter", "sim", "simulating", "collect", "emitted", "exited"}
    /\ i \in 1..(MaxFuncs + 1)
    /\ status \in Running..255
    /\ funcid \in 0..MaxFuncs
    /\ [correct |-> correct, misses |-> misses] \in Line
    /\ alarm \in BOOLEAN
    /\ out \in Seq(Line)
    /\ tracers \in Origin /\ simulators \in Origin
    /\ marker \in BOOLEAN
    /\ trace \in Origin
    /\ part \in [1..MaxFuncs -> Origin]
    /\ csim_results \in {Absent} \cup {File(o) : o \in Origin}

(* A fresh process: the static results and an empty stdout. *)
ProcessInit ==
    /\ pc = "start" /\ i = 1 /\ status = Running
    /\ funcid = NoFunc /\ correct = 0 /\ misses = INT_MAX
    /\ alarm = FALSE /\ out = <<>>

(* .csim_results may be left from an earlier simulation. *)
Init ==
    /\ func_list \in Registrations
    /\ beh \in [1..Runs -> [1..MaxFuncs -> Behaviours]]
    /\ sim_ok \in SimRuns
    /\ run = 1
    /\ ProcessInit
    /\ tracers = {} /\ simulators = {} /\ marker = FALSE /\ trace = {}
    /\ part = [f \in 1..MaxFuncs |-> {}]
    /\ csim_results \in {Absent, File({})}

-----------------------------------------------------------------------------
(* test-trans *)

(* Mutant: no time limit is set. *)
Start_NoAlarm ==
    /\ pc = "start"
    /\ pc' = "loop"
    /\ UNCHANGED <<inputs, run, i, status, results, alarm, out, children, files>>

Start ==
    /\ pc = "start"
    /\ pc' = "loop"
    /\ alarm' = TRUE
    /\ UNCHANGED <<inputs, run, i, status, results, out, children, files>>

Me == [run |-> run, fn |-> i]

(* The shell truncates trace.tmp and starts tracegen. *)
Trace ==
    /\ pc = "loop" /\ i <= Len(func_list)
    /\ pc' = "wait"
    /\ funcid' = IF func_list[i] = Submission THEN i ELSE funcid
    /\ tracers' = tracers \cup {Me}
    /\ status' = Running
    /\ trace' = {}
    /\ UNCHANGED <<inputs, run, i, correct, misses, alarm, out, simulators, marker, part, csim_results>>

SkipInvalid ==
    /\ pc = "wait" /\ status > 0
    /\ pc' = "loop"
    /\ i' = i + 1
    /\ UNCHANGED <<inputs, run, status, results, alarm, out, children, files>>

(* Mutant: the exit status is not looked at. *)
Validated_AnyStatus == status # Running
Validated == status = 0

(* Mutant: the correctness of the last function evaluated is recorded. *)
Correct_Any == 1
Correct == IF funcid = i THEN 1 ELSE correct

(* assert(marker_fp) holds: a tracegen that ended with 0 has left .marker. *)
ReadMarkers ==
    /\ pc = "wait" /\ Validated /\ marker
    /\ pc' = "filter"
    /\ correct' = Correct
    /\ UNCHANGED <<inputs, run, i, status, funcid, misses, alarm, out, children, files>>

Filter ==
    /\ pc = "filter"
    /\ pc' = "sim"
    /\ part' = [part EXCEPT ![i] = trace]
    /\ UNCHANGED <<inputs, run, i, status, results, alarm, out, children, marker, trace, csim_results>>

Simulate ==
    /\ pc = "sim"
    /\ pc' = "simulating"
    /\ simulators' = simulators \cup {Me}
    /\ UNCHANGED <<inputs, run, i, status, results, alarm, out, tracers, files>>

(* Mutant: the misses of the last function evaluated are recorded. *)
Misses_Any == Count(csim_results.of)
Misses == IF funcid = i THEN Count(csim_results.of) ELSE misses

Collect ==
    /\ pc = "collect" /\ csim_results.exists
    /\ pc' = "loop"
    /\ i' = i + 1
    /\ misses' = Misses
    /\ UNCHANGED <<inputs, run, status, funcid, correct, alarm, out, children, files>>

(* assert(in_fp): stdout is not flushed. *)
Abort ==
    /\ pc = "collect" /\ ~csim_results.exists
    /\ pc' = "exited"
    /\ out' = <<>>
    /\ alarm' = FALSE
    /\ UNCHANGED <<inputs, run, i, status, results, children, files>>

Emit ==
    /\ pc = "loop" /\ i > Len(func_list)
    /\ pc' = "emitted"
    /\ out' = Append(out, IF funcid = NoFunc THEN [correct |-> 0, misses |-> Zero]
                          ELSE [correct |-> correct, misses |-> misses])
    /\ UNCHANGED <<inputs, run, i, status, results, alarm, children, files>>

Exit ==
    /\ pc = "emitted"
    /\ pc' = "exited"
    /\ alarm' = FALSE
    /\ UNCHANGED <<inputs, run, i, status, results, out, children, files>>

(* sigalrm_handler: the result line may already be in the buffer. *)
TimeOut ==
    /\ alarm /\ pc # "exited"
    /\ pc' = "exited"
    /\ alarm' = FALSE
    /\ out' = Append(out, [correct |-> 0, misses |-> Zero])
    /\ UNCHANGED <<inputs, run, i, status, results, children, files>>

-----------------------------------------------------------------------------
(* tracegen and csim-ref, and the shells that report their ends *)

ExitStatus(t) == CASE beh[t.run][t.fn] = "right"   -> 0
                   [] beh[t.run][t.fn] = "wrong"   -> t.fn
                   [] beh[t.run][t.fn] = "crashes" -> 139

TracerEnds(t) ==
    /\ t \in tracers /\ beh[t.run][t.fn] # "loops"
    /\ tracers' = tracers \ {t}
    /\ marker' = TRUE
    /\ trace' = trace \cup {t}
    /\ status' = IF t = Me /\ pc = "wait" THEN ExitStatus(t) ELSE status
    /\ UNCHANGED <<inputs, run, pc, i, results, alarm, out, simulators, part, csim_results>>

(* csim-ref: its counts replace those of the last simulation.  system's    *)
(* status is ignored.                                                      *)
SimulatorEnds(s) ==
    /\ s \in simulators
    /\ simulators' = simulators \ {s}
    /\ csim_results' = IF sim_ok THEN File(part[s.fn]) ELSE csim_results
    /\ pc' = IF s = Me /\ pc = "simulating" THEN "collect" ELSE pc
    /\ UNCHANGED <<inputs, run, i, status, results, alarm, out, tracers, marker, trace, part>>

Evaluate ==
    \/ Start \/ Trace \/ SkipInvalid \/ ReadMarkers \/ Filter \/ Simulate
    \/ Collect \/ Abort \/ Emit \/ Exit

ChildEnds ==
    \/ \E t \in tracers : TracerEnds(t)
    \/ \E s \in simulators : SimulatorEnds(s)

Next == Evaluate \/ TimeOut \/ ChildEnds

Spec == Init /\ [][Next]_ttvars
FairSpec == Spec /\ WF_ttvars(Evaluate) /\ WF_ttvars(TimeOut) /\ WF_ttvars(ChildEnds)

-----------------------------------------------------------------------------
(* Properties *)

(* A function of this run that the student registered as the submission    *)
(* (nothing keeps him from giving two that description) and that tracegen  *)
(* validated.                                                              *)
ValidSubmission(f) ==
    f \in 1..Len(func_list) /\ func_list[f] = Submission /\ beh[run][f] = "right"

(* The submission is recorded as correct only when tracegen has validated  *)
(* one in this run: no other function's success and no failed child counts. *)
CorrectIsValidated ==
    correct = 1 => funcid # NoFunc /\ \E f \in 1..Len(func_list) : ValidSubmission(f)

(* "Collect results from the reference simulator": the misses recorded are *)
(* those of a validated submission's own trace in this run, never those of *)
(* another function, of one that failed, an earlier run or a stale file,   *)
(* also when two functions bear the submission's description.              *)
MissesAreOwn ==
    misses.kind = "count" =>
        \E f \in 1..Len(func_list) :
            ValidSubmission(f) /\ misses.of = {[run |-> run, fn |-> f]}

(* So they are where csim-ref runs.                                        *)
MissesAreOwnIfSim == sim_ok => MissesAreOwn

(* What eval_perf filters is the complete trace of the function it is at,  *)
(* with nothing from a tracegen that an earlier run left behind.           *)
TraceIsOwn == pc = "filter" => trace = {Me}

(* Misses are recorded exactly for a submission recorded as correct, once  *)
(* its evaluation is over.                                                 *)
PerformanceOfCorrect ==
    pc = "emitted" => (correct = 1 <=> misses.kind = "count")

(* Every test-trans that starts ends, whatever the functions do.           *)
TestTransEnds == pc = "start" ~> pc = "exited"

=============================================================================
