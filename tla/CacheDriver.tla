---------------------------- MODULE CacheDriver ----------------------------
(***************************************************************************)
(* The cache lab's driver (src/lab/cache/driver.py): it runs test-csim,    *)
(* then "./test-trans ... | grep TEST_TRANS_RESULTS" for three matrix      *)
(* sizes, one after the other in one directory, and adds up the scores.    *)
(*                                                                         *)
(* communicate() returns at the end of grep's output, and grep ends when   *)
(* every process that holds the pipe has ended: test-trans, and the shell  *)
(* that system() started for tracegen or csim-ref, which inherits the pipe *)
(* and waits for its child (as dash and bash do for the command with a     *)
(* redirection).                                                           *)
(***************************************************************************)
EXTENDS TestTrans

VARIABLES
    dpc,        \* where driver.py is
    csim,       \* test-csim printed its TEST_CSIM_RESULTS line
    sheet       \* result lines of each test-trans run

dvars == <<dpc, csim, sheet>>
vars  == <<ttvars, dvars>>

DriverTypeOK ==
    /\ TypeOK
    /\ dpc \in {"csim", "communicate", "score", "summary", "traceback"}
    /\ csim \in BOOLEAN
    /\ sheet \in [1..Runs -> Seq(Line)]

DriverInit ==
    /\ Init
    /\ dpc = "csim" /\ csim = FALSE
    /\ sheet = [r \in 1..Runs |-> <<>>]

(* test-csim is external: it prints its result line or dies.               *)
TestCsim ==
    /\ dpc = "csim"
    /\ dpc' = "communicate"
    /\ csim' \in BOOLEAN
    /\ UNCHANGED <<ttvars, sheet>>

TestTransStep ==
    /\ dpc = "communicate"
    /\ Evaluate \/ TimeOut
    /\ UNCHANGED dvars

(* A tracegen or csim-ref that test-trans left behind runs on.             *)
ChildStep ==
    /\ ChildEnds
    /\ UNCHANGED dvars

(* Mutants: the driver waits for test-trans only; a csim-ref does not hold *)
(* the pipe.                                                               *)
PipeClosed_TestTransOnly == pc = "exited"
PipeClosed_NotSimulator == pc = "exited" /\ tracers = {}
(* Mutant: it waits for a result line. *)
PipeClosed_Result == pc = "exited" /\ tracers = {} /\ simulators = {} /\ out # <<>>
PipeClosed == pc = "exited" /\ tracers = {} /\ simulators = {}

NewProcess ==
    /\ pc' = "start" /\ i' = 1 /\ status' = Running
    /\ funcid' = NoFunc /\ correct' = 0 /\ misses' = INT_MAX
    /\ alarm' = FALSE /\ out' = <<>>

Communicate ==
    /\ dpc = "communicate" /\ PipeClosed
    /\ sheet' = [sheet EXCEPT ![run] = out]
    /\ IF run < Runs
       THEN /\ run' = run + 1
            /\ NewProcess
            /\ UNCHANGED <<dpc, inputs, children, files>>
       ELSE /\ dpc' = "score"
            /\ UNCHANGED ttvars
    /\ UNCHANGED csim

(* resultsim is unbound, or a result list is empty: an exception.          *)
AllResults == csim /\ \A r \in 1..Runs : sheet[r] # <<>>

Score ==
    /\ dpc = "score"
    /\ dpc' = IF AllResults THEN "summary" ELSE "traceback"
    /\ UNCHANGED <<ttvars, csim, sheet>>

DriverNext == TestCsim \/ TestTransStep \/ ChildStep \/ Communicate \/ Score

DriverSpec == DriverInit /\ [][DriverNext]_vars
FairDriverSpec ==
    /\ DriverSpec
    /\ WF_vars(TestCsim \/ Communicate \/ Score)
    /\ WF_vars(dpc = "communicate" /\ Evaluate /\ UNCHANGED dvars)
    /\ WF_vars(dpc = "communicate" /\ TimeOut /\ UNCHANGED dvars)
    /\ WF_vars(ChildStep)

-----------------------------------------------------------------------------
(* Properties *)

(* findall keeps the first two numbers of the output.                      *)
Credit(r) == sheet[r][1].correct
Scored(r) == sheet[r][1].misses

(* No two children of test-trans are ever alive, so that they never share  *)
(* trace.tmp, trace.f<i> or .csim_results: the pipe keeps the driver from  *)
(* the next size while a tracegen or a csim-ref of a timed-out run runs.   *)
OneChild == Cardinality(tracers) + Cardinality(simulators) <= 1

(* Where csim-ref runs, a size gets points only for a submission validated *)
(* at that size, with the misses of that very run, whatever timed out or   *)
(* crashed before.                                                         *)
SheetIsEarned ==
    dpc = "summary" /\ sim_ok =>
        \A r \in 1..Runs :
            Credit(r) = 1 => \E f \in 1..Len(func_list) :
                /\ func_list[f] = Submission
                /\ beh[r][f] = "right"
                /\ Scored(r) = Count({[run |-> r, fn |-> f]})

(* "Time out and give up after a while": the driver reaches its summary,   *)
(* or fails, whatever the student's functions do.                          *)
DriverEnds == <>(dpc \in {"summary", "traceback"})

(* It does if every function returns or crashes, also when csim-ref does   *)
(* not run.                                                                *)
Loops == \E r \in 1..Runs : \E f \in 1..Len(func_list) : beh[r][f] = "loops"
DriverEndsUnlessLoop == ~Loops => DriverEnds

=============================================================================
