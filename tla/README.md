# Verification of the CS:APP lab programs

This directory holds TLA+ models of the programs in `src/lab`, the TLC
configurations that check them on small instances, and TLAPS proofs of their most
important properties for every instance. The repository is a set of course labs:
a test harness for bit puzzles and the puzzles (data lab), a binary bomb with its
disassembly (bomb lab), a performance harness for matrix transposition (cache lab)
and two programs meant to be overflowed (attack lab). `PROJECT.json` lists the
components, runs, hazards, findings and theorems, and maps each definition to the
source lines it stands for.

Contents: [parts of the system](#the-system) - [modules](#modules-and-the-code-they-model) -
[runs and bounds](#runs-bounds-and-what-they-show) - [fairness](#fairness) -
[findings](#what-the-code-does-not-do) - [proofs](#what-is-proved) -
[not modelled](#not-modelled) - [order of the work](#order-of-the-work).

To repeat the work, in this directory:

    tlc -workers 2 -config MC_CacheDriver.cfg MC_CacheDriver   # one run; all take under a minute
    tlapm CacheDriverProofs.tla                                # one proof module

## The system

### Data lab (`src/lab/data`)

| part | state | operations |
|---|---|---|
| puzzles, `bits.c` | none | thirteen functions on 32-bit words |
| reference functions, `tests.c` | none | what each puzzle should return |
| table, `decl.c` | `test_set`, ended by a NULL entry | read by `run_tests` |
| `btest.c` | options; index, totals, rows printed; `envbuf`; a pending alarm | `run_tests`, `test_function`, `gen_vals`, `timeout_handler` |
| `driver.pl` | a scratch directory with `bits.c`; the tables it parses | two passes of `dlc` and `btest`, submission by HTTP |
| `fshow.c`, `ishow.c` | none | read a number as `btest -1` does and print its value |

`run_tests` calls `test_function` per table entry; that fills an array of values
per argument with `gen_vals`, calls `sigsetjmp` and `alarm`, and compares the
solution with the reference on the cross product. SIGALRM runs `timeout_handler`,
which jumps back into `test_function`. `driver.pl` reads the rows btest prints.

What is hard here: the alarm is asynchronous and never cancelled, so that it can
fire in code that has nothing to do with the function it was set for, even in a
frame that has returned; the arrays of test values have a fixed size and four
code paths that fill them; the puzzles are about wrap-around, the sign bit and the
edges of the float format. What makes the parts correct: points are those of
functions that agree with their reference on every call, no function that loops
prevents the others from being scored, the test values fit and reach the boundaries, each
puzzle is right on every word, the driver reports what the rules and the tests
gave and nothing else, and a number is tested or shown as it was typed.

### Cache lab (`src/lab/cache`)

| part | state | operations |
|---|---|---|
| `trans.c` | none | `trans`, `transpose_submit` (empty), `is_transpose`, `registerFunctions` |
| `cachelab.c` | `func_list`, `func_counter` | registration, `initMatrix`, `correctTrans`, `printSummary` |
| `tracegen.c` | the matrices; `.marker` | calls and validates one function, its status is the verdict |
| `test-trans.c` | `results`; `trace.tmp`, `trace.f<i>`, `.csim_results`; the alarm | `eval_perf` per registered function |
| `driver.py` | the outputs it has read | runs test-csim and test-trans, adds up points |
| `csim-ref`, `test-csim`, `valgrind` | `.csim_results` | external |

`driver.py` starts `./test-trans ... | grep` three times and waits for the end of
the pipe. `test-trans` starts, for each function, `valgrind ./tracegen` in a shell
with `system`, filters the trace, starts `csim-ref`, and reads the counts it left.

What is hard here: five kinds of process that share files with fixed names;
children that crash, fail to validate or loop; a time limit that ends a process
and not its children; files left by an earlier function, run or crash. What makes
it correct: a submission is credited only if it was validated in that very run,
with its own misses; two runs never write the same trace at once; the driver ends.

### Bomb lab (`src/lab/bomb`)

| part | state | operations |
|---|---|---|
| `main` (`bomb.c`), `skip`, `read_line` | `infile`, `input_strings`, `num_input_strings` | a line per phase, from a file and then standard input |
| `phase_1`..`phase_6`, `secret_phase` | the nodes of phase 6 | accept a line or explode |
| `phase_defused`, `explode_bomb`, `sig_handler` | | the end, or the secret phase |

What is hard: the switch of stream inside `read_line`, blank and overlong lines, a
last line without a newline, and a phase decided by a line read two phases before;
searches and orders that a single index would break. What makes it correct: each
phase gets the next line, only answers to all phases defuse the bomb, the answers
do defuse it, it always ends, and each search accepts exactly what the notes say.

### Attack lab (`src/lab/attack`)

`ctarget` and `rtarget` exist to be overflowed and `farm.c` holds the bytes of
gadgets; there is no correctness to specify.

## Modules and the code they model

| module | code | role |
|---|---|---|
| `Btest` | `btest.c` `run_tests`, `test_function`, `timeout_handler` | harness with its alarm |
| `Grader` | what btest promises | abstract specification that `Btest` implements when alarms are prompt |
| `DataDriver` | `driver.pl` | extends `Btest`: two builds and runs of btest, and the tables read back |
| `GenVals` | `btest.c` `gen_vals`, `random_val`, the shares of TEST_RANGE | test values |
| `CommandLine` | `btest.c` `main`, `get_num_val`; `fshow.c`, `ishow.c` | extends `GenVals`: the options and what they make it do |
| `Bits` | `bits.c` | the puzzles, as operators |
| `Puzzles` | `tests.c`, `decl.c` and the calls of btest | puzzle and reference side by side |
| `TestTrans` | `test-trans.c`; `tracegen.c` as a process | one run of test-trans with its children and files |
| `CacheDriver` | `driver.py` | extends `TestTrans`: successive runs in one directory, through a pipe |
| `Transpose` | `trans.c`, `tracegen.c` `validate`, `cachelab.c` | what tracegen does inside with one function |
| `Phases` | `bomb.asm`, the phases | what each phase accepts, as operators |
| `Bomb` | `bomb.c`, `bomb.asm` input and control | extends `Phases` |
| `InductionLemmas` | | induction, powers of two, recursion and sums for the proofs |
| `*Proofs` | | theorems |
| `MC_*` | | constants for TLC |

### How state and actions correspond

**Btest.** Each action is a stretch of `run_tests` or `test_function` between two
points where a signal makes a difference: before and after `sigsetjmp`, after
`alarm`, each call of the solution, the addition of the points, the row. The three
loops over test values are one counter `a`, as only the number of calls and the
first one that deviates matter. A solution is right, gives a wrong value at its
n-th call, or loops or faults there; n is any element of `DeviatesAt`. btest has a handler for
SIGALRM only, so a fault ends it (`SolutionCrashes`) and the functions that follow get
no verdict: `EveryFunctionGraded` promises one up to the first function that faults. `blocked`
is SIGALRM in the signal mask: the handler is left by a jump, which unblocks the signal because
`sigsetjmp(envbuf, 1)` saved the mask. `frame` says what the stack of the last `test_function`
call is: live, returned but intact, or overwritten; a jump into a frame that has
returned is undefined, and the model takes the outcomes that builds of the program
show: it resumes the dead frame, and scores its function again, or it faults.
Builds of btest were run with an alarm in each of these places to confirm this
(the next function reported, a function scored a second time, a fault). `prompt` is
a choice made at the start: whether, in this behaviour, an alarm expires only within
the calls of the function that set it. A property about an alarm that does not
outlive its function has `prompt` as its hypothesis; the others hold without. `output`
is what is printed, in order: the rows, and the two lines about a timeout, which
`driver.pl` reads.

**DataDriver.** One action per command of the script, with both outcomes where its
status is looked at (`Checked`) and where it is not (`CopyOver`, the two copies over
`bits.c`). The directory is its `bits.c`; what `dlc -z` and `dlc -Z` write is a
function of the submission: the functions in `illegal`, and in `over`, are emptied
(`return 4`, which the tests refuse). dlc is a binary; it was run to learn that it accepts
loops in the floating-point puzzles only, hence the constraint on `submission`, and
that `-z` and `-Z` exit with 0 when they find something. A puzzle that faults needs a loop, a call,
`/` or `%`, and is constrained in the same way. `make` always rebuilds
btest from `bits.c` as it is, so `MakeBtest` starts `Btest` afresh with those solutions.
`Table` splits the lines of the output as Perl's `split(/\s+/)` does: a timeout's two
lines give the rows named "" and "10".

**GenVals.** One action per iteration; int width, float layout, TEST_RANGE and the
table's ranges are constants. `RangesAssumption` says that the ranges are non-empty ranges of ints
and MAX_TEST_VALS an int, and bounds the rounding (below); it excludes no table. Ints wrap (`Wrap`), which matters in two places. `max - MAX_TEST_VALS` wraps for a
range near INT_MIN: it is then sampled, and what is written may lie outside it (`Wraps`). And the
exhaustive loop `i <= max` never ends by itself if max is INT_MAX; in C the increment is
undefined, and gcc leaves that loop at `-O`, where it compares with `max + 1`, and wraps without,
so `ExhaustiveLoop` may do either; it is followed up to `Len(test_vals) = MAX_TEST_VALS + 1`, the first
element past the array. That loop also leaves the array for a range of exactly `MAX_TEST_VALS + 1`
values, which the test for a small range lets through. `WithinBuffer` names these ranges
(`Overruns`), excludes all others and says that the last kind does overrun. No entry of `decl.c` is
one of them. `random_val` takes any `rand()` and any error up to `Rounding / RAND_MAX`: the four roundings
(weight, 1 - weight, products, sum) of doubles below 2^31 err by at most 2^-20 together, and RAND_MAX is
2^31 - 1, so that 2^11 is a bound, far below MAX_TEST_VALS. The conversion to int truncates. An argument a
puzzle does not have repeats the range of its first, as in `decl.c` (`Entry`).

**CommandLine.** A word is what the code makes of it: the order of its `x`, `e` and `.`
(which decides whether it is a float or a number: `0x1e` is not a float, `1e2` is), the
number `strtoll` reads at its beginning, whether `strtof` reads all of it, and the
pattern of that float. So a word that is no number has number 0 and is accepted as 0,
as in the code. `get_num_val` is one operator for the three copies, which differ in
two places: ishow refuses floats, and btest tests `*valp`, the value already there.
`Argument` and `Setting` are getopt's cases, `RunTests` chooses any table entry, and
then `GenVals` runs with `given`, its `has_arg` and `argval`. A float is shown by
sign, exponent and mantissa; its decimal digits are left out.

**Bits, Puzzles.** A word is the set of its 1 bits, so `& | ^ ~` are set operations;
`+` is addition modulo 2^W, which is what the build does (builds
with `-O0`, `-O` and `-O2` were run at the edges; in C the overflow is undefined). The code's
constants are written by W and F, the fraction's width. The tests of the float puzzles
compute with floats: a float is its magnitude in units of the least denormal,
and the powers of two that `test_floatPower2` multiplies are their exponents, with
one value below for 0 and one above for infinity.

**TestTrans.** What a file holds is its origin: the set of tracegens that wrote the
trace it holds or that it was computed from. So "misses of the right function" is
an equation between sets. `Trace` is the truncation of `trace.tmp` and the fork;
`TracerEnds` any end of the child, also after `test-trans` is gone; `Simulate` starts csim-ref, a child
too, and `SimulatorEnds` is its end, with the counts of what `trace.f<i>` then holds, also after
`test-trans` is gone; `TimeOut` the
handler, at any point, also after the result line. The asserts of the code are
`ReadMarkers` (which cannot fail, as the run shows: there is no deadlock
before the end and `TestTransEnds` holds) and `Abort`.

**CacheDriver.** `Communicate` is the return of `communicate()`: its guard is that
test-trans has exited and that no process holds the pipe. `system` runs the command
in a shell which, because the command redirects, forks and waits for it (dash and
bash were traced); that shell inherited the pipe.

**Transpose.** One step per inner iteration over functions on index pairs.
`transpose_submit` is empty, so with it the checkers meet every pair of matrices. `A0`
is a history variable, A as `initMatrix` filled it: `validate` compares B with the A the
function left, and could not tell that a function had changed it.

**Bomb, Phases.** A stream is the sequence of what `fgets(, 80, )` returns (`IsStream`): strings of 1
to 79 characters, each with a newline at its end, or filling its entry of `input_strings` as the piece of a longer
line does, or last. A line
has a length, the numbers `sscanf` finds in it, the characters of a six-character
line and whether its third word is `DrEvil`; every line comes with what remains when
`read_line` drops the last character, as it does with or without a newline. Data
tables (phase 3's jump table, the nodes, the tree, the strings) were read from the
binary and the answers were run on it.

## Runs, bounds and what they show

| run | module, cfg | shows |
|---|---|---|
| `btest` | `MC_Btest`, `MC_Btest` | alarms at every point they can reach: points never exceed the maximum, no misbehaving function is credited, no rating is credited twice, the handler never jumps before `sigsetjmp`, and with a timeout the run ends; where no alarm outlives its function, `Btest` implements `Grader`, the rows add up to the totals and every function gets its verdict, unless it or one before it faults |
| `btest_own` | `MC_Btest`, `MC_Btest_own` | *violation*: the alarm of one function is reported as the next one's |
| `data_driver` | `MC_DataDriver`, `MC_DataDriver` | the points reported are those deserved; no performance points without correctness points, also when a copy fails unnoticed; the totals are those of the puzzles, whatever btest printed between them; the driver ends |
| `data_phantom` | `MC_DataDriver`, `MC_DataDriver_phantom` | *violation*: the lines about a timeout are read as puzzles |
| `cmdline` | `MC_CommandLine`, `MC_CommandLine` | the tests run with the numbers and settings typed; their values fit the array for all but the ranges named, lie in the puzzle's domain, include both ends, zero's neighbourhood and the float transitions; fshow and ishow show what was typed |
| `genvals_norm` | `MC_CommandLine`, `MC_CommandLine_norm` | *violation*: the largest normalized number is not tested |
| `puzzles` | `MC_Puzzles`, `MC_Puzzles` | every puzzle but `floatPower2` equals its reference, `howManyBits` is minimal, `floatScale2` is exact, the test of `floatPower2` is right for every x and `floatPower2` off the denormals |
| `power2` | `MC_Puzzles`, `MC_Puzzles_power2` | *violation*: `floatPower2` on denormals and on the largest arguments |
| `cache` | `MC_CacheDriver`, `MC_CacheDriver` | two sizes in one directory: credit is validated, misses are the submission's own where csim-ref runs, traces never mix, no two children of test-trans at once, what the driver adds up was earned, every test-trans ends, the driver ends if no function loops |
| `cache_hang` | `MC_CacheDriver`, `MC_CacheDriver_hang` | *violation*: the driver waits for ever for a function that loops |
| `transpose` | `MC_Transpose`, `MC_Transpose` | both checkers accept exactly the transpose, and `trans` leaves the transpose of what A was |
| `bomb` | `MC_Bomb`, `MC_Bomb` | lines in order, all answers needed, status 0 only without a wrong line, answers never explode, it ends; `func4`, `fun7` and phase 6 accept exactly the known answers |

Bounds, and why they suffice:

- **btest**: three functions with ratings 1, 4, 2, called 1, 2 and 2 times, with
  every combination of right, wrong, looping and faulting, `-g`, `-f` (also an unknown name),
  `-r` 0 or 2, with and without `-T`. A late alarm involves its function and the next;
  the third shows what it does to an unrelated one. The first call and a later one
  differ, more calls do not. `DeviatesAt = {1, 2}` bounds where a solution deviates in the runs;
  in the proofs it is any set of calls.
  In the violation run only the options are narrower.
- **data driver**: an integer puzzle and a floating-point one (they differ in what
  dlc accepts), each right, wrong, looping or faulting at either call, any set of violations, a
  failure at any command, prompt alarms and late ones. Two puzzles make a
  timeout's lines appear before, between and after rows.
- **command line**: 7-bit ints and floats (5 exponent bits, 1 of fraction), TEST_RANGE
  4: small enough to enumerate and large enough that the cap on `test_range` by the
  exponent's step bites. Ranges: the full one, the float mark, one that is exhausted,
  one with one value more than the array holds, one that has four values too many to be
  exhausted, one that ends at INT_MAX and one at INT_MIN, where the test for a small one wraps;
  up to three arguments. The table of
  `decl.c` has the first two kinds only; `gen_vals` serves any table. `RandMax = 2` gives the two ends and
  a weight between them, where `Rounding = 1` is half a unit either way. Up to two options,
  which is what a repeated one needs, and words at both ends of the signed and the
  unsigned range, past them, in hex, as floats, as floats with something after them
  and as no number; fshow and ishow show every pattern.
- **puzzles**: W = 8, F = 3, every byte (for `conditional`, every first argument and
  six values of the others). Eight bits is the least width with four groups
  for `allOddBits`' mask, with the digits' range, and with an exponent field that
  overflows an int, so that each branch of the float puzzles is taken.
- **cache**: two sizes (a run and the one after it, which is all a leftover file or
  process can reach), the submission first, second, twice or missing, no function at all, four behaviours
  per function and run, csim-ref running or not, `.csim_results` left over or not. `MaxFuncs = 2`: two
  functions meet in every file; MAX_TRANS_FUNCS is 100, and in the proofs it is any number up
  to 255 (the exit status of tracegen is the number of the function, of which the parent sees 8 bits).
- **transpose**: 2 x 3 with two values: not square, so that a swapped index leaves
  the matrix or misses an element.
- **bomb**: the answers of `sol.txt` split between file and standard input at
  every place, with a blank line or an unfinished line at the split, with
  or without the word of phase 4; an answer padded to the 77 characters that are accepted, to 78,
  and to a line that comes in two pieces of which the first has 79; for phase 4 all first numbers from -1 to 15, for
  phase 6 all 720 permutations, for the secret phase each node and its neighbours.
  W = 12 is the least width that holds 1001 with its sign.

Deadlock is not checked because every one of these programs ends, in an exit or a
fault, or loops in a student's function; what has to end is a liveness property.

Each property is broken by a mutant of the code kept beside the definition it
replaces (`X_SomeBug` above `X`).

## Fairness

- **Programs run**: weak fairness on the steps of btest, test-trans, driver.py and
  the bomb: a process that can go on is scheduled. No strong fairness is used.
- **Alarms expire**: weak fairness on `Sigalrm` and `TimeOut`. `alarm` is a kernel
  timer and nothing cancels it; in btest SIGALRM is blocked only while the handler runs
  (`Sigalrm` is disabled while `blocked`), and the fairness would be void if it stayed so, as the
  mutant of `EveryFunctionGraded` shows.
- **Children end**: weak fairness on `ChildEnds`: a csim-ref ends, and so does a tracegen, except
  for a function that loops: nobody ends such a child.
- **Prompt alarms** (`prompt`): a hypothesis of some properties, not a fact about the
  code. It holds when every function that does return does so within its time limit
  of the next call of `alarm`, the usual case; the other properties hold without.
- **The driver of the data lab**: weak fairness on its own steps and on those of the
  btest it waits for. `DriverEnds` then rests on btest's time limit alone.
- A student's function returns, crashes or loops; a function that blocks SIGALRM
  or writes into btest's memory is outside the models.
- The bomb's streams are finite; a user who types blank lines for ever keeps it
  waiting.

## What the code does not do

1. **`floatPower2`** (`bits.c:430`) returns twice 2.0^x on the denormal powers
   (-149..-127) and 0 instead of infinity where `x + 127` wraps. btest does
   not find it: none of its float patterns, read as an int, is such an argument.
2. **btest's alarm is never cancelled** (`btest.c:357`): a function that has
   passed can make the next one "Timed out". The run also shows what it does *not*
   do: points, maximum and credit stay consistent.
3. **`driver.py` hangs** on a transpose function that loops, although test-trans
   gives up after 120 s (`driver.py:71`).
4. **`driver.pl` reads messages as puzzles** (`driver.pl:286`): when a function times
   out, the two lines btest prints about it become rows named "" and "10", in the table
   and in the autoresult. A run of the driver with a loop in `floatFloat2Int`
   showed both. The totals are not affected, as the run `data_driver` shows.
5. **`gen_vals` does not test the largest normalized number**, which its comment
   promises: `largest_norm` has fraction zero (`btest.c:144`).

More things the code does, which no run states as a violation:

- A second `-1` after one that was not 0 is refused as a bad argument
  (`btest.c:496` tests `*valp`; fshow's copy of the line, `fshow.c:117`, tests the
  pointer), although the usage line, `btest.c:509`, writes `[-1|-2|-3 <val>]*`. `ArgsAsGiven` excepts
  this case and no other.
- A puzzle that faults ends btest: the puzzles after it are not scored, and `driver.pl` dies
  (`driver.pl:194-196`) without a score for any.
- `gen_vals` would leave its array for a range of `MAX_TEST_VALS + 1` values or a small one that ends
  at INT_MAX, and would sample outside a range near INT_MIN; `decl.c` has neither.
- When csim-ref does not run, test-trans takes the `.csim_results` of an earlier
  simulation for the submission's (`test-trans.c:142`): `MissesAreOwn` fails without
  its hypothesis `sim_ok`.
- `registerTransFunction` does not compare its counter with the 100 entries
  of `func_list` (`cachelab.c:76`); `driver.pl` leaves its scratch directory behind when
  it dies after the `chdir`; and driver.py's summary shows 0 misses for a size that
  timed out, which scores nothing.

## What is proved

All theorems hold for every value of the constants that meets the named
assumptions. Each module proves one inductive invariant, action by action, and
derives the theorems from it with the temporal rule.

**`InductionLemmas`**. Counting, sums and recursive functions need induction, and an
induction rule that takes a predicate is of no use to these provers. The module has
one that takes a *set*: `LeastNat` shows from facts about finite sets that a non-empty
set of naturals has a least element, hence `NatSetInduction` and `IntervalInduction`; `SubsetInduction`
is the same for the subsets of a finite set, where only the lemma's own hypotheses
vary. From them: 2^n, as the number of subsets of a set (`PowerStep`,
`PowerSum`, `PowerMonotonic`); `Recursion`, that a recursive function has a value when
each argument is followed by one of lower rank; and sums, where `Total(w, S)` is *the*
sum of `w` over `S`, `TotalAdd` and `TotalSame` how it changes, and `FoldIsSum` and `ChosenFold`
that the community modules' `MapThenSumSet`, which takes elements in an unknown order,
is that sum.

**`BtestProofs`** (`BtestAssumption`: positive ratings and numbers of calls). `TypeCorrect`,
`ScoreWithinMax`, `CreditDeserved`, `JumpTargetSet`, for any table and any solution, whichever
call it deviates at, and with alarms at every point. Points within the maximum is inductive almost alone,
but credit is not: a function is scored as right only because it agreed on *all* its
calls, so the invariant (`AgreedInv`) says that whenever `terrors` is 0 the calls up to
`a` agreed and that in `score` and `row` `a` is the number of calls; it survives a
late jump because a jump always sets `terrors` to 1. `FrameInv` says a frame is live
exactly within `test_function`, which is why a jump through it concerns the function
being tested; `JumpInv` that `envbuf` is filled before an alarm can be pending.
`CreditOnce`: the points are the sum of the ratings credited. A late jump scores a
function again, so it takes `LateAlarmInv` (with a dead frame `envbuf` is that of the function
just scored, or of the next one before it has begun) and `CreditedInv` (only functions
before `i` are credited, and `i` itself only if what is scored again has failed): then
`Score` adds a rating only for a function not yet in the sum.
`RowsAgree`: with prompt alarms the rows add up to the totals. `RowsInv` says they lack
only the function at `row`, whose scores are added and whose row is not printed.
`Refinement`: with prompt alarms every step is a step of `Grader` or a stutter.
It needs `VerdictInv`, that only functions before the current one, or the current
one at its row, are credited: then `Score` adds one verdict and nothing else does.

**`DataDriverProofs`** (also `DataDriverAssumption`: the floating-point puzzles are puzzles,
and btest has the options the driver gives it). `PointsDeserved`, `PerformanceNeedsCorrectness`,
`TotalsRight` and `DriverTypeCorrect` hold for any table, submission and set of
violations. The argument has three layers. Within one run of btest, `PrintedInv` says that each
function it is past has one row, with its points, and that a timeout is printed
before the row of its function (`RowsRight`, `RowsComplete`, `RowsOnce`, `TimeoutsPast`);
`RunEnds` concludes what a finished run has printed (`PrintedBy`, given the functions that deserve
points). Across the script, `SourceInv` says which source is tested unless a copy
failed, and `RunsInv` that the second run's deserving functions are among the
first's *whatever* failed (`DeservingLess`): the order in which dlc empties functions is what
makes performance points without correctness points impossible. Last, from lines to
tables: `TableReads` shows by induction over the lines that the table holds the entries
of each, `PuzzleEntry` that a puzzle's last entry is its row, and `TableTotals` that the
entries named "" and "10" add nothing.

**`CommandLineProofs`**, first `GenVals` alone (`GenValsAssumption`, `RangesAssumption`: ranges of ints, an array
whose bound is an int, and rounding errors below MAX_TEST_VALS / RAND_MAX). `NoOverrun`: `gen_vals`
writes past `MAX_TEST_VALS` for none but the ranges `Overruns` names, and for those of one value too many always,
for any TEST_RANGE of at least 4 and any table; and `TypeCorrect`. `CountInv`
counts the values written at each loop head (12 per float iteration, at most 5 per
sample, `i - min` in the first pass of the exhaustive loop). `FewValuesExact` says that the code's test is
`max - min <= MAX_TEST_VALS` unless it wraps; a sampled range is therefore wider than MAX_TEST_VALS, which is
what keeps a random value within it in spite of its rounding. `Domain` and `Regions`: the values are in the puzzle's domain and
include the regions around zero, the ends and the float transitions. `WrittenInv` says which
values each loop has written (`Around(k)` for the iterations done, `Near(k)` in the samples)
and that `test_range` is at most the exponent's step: without that cap `Around(k)` leaves
the patterns of a float, and the proof fails where the code would.

Then the command lines (also `WordAssumption`, `CommandLineAssumption`). `Arguments`: for every set
of command lines and any width, the tests run with what was typed last, and a refusal
has its reason; `MainNoOverrun`, `MainDomain`, `MainRegions`: the properties of `GenVals` for all of that.
`Kept` says that what main holds is what the options before `optind` said; the lemmas `FitsExactly` and
`AcceptedAsTyped` say that the shift by 31 lets through exactly the numbers of an int
or an unsigned, so that the cut to 32 bits loses nothing. `Printouts`: fshow and ishow show
what was typed. Its reference, `Magnitude`, defines a float's value by stepping through the
patterns, each a unit of its exponent above the one before; the proof is an induction over them
(a step of the fraction adds a unit; from the last fraction of one exponent to the next the
unit doubles), where `show_float` computes from the fields.

**`TransposeProofs`** (`TransposeAssumption`: at least one row and one column).
`CheckersExact`: `validate` and `is_transpose` return 1 for the transpose and nothing
else, for every size and content; `TransTransposes`: `trans` leaves the transpose of A as it
was filled, and passes; `TypeCorrect`. `LoopsInv` says that the elements before `(i, j)`
in row order have been copied or found equal; the lemma `AdvanceStep` says that one
iteration adds exactly the element at `(i, j)`.

**`CacheDriverProofs`** (`TestTransAssumption`: up to `MaxFuncs <= 255` functions, also none; any number of them
may be registered as the submission; any number of runs). First test-trans alone: `CreditIsValidated`, `MissesOwn`,
`TraceOwn`, `PerformanceRecorded`, `TypeCorrect`.
`TTInv` follows a function's trace through the files: `TracerInv` (at most the current
tracegen is alive, and only while test-trans waits for it or has been ended by its
alarm; likewise for csim-ref), `FileInv` (at `filter`, `sim` and `collect` the file in use is the current function's alone),
`StatusInv` (status 0 means it was right), `IndexInv` (`funcid` is the registered
submission and not after `i`), `ResultInv` (correct and misses go together) and `OutInv`
(a result line claims only what was earned, also the line the time-out adds).
Each property needs all of them: misses are own only if the trace was, and
the trace only if no other tracegen could write. Then the driver: `ChildrenDisjoint`,
`SheetEarned`, `DriverTypeCorrect`. `DInv` is `TTInv` of the current run and `SheetInv`: every
output read so far says only what was earned in its run. The one interesting step is
`Communicate`, the start of the next run: `TTInv` holds again because the pipe's end
means that no tracegen and no csim-ref is alive.

**`BombProofs`** (`BombAssumption`, `WidthAssumption`), for any lines, streams and width.
`Defused`, `ZeroStatus`, `TypeCorrect`: `PhaseInv` ties the number of lines read to the phase main is
at, and says that every line but the current one has defused its phase; it is
inductive because `read_line` writes only the entry after those lines, also when a blank
line or a switch of streams comes between. `StatusInv` says what each status means.
`InOrder` and `NeverExplodes`: `ReadInv` says that the chunks read are the first ones of the file
and then of standard input, that `num_input_strings` is the number of lines among them, and
that each is where its number says, or was too long and was the last (`Kept`; `ChunkSize`, that
a string from `fgets` is too long exactly if it fills its entry); with it, an explosion names a line given that is
no answer. `Searches` and `Sorted6`: `JudgeInv` says that the bomb explodes at a line of its phase that does
not defuse it, so that what `func4`, `fun7` and phase 6 accept decides; the searches have values by
`Recursion`, on the length of the interval and the height of the tree, and that phase 6's
list is sorted for one order only follows from six distinct values.

**`PuzzlesProofs`** (`BitsAssumption`: W is a power of two and at least 8, which
`allOddBits`' four groups and `howManyBits`' halving need, and 1 <= F <= W - 4, at least
three bits of exponent; the code has 32 and 23). `PuzzlesAgree`, `HowManyBitsExact`,
`ScaleDoubles`, `Power2TestRepeatsSquares` and `Power2RightOnNormals`: what the run shows for every byte
holds for every word of every such format. The invariant, `Called`, only says that `r` and
`rt` are what the functions return for arguments of the table; the work is in the operators. A word
is a set of bits and its number a sum of powers, so the lemmas go from the one to the
other: `NumWordOf` (the word of n has the number n % 2^W, by induction on the lowest bits
of both), `NumInjective`, `SignedIs`, `AddIs`, `ShlIs`, `ShrIs`, `SarIs`. Each integer puzzle then is
arithmetic with a case for each place where a sum wraps. `howManyBits`: what `Halve` keeps
is that the number is the bits counted so far plus those of what is left (`HalveRemains`). Floats: `FieldsOf` and
`FieldsTo` say that a word is its three fields and back, `Representable` that `FloatOf` is
right for the magnitude of every finite float; each branch of `floatScale2` and
`floatFloat2Int` then has its fields on both sides. The loop of `floatPower2`'s test has a value by
`Recursion`, on its `x`, and `LoopAbove` and `LoopBelow` its invariant: `result + x * p2` is the
exponent, saturated, because a square that has become 0 or infinity is used only where
what is left of `x` takes the result there as well. `Power2Exact` is false and stays a finding.

**Checked by TLC only**: all liveness (the six properties of passing runs that rest on
fairness), as fairness is out of the prover's reach. Every invariant that a passing
run checks is also a theorem.

Some properties are stated the way that can be both evaluated and proved: lines and
rows as sets of positions (`Given`, `LineNo`, `Rows`) instead of filtered sequences, and sums as
`MapThenSumSet` over positions.

## Not modelled

- `Driverlib.pm`'s HTTP request, `Driverhdrs.pm` and the bomb's `submitr`, `driver_post`,
  `init_driver`: one request and its answer; in the bomb nothing calls them.
- `dlc`, `csim-ref`, `test-csim`, `valgrind`, `grep`: binaries; modelled by the use
  their callers make of them, where they have one. `csim.c` is an unfilled stub.
- In `driver.pl`, the operator counts of `dlc -e`, which no score depends on, and the
  `bddcheck` branch, whose programs are not in the repository.
- In `btest.c`, arguments that are not options (getopt skips them) and the text of
  the messages about a wrong value.
- `driver.py`'s `computeMissScore`: three constants and a linear interpolation.
- In `test-trans.c`, SIGSEGV of test-trans itself; in `tracegen.c`, the mode that
  calls all functions; in `cachelab.c`, more registered functions than `func_list` has entries, `randTrans` and `printSummary`'s wording.
- The attack lab (`farm.c` and the two targets) and the notes.

## Order of the work

What scores other people's work first (btest, cache lab), then what they
run, then the bomb, then the programs around them (driver.pl, the command lines). What
could follow, most important first:

1. `computeMissScore`, composed with the counts of `CacheDriver`.
