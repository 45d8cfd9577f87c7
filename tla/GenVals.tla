------------------------------ MODULE GenVals ------------------------------
(***************************************************************************)
(* The test values of one function, src/lab/data/btest.c: test_function    *)
(* gives each argument a share of TEST_RANGE and gen_vals fills that       *)
(* argument's array of MAX_TEST_VALS ints.  The width of an int, the       *)
(* layout of a float and TEST_RANGE are parameters.                        *)
(***************************************************************************)
EXTENDS Integers, Sequences

CONSTANTS
    TestRange,              \* TEST_RANGE
    SqrtRange, CbrtRange,   \* pow(TEST_RANGE, 0.5) and pow(TEST_RANGE, 0.333), as ints
    ExpBits, FracBits,      \* layout of a float: 8 and 23
    Ranges,                 \* the arg_ranges of test_set, <<min, max>>
    ArgVals,                \* values of -1, -2 and -3
    RandMax,                \* RAND_MAX
    Rounding                \* bound of random_val's rounding error, times RAND_MAX

MaxTestVals == 13 * TestRange

(* The ints have the width of the floats: Sign is 2^31. *)
Sign    == 2 ^ (ExpBits + FracBits)
IntMin  == -Sign
IntMax  == Sign - 1
Wrap(x) == ((x + Sign) % (2 * Sign)) - Sign

IsFloatRange(r) == r = <<1, 1>>

ASSUME GenValsAssumption ==
    /\ TestRange \in Nat /\ TestRange >= 4
    /\ SqrtRange \in 0..TestRange /\ CbrtRange \in 0..TestRange
    /\ ExpBits \in Nat \ {0, 1} /\ FracBits \in Nat \ {0}
    /\ ArgVals \subseteq Int
    /\ RandMax \in Nat \ {0}

(* The array's bound is an int, a range is one of ints and is not empty,   *)
(* and the doubles are precise enough for that bound: four roundings of    *)
(* 2^31 * 2^-53 are 2^-20, 2^11 times 1/RAND_MAX.                          *)
ASSUME RangesAssumption ==
    /\ MaxTestVals <= IntMax
    /\ Ranges # {} /\ Ranges \subseteq (IntMin..IntMax) \X (IntMin..IntMax)
    /\ \A r \in Ranges : r[1] <= r[2]
    /\ Rounding \in 0..MaxTestVals

NotGiven == <<>>
Given(v) == <<v>>
UserArgs == {NotGiven} \cup {Given(v) : v \in ArgVals}

VARIABLES
    args,           \* t->args
    ranges,         \* t->arg_ranges
    given,          \* has_arg and argval
    pc,
    arg,            \* the argument gen_vals works for
    test_range,
    i,
    test_vals,      \* what gen_vals wrote to arg_test_vals[arg]
    test_counts     \* the counts of the arguments done

params == <<args, ranges, given>>
vars == <<params, pc, arg, test_range, i, test_vals, test_counts>>

Min == ranges[arg][1]
Max == ranges[arg][2]

TypeOK ==
    /\ args \in 0..3
    /\ ranges \in [0..2 -> Ranges]
    /\ given \in [0..2 -> UserArgs]
    /\ pc \in {"next", "call", "float", "specials", "exhaustive", "sample", "return", "done"}
    /\ arg \in 0..3
    /\ pc \in {"call", "float", "specials", "exhaustive", "sample", "return"} => arg \in 0..2
    /\ test_range \in Int /\ test_range <= TestRange
    /\ i \in Int
    /\ test_vals \in Seq(Int)
    /\ test_counts \in Seq(Nat)

(* An entry of test_set: the puzzles on floats have one argument, and the  *)
(* ranges of the arguments a puzzle does not have repeat the first.        *)
Entry(n, r) ==
    /\ \A k \in 0..2 : IsFloatRange(r[k]) => n = 1
    /\ \A k \in n..2 : r[k] = r[0]

Init ==
    /\ args \in 0..3 /\ ranges \in [0..2 -> Ranges] /\ Entry(args, ranges)
    /\ given \in [0..2 -> UserArgs]
    /\ pc = "next" /\ arg = 0 /\ test_range = 1 /\ i = 0
    /\ test_vals = <<>> /\ test_counts = <<>>

-----------------------------------------------------------------------------
(* test_function *)

AtLeastOne(n) == IF n < 1 THEN 1 ELSE n

ArgTestRange == AtLeastOne(CASE args = 1 -> TestRange
                             [] args = 2 -> SqrtRange
                             [] OTHER    -> CbrtRange)

NextArg ==
    /\ pc = "next" /\ arg < args
    /\ pc' = "call"
    /\ test_range' = ArgTestRange
    /\ test_vals' = <<>>
    /\ i' = 0
    /\ UNCHANGED <<params, arg, test_counts>>

AllArgs ==
    /\ pc = "next" /\ arg = args
    /\ pc' = "done"
    /\ UNCHANGED <<params, arg, test_range, i, test_vals, test_counts>>

Return ==
    /\ pc = "return"
    /\ pc' = "next"
    /\ test_counts' = Append(test_counts, Len(test_vals))
    /\ arg' = arg + 1
    /\ UNCHANGED <<params, test_range, i, test_vals>>

-----------------------------------------------------------------------------
(* gen_vals *)

UserValue ==
    /\ pc = "call" /\ given[arg] # NotGiven
    /\ pc' = "return"
    /\ test_vals' = given[arg]
    /\ UNCHANGED <<params, arg, test_range, i, test_counts>>

SmallestNorm == 2 ^ FracBits
One          == (2 ^ (ExpBits - 1) - 1) * 2 ^ FracBits
LargestNorm  == (2 ^ ExpBits - 2) * 2 ^ FracBits
Inf          == (2 ^ ExpBits - 1) * 2 ^ FracBits
NaN          == Inf + 2 ^ (FracBits - 1)
Neg(x)       == Sign + x                        \* sign | x, for x below sign

FloatTestRange == IF test_range > 2 ^ FracBits THEN 2 ^ FracBits ELSE test_range

FloatCase ==
    /\ pc = "call" /\ given[arg] = NotGiven /\ IsFloatRange(ranges[arg])
    /\ pc' = "float"
    /\ test_range' = FloatTestRange
    /\ UNCHANGED <<params, arg, i, test_vals, test_counts>>

FloatRegions ==
    <<i, Neg(i),
      SmallestNorm + i, SmallestNorm - i, Neg(SmallestNorm + i), Neg(SmallestNorm - i),
      One + i, One - i, Neg(One + i), Neg(One - i),
      LargestNorm - i, Neg(LargestNorm - i)>>

FloatLoop ==
    /\ pc = "float"
    /\ IF i < test_range
       THEN /\ test_vals' = test_vals \o FloatRegions
            /\ i' = i + 1
            /\ UNCHANGED pc
       ELSE /\ pc' = "specials"
            /\ UNCHANGED <<test_vals, i>>
    /\ UNCHANGED <<params, arg, test_range, test_counts>>

FloatSpecials ==
    /\ pc = "specials"
    /\ test_vals' = test_vals \o <<Inf, Neg(Inf), NaN, Neg(NaN)>>
    /\ pc' = "return"
    /\ UNCHANGED <<params, arg, test_range, i, test_counts>>

(* Mutant: the range is compared with TEST_RANGE values to spare. *)
FewValues_TooMany == Wrap(Max - MaxTestVals - TestRange) <= Min

FewValues == Wrap(Max - MaxTestVals) <= Min

IntCase ==
    /\ pc = "call" /\ given[arg] = NotGiven /\ ~IsFloatRange(ranges[arg])
    /\ IF FewValues
       THEN pc' = "exhaustive" /\ i' = Min
       ELSE pc' = "sample" /\ i' = 0
    /\ UNCHANGED <<params, arg, test_range, test_vals, test_counts>>

(* The increment of INT_MAX is undefined: a build that compares i with     *)
(* max + 1 for equality leaves the loop, as gcc's at -O does, and one that  *)
(* compares as it is written starts again at INT_MIN.  The model follows    *)
(* the loop up to the first element past the array.                         *)
ExhaustiveLoop ==
    /\ pc = "exhaustive"
    /\ IF i <= Max
       THEN /\ Len(test_vals) <= MaxTestVals
            /\ test_vals' = Append(test_vals, i)
            /\ i' = Wrap(i + 1)
            /\ pc' \in IF i = IntMax THEN {"exhaustive", "return"} ELSE {"exhaustive"}
       ELSE /\ pc' = "return"
            /\ UNCHANGED <<test_vals, i>>
    /\ UNCHANGED <<params, arg, test_range, test_counts>>

(* A double converted to int is truncated. *)
Truncate(x) == IF x >= 0 THEN x \div RandMax ELSE -((-x) \div RandMax)

(* weight, 1 - weight, the products and their sum are rounded: together by *)
(* error / RAND_MAX.  The weights 0 and 1 are exact.                       *)
Errors(rand) == IF rand \in {0, RandMax} THEN {0} ELSE (-Rounding)..Rounding

(* Mutant: max - min + 1 values from min on, for a weight that can be one. *)
random_val_PastMax(min, max, rand, error) ==
    Truncate(min * RandMax + (max - min + 1) * rand + error)

random_val(min, max, rand, error) == Truncate(min * (RandMax - rand) + max * rand + error)

(* Mutant: zero is sampled from one side only, and not itself. *)
AroundZero_Positive == IF Min <= i + 1 /\ i + 1 <= Max THEN <<i + 1>> ELSE <<>>

AroundZero == (IF Min <= i  /\ i  <= Max THEN <<i>>  ELSE <<>>) \o
              (IF Min <= -i /\ -i <= Max THEN <<-i>> ELSE <<>>)

SampleLoop ==
    /\ pc = "sample"
    /\ IF i < test_range
       THEN /\ \E rand \in 0..RandMax : \E error \in Errors(rand) :
                  test_vals' = test_vals \o <<Wrap(Min + i), Wrap(Max - i)>> \o AroundZero
                                         \o <<random_val(Min, Max, rand, error)>>
            /\ i' = i + 1
            /\ UNCHANGED pc
       ELSE /\ pc' = "return"
            /\ UNCHANGED <<test_vals, i>>
    /\ UNCHANGED <<params, arg, test_range, test_counts>>

Next ==
    \/ NextArg \/ AllArgs \/ Return
    \/ UserValue
    \/ FloatCase \/ FloatLoop \/ FloatSpecials
    \/ IntCase \/ ExhaustiveLoop \/ SampleLoop

Spec == Init /\ [][Next]_vars

-----------------------------------------------------------------------------
(* Properties *)

Values == {test_vals[k] : k \in 1..Len(test_vals)}
Generated(float) == /\ pc = "return" /\ given[arg] = NotGiven
                    /\ IsFloatRange(ranges[arg]) = float

(* The ranges with which the exhaustive loop leaves the array: exactly one *)
(* value more than it has elements, or INT_MAX as the end.                 *)
Overruns(r) ==
    /\ ~IsFloatRange(r)
    /\ \/ r[2] - r[1] = MaxTestVals
       \/ r[2] = IntMax /\ r[2] - r[1] <= MaxTestVals

(* gen_vals writes past the MAX_TEST_VALS elements of the array with no    *)
(* other range, whichever case it takes; and with a range of one value too *)
(* many it always does.                                                    *)
WithinBuffer ==
    pc \notin {"next", "done"} =>
        /\ Len(test_vals) > MaxTestVals => Overruns(ranges[arg])
        /\ Generated(FALSE) /\ Max - Min = MaxTestVals => Len(test_vals) = MaxTestVals + 1

(* max - MAX_TEST_VALS is below INT_MIN, and the range looks like a large one. *)
Wraps(max) == max - MaxTestVals < IntMin

(* A puzzle is called with integers of its declared range, the random ones *)
(* included, or with patterns of a float: no subtraction crosses zero and  *)
(* no or with the sign bit carries.  Except for a range so near to INT_MIN *)
(* that the test for a small one wraps.                                    *)
ValuesInDomain ==
    /\ Generated(FALSE) /\ ~Wraps(Max) => Values \subseteq Min..Max
    /\ Generated(TRUE) => Values \subseteq 0..(2 * Sign - 1)

(* As the head of btest.c says, both ends of an integer puzzle's range,    *)
(* zero and its neighbours are always tested; and zero, the transition     *)
(* between normalized and denormalized numbers, one, the infinities and a  *)
(* NaN in both signs, with their neighbours.                               *)
RegionsTested ==
    /\ Generated(FALSE) =>
        /\ {Min, Max} \subseteq Values
        /\ {v \in (1 - test_range)..(test_range - 1) : Min <= v /\ v <= Max} \subseteq Values
    /\ Generated(TRUE) =>
        \A k \in 0..(test_range - 1) :
            \A x \in {k, SmallestNorm + k, SmallestNorm - k, One + k, One - k, Inf, NaN} :
                {x, Neg(x)} \subseteq Values

(* The largest normalized number is among the patterns tested.             *)
LargestNormTested == Generated(TRUE) => Inf - 1 \in Values

=============================================================================
