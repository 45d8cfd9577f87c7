---------------------------- MODULE CommandLine ----------------------------
(***************************************************************************)
(* What btest, fshow and ishow make of their command lines: their mains in *)
(* src/lab/data, their copies of get_num_val, and the two programs that    *)
(* show a word.  The values of -1, -2 and -3 are what gen_vals gives every *)
(* puzzle, so btest goes on with GenVals.                                  *)
(***************************************************************************)
EXTENDS GenVals

CONSTANTS
    Words,          \* the numbers as they are typed, see IsWord
    CommandLines    \* a program with its arguments

(* Sign is the weight of a word's highest bit: ints, unsigneds and floats  *)
(* have the same width.                                                    *)
ASSUME WordAssumption == Sign \in Nat \ {0}
Unsigned == 0..(2 * Sign - 1)

(* A word: the characters get_num_val looks for, in their order, the       *)
(* number strtoll reads at its beginning (0 without one), whether strtof   *)
(* reads all of it, and the pattern of the float that strtof returns.      *)
IsWord(w) ==
    /\ DOMAIN w = {"marks", "number", "whole", "pattern"}
    /\ w.marks \in Seq({"x", "e", "."})
    /\ w.number \in Int
    /\ w.whole \in BOOLEAN
    /\ w.pattern \in Unsigned

Numbers  == <<"1", "2", "3">>
Settings == {"g", "f", "r", "T"}
Usages   == {"h", "?"}

(* btest's options, as getopt returns them; the others' arguments.         *)
IsArgument(prog, o) ==
    /\ DOMAIN o = {"opt", "arg"}
    /\ o.opt \in IF prog = "btest" THEN {"1", "2", "3"} \cup Settings \cup Usages ELSE {"val"}
    /\ o.opt \in {"1", "2", "3", "val"} => o.arg \in Words
    /\ o.opt = "r" => o.arg \in Int

(* The unsigned a word stands for, and the int it is as a test value.      *)
IsFloat(w) ==
    \E k \in DOMAIN w.marks :
        \/ w.marks[k] = "."
        \/ w.marks[k] = "e" /\ \A j \in 1..(k - 1) : w.marks[j] # "x"
Converted(w) == IF IsFloat(w) THEN w.pattern ELSE w.number % (2 * Sign)
ToInt(u)     == IF u < Sign THEN u ELSE u - 2 * Sign

ASSUME CommandLineAssumption ==
    /\ \A w \in Words : IsWord(w) /\ ToInt(Converted(w)) \in ArgVals
    /\ \A l \in CommandLines :
           /\ DOMAIN l = {"prog", "argv"}
           /\ l.prog \in {"btest", "fshow", "ishow"}
           /\ Len(l.argv) \in Nat /\ DOMAIN l.argv = 1..Len(l.argv)
           /\ \A k \in DOMAIN l.argv : IsArgument(l.prog, l.argv[k])

VARIABLES
    prog, argv,
    stage,          \* where main is: at its arguments, running tests, or how it ended
    optind,         \* the argument it is at
    settings,       \* grade, test_fname, global_rating, timeout_limit
    shown           \* what fshow and ishow printed for each argument

command == <<prog, argv>>
main    == <<command, stage, optind, settings, shown>>
mainVars == <<main, vars>>

Defaults == [letter \in Settings |-> IF letter = "f" THEN "" ELSE IF letter = "T" THEN 10 ELSE 0]

(* Before run_tests no puzzle has been chosen. *)
MainInit ==
    /\ args = 0 /\ ranges = [k \in 0..2 |-> CHOOSE r \in Ranges : TRUE]
    /\ pc = "next" /\ arg = 0 /\ test_range = 1 /\ i = 0
    /\ test_vals = <<>> /\ test_counts = <<>>
    /\ given = [k \in 0..2 |-> NotGiven]
    /\ \E l \in CommandLines : prog = l.prog /\ argv = l.argv
    /\ stage = "main" /\ optind = 1
    /\ settings = Defaults
    /\ shown = <<>>

MainTypeOK ==
    /\ \E l \in CommandLines : prog = l.prog /\ argv = l.argv
    /\ stage \in {"main", "tests", "usage", "bad", "shown"}
    /\ optind \in Nat \ {0}
    /\ stage = "main" => pc = "next" /\ arg = 0
    /\ TypeOK

-----------------------------------------------------------------------------
(* n >> 31 is -1 for a negative number, 0 or 1 for an unsigned one.   *)
(* Mutant: one bit more is let through. *)
Fits_Wider(n) == n \div (2 * Sign) \in {-1, 0, 1}
Fits(n) == n \div Sign \in {-1, 0, 1}

(* btest's copy also tests the value that the last call left: *valp. *)
get_num_val(w, valp) ==
    IF IsFloat(w) THEN prog # "ishow" /\ w.whole
                  ELSE Fits(w.number) /\ (prog = "btest" => valp \in {NotGiven, Given(0)})

-----------------------------------------------------------------------------
(* btest *)

AtOption(letters) == stage = "main" /\ optind \in DOMAIN argv /\ argv[optind].opt \in letters
Word  == argv[optind].arg

ArgIndex == CHOOSE k \in 0..2 : Numbers[k + 1] = argv[optind].opt

Argument ==
    /\ AtOption({"1", "2", "3"}) /\ get_num_val(Word, given[ArgIndex])
    /\ given' = [given EXCEPT ![ArgIndex] = Given(ToInt(Converted(Word)))]
    /\ optind' = optind + 1
    /\ UNCHANGED <<command, stage, settings, shown, args, ranges, pc, arg, test_range, i, test_vals, test_counts>>

BadArgument ==
    /\ AtOption({"1", "2", "3"}) /\ ~get_num_val(Word, given[ArgIndex])
    /\ stage' = "bad"
    /\ UNCHANGED <<command, optind, settings, shown, vars>>

BadRating == argv[optind].opt = "r" /\ argv[optind].arg < 0

Setting ==
    /\ AtOption(Settings) /\ ~BadRating
    /\ settings' = [settings EXCEPT ![argv[optind].opt] = argv[optind].arg]
    /\ optind' = optind + 1
    /\ UNCHANGED <<command, stage, shown, vars>>

usage ==
    /\ \/ AtOption(Usages)
       \/ AtOption(Settings) /\ BadRating
       \/ prog # "btest" /\ argv = <<>> /\ stage = "main"
    /\ stage' = "usage"
    /\ UNCHANGED <<command, optind, settings, shown, vars>>

(* run_tests comes to a puzzle. *)
RunTests ==
    /\ prog = "btest" /\ stage = "main" /\ optind \notin DOMAIN argv
    /\ stage' = "tests"
    /\ args' \in 0..3 /\ ranges' \in [0..2 -> Ranges] /\ Entry(args', ranges')
    /\ UNCHANGED <<command, optind, settings, shown, given, pc, arg, test_range, i, test_vals, test_counts>>

GenerateValues == stage = "tests" /\ Next /\ UNCHANGED main

-----------------------------------------------------------------------------
(* fshow and ishow *)

Bias         == 2^(ExpBits - 1) - 1
get_exp(u)   == (u \div 2^FracBits) % 2^ExpBits
get_frac(u)  == u % 2^FracBits
get_sign(u)  == u \div Sign

Invalid == [kind |-> "invalid"]

(* A number is mantissa / 2^FracBits * 2^uexp, after its sign. *)
(* Mutant: a denormalized number's exponent is that of its field. *)
show_float_Field(u) ==
    IF get_exp(u) = 2^ExpBits - 1
    THEN [kind |-> IF get_frac(u) = 0 THEN "infinity" ELSE "nan", sign |-> get_sign(u)]
    ELSE [kind     |-> "number",
          sign     |-> get_sign(u),
          uexp     |-> get_exp(u) - Bias,
          mantissa |-> get_frac(u) + (IF get_exp(u) = 0 THEN 0 ELSE 2^FracBits)]

show_float(u) ==
    IF get_exp(u) = 2^ExpBits - 1
    THEN [kind |-> IF get_frac(u) = 0 THEN "infinity" ELSE "nan", sign |-> get_sign(u)]
    ELSE [kind     |-> "number",
          sign     |-> get_sign(u),
          uexp     |-> IF get_exp(u) = 0 THEN 1 - Bias ELSE get_exp(u) - Bias,
          mantissa |-> get_frac(u) + (IF get_exp(u) = 0 THEN 0 ELSE 2^FracBits)]

show_int(u) == [kind |-> "int", signed |-> ToInt(u), unsigned |-> u]

Show ==
    /\ AtOption({"val"}) /\ get_num_val(Word, NotGiven)
    /\ shown' = Append(shown, IF prog = "fshow" THEN show_float(Converted(Word))
                                                ELSE show_int(Converted(Word)))
    /\ optind' = optind + 1
    /\ UNCHANGED <<command, stage, settings, vars>>

(* fshow explains itself and stops, ishow goes on. *)
Refuse ==
    /\ AtOption({"val"}) /\ ~get_num_val(Word, NotGiven)
    /\ shown' = Append(shown, Invalid)
    /\ IF prog = "fshow" THEN stage' = "usage" /\ UNCHANGED optind
                         ELSE optind' = optind + 1 /\ UNCHANGED stage
    /\ UNCHANGED <<command, settings, vars>>

AllShown ==
    /\ prog # "btest" /\ stage = "main" /\ argv # <<>> /\ optind \notin DOMAIN argv
    /\ stage' = "shown"
    /\ UNCHANGED <<command, optind, settings, shown, vars>>

MainNext ==
    \/ Argument \/ BadArgument \/ Setting \/ usage \/ RunTests \/ GenerateValues
    \/ Show \/ Refuse \/ AllShown

MainSpec == MainInit /\ [][MainNext]_mainVars

-----------------------------------------------------------------------------
(* Properties *)

At(letter) == {n \in DOMAIN argv : argv[n].opt = letter}
Last(S)    == CHOOSE n \in S : \A m \in S : m <= n

(* v is the word as a signed or as an unsigned number, or its pattern.     *)
AsTyped(v, w) == IF IsFloat(w) THEN v % (2 * Sign) = w.pattern
                               ELSE w.number \in {v, v % (2 * Sign)}

(* The word is no number, or none of the width of an int. *)
Unfit(w) ==
    \/ \A v \in IntMin..IntMax : ~AsTyped(v, w)
    \/ IsFloat(w) /\ ~w.whole

(* The tests run with what the command line says: each argument and each   *)
(* setting is that of its last option, no number is cut to the width of an *)
(* int, and the options not given have their defaults.  btest calls an     *)
(* argument bad only when it does not fit, or when an earlier one for its  *)
(* option is not 0, which "[-1|-2|-3 <val>]*" in its usage does not say.    *)
ArgsAsGiven ==
    /\ stage = "tests" =>
        /\ \A k \in 0..2 :
               IF At(Numbers[k + 1]) = {} THEN given[k] = NotGiven
               ELSE \E v \in ArgVals : given[k] = Given(v) /\ AsTyped(v, argv[Last(At(Numbers[k + 1]))].arg)
        /\ \A letter \in Settings :
               settings[letter] = IF At(letter) = {} THEN Defaults[letter] ELSE argv[Last(At(letter))].arg
    /\ stage = "bad" =>
        \/ Unfit(Word)
        \/ \E n \in At(argv[optind].opt) : n < optind /\ ~AsTyped(0, argv[n].arg)

(* The value of a pattern without its sign, in units of the smallest       *)
(* denormalized number: two patterns that follow each other differ by a    *)
(* unit, and by twice as much in each binade after the first.              *)
Magnitude[u \in 0..Inf] ==
    IF u = 0 THEN 0
    ELSE Magnitude[u - 1] + (IF get_exp(u - 1) = 0 THEN 1 ELSE 2^(get_exp(u - 1) - 1))

(* fshow and ishow print what each argument stands for, in its order:      *)
(* fshow the value of the pattern, exact at both sides of the transition   *)
(* to normalized numbers; ishow the number typed, as a signed or as an     *)
(* unsigned one, and refuses one only when it has no such value.           *)
ShownAsTyped ==
    \A n \in DOMAIN shown :
        LET w == argv[n].arg
            s == shown[n]
            u == Converted(w)
        IN  /\ s.kind \in {"int", "invalid", "number", "infinity", "nan"}
            /\ s.kind = "int" => ~IsFloat(w) /\ w.number \in {s.signed, s.unsigned}
            /\ s.kind = "invalid" =>
                   \/ w.number \notin (-Sign)..(2 * Sign - 1)
                   \/ IsFloat(w) /\ (prog = "ishow" \/ ~w.whole)
            /\ s.kind = "number" =>
                   /\ u % Sign < Inf /\ (s.sign = 1 <=> u >= Sign)
                   /\ s.uexp >= 1 - Bias
                   /\ s.mantissa * 2^(s.uexp - (1 - Bias)) = Magnitude[u % Sign]
            /\ s.kind = "infinity" => u = IF s.sign = 1 THEN Neg(Inf) ELSE Inf
            /\ s.kind = "nan" => u % Sign > Inf

=============================================================================
