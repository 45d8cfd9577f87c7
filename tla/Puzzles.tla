------------------------------ MODULE Puzzles ------------------------------
(***************************************************************************)
(* The calls btest makes: a puzzle of Bits and its test function of        *)
(* src/lab/data/tests.c, with the same arguments.                          *)
(***************************************************************************)
EXTENDS Bits

(* decl.c: the table of the puzzles, with their numbers of arguments.  The *)
(* argument ranges of a floating-point puzzle are {1, 1}, which stands for *)
(* every pattern of bits; those of the others are all the ints.            *)
IntPuzzle(name, n)  == [name |-> name, args |-> n, float |-> FALSE]
FloatPuzzle(name)   == [name |-> name, args |-> 1, float |-> TRUE]
test_set ==
    {IntPuzzle("bitXor", 2), IntPuzzle("tmin", 0), IntPuzzle("isTmax", 1), IntPuzzle("allOddBits", 1),
     IntPuzzle("negate", 1), IntPuzzle("isAsciiDigit", 1), IntPuzzle("conditional", 3),
     IntPuzzle("isLessOrEqual", 2), IntPuzzle("logicalNeg", 1), IntPuzzle("howManyBits", 1),
     FloatPuzzle("floatScale2"), FloatPuzzle("floatFloat2Int"), FloatPuzzle("floatPower2")}

VARIABLES
    puzzle,     \* called last, or "none"
    args,       \* its arguments
    r, rt       \* what it and its test function returned

vars == <<puzzle, args, r, rt>>

Init == puzzle = "none" /\ args = <<>> /\ r = {} /\ rt = {}

-----------------------------------------------------------------------------
(* tests.c *)

Tmax == Bit \ {W - 1}

test_allOddBits(x) == Bool(\A i \in Bit : i % 2 = 1 => i \in x)

test_isAsciiDigit(x) == Bool(48 <= Signed(x) /\ Signed(x) <= 57)

test_conditional(x, y, z) == IF x # {} THEN y ELSE z

(* Mutant: the sign bit is not counted. *)
test_howManyBits_Unsigned(x) ==
    LET a == WordOf(IF Signed(x) < 0 THEN -Signed(x) - 1 ELSE Signed(x))
    IN WordOf(CHOOSE cnt \in 0..W : /\ Shr(a, cnt) = {}
                                    /\ \A n \in 0..(cnt - 1) : Shr(a, n) # {})

(* The loop shifts until nothing is left. *)
test_howManyBits(x) ==
    LET a == WordOf(IF Signed(x) < 0 THEN -Signed(x) - 1 ELSE Signed(x))
        cnt == CHOOSE c \in 0..W : /\ Shr(a, c) = {}
                                   /\ \A n \in 0..(c - 1) : Shr(a, n) # {}
    IN WordOf(cnt + 1)

(* The magnitude of a finite float, in units of the least denormal, and the *)
(* float of a magnitude that is a sum of such units and not too precise.   *)
IsFinite(uf)  == ExpOf(uf) # MaxExp
Magnitude(uf) == IF ExpOf(uf) = 0 THEN Num[FracOf(uf)]
                 ELSE Num[FracOf(uf) \cup {F}] * 2^(ExpOf(uf) - 1)
UnitsInOne    == 2^(Bias - 1 + F)
FloatOf(m) ==
    IF m >= 2^(MaxExp - 1 + F) THEN Inf
    ELSE IF m < 2^F THEN WordOf(m)
    ELSE LET e == CHOOSE e \in 1..(MaxExp - 1) : 2^(F + e - 1) <= m /\ m < 2^(F + e)
         IN  WordOf((e - 1) * 2^F + m \div 2^(e - 1))

test_floatScale2(uf) ==
    IF IsFinite(uf) THEN SignOf(uf) \cup FloatOf(2 * Magnitude(uf)) ELSE uf

(* What does not fit an int becomes 0x80000000, as the processor has it.   *)
test_floatFloat2Int(uf) ==
    LET whole == Magnitude(uf) \div UnitsInOne
        int   == IF SignOf(uf) = {} THEN whole ELSE -whole
    IN  WordOf(IF IsFinite(uf) /\ int \in -2^(W - 1)..(2^(W - 1) - 1) THEN int ELSE -2^(W - 1))

(* A product of powers of two, by their exponents: LeastPower - 1 stands   *)
(* for 0 and Bias + 1 for infinity.  All the factors are on one side of 1. *)
LeastPower  == 1 - Bias - F
Times(p, q) ==
    IF p + q < LeastPower THEN LeastPower - 1 ELSE IF p + q > Bias THEN Bias + 1 ELSE p + q

(* Mutant: the least x is not treated specially. *)
Special_Never(x) == FALSE
Special(x) == x = {W - 1}

(* The loop's variables, and one round: the next bit of x and the next     *)
(* square.                                                                 *)
Ints   == -2^(W - 1)..(2^(W - 1) - 1)
Powers == (LeastPower - 1)..(Bias + 1)
Loop   == [x : Ints, result : Powers, p2 : Powers]
Round(s) == [x      |-> s.x \div 2,
             result |-> IF s.x % 2 = 1 THEN Times(s.result, s.p2) ELSE s.result,
             p2     |-> Times(s.p2, s.p2)]

(* -x is negative again for the least x.                                   *)
test_floatPower2(x) ==
    LET power[s \in Loop] == IF s.x <= 0 THEN s.result ELSE power[Round(s)]
        start == IF Signed(x) < 0 THEN [x |-> Signed(WordOf(-Signed(x))), result |-> 0, p2 |-> -1]
                                  ELSE [x |-> Signed(x), result |-> 0, p2 |-> 1]
        exp == power[start]
    IN  IF Special(x) \/ exp < LeastPower THEN {}
        ELSE IF exp > Bias THEN Inf ELSE FloatOf(2^(exp - LeastPower))

-----------------------------------------------------------------------------
solution_funct(name, a) ==
    CASE name = "bitXor"         -> bitXor(a[1], a[2])
      [] name = "tmin"           -> tmin
      [] name = "isTmax"         -> isTmax(a[1])
      [] name = "allOddBits"     -> allOddBits(a[1])
      [] name = "negate"         -> negate(a[1])
      [] name = "isAsciiDigit"   -> isAsciiDigit(a[1])
      [] name = "conditional"    -> conditional(a[1], a[2], a[3])
      [] name = "isLessOrEqual"  -> isLessOrEqual(a[1], a[2])
      [] name = "logicalNeg"     -> logicalNeg(a[1])
      [] name = "howManyBits"    -> howManyBits(a[1])
      [] name = "floatScale2"    -> floatScale2(a[1])
      [] name = "floatFloat2Int" -> floatFloat2Int(a[1])
      [] name = "floatPower2"    -> floatPower2(a[1])

test_funct(name, a) ==
    CASE name = "bitXor"         -> Xor(a[1], a[2])
      [] name = "tmin"           -> {W - 1}
      [] name = "isTmax"         -> Bool(a[1] = Tmax)
      [] name = "allOddBits"     -> test_allOddBits(a[1])
      [] name = "negate"         -> WordOf(-Signed(a[1]))
      [] name = "isAsciiDigit"   -> test_isAsciiDigit(a[1])
      [] name = "conditional"    -> test_conditional(a[1], a[2], a[3])
      [] name = "isLessOrEqual"  -> Bool(Signed(a[1]) <= Signed(a[2]))
      [] name = "logicalNeg"     -> Lnot(a[1])
      [] name = "howManyBits"    -> test_howManyBits(a[1])
      [] name = "floatScale2"    -> test_floatScale2(a[1])
      [] name = "floatFloat2Int" -> test_floatFloat2Int(a[1])
      [] name = "floatPower2"    -> test_floatPower2(a[1])

(* Bound: of three arguments the last two are in Sample.                   *)
Arguments(n) ==
    CASE n = 3 -> {<<x, y, z>> : x \in Word, y \in Sample, z \in Sample}
      [] OTHER -> [1..n -> Word]

Call ==
    /\ puzzle = "none"
    /\ \E t \in test_set : \E a \in Arguments(t.args) :
          /\ puzzle' = t.name
          /\ args' = a
          /\ r' = solution_funct(t.name, a)
          /\ rt' = test_funct(t.name, a)

Next == Call

Spec == Init /\ [][Next]_vars

-----------------------------------------------------------------------------
(* Properties *)

(* Every puzzle but floatPower2 returns what its test function returns,    *)
(* for all arguments: btest finds no error whatever values gen_vals picks. *)
(* So floatFloat2Int truncates towards zero on both sides of the shift's   *)
(* change of direction, and gives 0x80000000 from the first value that     *)
(* does not fit.                                                           *)
TestsAgree == puzzle \notin {"none", "floatPower2"} => r = rt

(* howManyBits and its test return the least width in which x, as a two's  *)
(* complement number, fits.                                                *)
Fits(v, n) == n > 0 /\ -2^(n - 1) <= v /\ v < 2^(n - 1)
HowManyBitsMinimal ==
    puzzle = "howManyBits" =>
        \A v \in {r, rt} : /\ Fits(Signed(args[1]), Num[v])
                           /\ ~Fits(Signed(args[1]), Num[v] - 1)

(* floatScale2 doubles every finite float exactly, across the step from    *)
(* denormals to normals, or gives the infinity of its sign if twice the    *)
(* value is too large; infinities and NaNs are returned as they are.       *)
ScaleExact ==
    puzzle = "floatScale2" =>
        LET uf == args[1] IN
        /\ SignOf(r) = SignOf(uf)
        /\ ~IsFinite(uf) => r = uf
        /\ IsFinite(uf) =>
              IF 2 * Magnitude(uf) < 2^(MaxExp - 1 + F)
              THEN IsFinite(r) /\ Magnitude(r) = 2 * Magnitude(uf)
              ELSE r = SignOf(uf) \cup Inf

(* "... the identical bit representation as the single-precision floating- *)
(* point number 2.0^x.  If the result is too small to be represented as a  *)
(* denorm, return 0.  If too large, return +INF."                          *)
Power2Right(x, v) ==
    IF Signed(x) < LeastPower THEN v = {}
    ELSE IF Signed(x) > Bias THEN v = Inf
    ELSE SignOf(v) = {} /\ IsFinite(v) /\ Magnitude(v) = 2^(Signed(x) - LeastPower)

Power2Exact == puzzle = "floatPower2" => Power2Right(args[1], r)

(* Its test function, by repeated squaring, is right for every x: no       *)
(* square underflows or overflows in a way that reaches the result, and    *)
(* every product of a denormal power is exact.                             *)
Power2TestExact == puzzle = "floatPower2" => Power2Right(args[1], rt)

(* It is right where 2.0^x is not a denormal and x + bias does not wrap.   *)
Power2ExactOnNormals ==
    puzzle = "floatPower2" /\ Signed(args[1]) \notin LeastPower..(-Bias)
                           /\ Signed(args[1]) + Bias < 2^(W - 1)
        => Power2Right(args[1], r)

=============================================================================
