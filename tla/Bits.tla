-------------------------------- MODULE Bits --------------------------------
(***************************************************************************)
(* The data lab's puzzles (src/lab/data/bits.c), called by btest with any  *)
(* arguments and compared with the functions of tests.c.                   *)
(*                                                                         *)
(* A word is the set of its bits that are 1, so that & | ^ ~ are the       *)
(* operations of sets; + is done on numbers modulo 2^W, as the build does  *)
(* it.  W is 32 and F, the width of a float's fraction, 23 in the code:    *)
(* the constants of the puzzles are written in terms of W and F.           *)
(***************************************************************************)
EXTENDS Integers, SequencesExt

CONSTANTS W, F,
          Halves,   \* W/2, ..., 4, 2, 1: the steps of howManyBits
          Sample    \* values of the second and third argument of conditional

ASSUME BitsAssumption ==
    /\ W \in Nat /\ W >= 8
    /\ F \in 1..(W - 4)
    /\ Halves \in Seq(1..W)
    /\ W = 2^Len(Halves) /\ \A n \in 1..Len(Halves) : Halves[n] = 2^(Len(Halves) - n)
    /\ Sample \subseteq SUBSET (0..(W - 1))

Bit  == 0..(W - 1)
Word == SUBSET Bit

Num       == [w \in Word |-> MapThenSumSet(LAMBDA b : 2^b, w)]     \* unsigned
Signed(w) == IF W - 1 \in w THEN Num[w] - 2^W ELSE Num[w]
WordOf(n) == {b \in Bit : (n \div 2^b) % 2 = 1}

-----------------------------------------------------------------------------
(* The operators of C *)

One       == {0}
Bool(c)   == IF c THEN One ELSE {}
Lnot(x)   == Bool(x = {})
Not(x)    == Bit \ x
Xor(x, y) == (x \ y) \cup (y \ x)
Add(x, y) == WordOf(Num[x] + Num[y])
Shl(x, n) == {b + n : b \in x} \cap Bit
Shr(x, n) == {b \in Bit : b + n \in x}                  \* of an unsigned
Sar(x, n) == {b \in Bit : b + n \in x \/ (b + n >= W /\ W - 1 \in x)}
Sum(x, y, z, t) == Add(Add(Add(x, y), z), t)

-----------------------------------------------------------------------------
(* The integer puzzles *)

bitXor(x, y) == Not(Not(x \cap Not(y)) \cap Not(Not(x) \cap y))

tmin == Shl(One, W - 1)

isTmax(x) == Lnot(Sum(x, One, x, One)) \cap Lnot(Lnot(Add(x, One)))

allOddBits(x) ==
    LET AA   == {b \in 0..(W \div 4 - 1) : b % 2 = 1}
        mask == Sum(AA, Shl(AA, W \div 4), Shl(AA, W \div 2), Shl(AA, (3 * W) \div 4))
    IN Lnot(Xor(x \cap mask, mask))

negate(x) == Add(Not(x), One)

isAsciiDigit(x) ==
    LET high      == Lnot(Xor(Sar(x, 4), WordOf(3)))
        low       == x \cap WordOf(15)
        low_check == Sar(Add(low, Add(Not(WordOf(10)), One)), W - 1)
    IN high \cap low_check

conditional(x, y, z) ==
    LET flag == negate(Lnot(Lnot(x)))
    IN (flag \cap y) \cup (Not(flag) \cap z)

SignBit(x) == Sar(x, W - 1) \cap One

(* Mutant: the signs are not compared, as if y - x could not overflow. *)
isLessOrEqual_NoSigns(x, y) == Lnot(SignBit(Add(y, negate(x))))
isLessOrEqual(x, y) ==
    LET sign_diff    == Xor(SignBit(x), SignBit(y))
        sign_diff_xy == SignBit(Add(y, negate(x)))
    IN (sign_diff \cap SignBit(x)) \cup (Lnot(sign_diff) \cap Lnot(sign_diff_xy))

logicalNeg(x) == Add(Sar(x \cup negate(x), W - 1), One)

(* One step: h more bits if the upper half is not empty.                   *)
Halve(s, h) == IF Sar(s.x, h) = {} THEN s ELSE [x |-> Sar(s.x, h), n |-> s.n + h]

howManyBits(x) ==
    LET sign == Sar(x, W - 1)
        after[k \in 0..Len(Halves)] ==
            IF k = 0 THEN [x |-> (sign \cap Not(x)) \cup (Not(sign) \cap x), n |-> 0]
            ELSE Halve(after[k - 1], Halves[k])
        last == after[Len(Halves)]
    IN WordOf(last.n + Num[last.x] + 1)

-----------------------------------------------------------------------------
(* The floats: one sign bit, W - 1 - F bits of exponent, F of fraction *)

MaxExp == 2^(W - 1 - F) - 1         \* 0xFF
Bias   == 2^(W - 2 - F) - 1         \* 127
Inf    == Shl(WordOf(MaxExp), F)    \* 0x7F800000

SignOf(uf) == uf \cap {W - 1}
ExpOf(uf)  == Num[Shr(uf, F) \cap WordOf(MaxExp)]
FracOf(uf) == uf \cap 0..(F - 1)

(* Mutant: an exponent that becomes MaxExp keeps its fraction. *)
floatScale2_NaN(uf) ==
    IF ExpOf(uf) = MaxExp THEN uf
    ELSE IF ExpOf(uf) = 0 THEN SignOf(uf) \cup Shl(FracOf(uf), 1)
    ELSE SignOf(uf) \cup Shl(WordOf(ExpOf(uf) + 1), F) \cup FracOf(uf)

floatScale2(uf) ==
    IF ExpOf(uf) = MaxExp THEN uf
    ELSE IF ExpOf(uf) = 0 THEN SignOf(uf) \cup Shl(FracOf(uf), 1)
    ELSE IF ExpOf(uf) + 1 = MaxExp THEN SignOf(uf) \cup Inf
    ELSE SignOf(uf) \cup Shl(WordOf(ExpOf(uf) + 1), F) \cup FracOf(uf)

OutOfRange == {W - 1}               \* 0x80000000u

TooLarge(E) == E >= W - 1

floatFloat2Int(uf) ==
    LET E      == ExpOf(uf) - Bias
        frac   == FracOf(uf) \cup {F}
        result == IF E >= F THEN Shl(frac, E - F) ELSE Shr(frac, F - E)
    IN IF ExpOf(uf) = MaxExp THEN OutOfRange
       ELSE IF ExpOf(uf) = 0 \/ E < 0 THEN {}
       ELSE IF TooLarge(E) THEN OutOfRange
       ELSE IF SignOf(uf) # {} THEN negate(result) ELSE result

(* Mutant: the largest exponent is not infinity. *)
floatPower2_NoOverflow(x) ==
    LET exp == Signed(Add(x, WordOf(Bias)))
    IN IF exp <= -F THEN {}
       ELSE IF exp <= 0 THEN Shl(One, F + exp)
       ELSE Shl(WordOf(exp), F)

floatPower2(x) ==
    LET exp == Signed(Add(x, WordOf(Bias)))
    IN IF exp <= -F THEN {}
       ELSE IF exp >= MaxExp THEN Inf
       ELSE IF exp <= 0 THEN Shl(One, F + exp)
       ELSE Shl(WordOf(exp), F)

=============================================================================
