-------------------------- MODULE CommandLineProofs --------------------------
(* gen_vals overruns its array for the ranges WithinBuffer names only and  *)
(* tests the regions it promises, for every TEST_RANGE, table and layout   *)
(* of a float; btest tests with the arguments and settings of its command  *)
(* line, and gen_vals keeps its bounds for all of them; fshow and ishow    *)
(* show what was typed.                                                    *)
EXTENDS CommandLine, InductionLemmas, SequenceTheorems, TLAPS

-----------------------------------------------------------------------------
(* The ints *)

LEMMA Remainder ==
    ASSUME NEW m \in Nat, m > 0, NEW n \in Int, -m <= n, n < m
    PROVE  n % m = IF n >= 0 THEN n ELSE n + m
  OBVIOUS

LEMMA SignType == Sign \in Nat /\ Sign > 0
  BY WordAssumption

(* Ints are themselves; what is too large or too small by less than the    *)
(* whole width is off by that width.                                       *)
LEMMA WrapInt ==
    ASSUME NEW x \in Int, -(3 * Sign) <= x, x < 3 * Sign
    PROVE  /\ Wrap(x) \in IntMin..IntMax
           /\ IntMin <= x /\ x <= IntMax => Wrap(x) = x
           /\ x < IntMin => Wrap(x) = x + 2 * Sign
           /\ x > IntMax => Wrap(x) = x - 2 * Sign
  <1> DEFINE S == Sign
             m == 2 * S
             y == x + S
  <1>1. S \in Nat /\ S > 0 /\ IntMin = -S /\ IntMax = S - 1
    BY SignType DEF IntMin, IntMax
  <1>2. Wrap(x) = (y % m) - S
    BY DEF Wrap
  <1>3. -m <= y /\ y < 2 * m /\ m \in Nat /\ m > 0 /\ y \in Int
    BY <1>1
  <1>4. CASE y < m
    <2>1. y % m = IF y >= 0 THEN y ELSE y + m
      BY <1>3, <1>4, Remainder
    <2>2. QED
      BY <1>1, <1>2, <1>3, <1>4, <2>1
  <1>5. CASE y >= m
    <2>1. (1 * m + (y - m)) % m = y - m
      BY <1>3, <1>5, Division
    <2>2. y % m = y - m
      BY <1>3, <2>1
    <2>3. QED
      BY <1>1, <1>2, <1>3, <1>5, <2>2
  <1>6. QED
    BY <1>3, <1>4, <1>5

-----------------------------------------------------------------------------
(* gen_vals *)

(* The exhaustive loop counts up to max; one that ends at INT_MAX may go   *)
(* on at INT_MIN, with fewer elements left than it needs to come back.     *)
FirstPass ==
    /\ i \in Min..(Max + 1) /\ i <= IntMax
    /\ Len(test_vals) = i - Min
SecondPass ==
    /\ Max = IntMax
    /\ i \in Int /\ i >= IntMin
    /\ i - IntMin < Len(test_vals) /\ Len(test_vals) <= MaxTestVals + 1

(* How many values each loop has written when it is about to go on.        *)
CountInv ==
    /\ pc = "call" => Len(test_vals) = 0 /\ i = 0
    /\ pc \in {"float", "specials"} => IsFloatRange(ranges[arg])
    /\ pc = "float" => Len(test_vals) = 12 * i /\ i \in 0..TestRange
    /\ pc = "specials" => Len(test_vals) <= 12 * TestRange
    /\ pc \in {"exhaustive", "sample"} => ~IsFloatRange(ranges[arg])
    /\ pc = "exhaustive" =>
          /\ ~Wraps(Max) /\ Max - Min <= MaxTestVals
          /\ FirstPass \/ SecondPass
    /\ pc = "sample" =>
          /\ Wraps(Max) \/ Max - Min > MaxTestVals
          /\ Len(test_vals) <= 5 * i /\ i \in 0..TestRange

IInv == TypeOK /\ CountInv /\ WithinBuffer

(* Between two arguments nothing is said of the array. *)
LEMMA IdleIInv ==
    ASSUME TypeOK, pc \in {"next", "done"} PROVE IInv
  BY DEF IInv, CountInv, WithinBuffer

LEMMA InitIInv == Init => IInv
  <1>1. Init => TypeOK /\ pc = "next"
    BY GenValsAssumption DEF Init, TypeOK
  <1>2. QED
    BY <1>1, IdleIInv

(* pow with an exponent below one does not exceed its argument.            *)
LEMMA ArgTestRangeType == ArgTestRange \in 1..TestRange
  BY GenValsAssumption DEF ArgTestRange, AtLeastOne

LEMMA BoundType == MaxTestVals \in Nat /\ MaxTestVals >= 13 * 4 /\ MaxTestVals < Sign
  <1>1. MaxTestVals <= Sign - 1 /\ Sign \in Nat
    BY RangesAssumption, SignType DEF IntMax
  <1>2. MaxTestVals \in Nat /\ MaxTestVals >= 13 * 4
    BY GenValsAssumption DEF MaxTestVals
  <1>3. QED
    BY <1>1, <1>2

LEMMA RangeType ==
    ASSUME TypeOK, arg \in 0..2
    PROVE  /\ Min \in Int /\ Max \in Int /\ Min <= Max
           /\ IntMin <= Min /\ Max <= IntMax
           /\ IntMin = -Sign /\ IntMax = Sign - 1
  <1>1. ranges[arg] \in Ranges
    BY DEF TypeOK
  <1>2. Ranges \subseteq (IntMin..IntMax) \X (IntMin..IntMax) /\ \A r \in Ranges : r[1] <= r[2]
    BY RangesAssumption
  <1>3. Min \in IntMin..IntMax /\ Max \in IntMin..IntMax /\ Min <= Max
    BY <1>1, <1>2 DEF Min, Max
  <1>4. QED
    BY <1>3, SignType DEF IntMin, IntMax

(* A range is taken for a small one when it is one and the test does not   *)
(* wrap.                                                                   *)
LEMMA FewValuesExact ==
    ASSUME TypeOK, arg \in 0..2
    PROVE  FewValues <=> ~Wraps(Max) /\ Max - Min <= MaxTestVals
  <1> DEFINE x == Max - MaxTestVals
  <1>1. /\ Min \in Int /\ Max \in Int /\ Min <= Max /\ IntMin <= Min /\ Max <= IntMax
        /\ IntMin = -Sign /\ IntMax = Sign - 1 /\ Sign \in Nat /\ Sign > 0
        /\ MaxTestVals \in Nat /\ MaxTestVals < Sign
    BY RangeType, SignType, BoundType
  <1>2. x \in Int /\ -(3 * Sign) <= x /\ x < 3 * Sign /\ x <= IntMax
    BY <1>1
  <1>3. (FewValues <=> Wrap(x) <= Min) /\ (Wraps(Max) <=> x < IntMin)
    BY DEF FewValues, Wraps
  <1> HIDE DEF x
  <1>4. (x < IntMin => Wrap(x) = x + 2 * Sign) /\ (~(x < IntMin) => Wrap(x) = x)
    BY <1>1, <1>2, WrapInt
  <1>5. QED
    BY <1>1, <1>2, <1>3, <1>4 DEF x

LEMMA ConcatType ==
    ASSUME NEW s \in Seq(Int), NEW t \in Seq(Int)
    PROVE  s \o t \in Seq(Int) /\ Len(s \o t) = Len(s) + Len(t)
  BY ConcatProperties

(* Each iteration appends a fixed number of ints.                          *)
LEMMA FloatRegionsType ==
    ASSUME i \in Int
    PROVE  FloatRegions \in Seq(Int) /\ Len(FloatRegions) = 12
  <1>1. SmallestNorm \in Int /\ One \in Int /\ LargestNorm \in Int /\ Sign \in Int
    BY GenValsAssumption DEF SmallestNorm, One, LargestNorm, Sign
  <1> HIDE DEF SmallestNorm, One, LargestNorm, Sign
  <1>2. QED
    BY <1>1 DEF FloatRegions, Neg

LEMMA SpecialsType ==
    <<Inf, Neg(Inf), NaN, Neg(NaN)>> \in Seq(Int)
  <1>1. Inf \in Int /\ NaN \in Int /\ Sign \in Int
    BY GenValsAssumption DEF Inf, NaN, Sign
  <1> HIDE DEF Inf, NaN, Sign
  <1>2. QED
    BY <1>1 DEF Neg

LEMMA RandomType ==
    ASSUME NEW min \in Int, NEW max \in Int, NEW rand \in 0..RandMax, NEW error \in Errors(rand)
    PROVE  random_val(min, max, rand, error) \in Int
  <1>0. error \in Int
    <2>1. Rounding \in Int
      BY RangesAssumption
    <2>2. QED
      BY <2>1 DEF Errors
  <1>1. min * (RandMax - rand) + max * rand + error \in Int
    BY <1>0, GenValsAssumption
  <1>2. \A x \in Int : Truncate(x) \in Int
    BY GenValsAssumption DEF Truncate
  <1>3. QED
    BY <1>1, <1>2 DEF random_val

LEMMA AroundZeroType ==
    ASSUME i \in Int, Min \in Int, Max \in Int
    PROVE  AroundZero \in Seq(Int) /\ Len(AroundZero) <= 2 /\ Len(AroundZero) \in Nat
  <1> DEFINE up == IF Min <= i /\ i <= Max THEN <<i>> ELSE <<>>
             down == IF Min <= -i /\ -i <= Max THEN <<-i>> ELSE <<>>
  <1>1. up \in Seq(Int) /\ Len(up) <= 1 /\ Len(up) \in Nat
    OBVIOUS
  <1>2. down \in Seq(Int) /\ Len(down) <= 1 /\ Len(down) \in Nat
    OBVIOUS
  <1>3. AroundZero = up \o down
    BY DEF AroundZero
  <1> HIDE DEF up, down
  <1>4. QED
    BY <1>1, <1>2, <1>3, ConcatType

(* What a sampling iteration writes at the two ends are ints.              *)
LEMMA EndsType ==
    ASSUME Min \in Int, Max \in Int, i \in Int
    PROVE  Wrap(Min + i) \in Int /\ Wrap(Max - i) \in Int
  <1>1. \A x \in Int : Wrap(x) \in Int
    <2>1. Sign \in Nat /\ Sign > 0
      BY SignType
    <2> HIDE DEF Sign
    <2>2. QED
      BY <2>1 DEF Wrap
  <1>2. QED
    BY <1>1

(* An iteration of the exhaustive loop: the next value of the first pass,  *)
(* the end of the ints, or one more of the second pass.                    *)
LEMMA ExhaustiveStep ==
    ASSUME IInv, ExhaustiveLoop, i <= Max
    PROVE  /\ arg \in 0..2 /\ UNCHANGED <<params, arg, test_range, test_counts, Min, Max>>
           /\ test_vals' = Append(test_vals, i)
           /\ test_vals' \in Seq(Int) /\ Len(test_vals') = Len(test_vals) + 1
           /\ Len(test_vals) <= MaxTestVals
           /\ i \in Int /\ i' \in Int
           /\ \/ FirstPass /\ i < IntMax /\ pc' = "exhaustive" /\ i' = i + 1 /\ FirstPass'
              \/ FirstPass /\ i = IntMax /\ Max = IntMax /\ pc' = "return"
              \/ pc' = "exhaustive" /\ SecondPass'
  <1>1. /\ pc = "exhaustive" /\ UNCHANGED <<params, arg, test_range, test_counts>>
        /\ test_vals' = Append(test_vals, i) /\ i' = Wrap(i + 1)
        /\ Len(test_vals) <= MaxTestVals
        /\ pc' \in IF i = IntMax THEN {"exhaustive", "return"} ELSE {"exhaustive"}
    BY DEF ExhaustiveLoop
  <1>2. TypeOK /\ arg \in 0..2 /\ i \in Int /\ test_vals \in Seq(Int)
    BY <1>1 DEF IInv, TypeOK
  <1>3. /\ Min \in Int /\ Max \in Int /\ Min <= Max /\ IntMin <= Min /\ Max <= IntMax
        /\ IntMin = -Sign /\ IntMax = Sign - 1 /\ Sign \in Nat /\ Sign > 0
        /\ MaxTestVals \in Nat /\ MaxTestVals < Sign
    BY <1>2, RangeType, SignType, BoundType
  <1>4. test_vals' \in Seq(Int) /\ Len(test_vals') = Len(test_vals) + 1 /\ Len(test_vals) \in Nat
    BY <1>1, <1>2, AppendProperties, LenProperties
  <1>5. UNCHANGED <<Min, Max>>
    BY <1>1 DEF params, Min, Max
  <1>6. FirstPass \/ SecondPass
    BY <1>1 DEF IInv, CountInv
  <1>7. IntMin <= i /\ i <= IntMax
    BY <1>2, <1>3, <1>6 DEF FirstPass, SecondPass
  <1>8. i' = IF i = IntMax THEN IntMin ELSE i + 1
    <2>1. -(3 * Sign) <= i + 1 /\ i + 1 < 3 * Sign /\ i + 1 \in Int
      BY <1>2, <1>3, <1>7
    <2>2. QED
      BY <1>1, <1>2, <1>3, <1>7, <2>1, WrapInt
  <1>9. CASE FirstPass /\ i < IntMax
    <2>1. pc' = "exhaustive" /\ i' = i + 1
      BY <1>1, <1>3, <1>8, <1>9
    <2>2. FirstPass'
      <3>1. /\ i \in Min..(Max + 1) /\ Len(test_vals) = i - Min
            /\ i \in Int /\ i < IntMax /\ i <= Max
        BY <1>2, <1>9 DEF FirstPass
      <3>2. i + 1 \in Min..(Max + 1) /\ i + 1 <= IntMax /\ Len(test_vals') = (i + 1) - Min
        BY <1>3, <1>4, <3>1
      <3>3. IntMax' = IntMax
        BY DEF IntMax, Sign
      <3>4. QED
        BY <1>5, <2>1, <3>2, <3>3 DEF FirstPass
    <2>3. QED
      BY <1>1, <1>2, <1>4, <1>5, <1>9, <2>1, <2>2
  <1>10. CASE FirstPass /\ i = IntMax
    <2>1. Max = IntMax
      BY <1>2, <1>3, <1>10
    <2>2. i' = IntMin /\ i' \in Int
      BY <1>3, <1>8, <1>10
    <2>3. SecondPass'
      <3>1. Max' = IntMax /\ i' - IntMin < Len(test_vals') /\ Len(test_vals') <= MaxTestVals + 1
        BY <1>1, <1>3, <1>4, <1>5, <2>1, <2>2
      <3>2. IntMin' = IntMin /\ IntMax' = IntMax
        BY DEF IntMin, IntMax, Sign
      <3>3. QED
        BY <2>2, <3>1, <3>2, <1>3 DEF SecondPass
    <2>4. QED
      BY <1>1, <1>2, <1>4, <1>5, <1>10, <2>1, <2>2, <2>3
  <1>11. CASE SecondPass
    <2>1. i < IntMax
      BY <1>1, <1>2, <1>3, <1>4, <1>11 DEF SecondPass
    <2>2. i' = i + 1 /\ pc' = "exhaustive"
      BY <1>1, <1>8, <2>1, <1>2, <1>3
    <2>3. SecondPass'
      <3>1. /\ Max' = IntMax /\ i' \in Int /\ i' >= IntMin /\ i' - IntMin < Len(test_vals')
            /\ Len(test_vals') <= MaxTestVals + 1
        <4>1. Max = IntMax /\ i >= IntMin /\ i - IntMin < Len(test_vals)
          BY <1>11 DEF SecondPass
        <4>2. /\ i + 1 \in Int /\ i + 1 >= IntMin /\ (i + 1) - IntMin < Len(test_vals')
              /\ Len(test_vals') <= MaxTestVals + 1
          BY <1>1, <1>2, <1>3, <1>4, <4>1
        <4>3. QED
          BY <1>5, <2>2, <4>1, <4>2
      <3>2. IntMin' = IntMin /\ IntMax' = IntMax
        BY DEF IntMin, IntMax, Sign
      <3>3. QED
        BY <3>1, <3>2 DEF SecondPass
    <2>4. QED
      BY <1>1, <1>2, <1>4, <1>5, <2>2, <2>3
  <1>12. QED
    BY <1>2, <1>3, <1>6, <1>7, <1>9, <1>10, <1>11

-----------------------------------------------------------------------------

LEMMA NextIInv == IInv /\ [Next]_vars => IInv'
  <1> SUFFICES ASSUME IInv, [Next]_vars PROVE IInv'
    OBVIOUS
  <1> USE GenValsAssumption DEF IInv, TypeOK, params
  <1>b. MaxTestVals \in Nat /\ MaxTestVals = 13 * TestRange
    BY BoundType DEF MaxTestVals
  <1>1. CASE NextArg
    <2>1. test_range' \in 1..TestRange
      BY <1>1, ArgTestRangeType DEF NextArg
    <2>2. TypeOK'
      BY <1>1, <2>1 DEF NextArg
    <2>3. pc' = "call" /\ Len(test_vals') = 0 /\ i' = 0
      BY <1>1 DEF NextArg
    <2>4. QED
      BY <1>b, <2>2, <2>3 DEF CountInv, WithinBuffer, Generated
  <1>2. CASE AllArgs
    BY <1>2 DEF AllArgs, CountInv, WithinBuffer
  <1>3. CASE Return
    <2>1. Append(test_counts, Len(test_vals)) \in Seq(Nat)
      BY LenProperties, AppendProperties
    <2>2. QED
      BY <1>3, <2>1 DEF Return, CountInv, WithinBuffer
  <1>4. CASE UserValue
    <2>1. given[arg] \in Seq(Int) /\ Len(given[arg]) <= 1
      <3>1. given[arg] \in UserArgs
        BY <1>4 DEF UserValue
      <3>2. QED
        <4>1. CASE given[arg] = <<>>
          BY <4>1
        <4>2. CASE \E v \in ArgVals : given[arg] = <<v>>
          BY <4>2
        <4>3. QED
          BY <3>1, <4>1, <4>2 DEF UserArgs, NotGiven, Given
    <2>2. test_vals' \in Seq(Int) /\ Len(test_vals') <= 1
      BY <1>4, <2>1 DEF UserValue
    <2>3. pc' = "return" /\ UNCHANGED <<params, arg, test_range, i, test_counts>> /\ arg \in 0..2
          /\ given[arg] # NotGiven
      BY <1>4 DEF UserValue
    <2>4. TypeOK' /\ CountInv'
      BY <2>2, <2>3 DEF CountInv
    <2>5. ~(Len(test_vals') > MaxTestVals) /\ ~Generated(FALSE)'
      BY <1>b, <2>2, <2>3, LenProperties, BoundType DEF Generated
    <2>6. QED
      BY <2>4, <2>5 DEF WithinBuffer
  <1>5. CASE FloatCase
    <2>1. test_range' \in Int /\ test_range' <= TestRange
      <3>1. 2 ^ FracBits \in Int
        OBVIOUS
      <3>2. QED
        BY <1>5, <3>1 DEF FloatCase, FloatTestRange
    <2>2. /\ pc' = "float" /\ IsFloatRange(ranges'[arg']) /\ i' = 0 /\ Len(test_vals') = 0
      BY <1>5 DEF FloatCase, CountInv, IsFloatRange
    <2>3. TypeOK'
      BY <1>5, <2>1 DEF FloatCase
    <2>4. QED
      BY <1>b, <2>2, <2>3 DEF CountInv, WithinBuffer, Generated, IsFloatRange
  <1>6. CASE FloatLoop
    <2>0. UNCHANGED <<params, arg, test_range, test_counts>> /\ pc = "float" /\ IsFloatRange(ranges'[arg'])
      BY <1>6 DEF FloatLoop, CountInv, IsFloatRange
    <2>1. CASE i < test_range
      <3>1. test_vals' = test_vals \o FloatRegions /\ i' = i + 1 /\ pc' = "float"
        BY <1>6, <2>1 DEF FloatLoop
      <3>2. test_vals' \in Seq(Int) /\ Len(test_vals') = Len(test_vals) + 12
        <4>1. FloatRegions \in Seq(Int) /\ Len(FloatRegions) = 12
          BY FloatRegionsType
        <4>2. QED
          BY <3>1, <4>1, ConcatType
      <3>4. i \in 0..TestRange /\ Len(test_vals) = 12 * i /\ arg \in 0..2
        BY <2>0 DEF CountInv
      <3>5. TypeOK'
        BY <2>0, <3>1, <3>2, <3>4
      <3>6. CountInv'
        BY <2>0, <2>1, <3>1, <3>2, <3>4, SMTT(30) DEF CountInv, IsFloatRange
      <3>7. ~(Len(test_vals') > MaxTestVals)
        BY <1>b, <2>1, <3>2, <3>4
      <3>8. QED
        BY <3>1, <3>5, <3>6, <3>7 DEF WithinBuffer, Generated
    <2>2. CASE ~(i < test_range)
      <3>1. pc' = "specials" /\ UNCHANGED <<test_vals, i>> /\ Len(test_vals) <= 12 * TestRange
        BY <1>6, <2>2 DEF FloatLoop, CountInv
      <3>2. TypeOK' /\ CountInv'
        BY <2>0, <3>1 DEF CountInv, IsFloatRange
      <3>3. ~(Len(test_vals') > MaxTestVals)
        BY <1>b, <3>1, LenProperties
      <3>4. QED
        BY <3>1, <3>2, <3>3 DEF WithinBuffer, Generated
    <2>3. QED
      BY <2>1, <2>2
  <1>7. CASE FloatSpecials
    <2>1. test_vals' \in Seq(Int) /\ Len(test_vals') = Len(test_vals) + 4
      <3> DEFINE specials == <<Inf, Neg(Inf), NaN, Neg(NaN)>>
      <3>1. specials \in Seq(Int) /\ Len(specials) = 4
        BY SpecialsType
      <3>2. test_vals' = test_vals \o specials
        BY <1>7 DEF FloatSpecials
      <3> HIDE DEF specials
      <3>3. QED
        BY <3>1, <3>2, ConcatType
    <2>2. Len(test_vals) <= 12 * TestRange /\ IsFloatRange(ranges[arg])
      BY <1>7 DEF FloatSpecials, CountInv
    <2>3. pc' = "return" /\ UNCHANGED <<params, arg, test_range, i, test_counts>>
      BY <1>7 DEF FloatSpecials
    <2>4. TypeOK' /\ CountInv'
      BY <1>7, <2>1, <2>3 DEF FloatSpecials, CountInv
    <2>5. ~(Len(test_vals') > MaxTestVals)
      BY <1>b, <2>1, <2>2, LenProperties
    <2>6. ~Generated(FALSE)'
      BY <2>2, <2>3 DEF Generated, IsFloatRange
    <2>7. QED
      BY <2>4, <2>5, <2>6 DEF WithinBuffer
  <1>8. CASE IntCase
    <2>1. /\ Min \in Int /\ Max \in Int /\ Min <= Max /\ IntMin <= Min /\ Max <= IntMax
          /\ IntMin = -Sign /\ IntMax = Sign - 1
      BY <1>8, RangeType DEF IntCase
    <2>2. /\ UNCHANGED <<params, arg, test_range, test_vals, test_counts>> /\ arg \in 0..2
          /\ ~IsFloatRange(ranges[arg]) /\ Len(test_vals) = 0
          /\ \/ FewValues /\ pc' = "exhaustive" /\ i' = Min
             \/ ~FewValues /\ pc' = "sample" /\ i' = 0
      BY <1>8 DEF IntCase, CountInv
    <2>3. Min' = Min /\ Max' = Max /\ (Wraps(Max) <=> Wraps(Max)')
          /\ ~IsFloatRange(ranges'[arg'])
      BY <2>2 DEF Min, Max, Wraps, IntMin, Sign, MaxTestVals, IsFloatRange
    <2>4. TypeOK'
      BY <1>8, <2>1, <2>2
    <2>5. CASE FewValues /\ pc' = "exhaustive" /\ i' = Min
      <3>1. ~Wraps(Max) /\ Max - Min <= MaxTestVals
        BY <2>2, <2>5, FewValuesExact
      <3>2. IntMax' = IntMax
        BY DEF IntMax, Sign
      <3>3. FirstPass'
        BY <2>1, <2>2, <2>3, <2>5, <3>2 DEF FirstPass
      <3>4. CountInv'
        BY <2>3, <2>5, <3>1, <3>3 DEF CountInv, MaxTestVals, IsFloatRange
      <3>5. QED
        BY <1>b, <2>2, <2>4, <2>5, <3>4 DEF WithinBuffer, Generated
    <2>6. CASE ~FewValues /\ pc' = "sample" /\ i' = 0
      <3>1. Wraps(Max) \/ Max - Min > MaxTestVals
        BY <1>b, <2>1, <2>2, <2>6, FewValuesExact
      <3>2. CountInv'
        BY <2>2, <2>3, <2>6, <3>1 DEF CountInv, MaxTestVals, IsFloatRange
      <3>3. QED
        BY <1>b, <2>2, <2>4, <2>6, <3>2 DEF WithinBuffer, Generated
    <2>7. QED
      BY <2>2, <2>5, <2>6
  <1>9. CASE ExhaustiveLoop
    <2>0. /\ pc = "exhaustive" /\ arg \in 0..2 /\ UNCHANGED <<params, arg, test_range, test_counts>>
          /\ ~Wraps(Max) /\ Max - Min <= MaxTestVals /\ ~IsFloatRange(ranges[arg])
          /\ FirstPass \/ SecondPass
      BY <1>9 DEF ExhaustiveLoop, CountInv
    <2>1. /\ Min \in Int /\ Max \in Int /\ Min <= Max /\ IntMin <= Min /\ Max <= IntMax
          /\ IntMin = -Sign /\ IntMax = Sign - 1 /\ Sign \in Nat
          /\ ranges[arg][1] = Min /\ ranges[arg][2] = Max
      BY <2>0, RangeType, SignType DEF Min, Max
    <2>2. Min' = Min /\ Max' = Max /\ (Wraps(Max) <=> Wraps(Max)') /\ ranges'[arg'] = ranges[arg]
      BY <2>0 DEF Min, Max, Wraps, IntMin, Sign, MaxTestVals
    <2>3. CASE i <= Max
      <3>1. /\ test_vals' \in Seq(Int) /\ Len(test_vals') = Len(test_vals) + 1
            /\ Len(test_vals) <= MaxTestVals /\ i \in Int /\ i' \in Int
            /\ \/ FirstPass /\ i < IntMax /\ pc' = "exhaustive" /\ i' = i + 1 /\ FirstPass'
               \/ FirstPass /\ i = IntMax /\ Max = IntMax /\ pc' = "return"
               \/ pc' = "exhaustive" /\ SecondPass'
        BY <1>9, <2>3, ExhaustiveStep
      <3>2. TypeOK'
        BY <2>0, <3>1
      <3>3. CountInv'
        BY <2>0, <2>2, <3>1 DEF CountInv, MaxTestVals, IsFloatRange
      <3>4. Max = IntMax \/ (FirstPass' /\ i' = i + 1)
        <4>1. SecondPass' => Max' = IntMax
          BY DEF SecondPass, IntMax, Sign
        <4>2. QED
          BY <2>2, <3>1, <4>1
      <3>5. Len(test_vals') > MaxTestVals => Overruns(ranges[arg])
        <4>1. CASE Max = IntMax
          BY <2>0, <2>1, <4>1 DEF Overruns
        <4>2. CASE FirstPass' /\ i' = i + 1
          <5>1. Len(test_vals') = i' - Min
            BY <2>2, <4>2 DEF FirstPass
          <5>2. Len(test_vals') > MaxTestVals => Max - Min = MaxTestVals
            BY <1>b, <2>0, <2>1, <2>3, <3>1, <4>2, <5>1
          <5>3. QED
            BY <2>0, <2>1, <5>2 DEF Overruns
        <4>3. QED
          BY <3>4, <4>1, <4>2
      <3>6. pc' = "return" => Len(test_vals') = Max - Min + 1
        <4>1. CASE pc' = "return"
          <5>1. FirstPass /\ i = IntMax /\ Max = IntMax
            BY <3>1, <4>1
          <5>2. Len(test_vals) = i - Min
            BY <5>1 DEF FirstPass
          <5>3. QED
            BY <2>1, <3>1, <5>1, <5>2
        <4>2. QED
          BY <4>1
      <3>7. WithinBuffer'
        <4>1. Len(test_vals') > MaxTestVals => Overruns(ranges[arg])'
          BY <2>2, <3>5 DEF Overruns, MaxTestVals, IsFloatRange, IntMax, Sign
        <4>2. pc' = "return" /\ Max' - Min' = MaxTestVals => Len(test_vals') = MaxTestVals + 1
          BY <2>2, <3>6
        <4>3. QED
          BY <4>1, <4>2 DEF WithinBuffer, Generated, MaxTestVals
      <3>8. QED
        BY <3>2, <3>3, <3>7
    <2>4. CASE ~(i <= Max)
      <3>1. pc' = "return" /\ UNCHANGED <<test_vals, i>>
        BY <1>9, <2>4 DEF ExhaustiveLoop
      <3>2. FirstPass /\ i = Max + 1 /\ Len(test_vals) = i - Min
        <4>1. ~SecondPass
          <5>0. Len(test_vals) \in Nat /\ IntMin \in Int
            BY <2>1, LenProperties
          <5>1. SecondPass => Max = IntMax /\ i - IntMin < MaxTestVals + 1 /\ i \in Int
            BY <1>b, <5>0 DEF SecondPass
          <5>2. QED
            BY <1>b, <2>1, <2>4, <5>1, BoundType
        <4>2. QED
          BY <2>0, <2>1, <2>4, <4>1 DEF FirstPass
      <3>3. TypeOK' /\ CountInv'
        BY <2>0, <3>1 DEF CountInv
      <3>4. Len(test_vals') = Max - Min + 1
        BY <2>1, <3>1, <3>2
      <3>5. Len(test_vals') > MaxTestVals => Overruns(ranges[arg])'
        <4>1. Len(test_vals') > MaxTestVals => Max - Min = MaxTestVals
          BY <1>b, <2>0, <2>1, <3>4
        <4>2. QED
          BY <2>0, <2>1, <2>2, <4>1 DEF Overruns, MaxTestVals, IsFloatRange, IntMax, Sign
      <3>6. WithinBuffer'
        BY <2>2, <3>4, <3>5 DEF WithinBuffer, Generated, MaxTestVals
      <3>7. QED
        BY <3>3, <3>6
    <2>5. QED
      BY <2>3, <2>4
  <1>10. CASE SampleLoop
    <2>0. /\ pc = "sample" /\ arg \in 0..2 /\ UNCHANGED <<params, arg, test_range, test_counts>>
          /\ ~IsFloatRange(ranges[arg]) /\ (Wraps(Max) \/ Max - Min > MaxTestVals)
      BY <1>10 DEF SampleLoop, CountInv
    <2>1. /\ Min \in Int /\ Max \in Int /\ Min <= Max /\ IntMin <= Min
          /\ IntMin = -Sign
      BY <2>0, RangeType
    <2>2. Len(test_vals) <= 5 * i /\ i \in 0..TestRange
      BY <1>10 DEF SampleLoop, CountInv
    <2>k. Min' = Min /\ Max' = Max /\ (Wraps(Max) <=> Wraps(Max)') /\ ranges'[arg'] = ranges[arg]
      BY <2>0 DEF Min, Max, Wraps, IntMin, Sign, MaxTestVals
    <2>w. Max - Min # MaxTestVals
      <3>1. Wraps(Max) => Max - MaxTestVals < Min
        BY <1>b, <2>1, SignType DEF Wraps
      <3>2. QED
        BY <1>b, <2>0, <2>1, <3>1
    <2>3. CASE i < test_range
      <3>1. PICK rand \in 0..RandMax : \E error \in Errors(rand) :
               test_vals' = test_vals \o <<Wrap(Min + i), Wrap(Max - i)>> \o AroundZero
                                      \o <<random_val(Min, Max, rand, error)>>
        BY <1>10, <2>3 DEF SampleLoop
      <3>e. PICK error \in Errors(rand) :
               test_vals' = test_vals \o <<Wrap(Min + i), Wrap(Max - i)>> \o AroundZero
                                      \o <<random_val(Min, Max, rand, error)>>
        BY <3>1
      <3> DEFINE r == random_val(Min, Max, rand, error)
                 lo == Wrap(Min + i)
                 hi == Wrap(Max - i)
      <3>2. r \in Int /\ lo \in Int /\ hi \in Int
        BY <2>1, RandomType, EndsType
      <3>f. test_vals' = test_vals \o <<lo, hi>> \o AroundZero \o <<r>>
        BY <3>e
      <3> HIDE DEF r, lo, hi
      <3>3. <<lo, hi>> \in Seq(Int) /\ Len(<<lo, hi>>) = 2
            /\ <<r>> \in Seq(Int) /\ Len(<<r>>) = 1
        BY <3>2
      <3>4. /\ test_vals \o <<lo, hi>> \in Seq(Int)
            /\ Len(test_vals \o <<lo, hi>>) = Len(test_vals) + 2
        BY <3>3, ConcatType
      <3>5. /\ test_vals \o <<lo, hi>> \o AroundZero \in Seq(Int)
            /\ Len(test_vals \o <<lo, hi>> \o AroundZero)
                  = Len(test_vals) + 2 + Len(AroundZero)
        BY <2>1, <3>4, AroundZeroType, ConcatType
      <3>6. /\ test_vals' \in Seq(Int)
            /\ Len(test_vals') = Len(test_vals) + 3 + Len(AroundZero)
        BY <3>f, <3>3, <3>5, LenProperties, AroundZeroType, <2>1, ConcatType
      <3>7. Len(test_vals') <= 5 * (i + 1)
        BY <2>1, <2>2, <3>6, AroundZeroType, LenProperties
      <3>8. i' = i + 1 /\ pc' = "sample"
        BY <1>10, <2>3 DEF SampleLoop
      <3>9. TypeOK'
        BY <2>0, <2>2, <3>6, <3>8
      <3>10. CountInv'
        <4>1. i' \in 0..TestRange
          BY <2>2, <2>3, <3>8
        <4>2. QED
          BY <2>0, <2>k, <3>7, <3>8, <4>1 DEF CountInv, MaxTestVals, IsFloatRange
      <3>11. ~(Len(test_vals') > MaxTestVals)
        BY <1>b, <2>2, <2>3, <3>6, <3>7, LenProperties
      <3>12. QED
        BY <3>8, <3>9, <3>10, <3>11 DEF WithinBuffer, Generated
    <2>4. CASE ~(i < test_range)
      <3>1. pc' = "return" /\ UNCHANGED <<test_vals, i>>
        BY <1>10, <2>4 DEF SampleLoop
      <3>2. TypeOK' /\ CountInv'
        BY <2>0, <3>1 DEF CountInv
      <3>3. ~(Len(test_vals') > MaxTestVals)
        BY <1>b, <2>2, <3>1, LenProperties
      <3>4. Max' - Min' # MaxTestVals
        BY <2>k, <2>w
      <3>5. QED
        BY <3>2, <3>3, <3>4 DEF WithinBuffer, MaxTestVals
    <2>5. QED
      BY <2>3, <2>4
  <1>11. CASE UNCHANGED vars
    <2>1. UNCHANGED <<params, pc, arg, test_range, i, test_vals, test_counts>>
      BY <1>11 DEF vars
    <2>2. UNCHANGED <<Min, Max, ranges[arg]>>
      BY <2>1 DEF Min, Max
    <2>3. TypeOK'
      BY <2>1
    <2>4. CountInv'
      BY <2>1, <2>2 DEF CountInv, FirstPass, SecondPass, Wraps, IntMin, IntMax, Sign, MaxTestVals, IsFloatRange
    <2>5. WithinBuffer'
      BY <2>1, <2>2 DEF WithinBuffer, Generated, Overruns, IsFloatRange, IntMax, Sign, MaxTestVals
    <2>6. QED
      BY <2>3, <2>4, <2>5
  <1>12. QED
    BY <1>1, <1>2, <1>3, <1>4, <1>5, <1>6, <1>7, <1>8, <1>9, <1>10, <1>11 DEF Next

(* gen_vals' loops write the number of values CountInv states.             *)
THEOREM Invariance == Spec => []IInv
  <1>1. QED
    BY InitIInv, NextIInv, PTL DEF Spec

(* gen_vals writes past the array for none but the ranges Overruns names,  *)
(* and for each of MAX_TEST_VALS + 1 values: for any TEST_RANGE of at least *)
(* 4, any layout and any table of ranges of ints, those that overrun and   *)
(* those for which an int wraps included.                                  *)
THEOREM NoOverrun == Spec => []WithinBuffer
  <1>1. IInv => WithinBuffer
    BY DEF IInv
  <1>2. QED
    BY <1>1, Invariance, PTL

(* The loop variables of gen_vals keep their types.                        *)
THEOREM TypeCorrect == Spec => []TypeOK
  <1>1. IInv => TypeOK
    BY DEF IInv
  <1>2. QED
    BY <1>1, Invariance, PTL

-----------------------------------------------------------------------------
(* What the values are *)

Elements(s) == {s[k] : k \in 1..Len(s)}

LEMMA ElementsConcat ==
    ASSUME NEW s \in Seq(Int), NEW t \in Seq(Int)
    PROVE  Elements(s \o t) = Elements(s) \cup Elements(t)
  <1>1. /\ s \o t \in Seq(Int) /\ Len(s \o t) = Len(s) + Len(t)
        /\ Len(s) \in Nat /\ Len(t) \in Nat
        /\ \A k \in 1..Len(s) : (s \o t)[k] = s[k]
        /\ \A k \in 1..Len(t) : (s \o t)[Len(s) + k] = t[k]
    BY ConcatProperties, LenProperties
  <1>2. ASSUME NEW k \in 1..Len(s \o t) PROVE (s \o t)[k] \in Elements(s) \cup Elements(t)
    <2>1. CASE k <= Len(s)
      BY <1>1, <2>1 DEF Elements
    <2>2. CASE k > Len(s)
      <3>1. k - Len(s) \in 1..Len(t) /\ Len(s) + (k - Len(s)) = k
        BY <1>1, <2>2
      <3>2. (s \o t)[k] = t[k - Len(s)]
        BY <1>1, <3>1
      <3>3. QED
        BY <3>1, <3>2 DEF Elements
    <2>3. QED
      BY <1>1, <2>1, <2>2
  <1>3. ASSUME NEW k \in 1..Len(s) PROVE s[k] \in Elements(s \o t)
    <2>1. k \in 1..Len(s \o t) /\ (s \o t)[k] = s[k]
      BY <1>1
    <2>2. QED
      BY <2>1 DEF Elements
  <1>4. ASSUME NEW k \in 1..Len(t) PROVE t[k] \in Elements(s \o t)
    <2>1. Len(s) + k \in 1..Len(s \o t) /\ (s \o t)[Len(s) + k] = t[k]
      BY <1>1
    <2>2. QED
      BY <2>1 DEF Elements
  <1>5. QED
    BY <1>2, <1>3, <1>4 DEF Elements

LEMMA ElementsShort ==
    /\ Elements(<<>>) = {}
    /\ \A x : Elements(<<x>>) = {x}
    /\ \A x, y : Elements(<<x, y>>) = {x, y}
  <1>1. Elements(<<>>) = {}
    BY DEF Elements
  <1>2. \A x : Elements(<<x>>) = {x}
    BY DEF Elements
  <1>3. ASSUME NEW x, NEW y PROVE Elements(<<x, y>>) = {x, y}
    <2>1. 1..2 = {1, 2}
      OBVIOUS
    <2>2. QED
      BY <2>1 DEF Elements
  <1>4. QED
    BY <1>1, <1>2, <1>3

(* A float's landmarks, in terms of half the weight of its exponent's      *)
(* lowest bit and of the bias.                                             *)
LEMMA FloatLayout ==
    \E h, p \in Nat :
        /\ h >= 1 /\ p >= 4 * h
        /\ 2^FracBits = 2 * h /\ SmallestNorm = 2 * h
        /\ One = p - 2 * h
        /\ LargestNorm = 2 * p - 4 * h
        /\ Inf = 2 * p - 2 * h
        /\ NaN = 2 * p - h
        /\ Sign = 2 * p
  <1> DEFINE h == 2^(FracBits - 1)
             e == 2^(ExpBits - 1)
             d == 2^(ExpBits - 2)
  <1>1. /\ FracBits \in Nat /\ ExpBits \in Nat
        /\ FracBits - 1 \in Nat /\ (FracBits - 1) + 1 = FracBits
        /\ ExpBits - 1 \in Nat /\ (ExpBits - 1) + 1 = ExpBits
        /\ ExpBits - 2 \in Nat /\ (ExpBits - 2) + 1 = ExpBits - 1
    BY GenValsAssumption
  <1>2. h \in Nat \ {0} /\ e \in Nat \ {0} /\ d \in Nat \ {0}
    BY <1>1, PowerType
  <1>3. 2^FracBits = 2 * h /\ 2^ExpBits = 2 * e /\ e = 2 * d
    BY <1>1, PowerStep
  <1>4. Sign = (2 * e) * (2 * h)
    BY <1>1, <1>3, PowerSum DEF Sign
  <1>5. SmallestNorm = 2 * h /\ One = (e - 1) * (2 * h) /\ LargestNorm = (2 * e - 2) * (2 * h)
        /\ Inf = (2 * e - 1) * (2 * h) /\ NaN = Inf + h
    BY <1>3 DEF SmallestNorm, One, LargestNorm, Inf, NaN
  <1> HIDE DEF h, e, d
  <1> DEFINE p == e * (2 * h)
  <1>6. p \in Nat /\ p >= 4 * h
    <2>1. p = (2 * d) * (2 * h) /\ \A x, y \in Nat \ {0} : (2 * x) * (2 * y) >= 4 * y /\ (2 * x) * (2 * y) \in Nat
      BY <1>3
    <2>2. QED
      BY <1>2, <2>1
  <1>7. /\ (e - 1) * (2 * h) = p - 2 * h
        /\ (2 * e - 2) * (2 * h) = 2 * p - 4 * h
        /\ (2 * e - 1) * (2 * h) = 2 * p - 2 * h
        /\ (2 * e) * (2 * h) = 2 * p
    BY <1>2
  <1> HIDE DEF p
  <1>8. NaN = 2 * p - h
    BY <1>2, <1>5, <1>6, <1>7
  <1>9. QED
    BY <1>2, <1>3, <1>4, <1>5, <1>6, <1>7, <1>8

(* The weighted mean of two ints, cut to an int, is between them: next to  *)
(* an end the distance of a wide range exceeds the rounding error.         *)
LEMMA RandomBetween ==
    ASSUME NEW min \in Int, NEW max \in Int, min <= max, Rounding <= max - min,
           NEW rand \in 0..RandMax, NEW error \in Errors(rand)
    PROVE  random_val(min, max, rand, error) \in min..max
  <1> DEFINE x == min * (RandMax - rand) + max * rand + error
             d == max - min
  <1>0. RandMax \in Nat \ {0} /\ Rounding \in Nat /\ rand \in Nat /\ rand <= RandMax
        /\ d \in Nat /\ Rounding <= d
    <2>1. Rounding \in 0..MaxTestVals
      BY RangesAssumption
    <2>2. QED
      BY <2>1, BoundType, GenValsAssumption
  <1>e. error \in Int /\ -(d * rand) <= error /\ error <= d * (RandMax - rand)
    <2>1. CASE rand \in {0, RandMax}
      <3>1. error = 0
        BY <2>1 DEF Errors
      <3>2. \A a, b \in Nat : a * b >= 0 /\ a * b \in Int
        OBVIOUS
      <3>3. d * rand >= 0 /\ d * rand \in Int /\ d * (RandMax - rand) >= 0 /\ d * (RandMax - rand) \in Int
        BY <1>0, <3>2
      <3> HIDE DEF d
      <3>4. QED
        BY <3>1, <3>3
    <2>2. CASE rand \notin {0, RandMax}
      <3>1. error \in (-Rounding)..Rounding
        BY <2>2 DEF Errors
      <3>2. \A a, b \in Nat : b >= 1 => a * b >= a /\ a * b \in Int
        OBVIOUS
      <3>3. rand >= 1 /\ RandMax - rand >= 1 /\ RandMax - rand \in Nat
        BY <1>0, <2>2
      <3> HIDE DEF d
      <3>4. d * rand >= d /\ d * rand \in Int /\ d * (RandMax - rand) >= d /\ d * (RandMax - rand) \in Int
        BY <1>0, <3>2, <3>3
      <3>5. QED
        BY <1>0, <3>1, <3>4
    <2>3. QED
      BY <2>1, <2>2
  <1>1. x \in Int /\ min * RandMax <= x /\ x <= max * RandMax
    <2>1. x = min * RandMax + d * rand + error
      BY <1>0, <1>e
    <2>2. x = max * RandMax - d * (RandMax - rand) + error
      BY <1>0, <1>e
    <2>3. min * RandMax \in Int /\ max * RandMax \in Int /\ d * rand \in Int
          /\ d * (RandMax - rand) \in Int
      BY <1>0
    <2> HIDE DEF x, d
    <2>4. QED
      BY <1>e, <2>1, <2>2, <2>3
  <1> HIDE DEF x, d
  <1>2. ASSUME NEW y \in Nat, NEW n \in Int
        PROVE  /\ n * RandMax <= y => n <= y \div RandMax
               /\ y <= n * RandMax => y \div RandMax <= n
               /\ y \div RandMax \in Nat
    <2> DEFINE q == y \div RandMax
               r == y % RandMax
    <2>1. q \in Nat /\ r \in 0..(RandMax - 1) /\ y = RandMax * q + r
      BY <1>0
    <2> HIDE DEF q, r
    <2>2. ASSUME n * RandMax <= y, n > q PROVE FALSE
      <3>1. n * RandMax >= (q + 1) * RandMax
        BY <1>0, <2>1, <2>2
      <3>2. (q + 1) * RandMax = RandMax * q + RandMax
        BY <1>0, <2>1
      <3>3. QED
        BY <1>0, <2>1, <2>2, <3>1, <3>2
    <2>3. ASSUME y <= n * RandMax, q > n PROVE FALSE
      <3>1. (n + 1) * RandMax <= q * RandMax
        BY <1>0, <2>1, <2>3
      <3>2. (n + 1) * RandMax = n * RandMax + RandMax /\ q * RandMax = RandMax * q
        BY <1>0, <2>1
      <3>3. QED
        BY <1>0, <2>1, <2>3, <3>1, <3>2
    <2>4. QED
      BY <2>1, <2>2, <2>3 DEF q
  <1>3. Truncate(x) \in min..max
    <2>1. CASE x >= 0
      <3>1. Truncate(x) = x \div RandMax /\ x \in Nat
        BY <1>1, <2>1 DEF Truncate
      <3>2. QED
        BY <1>1, <1>2, <3>1
    <2>2. CASE x < 0
      <3>1. Truncate(x) = -((-x) \div RandMax) /\ -x \in Nat
        BY <1>1, <2>2 DEF Truncate
      <3>2. (-max) * RandMax = -(max * RandMax) /\ (-min) * RandMax = -(min * RandMax)
            /\ -max \in Int /\ -min \in Int /\ max * RandMax \in Int /\ min * RandMax \in Int
        BY <1>0
      <3>3. (-max) * RandMax <= -x /\ -x <= (-min) * RandMax
        BY <1>1, <3>2
      <3>4. -max <= (-x) \div RandMax /\ (-x) \div RandMax <= -min /\ (-x) \div RandMax \in Nat
        BY <1>2, <3>1, <3>2, <3>3
      <3>5. QED
        BY <3>1, <3>4
    <2>3. QED
      BY <1>1, <2>1, <2>2
  <1>4. QED
    BY <1>3 DEF random_val, x

(* What one iteration of each loop contributes.                            *)
Around(k) == {k, Neg(k), SmallestNorm + k, SmallestNorm - k, Neg(SmallestNorm + k),
              Neg(SmallestNorm - k), One + k, One - k, Neg(One + k), Neg(One - k),
              LargestNorm - k, Neg(LargestNorm - k)}
Near(k) == {v \in {Min + k, Max - k, k, -k} : Min <= v /\ v <= Max}

(* The values written so far are those of the iterations done.             *)
WrittenInv ==
    /\ pc \in {"call", "float", "specials", "exhaustive", "sample"} => test_range \in 1..TestRange
    /\ pc \in {"float", "specials"} =>
          /\ given[arg] = NotGiven /\ IsFloatRange(ranges[arg])
          /\ test_range <= 2^FracBits
          /\ i \in 0..test_range
          /\ Values = UNION {Around(k) : k \in 0..(i - 1)}
    /\ pc = "specials" => i = test_range
    /\ pc \in {"exhaustive", "sample"} => given[arg] = NotGiven /\ ~IsFloatRange(ranges[arg])
    /\ pc = "exhaustive" => SecondPass \/ (FirstPass /\ Values = Min..(i - 1))
    /\ pc = "sample" =>
          /\ i \in 0..test_range
          /\ ~Wraps(Max) => Values \subseteq Min..Max
          /\ \A k \in 0..(i - 1) : Near(k) \subseteq Values

RegionsInv == WrittenInv /\ ValuesInDomain /\ RegionsTested

LEMMA ElementsOfRegions == Elements(FloatRegions) = Around(i)
  <1>1. Len(FloatRegions) = 12
    BY DEF FloatRegions
  <1>2. 1..12 = {1, 2, 3, 4, 5, 6, 7, 8, 9, 10, 11, 12}
    OBVIOUS
  <1>3. Elements(FloatRegions) = {FloatRegions[k] : k \in {1, 2, 3, 4, 5, 6, 7, 8, 9, 10, 11, 12}}
    BY <1>1, <1>2 DEF Elements
  <1>4. /\ FloatRegions[1] = i /\ FloatRegions[2] = Neg(i)
        /\ FloatRegions[3] = SmallestNorm + i /\ FloatRegions[4] = SmallestNorm - i
        /\ FloatRegions[5] = Neg(SmallestNorm + i) /\ FloatRegions[6] = Neg(SmallestNorm - i)
        /\ FloatRegions[7] = One + i /\ FloatRegions[8] = One - i
        /\ FloatRegions[9] = Neg(One + i) /\ FloatRegions[10] = Neg(One - i)
        /\ FloatRegions[11] = LargestNorm - i /\ FloatRegions[12] = Neg(LargestNorm - i)
    BY DEF FloatRegions
  <1> HIDE DEF FloatRegions
  <1>5. QED
    BY <1>3, <1>4 DEF Around

LEMMA ElementsOfSpecials ==
    Elements(<<Inf, Neg(Inf), NaN, Neg(NaN)>>) = {Inf, Neg(Inf), NaN, Neg(NaN)}
  <1>1. \A w, x, y, z : Elements(<<w, x, y, z>>) = {w, x, y, z}
    <2> SUFFICES ASSUME NEW w, NEW x, NEW y, NEW z PROVE Elements(<<w, x, y, z>>) = {w, x, y, z}
      OBVIOUS
    <2>1. 1..4 = {1, 2, 3, 4}
      OBVIOUS
    <2>2. QED
      BY <2>1 DEF Elements
  <1>2. QED
    BY <1>1

LEMMA ElementsAroundZero ==
    ASSUME i \in Int, Min \in Int, Max \in Int
    PROVE  Elements(AroundZero) = {v \in {i, -i} : Min <= v /\ v <= Max}
  <1> DEFINE up == IF Min <= i /\ i <= Max THEN <<i>> ELSE <<>>
             down == IF Min <= -i /\ -i <= Max THEN <<-i>> ELSE <<>>
  <1>1. up \in Seq(Int) /\ Elements(up) = {v \in {i} : Min <= v /\ v <= Max}
    BY ElementsShort
  <1>2. down \in Seq(Int) /\ Elements(down) = {v \in {-i} : Min <= v /\ v <= Max}
    BY ElementsShort
  <1>3. AroundZero = up \o down
    BY DEF AroundZero
  <1> HIDE DEF up, down
  <1>4. Elements(AroundZero) = Elements(up) \cup Elements(down)
    BY <1>1, <1>2, <1>3, ElementsConcat
  <1>5. QED
    BY <1>1, <1>2, <1>4

(* Around the landmarks nothing crosses zero and nothing reaches the sign. *)
LEMMA AroundInDomain ==
    ASSUME NEW k \in 0..(2^FracBits - 1), NEW v \in Around(k)
    PROVE  v \in 0..(2 * Sign - 1)
  <1>1. PICK h \in Nat, p \in Nat :
            /\ h >= 1 /\ p >= 4 * h
            /\ 2^FracBits = 2 * h /\ SmallestNorm = 2 * h
            /\ One = p - 2 * h
            /\ LargestNorm = 2 * p - 4 * h
            /\ Sign = 2 * p
    BY FloatLayout
  <1>2. k \in Int /\ 0 <= k /\ k < 2 * h
    BY <1>1
  <1> HIDE DEF SmallestNorm, One, LargestNorm, Sign
  <1>3. /\ k \in 0..(Sign - 1)
        /\ SmallestNorm + k \in 0..(Sign - 1) /\ SmallestNorm - k \in 0..(Sign - 1)
        /\ One + k \in 0..(Sign - 1) /\ One - k \in 0..(Sign - 1)
        /\ LargestNorm - k \in 0..(Sign - 1)
    BY <1>1, <1>2
  <1>4. \A x \in 0..(Sign - 1) : x \in 0..(2 * Sign - 1) /\ Neg(x) \in 0..(2 * Sign - 1)
    BY <1>1 DEF Neg
  <1>5. QED
    BY <1>3, <1>4 DEF Around

LEMMA SpecialsInDomain ==
    {Inf, Neg(Inf), NaN, Neg(NaN)} \subseteq 0..(2 * Sign - 1)
  <1>1. PICK h \in Nat, p \in Nat :
            h >= 1 /\ p >= 4 * h /\ Inf = 2 * p - 2 * h /\ NaN = 2 * p - h /\ Sign = 2 * p
    BY FloatLayout
  <1> HIDE DEF Inf, NaN, Sign
  <1>2. QED
    BY <1>1 DEF Neg

LEMMA NextRegionsInv == IInv /\ RegionsInv /\ [Next]_vars => RegionsInv'
  <1> SUFFICES ASSUME IInv, RegionsInv, [Next]_vars PROVE RegionsInv'
    OBVIOUS
  <1>0. /\ TypeOK /\ CountInv /\ i \in Int /\ test_vals \in Seq(Int) /\ Values = Elements(test_vals)
        /\ WrittenInv
    BY DEF IInv, TypeOK, Values, Elements, RegionsInv
  <1>g. /\ TestRange \in Nat /\ TestRange >= 4 /\ 2^FracBits \in Nat \ {0}
    BY GenValsAssumption, PowerType
  <1>v. Values' = Elements(test_vals')
    BY DEF Values, Elements
  <1>s. ASSUME UNCHANGED params, UNCHANGED arg
        PROVE  /\ UNCHANGED <<given[arg], ranges[arg], Min, Max>>
               /\ \A k : Near(k)' = Near(k)
               /\ (IsFloatRange(ranges[arg]))' <=> IsFloatRange(ranges[arg])
               /\ Wraps(Max)' <=> Wraps(Max)
    BY <1>s DEF params, Min, Max, Near, IsFloatRange, Wraps, IntMin, Sign, MaxTestVals
  <1>o. ASSUME pc' # "return" PROVE ValuesInDomain' /\ RegionsTested'
    BY <1>o DEF ValuesInDomain, RegionsTested, Generated
  <1>1. CASE NextArg
    BY <1>1, <1>o, ArgTestRangeType DEF NextArg, RegionsInv, WrittenInv
  <1>2. CASE AllArgs \/ Return
    BY <1>2, <1>o DEF AllArgs, Return, RegionsInv, WrittenInv
  <1>3. CASE UserValue
    <2>1. pc' = "return" /\ given'[arg'] # NotGiven
      BY <1>3 DEF UserValue, params
    <2>2. QED
      BY <2>1 DEF RegionsInv, WrittenInv, ValuesInDomain, RegionsTested, Generated
  <1>4. CASE FloatCase
    <2>1. /\ pc = "call" /\ pc' = "float" /\ given[arg] = NotGiven /\ IsFloatRange(ranges[arg])
          /\ test_range' = FloatTestRange /\ UNCHANGED <<params, arg, i, test_vals>>
      BY <1>4 DEF FloatCase
    <2>2. i = 0 /\ Values = {} /\ test_range \in 1..TestRange
      BY <1>0, <2>1 DEF CountInv, WrittenInv, Elements
    <2>3. test_range' \in 1..TestRange /\ test_range' <= 2^FracBits
      BY <1>g, <2>1, <2>2 DEF FloatTestRange
    <2>4. Values' = {} /\ i' = 0
      BY <2>1, <2>2 DEF Values
    <2>5. Values' = UNION {Around(k) : k \in 0..(i' - 1)}
      BY <2>4
    <2>6. QED
      BY <1>o, <1>s, <2>1, <2>3, <2>4, <2>5 DEF RegionsInv, WrittenInv
  <1>5. CASE FloatLoop
    <2>1. pc = "float" /\ UNCHANGED <<params, arg, test_range>>
      BY <1>5 DEF FloatLoop
    <2>2. /\ given[arg] = NotGiven /\ IsFloatRange(ranges[arg])
          /\ test_range \in 1..TestRange /\ test_range <= 2^FracBits /\ i \in 0..test_range
          /\ Values = UNION {Around(k) : k \in 0..(i - 1)}
      BY <1>0, <2>1 DEF WrittenInv
    <2>3. CASE i < test_range
      <3>1. test_vals' = test_vals \o FloatRegions /\ i' = i + 1 /\ pc' = "float"
        BY <1>5, <2>1, <2>3 DEF FloatLoop
      <3>2. Values' = Values \cup Around(i)
        <4>1. FloatRegions \in Seq(Int)
          BY <1>0, FloatRegionsType
        <4>2. QED
          BY <1>0, <1>v, <3>1, <4>1, ElementsConcat, ElementsOfRegions
      <3>3. 0..(i' - 1) = (0..(i - 1)) \cup {i}
        BY <2>2, <3>1
      <3>4. Values' = UNION {Around(k) : k \in 0..(i' - 1)}
        BY <2>2, <3>2, <3>3
      <3>5. i' \in 0..test_range
        BY <2>2, <2>3, <3>1
      <3>6. QED
        BY <1>o, <1>s, <2>1, <2>2, <3>1, <3>4, <3>5 DEF RegionsInv, WrittenInv
    <2>4. CASE ~(i < test_range)
      <3>1. pc' = "specials" /\ UNCHANGED <<test_vals, i>> /\ i = test_range
        BY <1>5, <2>1, <2>2, <2>4 DEF FloatLoop
      <3>2. Values' = Values
        BY <3>1 DEF Values
      <3>3. QED
        BY <1>o, <1>s, <2>1, <2>2, <3>1, <3>2 DEF RegionsInv, WrittenInv
    <2>5. QED
      BY <2>3, <2>4
  <1>6. CASE FloatSpecials
    <2> DEFINE specials == <<Inf, Neg(Inf), NaN, Neg(NaN)>>
    <2>1. /\ pc = "specials" /\ pc' = "return" /\ test_vals' = test_vals \o specials
          /\ UNCHANGED <<params, arg, test_range>>
      BY <1>6 DEF FloatSpecials
    <2>2. /\ given[arg] = NotGiven /\ IsFloatRange(ranges[arg])
          /\ test_range \in 1..TestRange /\ test_range <= 2^FracBits /\ i = test_range
          /\ Values = UNION {Around(k) : k \in 0..(i - 1)}
      BY <1>0, <2>1 DEF WrittenInv
    <2>3. specials \in Seq(Int) /\ Elements(specials) = {Inf, Neg(Inf), NaN, Neg(NaN)}
      BY SpecialsType, ElementsOfSpecials
    <2> HIDE DEF specials
    <2>4. Values' = Values \cup {Inf, Neg(Inf), NaN, Neg(NaN)}
      BY <1>0, <1>v, <2>1, <2>3, ElementsConcat
    <2>5. Values \subseteq 0..(2 * Sign - 1)
      <3>1. \A k \in 0..(i - 1) : k \in 0..(2^FracBits - 1)
        BY <1>g, <2>2
      <3>2. QED
        BY <2>2, <3>1, AroundInDomain
    <2>6. ValuesInDomain'
      <3>1. Values' \subseteq 0..(2 * Sign - 1)
        BY <2>4, <2>5, SpecialsInDomain
      <3>2. (IsFloatRange(ranges[arg]))' /\ ~Generated(FALSE)'
        BY <1>s, <2>1, <2>2 DEF Generated
      <3>3. QED
        BY <3>1, <3>2 DEF ValuesInDomain
    <2>7. RegionsTested'
      <3>1. (IsFloatRange(ranges[arg]))' /\ ~Generated(FALSE)'
        BY <1>s, <2>1, <2>2 DEF Generated
      <3>2. ASSUME NEW k \in 0..(test_range' - 1),
                   NEW x \in {k, SmallestNorm + k, SmallestNorm - k, One + k, One - k, Inf, NaN}
            PROVE  {x, Neg(x)} \subseteq Values'
        <4>1. CASE x \in {Inf, NaN}
          BY <2>4, <4>1
        <4>2. CASE x \in {k, SmallestNorm + k, SmallestNorm - k, One + k, One - k}
          <5>1. k \in 0..(i - 1)
            BY <2>1, <2>2
          <5>2. {x, Neg(x)} \subseteq Around(k)
            BY <4>2 DEF Around
          <5>3. QED
            BY <2>2, <2>4, <5>1, <5>2
        <4>3. QED
          BY <3>2, <4>1, <4>2
      <3>3. QED
        BY <3>1, <3>2 DEF RegionsTested
    <2>8. QED
      BY <2>1, <2>6, <2>7 DEF RegionsInv, WrittenInv
  <1>7. CASE IntCase
    <2>1. /\ pc = "call" /\ given[arg] = NotGiven /\ ~IsFloatRange(ranges[arg])
          /\ \/ FewValues /\ pc' = "exhaustive" /\ i' = Min
             \/ ~FewValues /\ pc' = "sample" /\ i' = 0
          /\ UNCHANGED <<params, arg, test_range, test_vals>>
      BY <1>7 DEF IntCase
    <2>2. Min \in Int /\ Max \in Int /\ Min <= Max /\ Max <= IntMax
      BY <1>0, <2>1, RangeType DEF TypeOK
    <2>3. Values' = {} /\ test_range \in 1..TestRange /\ Len(test_vals) = 0
      BY <1>0, <1>v, <2>1 DEF CountInv, WrittenInv, Elements
    <2>4. Min..(Min - 1) = {} /\ 0..(0 - 1) = {} /\ Min - Min = 0
      BY <2>2
    <2>5. CASE pc' = "exhaustive" /\ i' = Min
      <3>1. FirstPass'
        <4>1. IntMax' = IntMax /\ Min' = Min /\ Max' = Max
          BY <1>s, <2>1 DEF IntMax, Sign
        <4>2. Len(test_vals') = 0 /\ Min \in Min..(Max + 1) /\ Min <= IntMax
          BY <2>1, <2>2, <2>3, RangeType, <1>0, SignType DEF TypeOK
        <4>3. QED
          BY <2>4, <2>5, <4>1, <4>2 DEF FirstPass
      <3>2. QED
        BY <1>o, <1>s, <2>1, <2>3, <2>4, <2>5, <3>1 DEF RegionsInv, WrittenInv
    <2>6. CASE pc' = "sample" /\ i' = 0
      BY <1>o, <1>s, <2>1, <2>2, <2>3, <2>4, <2>6 DEF RegionsInv, WrittenInv
    <2>7. QED
      BY <2>1, <2>5, <2>6
  <1>8. CASE ExhaustiveLoop
    <2>1. pc = "exhaustive" /\ UNCHANGED <<params, arg, test_range>>
      BY <1>8 DEF ExhaustiveLoop
    <2>2. /\ given[arg] = NotGiven /\ ~IsFloatRange(ranges[arg])
          /\ test_range \in 1..TestRange
          /\ SecondPass \/ (FirstPass /\ Values = Min..(i - 1))
          /\ Max - Min <= MaxTestVals
      BY <1>0, <2>1 DEF WrittenInv, CountInv
    <2>3. /\ Min \in Int /\ Max \in Int /\ Min <= Max /\ IntMin <= Min /\ Max <= IntMax
          /\ IntMin = -Sign /\ IntMax = Sign - 1 /\ Sign \in Nat
          /\ MaxTestVals \in Nat /\ MaxTestVals < Sign
      BY <1>0, <2>1, RangeType, SignType, BoundType DEF TypeOK
    <2>x. FirstPass => ~SecondPass
      <3>1. FirstPass => Len(test_vals) = i - Min
        BY DEF FirstPass
      <3>2. SecondPass => i - IntMin < Len(test_vals)
        BY DEF SecondPass
      <3>3. QED
        BY <1>0, <2>3, <3>1, <3>2
    <2>f. FirstPass => Values = Min..(i - 1) /\ i \in Min..(Max + 1)
      BY <2>2, <2>x DEF FirstPass
    <2>e. ASSUME pc' = "return", Values' = Min..Max PROVE RegionsInv'
      <3>3. UNCHANGED <<Min, Max>> /\ ~Generated(TRUE)'
        BY <1>s, <2>1, <2>2 DEF Generated
      <3>4. ValuesInDomain'
        BY <2>e, <3>3 DEF ValuesInDomain
      <3>5. RegionsTested'
        <4>1. {Min, Max} \subseteq Values'
          BY <2>3, <2>e
        <4>2. {v \in (1 - test_range')..(test_range' - 1) : Min <= v /\ v <= Max} \subseteq Values'
          BY <2>1, <2>2, <2>3, <2>e
        <4>3. QED
          BY <3>3, <4>1, <4>2 DEF RegionsTested
      <3>6. QED
        BY <2>e, <3>4, <3>5 DEF RegionsInv, WrittenInv
    <2>4. CASE i <= Max
      <3>1. /\ test_vals' = Append(test_vals, i)
            /\ \/ FirstPass /\ i < IntMax /\ pc' = "exhaustive" /\ i' = i + 1 /\ FirstPass'
               \/ FirstPass /\ i = IntMax /\ Max = IntMax /\ pc' = "return"
               \/ pc' = "exhaustive" /\ SecondPass'
        BY <1>8, <2>4, ExhaustiveStep
      <3>2. Values' = Values \cup {i}
        <4>1. test_vals' = test_vals \o <<i>> /\ <<i>> \in Seq(Int)
          BY <1>0, <3>1
        <4>2. QED
          <5>1. Elements(test_vals \o <<i>>) = Elements(test_vals) \cup Elements(<<i>>)
            BY <1>0, <4>1, ElementsConcat
          <5>2. Elements(<<i>>) = {i}
            BY ElementsShort
          <5>3. QED
            BY <1>0, <1>v, <4>1, <5>1, <5>2
      <3>3. CASE FirstPass /\ i < IntMax /\ pc' = "exhaustive" /\ i' = i + 1 /\ FirstPass'
        <4>1. Values' = Min..(i' - 1)
          BY <2>3, <2>f, <3>2, <3>3
        <4>2. QED
          BY <1>o, <1>s, <2>1, <2>2, <3>3, <4>1 DEF RegionsInv, WrittenInv
      <3>4. CASE FirstPass /\ i = IntMax /\ Max = IntMax /\ pc' = "return"
        <4>1. Values' = Min..Max
          BY <2>3, <2>f, <3>2, <3>4
        <4>2. QED
          BY <2>e, <3>4, <4>1
      <3>5. CASE pc' = "exhaustive" /\ SecondPass'
        BY <1>o, <1>s, <2>1, <2>2, <3>5 DEF RegionsInv, WrittenInv
      <3>6. QED
        BY <3>1, <3>3, <3>4, <3>5
    <2>5. CASE ~(i <= Max)
      <3>1. pc' = "return" /\ UNCHANGED test_vals
        BY <1>8, <2>1, <2>5 DEF ExhaustiveLoop
      <3>2. ~SecondPass
        <4>1. SecondPass => Max = IntMax /\ i - IntMin < MaxTestVals + 1
          <5>1. Len(test_vals) \in Nat /\ IntMin \in Int
            BY <1>0, <2>3, LenProperties
          <5>2. QED
            BY <1>0, <2>3, <5>1 DEF SecondPass
        <4>2. QED
          BY <1>0, <2>3, <2>5, <4>1
      <3>3. Values = Min..(i - 1) /\ i = Max + 1
        BY <1>0, <2>2, <2>3, <2>5, <2>f, <3>2
      <3>4. Values' = Min..Max
        BY <2>3, <3>1, <3>3 DEF Values
      <3>5. QED
        BY <2>e, <3>1, <3>4
    <2>6. QED
      BY <2>4, <2>5
  <1>9. CASE SampleLoop
    <2>1. pc = "sample" /\ UNCHANGED <<params, arg, test_range>>
      BY <1>9 DEF SampleLoop
    <2>2. /\ given[arg] = NotGiven /\ ~IsFloatRange(ranges[arg])
          /\ test_range \in 1..TestRange /\ i \in 0..test_range
          /\ ~Wraps(Max) => Values \subseteq Min..Max
          /\ \A k \in 0..(i - 1) : Near(k) \subseteq Values
      BY <1>0, <2>1 DEF WrittenInv
    <2>3. /\ Min \in Int /\ Max \in Int /\ Min <= Max /\ IntMin <= Min /\ Max <= IntMax
          /\ IntMin = -Sign /\ IntMax = Sign - 1 /\ Sign \in Nat /\ Sign > 0
          /\ MaxTestVals \in Nat /\ MaxTestVals = 13 * TestRange /\ MaxTestVals < Sign
      BY <1>0, <2>1, RangeType, SignType, BoundType DEF TypeOK, MaxTestVals
    <2>4. ~Wraps(Max) => Max - Min > MaxTestVals
      BY <1>0, <2>1 DEF CountInv
    <2>5. CASE i < test_range
      <3>1. PICK rand \in 0..RandMax : \E error \in Errors(rand) :
               test_vals' = test_vals \o <<Wrap(Min + i), Wrap(Max - i)>> \o AroundZero
                                      \o <<random_val(Min, Max, rand, error)>>
        BY <1>9, <2>5 DEF SampleLoop
      <3>e. PICK error \in Errors(rand) :
               test_vals' = test_vals \o <<Wrap(Min + i), Wrap(Max - i)>> \o AroundZero
                                      \o <<random_val(Min, Max, rand, error)>>
        BY <3>1
      <3>2. i' = i + 1 /\ pc' = "sample"
        BY <1>9, <2>1, <2>5 DEF SampleLoop
      <3> DEFINE r == random_val(Min, Max, rand, error)
                 lo == Wrap(Min + i)
                 hi == Wrap(Max - i)
      <3>3. ~Wraps(Max) => r \in Min..Max
        <4>1. Rounding <= MaxTestVals /\ Rounding \in Int
          BY RangesAssumption, BoundType
        <4>2. QED
          BY <2>3, <2>4, <4>1, RandomBetween
      <3>n. /\ Min + i \in Min..Max => lo = Min + i
            /\ Max - i \in Min..Max => hi = Max - i
        <4>1. \A x \in Min..Max : Wrap(x) = x
          <5> SUFFICES ASSUME NEW x \in Min..Max PROVE Wrap(x) = x
            OBVIOUS
          <5>1. x \in Int /\ -(3 * Sign) <= x /\ x < 3 * Sign /\ IntMin <= x /\ x <= IntMax
            BY <2>3
          <5>2. QED
            BY <5>1, WrapInt
        <4>2. QED
          BY <4>1
      <3>t. r \in Int /\ lo \in Int /\ hi \in Int
        BY <1>0, <2>3, RandomType, EndsType
      <3>f. test_vals' = test_vals \o <<lo, hi>> \o AroundZero \o <<r>>
        BY <3>e
      <3> HIDE DEF r, lo, hi
      <3>4. <<lo, hi>> \in Seq(Int) /\ AroundZero \in Seq(Int) /\ <<r>> \in Seq(Int)
        BY <1>0, <2>3, <3>t, AroundZeroType
      <3>5. /\ test_vals \o <<lo, hi>> \in Seq(Int)
            /\ Elements(test_vals \o <<lo, hi>>) = Values \cup {lo, hi}
        <4> DEFINE t == <<lo, hi>>
        <4>1. t \in Seq(Int) /\ Elements(t) = {lo, hi}
          BY <3>4, ElementsShort
        <4> HIDE DEF t
        <4>2. test_vals \o t \in Seq(Int)
          BY <1>0, <4>1, ConcatType
        <4>3. Elements(test_vals \o t) = Elements(test_vals) \cup Elements(t)
          BY <1>0, <4>1, ElementsConcat
        <4>4. QED
          BY <1>0, <4>1, <4>2, <4>3 DEF t
      <3>6. /\ test_vals \o <<lo, hi>> \o AroundZero \in Seq(Int)
            /\ Elements(test_vals \o <<lo, hi>> \o AroundZero)
                  = Values \cup {lo, hi} \cup {v \in {i, -i} : Min <= v /\ v <= Max}
        <4> DEFINE t == test_vals \o <<lo, hi>>
        <4>1. t \in Seq(Int) /\ Elements(t) = Values \cup {lo, hi}
          BY <3>5
        <4> HIDE DEF t
        <4>2. t \o AroundZero \in Seq(Int)
              /\ Elements(t \o AroundZero) = Elements(t) \cup Elements(AroundZero)
          BY <3>4, <4>1, ConcatType, ElementsConcat
        <4>3. Elements(AroundZero) = {v \in {i, -i} : Min <= v /\ v <= Max}
          BY <1>0, <2>3, ElementsAroundZero
        <4>4. QED
          BY <4>1, <4>2, <4>3 DEF t
      <3>7. Values' = Values \cup {lo, hi} \cup {v \in {i, -i} : Min <= v /\ v <= Max} \cup {r}
        <4> DEFINE t == test_vals \o <<lo, hi>> \o AroundZero
        <4>1. test_vals' = t \o <<r>>
          BY <3>f
        <4>2. t \in Seq(Int)
          BY <3>6
        <4> HIDE DEF t
        <4>3. Elements(test_vals') = Elements(t) \cup {r}
          <5>1. Elements(t \o <<r>>) = Elements(t) \cup Elements(<<r>>)
            BY <3>4, <4>2, ElementsConcat
          <5>2. Elements(<<r>>) = {r}
            BY ElementsShort
          <5>3. QED
            BY <4>1, <5>1, <5>2
        <4>4. QED
          BY <1>v, <3>6, <4>3 DEF t
      <3>8. ~Wraps(Max) => lo \in Min..Max /\ hi \in Min..Max
        <4>1. ~Wraps(Max) => Min + i \in Min..Max /\ Max - i \in Min..Max
          BY <1>g, <2>2, <2>3, <2>4, <2>5
        <4>2. QED
          BY <3>n, <4>1
      <3>9. ~Wraps(Max) => Values' \subseteq Min..Max
        <4>1. {v \in {i, -i} : Min <= v /\ v <= Max} \subseteq Min..Max
          BY <1>0, <2>3
        <4>2. QED
          BY <2>2, <3>3, <3>7, <3>8, <4>1
      <3>10. Near(i) \subseteq Values'
        <4>1. ASSUME NEW v \in Near(i) PROVE v \in {lo, hi} \cup {w \in {i, -i} : Min <= w /\ w <= Max}
          <5>1. v \in {Min + i, Max - i, i, -i} /\ Min <= v /\ v <= Max
            BY DEF Near
          <5>2. v \in Int => v \in Min..Max
            BY <2>3, <5>1
          <5>3. Min + i \in Int /\ Max - i \in Int
            BY <1>0, <2>3
          <5>4. QED
            BY <3>n, <5>1, <5>2, <5>3
        <4>2. QED
          BY <3>7, <4>1
      <3>11. \A k \in 0..(i' - 1) : Near(k) \subseteq Values'
        <4>1. \A k \in 0..(i' - 1) : k = i \/ k \in 0..(i - 1)
          BY <2>2, <3>2
        <4>2. Values \subseteq Values'
          BY <3>7
        <4>3. QED
          BY <2>2, <3>10, <4>1, <4>2
      <3>12. i' \in 0..test_range
        BY <2>2, <2>5, <3>2
      <3>13. QED
        BY <1>o, <1>s, <2>1, <2>2, <3>2, <3>9, <3>11, <3>12 DEF RegionsInv, WrittenInv
    <2>6. CASE ~(i < test_range)
      <3>1. pc' = "return" /\ UNCHANGED test_vals /\ i = test_range
        BY <1>9, <2>1, <2>2, <2>6 DEF SampleLoop
      <3>2. Values' = Values
        BY <3>1 DEF Values
      <3>3. UNCHANGED <<Min, Max>> /\ ~Generated(TRUE)'
        BY <1>s, <2>1, <2>2 DEF Generated
      <3>4. ValuesInDomain'
        BY <2>2, <3>2, <3>3 DEF ValuesInDomain
      <3>5. RegionsTested'
        <4>1. {Min, Max} \subseteq Values'
          <5>1. 0 \in 0..(i - 1) /\ {Min, Max} \subseteq Near(0)
            BY <2>2, <2>3, <3>1 DEF Near
          <5>2. QED
            BY <2>2, <3>2, <5>1
        <4>2. ASSUME NEW v \in (1 - test_range')..(test_range' - 1), Min <= v, v <= Max
              PROVE  v \in Values'
          <5>1. CASE v >= 0
            <6>1. v \in 0..(i - 1) /\ v \in Near(v)
              BY <2>1, <2>2, <3>1, <4>2, <5>1 DEF Near
            <6>2. QED
              BY <2>2, <3>2, <6>1
          <5>2. CASE v < 0
            <6>1. -v \in 0..(i - 1) /\ v = -(-v) /\ v \in Near(-v)
              BY <2>1, <2>2, <3>1, <4>2, <5>2 DEF Near
            <6>2. QED
              BY <2>2, <3>2, <6>1
          <5>3. QED
            BY <2>1, <2>2, <5>1, <5>2
        <4>3. QED
          BY <3>3, <4>1, <4>2 DEF RegionsTested
      <3>6. QED
        BY <3>1, <3>4, <3>5 DEF RegionsInv, WrittenInv
    <2>7. QED
      BY <2>5, <2>6
  <1>10. CASE UNCHANGED vars
    <2>1. UNCHANGED <<params, pc, arg, test_range, i, test_vals>>
      BY <1>10 DEF vars
    <2>2. (FirstPass' <=> FirstPass) /\ (SecondPass' <=> SecondPass)
      BY <1>s, <2>1 DEF FirstPass, SecondPass, IntMin, IntMax, Sign, MaxTestVals
    <2>3. WrittenInv'
      BY <1>0, <1>s, <2>1, <2>2 DEF params, WrittenInv, Values
    <2>4. ValuesInDomain' /\ RegionsTested'
      BY <1>s, <2>1 DEF params, RegionsInv, Values, ValuesInDomain, RegionsTested, Generated
    <2>5. QED
      BY <2>3, <2>4 DEF RegionsInv
  <1>11. QED
    BY <1>1, <1>2, <1>3, <1>4, <1>5, <1>6, <1>7, <1>8, <1>9, <1>10 DEF Next

LEMMA InitRegionsInv == Init => RegionsInv
  BY DEF Init, RegionsInv, WrittenInv, ValuesInDomain, RegionsTested, Generated

LEMMA RegionsInvariance == Spec => []RegionsInv
  <1>1. QED
    BY InitRegionsInv, NextRegionsInv, Invariance, PTL DEF Spec

(* No puzzle is ever called outside its declared range, or with a pattern  *)
(* that is not a float's: for every TEST_RANGE, layout and range but those *)
(* for which the test for a small one wraps.                               *)
THEOREM Domain == Spec => []ValuesInDomain
  <1>1. RegionsInv => ValuesInDomain
    BY DEF RegionsInv
  <1>2. QED
    BY <1>1, RegionsInvariance, PTL

(* What the head of btest.c says is tested is tested.                      *)
THEOREM Regions == Spec => []RegionsTested
  <1>1. RegionsInv => RegionsTested
    BY DEF RegionsInv
  <1>2. QED
    BY <1>1, RegionsInvariance, PTL

-----------------------------------------------------------------------------
(* The command lines *)

(* The options already read. *)
Before(letter) == {n \in At(letter) : n < optind}

(* main has kept the last of each.                                         *)
Kept ==
    /\ \A k \in 0..2 :
           given[k] = IF Before(Numbers[k + 1]) = {} THEN NotGiven
                      ELSE Given(ToInt(Converted(argv[Last(Before(Numbers[k + 1]))].arg)))
    /\ \A letter \in Settings :
           settings[letter] = IF Before(letter) = {} THEN Defaults[letter]
                              ELSE argv[Last(Before(letter))].arg

(* Every number kept is the one typed last.                                *)
KeptFits ==
    \A k \in 0..2 :
        LET n == Last(Before(Numbers[k + 1]))
        IN  Before(Numbers[k + 1]) # {} =>
                /\ n \in Before(Numbers[k + 1])
                /\ AsTyped(ToInt(Converted(argv[n].arg)), argv[n].arg)

ParseInv ==
    /\ optind \in 1..(Len(argv) + 1)
    /\ stage = "main" => pc = "next" /\ arg = 0
    /\ stage \in {"main", "tests"} => Kept /\ (prog = "btest" => KeptFits)
    /\ stage = "tests" => prog = "btest" /\ optind = Len(argv) + 1
    /\ DOMAIN settings = Settings

MainInv == MainTypeOK /\ IInv /\ ParseInv /\ ArgsAsGiven

-----------------------------------------------------------------------------
(* Facts about a command line *)

LEMMA CommandLineType ==
    ASSUME MainTypeOK
    PROVE  /\ prog \in {"btest", "fshow", "ishow"}
           /\ Len(argv) \in Nat /\ DOMAIN argv = 1..Len(argv)
           /\ \A k \in DOMAIN argv : IsArgument(prog, argv[k])
  BY CommandLineAssumption DEF MainTypeOK

LEMMA WordType ==
    ASSUME NEW w \in Words
    PROVE  /\ IsWord(w) /\ w.number \in Int /\ w.pattern \in Unsigned
           /\ Converted(w) \in Unsigned
           /\ ToInt(Converted(w)) \in ArgVals
           /\ ToInt(Converted(w)) \in (-Sign)..(Sign - 1)
  <1>1. IsWord(w) /\ ToInt(Converted(w)) \in ArgVals
    BY CommandLineAssumption
  <1>2. w.number \in Int /\ w.pattern \in Unsigned
    BY <1>1 DEF IsWord
  <1>3. Sign \in Nat /\ Sign > 0
    BY WordAssumption
  <1> HIDE DEF Sign
  <1>4. w.number % (2 * Sign) \in Unsigned
    BY <1>2, <1>3 DEF Unsigned
  <1>5. Converted(w) \in Unsigned
    BY <1>2, <1>4 DEF Converted
  <1>6. QED
    BY <1>1, <1>2, <1>3, <1>5 DEF Unsigned, ToInt

(* The shift of get_num_val lets through exactly the signed and unsigned   *)
(* numbers of the word's width.                                            *)
LEMMA FitsExactly ==
    ASSUME NEW n \in Int
    PROVE  Fits(n) <=> -Sign <= n /\ n < 2 * Sign
  <1>1. Sign \in Nat /\ Sign > 0
    BY WordAssumption
  <1> HIDE DEF Sign
  <1>2. Fits(n) => -Sign <= n /\ n < 2 * Sign
    BY <1>1 DEF Fits
  <1>3. -Sign <= n /\ n < 2 * Sign => Fits(n)
    BY <1>1 DEF Fits
  <1>4. QED
    BY <1>2, <1>3

(* An accepted word keeps its value.                                       *)
LEMMA AcceptedAsTyped ==
    ASSUME NEW w \in Words, IsFloat(w) \/ Fits(w.number)
    PROVE  AsTyped(ToInt(Converted(w)), w)
  <1>1. w.number \in Int /\ w.pattern \in Unsigned
    BY WordType
  <1>2. Sign \in Nat /\ Sign > 0
    BY WordAssumption
  <1>3. ~IsFloat(w) => -Sign <= w.number /\ w.number < 2 * Sign
    BY <1>1, FitsExactly
  <1> HIDE DEF Sign
  <1>4. ASSUME NEW u \in Unsigned
        PROVE  ToInt(u) % (2 * Sign) = u
    <2>1. /\ -(2 * Sign) <= ToInt(u) /\ ToInt(u) < 2 * Sign /\ ToInt(u) \in Int
          /\ ToInt(u) = IF u < Sign THEN u ELSE u - 2 * Sign
          /\ u \in Int /\ 0 <= u /\ u < 2 * Sign
      BY <1>2 DEF Unsigned, ToInt
    <2>2. ToInt(u) % (2 * Sign) = IF ToInt(u) >= 0 THEN ToInt(u) ELSE ToInt(u) + 2 * Sign
      BY <1>2, <2>1, Remainder
    <2>3. QED
      BY <1>2, <2>1, <2>2
  <1>5. CASE IsFloat(w)
    BY <1>1, <1>4, <1>5 DEF Converted, AsTyped
  <1>6. CASE ~IsFloat(w)
    <2> DEFINE n == w.number
               u == n % (2 * Sign)
    <2>1. n \in Int /\ -Sign <= n /\ n < 2 * Sign
      BY <1>1, <1>3, <1>6
    <2>2. Converted(w) = u
      BY <1>6 DEF Converted
    <2>3. u = IF n >= 0 THEN n ELSE n + 2 * Sign
      BY <1>2, <2>1, Remainder
    <2> HIDE DEF u, n
    <2>4. u \in Unsigned /\ n \in {ToInt(u), u}
      BY <1>2, <2>1, <2>3 DEF Unsigned, ToInt
    <2>5. ToInt(u) % (2 * Sign) = u
      BY <1>4, <2>4
    <2>6. QED
      BY <1>6, <2>2, <2>4, <2>5 DEF AsTyped, n
  <1>7. QED
    BY <1>5, <1>6

(* What is 0 is read as 0.                                                 *)
LEMMA ZeroIsZero ==
    ASSUME NEW w, AsTyped(0, w)
    PROVE  ToInt(Converted(w)) = 0
  <1>1. Sign \in Nat /\ Sign > 0
    BY SignType
  <1> HIDE DEF Sign
  <1>2. 0 % (2 * Sign) = 0
    BY <1>1, Remainder
  <1>3. Converted(w) = 0
    BY <1>2 DEF AsTyped, Converted
  <1>4. QED
    BY <1>1, <1>3 DEF ToInt

(* A number that is refused for its size has no value as an int.           *)
LEMMA RefusedHasNoValue ==
    ASSUME NEW w \in Words, ~IsFloat(w), ~Fits(w.number),
           NEW v \in IntMin..IntMax
    PROVE  ~AsTyped(v, w)
  <1>1. w.number \in Int /\ ~(-Sign <= w.number /\ w.number < 2 * Sign)
    BY WordType, FitsExactly
  <1>2. Sign \in Nat /\ Sign > 0
    BY WordAssumption
  <1> HIDE DEF Sign
  <1>3. v \in Int /\ -Sign <= v /\ v < Sign
    BY <1>2 DEF IntMin, IntMax
  <1>4. v % (2 * Sign) = IF v >= 0 THEN v ELSE v + 2 * Sign
    BY <1>2, <1>3, Remainder
  <1>5. QED
    BY <1>1, <1>2, <1>3, <1>4 DEF AsTyped

-----------------------------------------------------------------------------
(* Reading one more option changes the last of its letter only.            *)
LEMMA ReadOne ==
    ASSUME MainTypeOK, ParseInv, optind \in DOMAIN argv,
           UNCHANGED argv, optind' = optind + 1,
           NEW letter
    PROVE  /\ argv[optind].opt = letter =>
                  /\ Before(letter)' = Before(letter) \cup {optind}
                  /\ Last(Before(letter)') = optind
           /\ argv[optind].opt # letter => Before(letter)' = Before(letter)
  <1>1. DOMAIN argv = 1..Len(argv) /\ Len(argv) \in Nat /\ optind \in Nat
    BY CommandLineType DEF MainTypeOK
  <1>2. Before(letter) = {n \in 1..Len(argv) : argv[n].opt = letter /\ n < optind}
    BY <1>1 DEF Before, At
  <1>3. Before(letter)' = {n \in 1..Len(argv) : argv[n].opt = letter /\ n < optind + 1}
    BY <1>1 DEF Before, At
  <1>4. ASSUME argv[optind].opt = letter
        PROVE  /\ Before(letter)' = Before(letter) \cup {optind}
               /\ Last(Before(letter)') = optind
    <2>1. Before(letter)' = Before(letter) \cup {optind}
      BY <1>1, <1>2, <1>3, <1>4
    <2> DEFINE S == Before(letter)'
    <2>2. optind \in S /\ \A n \in S : n \in Int /\ n <= optind
      BY <1>1, <1>2, <2>1
    <2> HIDE DEF S
    <2>3. \A m \in S : (\A n \in S : n <= m) => m = optind
      BY <1>1, <2>2
    <2>4. Last(S) = optind
      BY <2>2, <2>3 DEF Last
    <2>5. QED
      BY <2>1, <2>4 DEF S
  <1>5. ASSUME argv[optind].opt # letter
        PROVE  Before(letter)' = Before(letter)
    BY <1>1, <1>2, <1>3, <1>5
  <1>6. QED
    BY <1>4, <1>5

(* gen_vals changes neither the entry of test_set nor the arguments.       *)
LEMMA NextKeepsParams ==
    ASSUME Next PROVE UNCHANGED params
  BY DEF Next, NextArg, AllArgs, Return, UserValue, FloatCase, FloatLoop, FloatSpecials,
         IntCase, ExhaustiveLoop, SampleLoop

LEMMA MainInitInv == MainInit => MainInv
  <1> SUFFICES ASSUME MainInit PROVE MainInv
    OBVIOUS
  <1>1. IInv
    <2>1. given \in [0..2 -> UserArgs] /\ ranges \in [0..2 -> Ranges]
      BY RangesAssumption DEF MainInit, UserArgs
    <2>2. QED
      BY <2>1, GenValsAssumption DEF MainInit, IInv, TypeOK, CountInv, WithinBuffer
  <1>2. MainTypeOK
    BY <1>1 DEF MainInit, MainTypeOK, IInv
  <1>3. Len(argv) \in Nat /\ DOMAIN argv = 1..Len(argv)
    BY <1>2, CommandLineType
  <1>4. \A letter : Before(letter) = {}
    BY <1>3 DEF MainInit, Before, At
  <1>5. Kept /\ KeptFits
    BY <1>4 DEF MainInit, Kept, KeptFits
  <1>6. ParseInv /\ ArgsAsGiven
    <2>1. stage = "main" /\ optind = 1 /\ pc = "next" /\ arg = 0 /\ DOMAIN settings = Settings
      BY DEF MainInit, Defaults
    <2>2. QED
      BY <1>3, <1>5, <2>1 DEF ParseInv, ArgsAsGiven
  <1>7. QED
    BY <1>1, <1>2, <1>6 DEF MainInv

LEMMA MainNextInv == MainInv /\ [MainNext]_mainVars => MainInv'
  <1> SUFFICES ASSUME MainInv, [MainNext]_mainVars PROVE MainInv'
    OBVIOUS
  <1>0. MainTypeOK /\ IInv /\ ParseInv /\ ArgsAsGiven
    BY DEF MainInv
  <1>t. /\ prog \in {"btest", "fshow", "ishow"}
        /\ Len(argv) \in Nat /\ DOMAIN argv = 1..Len(argv) /\ optind \in Nat \ {0}
        /\ \A k \in DOMAIN argv : IsArgument(prog, argv[k])
    BY <1>0, CommandLineType DEF MainTypeOK
  (* An option of btest has the argument its letter takes. *)
  <1>o. ASSUME AtOption({"1", "2", "3"})
        PROVE  /\ prog = "btest" /\ Word \in Words
               /\ ArgIndex \in 0..2 /\ argv[optind].opt = Numbers[ArgIndex + 1]
    <2>1. IsArgument(prog, argv[optind]) /\ argv[optind].opt \in {"1", "2", "3"}
      BY <1>t, <1>o DEF AtOption
    <2>2. prog = "btest" /\ Word \in Words
      BY <2>1 DEF IsArgument, Word
    <2>3. \E k \in 0..2 : Numbers[k + 1] = argv[optind].opt
      <3>1. Numbers[0 + 1] = "1" /\ Numbers[1 + 1] = "2" /\ Numbers[2 + 1] = "3"
        BY DEF Numbers
      <3>2. QED
        BY <2>1, <3>1
    <2>4. QED
      BY <2>2, <2>3 DEF ArgIndex
  (* Everything stays as it was but main's stage and what was shown. *)
  <1>u. ASSUME UNCHANGED <<prog, argv, settings, vars>>, optind' \in 1..(Len(argv) + 1),
               stage' \in {"usage", "shown"} \/ (prog # "btest" /\ stage = "main" /\ stage' = "main"
                                                  /\ optind' = optind + 1 /\ AtOption({"val"}))
        PROVE  MainInv'
    <2>1. IInv' /\ MainTypeOK'
      <3>1. IInv'
        BY <1>0, <1>u, NextIInv
      <3>2. QED
        BY <1>0, <1>t, <1>u, <3>1 DEF vars, params, IInv, MainTypeOK
    <2>2. stage' = "main" => Kept'
      <3> SUFFICES ASSUME stage' = "main" PROVE Kept'
        OBVIOUS
      <3>1. /\ optind \in DOMAIN argv /\ argv[optind].opt = "val"
            /\ optind' = optind + 1 /\ stage = "main"
        BY <1>u DEF AtOption
      <3>2. \A letter \in Settings \cup {"1", "2", "3"} : Before(letter)' = Before(letter)
        BY <1>0, <1>u, <3>1, ReadOne DEF Settings
      <3>3. \A k \in 0..2 : Numbers[k + 1] \in {"1", "2", "3"}
        BY DEF Numbers
      <3>4. QED
        BY <1>0, <1>u, <3>1, <3>2, <3>3 DEF Kept, ParseInv, vars, params
    <2>3. ParseInv' /\ ArgsAsGiven'
      BY <1>0, <1>t, <1>u, <2>2 DEF ParseInv, ArgsAsGiven, vars, params
    <2>4. QED
      BY <2>1, <2>3 DEF MainInv
  <1>1. CASE Argument
    <2>1. /\ AtOption({"1", "2", "3"}) /\ get_num_val(Word, given[ArgIndex])
          /\ given' = [given EXCEPT ![ArgIndex] = Given(ToInt(Converted(Word)))]
          /\ optind' = optind + 1 /\ stage = "main" /\ optind \in DOMAIN argv
          /\ UNCHANGED <<prog, argv, stage, settings, args, ranges, pc, arg, test_range, i, test_vals, test_counts>>
      BY <1>1 DEF Argument, AtOption, command
    <2>2. /\ prog = "btest" /\ Word \in Words
          /\ ArgIndex \in 0..2 /\ argv[optind].opt = Numbers[ArgIndex + 1]
      BY <1>o, <2>1
    <2> DEFINE j == ArgIndex
    <2>3. given' \in [0..2 -> UserArgs]
      BY <1>0, <2>1, <2>2, WordType DEF IInv, TypeOK, UserArgs
    <2>4. IInv' /\ MainTypeOK'
      <3>1. pc' = "next" /\ arg' = 0
        BY <1>0, <2>1 DEF MainTypeOK
      <3>2. TypeOK'
        BY <1>0, <2>1, <2>3 DEF IInv, TypeOK
      <3>3. QED
        BY <1>0, <1>t, <2>1, <3>1, <3>2 DEF IInv, CountInv, WithinBuffer, MainTypeOK
    <2>5. \A k \in 0..2 : k # j => argv[optind].opt # Numbers[k + 1]
      BY <2>2 DEF Numbers
    <2>6. Kept'
      <3>1. ASSUME NEW k \in 0..2
            PROVE  given'[k] = IF Before(Numbers[k + 1])' = {} THEN NotGiven
                               ELSE Given(ToInt(Converted(argv[Last(Before(Numbers[k + 1])')].arg)))
        <4>1. CASE k = j
          <5>1. optind \in Before(Numbers[k + 1])' /\ Last(Before(Numbers[k + 1])') = optind
            BY <1>0, <2>1, <2>2, <4>1, ReadOne
          <5>2. given'[k] = Given(ToInt(Converted(Word)))
            BY <1>0, <2>1, <2>2, <4>1 DEF IInv, TypeOK
          <5>3. QED
            BY <5>1, <5>2 DEF Word
        <4>2. CASE k # j
          <5>1. Before(Numbers[k + 1])' = Before(Numbers[k + 1])
            BY <1>0, <2>1, <2>5, <4>2, ReadOne
          <5>2. given'[k] = given[k]
            BY <1>0, <2>1, <2>2, <4>2 DEF IInv, TypeOK
          <5>3. QED
            BY <1>0, <2>1, <5>1, <5>2 DEF ParseInv, Kept
        <4>3. QED
          BY <4>1, <4>2
      <3>2. \A letter \in Settings : Before(letter)' = Before(letter)
        <4>1. argv[optind].opt \notin Settings
          BY <2>1 DEF AtOption, Settings
        <4>2. QED
          BY <1>0, <2>1, <4>1, ReadOne
      <3>3. QED
        BY <1>0, <2>1, <3>1, <3>2 DEF Kept, ParseInv
    <2>7. KeptFits'
      <3> SUFFICES ASSUME NEW k \in 0..2, Before(Numbers[k + 1])' # {}
                   PROVE  LET n == Last(Before(Numbers[k + 1])')
                          IN  /\ n \in Before(Numbers[k + 1])'
                              /\ AsTyped(ToInt(Converted(argv[n].arg)), argv[n].arg)
        BY <2>1, ZenonT(40) DEF KeptFits, AsTyped, IsFloat, Converted, ToInt
      <3>1. CASE k = j
        <4>1. IsFloat(Word) \/ Fits(Word.number)
          BY <2>1 DEF get_num_val
        <4>2. optind \in Before(Numbers[k + 1])' /\ Last(Before(Numbers[k + 1])') = optind
          BY <1>0, <2>1, <2>2, <3>1, ReadOne
        <4>3. QED
          BY <2>2, <4>1, <4>2, AcceptedAsTyped DEF Word
      <3>2. CASE k # j
        <4>1. Before(Numbers[k + 1])' = Before(Numbers[k + 1])
          BY <1>0, <2>1, <2>5, <3>2, ReadOne
        <4>2. QED
          BY <1>0, <2>1, <2>2, <4>1 DEF ParseInv, KeptFits
      <3>3. QED
        BY <3>1, <3>2, Zenon
    <2>8. ParseInv' /\ ArgsAsGiven'
      BY <1>0, <1>t, <2>1, <2>6, <2>7 DEF ParseInv, ArgsAsGiven
    <2>9. QED
      BY <2>4, <2>8 DEF MainInv
  <1>2. CASE BadArgument
    <2>1. /\ AtOption({"1", "2", "3"}) /\ ~get_num_val(Word, given[ArgIndex])
          /\ stage' = "bad" /\ stage = "main" /\ optind \in DOMAIN argv
          /\ UNCHANGED <<prog, argv, optind, settings, vars>>
      BY <1>2 DEF BadArgument, AtOption, command
    <2>2. /\ prog = "btest" /\ Word \in Words
          /\ ArgIndex \in 0..2 /\ argv[optind].opt = Numbers[ArgIndex + 1]
      BY <1>o, <2>1
    <2>3. IInv' /\ MainTypeOK'
      <3>1. IInv'
        BY <1>0, <2>1, NextIInv
      <3>2. QED
        BY <1>0, <1>t, <2>1, <3>1 DEF vars, params, IInv, MainTypeOK
    <2>4. \/ Unfit(Word)
          \/ \E n \in At(argv[optind].opt) : n < optind /\ ~AsTyped(0, argv[n].arg)
      <3>1. CASE IsFloat(Word)
        BY <2>1, <2>2, <3>1 DEF get_num_val, Unfit
      <3>2. CASE ~IsFloat(Word) /\ ~Fits(Word.number)
        BY <2>2, <3>2, RefusedHasNoValue DEF Unfit
      <3>3. CASE ~IsFloat(Word) /\ Fits(Word.number)
        <4> DEFINE n == Last(Before(Numbers[ArgIndex + 1]))
        <4>1. given[ArgIndex] \notin {NotGiven, Given(0)}
          BY <2>1, <3>3 DEF get_num_val
        <4>2. Before(Numbers[ArgIndex + 1]) # {}
          BY <1>0, <2>1, <2>2, <4>1 DEF ParseInv, Kept
        <4>3. /\ n \in Before(Numbers[ArgIndex + 1])
              /\ given[ArgIndex] = Given(ToInt(Converted(argv[n].arg)))
          BY <1>0, <2>1, <2>2, <4>2 DEF ParseInv, Kept, KeptFits
        <4>4. ToInt(Converted(argv[n].arg)) # 0
          BY <4>1, <4>3
        <4>5. ~AsTyped(0, argv[n].arg)
          BY <4>4, ZeroIsZero
        <4>6. QED
          BY <2>2, <4>3, <4>5 DEF Before
      <3>4. QED
        BY <3>1, <3>2, <3>3
    <2>5. ParseInv'
      BY <1>0, <1>t, <2>1 DEF ParseInv
    <2>6. ArgsAsGiven'
      <3>1. Word' = Word /\ At(argv[optind].opt)' = At(argv[optind].opt) /\ argv' = argv /\ optind' = optind
        BY <2>1 DEF Word, At
      <3>2. QED
        BY <2>1, <2>4, <3>1 DEF ArgsAsGiven
    <2>7. QED
      BY <2>3, <2>5, <2>6 DEF MainInv
  <1>3. CASE Setting
    <2>1. /\ AtOption(Settings) /\ stage = "main" /\ optind \in DOMAIN argv
          /\ argv[optind].opt \in Settings
          /\ settings' = [settings EXCEPT ![argv[optind].opt] = argv[optind].arg]
          /\ optind' = optind + 1
          /\ UNCHANGED <<prog, argv, stage, vars>>
      BY <1>3 DEF Setting, AtOption, command
    <2>2. IInv' /\ MainTypeOK'
      <3>1. IInv'
        BY <1>0, <2>1, NextIInv
      <3>2. QED
        BY <1>0, <1>t, <2>1, <3>1 DEF vars, params, IInv, MainTypeOK
    <2>3. \A k \in 0..2 : Before(Numbers[k + 1])' = Before(Numbers[k + 1])
      <3>1. \A k \in 0..2 : Numbers[k + 1] \in {"1", "2", "3"}
        BY DEF Numbers
      <3>2. \A k \in 0..2 : argv[optind].opt # Numbers[k + 1]
        BY <2>1, <3>1 DEF Settings
      <3>3. QED
        BY <1>0, <2>1, <3>2, ReadOne
    <2>4. ASSUME NEW letter \in Settings
          PROVE  settings'[letter] = IF Before(letter)' = {} THEN Defaults[letter]
                                     ELSE argv[Last(Before(letter)')].arg
      <3>1. CASE argv[optind].opt = letter
        <4>1. optind \in Before(letter)' /\ Last(Before(letter)') = optind
          BY <1>0, <2>1, <3>1, ReadOne
        <4>2. settings'[letter] = argv[optind].arg
          BY <1>0, <2>1, <3>1 DEF ParseInv
        <4>3. QED
          BY <4>1, <4>2
      <3>2. CASE argv[optind].opt # letter
        <4>1. Before(letter)' = Before(letter)
          BY <1>0, <2>1, <3>2, ReadOne
        <4>2. settings'[letter] = settings[letter]
          BY <1>0, <2>1, <3>2 DEF ParseInv
        <4>3. QED
          BY <1>0, <2>1, <4>1, <4>2 DEF ParseInv, Kept
      <3>3. QED
        BY <3>1, <3>2
    <2>5. Kept'
      BY <1>0, <2>1, <2>3, <2>4 DEF ParseInv, Kept, vars, params
    <2>6. KeptFits' \/ prog # "btest"
      BY <1>0, <2>1, <2>3 DEF ParseInv, KeptFits
    <2>7. ParseInv' /\ ArgsAsGiven'
      <3>1. stage' = "main" /\ optind' \in 1..(Len(argv) + 1) /\ DOMAIN settings' = Settings
        BY <1>0, <1>t, <2>1 DEF ParseInv
      <3>2. pc' = pc /\ arg' = arg /\ argv' = argv /\ prog' = prog
        BY <2>1 DEF vars
      <3>3. QED
        BY <1>0, <2>1, <2>5, <2>6, <3>1, <3>2 DEF ParseInv, ArgsAsGiven
    <2>8. QED
      BY <2>2, <2>7 DEF MainInv
  <1>4. CASE usage
    BY <1>0, <1>4, <1>u DEF usage, command, ParseInv
  <1>5. CASE RunTests
    <2>1. /\ prog = "btest" /\ stage = "main" /\ stage' = "tests" /\ optind \notin DOMAIN argv
          /\ args' \in 0..3 /\ ranges' \in [0..2 -> Ranges]
          /\ UNCHANGED <<prog, argv, optind, settings, given, pc, arg, test_range, i, test_vals, test_counts>>
      BY <1>5 DEF RunTests, command
    <2>2. IInv' /\ MainTypeOK'
      <3>1. pc' = "next" /\ arg' = 0
        BY <1>0, <2>1 DEF MainTypeOK
      <3>2. TypeOK'
        BY <1>0, <2>1 DEF IInv, TypeOK
      <3>3. QED
        BY <1>0, <1>t, <2>1, <3>1, <3>2 DEF IInv, CountInv, WithinBuffer, MainTypeOK
    <2>3. optind = Len(argv) + 1
      BY <1>0, <1>t, <2>1 DEF ParseInv
    <2>4. \A letter : Before(letter)' = Before(letter) /\ At(letter)' = At(letter) /\ Before(letter) = At(letter)
      BY <1>t, <2>1, <2>3 DEF Before, At
    <2>5. Kept /\ KeptFits /\ DOMAIN settings = Settings
      BY <1>0, <2>1 DEF ParseInv
    <2>6. Kept' /\ KeptFits'
      BY <2>1, <2>4, <2>5 DEF Kept, KeptFits
    <2>7. ParseInv'
      BY <1>0, <1>t, <2>1, <2>3, <2>6 DEF ParseInv
    <2>8. ArgsAsGiven'
      <3>1. ASSUME NEW k \in 0..2, At(Numbers[k + 1]) # {}
            PROVE  \E v \in ArgVals : given[k] = Given(v) /\ AsTyped(v, argv[Last(At(Numbers[k + 1]))].arg)
        <4> DEFINE n == Last(At(Numbers[k + 1]))
        <4>1. n \in At(Numbers[k + 1])
          BY <2>4, <2>5, <3>1 DEF KeptFits
        <4>2. n \in DOMAIN argv /\ argv[n].opt = Numbers[k + 1]
          BY <4>1 DEF At
        <4>3. argv[n].arg \in Words
          <5>1. IsArgument(prog, argv[n]) /\ argv[n].opt \in {"1", "2", "3"}
            BY <1>t, <4>2 DEF Numbers
          <5>2. QED
            BY <5>1 DEF IsArgument
        <4>4. given[k] = Given(ToInt(Converted(argv[n].arg)))
          BY <2>4, <2>5, <3>1 DEF Kept
        <4>5. AsTyped(ToInt(Converted(argv[n].arg)), argv[n].arg)
          BY <2>4, <2>5, <3>1 DEF KeptFits
        <4>6. QED
          BY <4>3, <4>4, <4>5, WordType
      <3>2. \A k \in 0..2 : At(Numbers[k + 1]) = {} => given[k] = NotGiven
        BY <2>4, <2>5 DEF Kept
      <3>3. \A letter \in Settings :
               settings[letter] = IF At(letter) = {} THEN Defaults[letter] ELSE argv[Last(At(letter))].arg
        BY <2>4, <2>5 DEF Kept
      <3>4. QED
        BY <2>1, <2>4, <3>1, <3>2, <3>3 DEF ArgsAsGiven
    <2>9. QED
      BY <2>2, <2>7, <2>8 DEF MainInv
  <1>6. CASE GenerateValues
    <2>1. stage = "tests" /\ Next /\ UNCHANGED main
      BY <1>6 DEF GenerateValues
    <2>2. IInv'
      BY <1>0, <2>1, NextIInv
    <2>3. UNCHANGED <<prog, argv, stage, optind, settings, shown, given>>
      BY <2>1, NextKeepsParams DEF main, command, params
    <2>4. \A letter : Before(letter)' = Before(letter) /\ At(letter)' = At(letter)
      BY <2>3 DEF Before, At
    <2>5. MainTypeOK'
      BY <1>0, <2>1, <2>2, <2>3 DEF MainTypeOK, IInv
    <2>6. Kept /\ KeptFits
      BY <1>0, <2>1 DEF ParseInv
    <2>7. Kept' /\ KeptFits'
      BY <2>3, <2>4, <2>6 DEF Kept, KeptFits
    <2>8. ParseInv'
      BY <1>0, <2>1, <2>3, <2>7 DEF ParseInv
    <2>9. ArgsAsGiven'
      BY <1>0, <2>1, <2>3, <2>4 DEF ArgsAsGiven
    <2>10. QED
      BY <2>2, <2>5, <2>8, <2>9 DEF MainInv
  <1>7. CASE Show
    <2>1. /\ AtOption({"val"}) /\ stage = "main" /\ stage' = "main" /\ optind' = optind + 1
          /\ optind \in DOMAIN argv /\ argv[optind].opt = "val"
          /\ UNCHANGED <<prog, argv, settings, vars>>
      BY <1>7 DEF Show, AtOption, command
    <2>2. prog # "btest"
      BY <1>t, <2>1 DEF IsArgument, Settings, Usages
    <2>3. optind' \in 1..(Len(argv) + 1)
      BY <1>t, <2>1
    <2>4. QED
      BY <1>u, <2>1, <2>2, <2>3
  <1>8. CASE Refuse
    <2>1. /\ AtOption({"val"}) /\ stage = "main" /\ optind \in DOMAIN argv /\ argv[optind].opt = "val"
          /\ \/ stage' = "usage" /\ optind' = optind
             \/ stage' = "main" /\ optind' = optind + 1
          /\ UNCHANGED <<prog, argv, settings, vars>>
      BY <1>8 DEF Refuse, AtOption, command
    <2>2. prog # "btest"
      BY <1>t, <2>1 DEF IsArgument, Settings, Usages
    <2>3. optind' \in 1..(Len(argv) + 1)
      BY <1>t, <2>1
    <2>4. QED
      BY <1>u, <2>1, <2>2, <2>3
  <1>9. CASE AllShown
    BY <1>0, <1>9, <1>u DEF AllShown, command, ParseInv
  <1>10. CASE UNCHANGED mainVars
    <2>1. UNCHANGED <<prog, argv, stage, optind, settings, shown, vars>>
      BY <1>10 DEF mainVars, main, command
    <2>2. IInv' /\ MainTypeOK'
      <3>1. IInv'
        BY <1>0, <2>1, NextIInv
      <3>2. QED
        BY <1>0, <2>1, <3>1 DEF vars, params, IInv, MainTypeOK
    <2>3. \A letter : Before(letter)' = Before(letter) /\ At(letter)' = At(letter)
      BY <2>1 DEF Before, At
    <2>4. (Kept => Kept') /\ (KeptFits => KeptFits')
      BY <2>1, <2>3 DEF Kept, KeptFits, vars, params
    <2>5. ParseInv'
      BY <1>0, <2>1, <2>4 DEF ParseInv, vars, params
    <2>6. ArgsAsGiven'
      BY <1>0, <2>1, <2>3 DEF ArgsAsGiven, Word, vars, params
    <2>7. QED
      BY <2>2, <2>5, <2>6 DEF MainInv
  <1>11. QED
    BY <1>1, <1>2, <1>3, <1>4, <1>5, <1>6, <1>7, <1>8, <1>9, <1>10 DEF MainNext

(* What main has read, and what gen_vals makes of it, stay as stated.      *)
THEOREM MainInvariance == MainSpec => []MainInv
  <1>1. QED
    BY MainInitInv, MainNextInv, PTL DEF MainSpec

(* btest tests with the last value of each option, none of them cut to the *)
(* width of an int, and calls an argument bad only when it does not fit or *)
(* repeats one that is not 0: for every word and command line.             *)
THEOREM Arguments == MainSpec => []ArgsAsGiven
  <1>1. MainInv => ArgsAsGiven
    BY DEF MainInv
  <1>2. QED
    BY <1>1, MainInvariance, PTL

(* No command line makes gen_vals write past its array with another range. *)
THEOREM MainNoOverrun == MainSpec => []WithinBuffer
  <1>1. MainInv => WithinBuffer
    BY DEF MainInv, IInv
  <1>2. QED
    BY <1>1, MainInvariance, PTL

-----------------------------------------------------------------------------
(* What gen_vals writes, for the command lines that reach it.              *)

LEMMA MainNextRegionsInv ==
    MainInv /\ RegionsInv /\ [MainNext]_mainVars => RegionsInv'
  <1> SUFFICES ASSUME MainInv, RegionsInv, [MainNext]_mainVars PROVE RegionsInv'
    OBVIOUS
  <1>1. IInv /\ MainTypeOK
    BY DEF MainInv
  <1>2. CASE GenerateValues
    BY <1>1, <1>2, NextRegionsInv DEF GenerateValues
  <1>3. CASE Argument \/ RunTests
    <2>1. stage = "main" /\ UNCHANGED <<pc, test_range>>
      BY <1>3 DEF Argument, RunTests, AtOption
    <2>2. pc' = "next"
      BY <1>1, <2>1 DEF MainTypeOK
    <2>3. QED
      BY <2>2 DEF RegionsInv, WrittenInv, ValuesInDomain, RegionsTested, Generated
  <1>4. CASE BadArgument \/ Setting \/ usage \/ Show \/ Refuse \/ AllShown \/ UNCHANGED mainVars
    <2>1. UNCHANGED vars
      BY <1>4 DEF BadArgument, Setting, usage, Show, Refuse, AllShown, mainVars
    <2>2. QED
      BY <1>1, <2>1, NextRegionsInv
  <1>5. QED
    BY <1>2, <1>3, <1>4 DEF MainNext

LEMMA MainRegionsInvariance == MainSpec => []RegionsInv
  <1>1. MainInit => RegionsInv
    BY DEF MainInit, RegionsInv, WrittenInv, ValuesInDomain, RegionsTested, Generated
  <1>2. QED
    BY <1>1, MainNextRegionsInv, MainInvariance, PTL DEF MainSpec

(* Whatever the command line, no puzzle is called outside its range, but   *)
(* those for which the test for a small one wraps.                         *)
THEOREM MainDomain == MainSpec => []ValuesInDomain
  <1>1. RegionsInv => ValuesInDomain
    BY DEF RegionsInv
  <1>2. QED
    BY <1>1, MainRegionsInvariance, PTL

(* Whatever the command line, what the head of btest.c says is tested is   *)
(* tested for the arguments that are not given.                            *)
THEOREM MainRegions == MainSpec => []RegionsTested
  <1>1. RegionsInv => RegionsTested
    BY DEF RegionsInv
  <1>2. QED
    BY <1>1, MainRegionsInvariance, PTL

-----------------------------------------------------------------------------
(* The fields of a word *)

(* The weights of a float's fields.                                        *)
LEMMA Weights ==
    /\ 2^FracBits \in Nat \ {0} /\ 2^ExpBits \in Nat /\ 2^ExpBits >= 4
    /\ Sign = 2^ExpBits * 2^FracBits
    /\ Inf = (2^ExpBits - 1) * 2^FracBits
  <1>1. FracBits \in Nat /\ ExpBits \in Nat /\ 2 <= ExpBits
    BY GenValsAssumption
  <1>2. 2^FracBits \in Nat \ {0} /\ 2^ExpBits \in Nat
    BY <1>1, PowerType
  <1>3. 2^2 <= 2^ExpBits
    BY <1>1, PowerMonotonic
  <1>4. 2^2 = 4
    OBVIOUS
  <1>5. Sign = 2^ExpBits * 2^FracBits
    BY <1>1, PowerSum DEF Sign
  <1>6. QED
    BY <1>2, <1>3, <1>4, <1>5 DEF Inf

LEMMA Fields ==
    ASSUME NEW u \in Unsigned
    PROVE  /\ get_exp(u) \in 0..(2^ExpBits - 1)
           /\ get_frac(u) \in 0..(2^FracBits - 1)
           /\ get_sign(u) \in 0..1
           /\ u % Sign = get_exp(u) * 2^FracBits + get_frac(u)
           /\ u % Sign \in 0..(Sign - 1)
           /\ u = get_sign(u) * Sign + (u % Sign)
  <1> DEFINE M == 2^FracBits
             E == 2^ExpBits
             q == u \div M
             f == u % M
             e == q % E
             g == q \div E
  <1>1. M \in Nat \ {0} /\ E \in Nat /\ E >= 4 /\ Sign = E * M /\ Sign \in Nat \ {0}
    BY Weights, WordAssumption
  <1>2. u \in Nat /\ u < 2 * Sign
    BY <1>1 DEF Unsigned
  <1> HIDE DEF M, E, Sign
  <1>3. q \in Nat /\ f \in 0..(M - 1) /\ u = M * q + f
    BY <1>1, <1>2
  <1>4. q = u \div M /\ f = u % M
    OBVIOUS
  <1> HIDE DEF q, f
  <1>5. g \in Nat /\ e \in 0..(E - 1) /\ q = E * g + e
    BY <1>1, <1>3
  <1>6. g = q \div E /\ e = q % E
    OBVIOUS
  <1> HIDE DEF g, e
  <1>7. e * M + f \in 0..(Sign - 1)
    <2>1. e * M <= (E - 1) * M /\ (E - 1) * M = E * M - M /\ e * M \in Nat /\ E * M \in Int
      BY <1>1, <1>5
    <2>2. QED
      BY <1>1, <1>3, <2>1
  <1>8. u = g * Sign + (e * M + f)
    <2>1. M * (E * g + e) = g * (E * M) + e * M
      BY <1>1, <1>5
    <2>2. M * q = g * Sign + e * M
      BY <1>1, <1>5, <2>1
    <2>3. g * Sign \in Int /\ e * M \in Int
      BY <1>1, <1>5
    <2>4. QED
      BY <1>3, <2>2, <2>3
  <1>9. u \div Sign = g /\ u % Sign = e * M + f
    BY <1>1, <1>5, <1>7, <1>8, Division
  <1>10. g \in 0..1
    <2>1. ASSUME g >= 2 PROVE FALSE
      <3>1. g * Sign >= 2 * Sign
        BY <1>1, <1>5, <2>1
      <3>2. g * Sign \in Int
        BY <1>1, <1>5
      <3>3. QED
        BY <1>1, <1>2, <1>7, <1>8, <3>1, <3>2
    <2>2. QED
      BY <1>5, <2>1
  <1>11. get_exp(u) = e /\ get_frac(u) = f /\ get_sign(u) = g
    BY <1>4, <1>6, <1>9 DEF get_exp, get_frac, get_sign, M, E
  <1>12. QED
    BY <1>3, <1>5, <1>7, <1>8, <1>9, <1>10, <1>11 DEF M, E

-----------------------------------------------------------------------------
(* Magnitude counts, from pattern to pattern; what fshow prints is its     *)
(* closed form.                                                            *)
Value(e, f) == IF e = 0 THEN f ELSE (f + 2^FracBits) * 2^(e - 1)
Closed      == [u \in 0..Inf |-> Value(u \div 2^FracBits, u % 2^FracBits)]

LEMMA InfType == Inf \in Nat /\ Inf > 0 /\ Inf < Sign
  <1>1. PICK h \in Nat, p \in Nat : h >= 1 /\ p >= 4 * h /\ Inf = 2 * p - 2 * h /\ Sign = 2 * p
    BY FloatLayout
  <1> HIDE DEF Inf, Sign
  <1>2. QED
    BY <1>1

(* The fields of a pattern up to that of infinity.                         *)
LEMMA SmallFields ==
    ASSUME NEW u \in 0..Inf
    PROVE  /\ get_exp(u) = u \div 2^FracBits /\ get_frac(u) = u % 2^FracBits
           /\ get_exp(u) \in 0..(2^ExpBits - 1) /\ get_frac(u) \in 0..(2^FracBits - 1)
           /\ u = get_exp(u) * 2^FracBits + get_frac(u)
           /\ u < Inf => get_exp(u) <= 2^ExpBits - 2
  <1>0. Sign \in Nat \ {0} /\ Inf \in Nat /\ Inf < Sign
    BY WordAssumption, InfType
  <1> HIDE DEF Sign, Inf
  <1>1. u \in Unsigned /\ u \in 0..(Sign - 1) /\ u % Sign = u
    BY <1>0 DEF Unsigned
  <1>2. /\ get_exp(u) \in 0..(2^ExpBits - 1) /\ get_frac(u) \in 0..(2^FracBits - 1)
        /\ u = get_exp(u) * 2^FracBits + get_frac(u)
    BY <1>1, Fields
  <1>3. u \div 2^FracBits = get_exp(u) /\ u % 2^FracBits = get_frac(u)
    <2> DEFINE e == get_exp(u)
               f == get_frac(u)
               M == 2^FracBits
    <2>1. M \in Nat \ {0} /\ e \in Int /\ f \in 0..(M - 1) /\ u = e * M + f
      BY <1>2, Weights
    <2> HIDE DEF e, f, M
    <2>2. u \div M = e /\ u % M = f
      BY <2>1, Division
    <2>3. QED
      BY <2>2 DEF e, f, M
  <1>4. ASSUME u < Inf, get_exp(u) > 2^ExpBits - 2 PROVE FALSE
    <2>1. get_exp(u) = 2^ExpBits - 1 /\ 2^ExpBits \in Nat
      BY <1>2, <1>4, Weights
    <2>2. u = Inf + get_frac(u)
      BY <1>2, <2>1, Weights
    <2>3. QED
      BY <1>0, <1>2, <1>4, <2>2, Weights
  <1>5. QED
    BY <1>2, <1>3, <1>4, Weights

(* The closed form grows as Magnitude does.                                *)
LEMMA ClosedStep ==
    ASSUME NEW u \in 1..Inf
    PROVE  Closed[u] = Closed[u - 1] + (IF get_exp(u - 1) = 0 THEN 1 ELSE 2^(get_exp(u - 1) - 1))
  <1> DEFINE M == 2^FracBits
             t == u - 1
             e == get_exp(t)
             f == get_frac(t)
  <1>0. Inf \in Nat /\ M \in Nat \ {0} /\ 2^ExpBits \in Nat
    BY InfType, Weights
  <1>1. t \in 0..Inf /\ t < Inf /\ u = t + 1 /\ u \in 0..Inf
    BY <1>0
  <1> HIDE DEF t
  <1>2. /\ e \in Nat /\ f \in 0..(M - 1) /\ t = e * M + f
        /\ t \div M = e /\ t % M = f
    <2>1. /\ t \div M = e /\ t % M = f
          /\ e \in 0..(2^ExpBits - 1) /\ f \in 0..(M - 1) /\ t = e * M + f
      BY <1>1, SmallFields
    <2>2. e \in Nat
      BY <1>0, <2>1
    <2>3. QED
      BY <2>1, <2>2
  <1>3. Closed[t] = Value(e, f)
    BY <1>1, <1>2 DEF Closed
  <1>4. Closed[u] = Value(u \div M, u % M)
    BY <1>1 DEF Closed
  <1>5. e = get_exp(t)
    OBVIOUS
  <1> HIDE DEF M, e, f
  <1>6. e # 0 => e - 1 \in Nat /\ 2^(e - 1) \in Nat
    <2> SUFFICES ASSUME e # 0 PROVE e - 1 \in Nat /\ 2^(e - 1) \in Nat
      OBVIOUS
    <2>1. e - 1 \in Nat
      BY <1>2
    <2>2. QED
      BY <2>1, PowerType
  <1>7. CASE f < M - 1
    <2>1. f + 1 \in 0..(M - 1) /\ u = e * M + (f + 1)
      <3>1. e * M \in Int
        BY <1>0, <1>2
      <3>2. QED
        BY <1>0, <1>1, <1>2, <1>7, <3>1
    <2>2. u \div M = e /\ u % M = f + 1
      <3> DEFINE r == f + 1
      <3>1. r \in 0..(M - 1) /\ u = e * M + r /\ e \in Int
        BY <1>2, <2>1
      <3> HIDE DEF r
      <3>2. u \div M = e /\ u % M = r
        BY <1>0, <3>1, Division
      <3>3. QED
        BY <3>2 DEF r
    <2>3. Value(e, f + 1) = Value(e, f) + (IF e = 0 THEN 1 ELSE 2^(e - 1))
      <3>1. CASE e = 0
        BY <3>1 DEF Value
      <3>2. CASE e # 0
        <4> DEFINE w == 2^(e - 1)
        <4>1. w \in Nat
          BY <1>6, <3>2
        <4>2. Value(e, f + 1) = ((f + 1) + M) * w /\ Value(e, f) = (f + M) * w
          BY <3>2 DEF Value, M
        <4> HIDE DEF w
        <4>3. ((f + 1) + M) * w = (f + M) * w + w
          BY <1>0, <1>2, <4>1
        <4>4. QED
          BY <3>2, <4>2, <4>3 DEF w
      <3>3. QED
        BY <3>1, <3>2
    <2>4. QED
      BY <1>3, <1>4, <1>5, <2>2, <2>3 DEF t
  <1>8. CASE f = M - 1
    <2>1. 0 \in 0..(M - 1) /\ u = (e + 1) * M + 0
      <3>1. e * M \in Int /\ (e + 1) * M = e * M + M
        BY <1>0, <1>2
      <3>2. QED
        BY <1>0, <1>1, <1>2, <1>8, <3>1
    <2>2. u \div M = e + 1 /\ u % M = 0
      BY <1>0, <1>2, <2>1, Division
    <2>3. Value(e + 1, 0) = M * 2^e
      <3>1. e + 1 # 0 /\ (e + 1) - 1 = e /\ 0 + M = M
        BY <1>0, <1>2
      <3>2. Value(e + 1, 0) = (0 + M) * 2^((e + 1) - 1)
        BY <3>1 DEF Value, M
      <3>3. QED
        BY <3>1, <3>2
    <2>4. Value(e + 1, 0) = Value(e, f) + (IF e = 0 THEN 1 ELSE 2^(e - 1))
      <3>1. CASE e = 0
        <4>1. 2^e = 1
          BY <3>1
        <4>2. Value(e, f) = M - 1
          BY <1>8, <3>1 DEF Value
        <4>3. QED
          BY <1>0, <2>3, <3>1, <4>1, <4>2
      <3>2. CASE e # 0
        <4> DEFINE w == 2^(e - 1)
        <4>1. w \in Nat
          BY <1>6, <3>2
        <4>2. 2^e = 2 * w
          <5>1. e - 1 \in Nat /\ (e - 1) + 1 = e
            BY <1>2, <3>2
          <5>2. QED
            BY <5>1, PowerStep
        <4>3. Value(e, f) = ((M - 1) + M) * w
          BY <1>8, <3>2 DEF Value, M
        <4> HIDE DEF w
        <4>4. M * (2 * w) = ((M - 1) + M) * w + w
          BY <1>0, <4>1
        <4>5. QED
          BY <2>3, <3>2, <4>2, <4>3, <4>4 DEF w
      <3>3. QED
        BY <3>1, <3>2
    <2>5. QED
      BY <1>3, <1>4, <1>5, <2>2, <2>4 DEF t
  <1>9. QED
    BY <1>0, <1>2, <1>7, <1>8

LEMMA MagnitudeClosed ==
    \A u \in 0..Inf : Magnitude[u] = Closed[u]
  <1> DEFINE Body(g) == [u \in 0..Inf |->
                 IF u = 0 THEN 0
                 ELSE g[u - 1] + (IF get_exp(u - 1) = 0 THEN 1 ELSE 2^(get_exp(u - 1) - 1))]
  <1>1. Inf \in Nat
    BY InfType
  <1>2. Closed[0] = 0
    <2>1. 0 \in 0..Inf
      BY <1>1
    <2>2. get_exp(0) * 2^FracBits + get_frac(0) = 0 /\ get_exp(0) \in Nat /\ get_frac(0) \in Nat
          /\ get_exp(0) = 0 \div 2^FracBits /\ get_frac(0) = 0 % 2^FracBits
      BY <2>1, SmallFields, Weights
    <2>3. Closed[0] = Value(get_exp(0), get_frac(0))
      BY <2>1, <2>2 DEF Closed
    <2>4. get_exp(0) = 0 /\ get_frac(0) = 0
      <3>1. \A e, f \in Nat : \A m \in Nat \ {0} : e * m + f = 0 => e = 0 /\ f = 0
        OBVIOUS
      <3>2. QED
        BY <2>2, <3>1, Weights
    <2>5. QED
      BY <2>3, <2>4 DEF Value
  <1>3. ASSUME NEW u \in 0..Inf PROVE Closed[u] = Body(Closed)[u]
    <2>1. CASE u = 0
      BY <1>2, <2>1
    <2>2. CASE u # 0
      BY <1>1, <2>2, ClosedStep
    <2>3. QED
      BY <2>1, <2>2
  <1>4. Closed = Body(Closed)
    <2>1. DOMAIN Closed = 0..Inf /\ DOMAIN Body(Closed) = 0..Inf
      BY DEF Closed
    <2>2. Closed = [u \in 0..Inf |-> Closed[u]] /\ Body(Closed) = [u \in 0..Inf |-> Body(Closed)[u]]
      BY DEF Closed
    <2> HIDE DEF Body
    <2>3. QED
      BY <1>3, <2>2
  <1>5. Magnitude = Body(Magnitude)
    <2>1. Magnitude = CHOOSE g : g = Body(g)
      BY DEF Magnitude
    <2> HIDE DEF Body
    <2>2. QED
      BY <1>4, <2>1
  <1> DEFINE T == {u \in 0..Inf : Magnitude[u] = Closed[u]}
  <1>6. 0 \in T
    <2>1. 0 \in 0..Inf
      BY <1>1
    <2>2. Magnitude[0] = 0
      BY <1>5, <2>1
    <2>3. QED
      BY <1>2, <2>1, <2>2
  <1>7. ASSUME NEW n \in 0..(Inf - 1), n \in T PROVE n + 1 \in T
    <2>1. n + 1 \in 0..Inf /\ n + 1 \in 1..Inf /\ n + 1 # 0 /\ (n + 1) - 1 = n
      BY <1>1
    <2>2. Magnitude[n + 1] = Magnitude[(n + 1) - 1]
              + (IF get_exp((n + 1) - 1) = 0 THEN 1 ELSE 2^(get_exp((n + 1) - 1) - 1))
      BY <1>5, <2>1
    <2>3. Closed[n + 1] = Closed[(n + 1) - 1]
              + (IF get_exp((n + 1) - 1) = 0 THEN 1 ELSE 2^(get_exp((n + 1) - 1) - 1))
      BY <2>1, ClosedStep
    <2>4. QED
      BY <1>7, <2>1, <2>2, <2>3
  <1>8. 0..Inf \subseteq T
    <2> HIDE DEF T
    <2>1. 0 \in Int /\ Inf \in Int /\ \A n \in 0..(Inf - 1) : n \in T => n + 1 \in T
      BY <1>1, <1>7
    <2>2. QED
      BY <1>6, <2>1, IntervalInduction
  <1>9. QED
    BY <1>8

-----------------------------------------------------------------------------
(* What fshow and ishow print *)

(* s is what the word w stands for. *)
Fine(s, w) ==
    LET u == Converted(w)
    IN  /\ s.kind \in {"int", "invalid", "number", "infinity", "nan"}
        /\ s.kind = "int" => ~IsFloat(w) /\ w.number \in {s.signed, s.unsigned}
        /\ s.kind = "invalid" =>
               \/ w.number \notin (-Sign)..(2 * Sign - 1)
               \/ IsFloat(w) /\ (prog = "ishow" \/ ~w.whole)
        /\ s.kind = "number" =>
               /\ u % Sign < Inf /\ (s.sign = 1 <=> u >= Sign)
               /\ s.uexp >= 1 - Bias
               /\ s.mantissa * 2^(s.uexp - (1 - Bias)) = Magnitude[u % Sign]
        /\ s.kind = "infinity" => u = IF s.sign = 1 THEN Neg(Inf) ELSE Inf
        /\ s.kind = "nan" => u % Sign > Inf

Printed == UNION {{show_float(u), show_int(u), Invalid} : u \in Unsigned}

ShownInv ==
    /\ shown \in Seq(Printed)
    /\ stage = "main" => Len(shown) = IF prog = "btest" THEN 0 ELSE optind - 1
    /\ \A n \in 1..Len(shown) : Fine(shown[n], argv[n].arg)

LEMMA FloatFine ==
    ASSUME NEW w \in Words
    PROVE  Fine(show_float(Converted(w)), w)
  <1> DEFINE u == Converted(w)
             v == u % Sign
             e == get_exp(u)
             f == get_frac(u)
             g == get_sign(u)
             E == 2^ExpBits
             M == 2^FracBits
             s == show_float(u)
  <1>1. u \in Unsigned
    BY WordType
  <1>2. /\ e \in 0..(E - 1) /\ f \in 0..(M - 1) /\ g \in 0..1
        /\ v = e * M + f /\ v \in 0..(Sign - 1) /\ u = g * Sign + v
    <2> HIDE DEF u
    <2>1. QED
      BY <1>1, Fields
  <1>3. M \in Nat \ {0} /\ E \in Nat /\ E >= 4 /\ Inf = (E - 1) * M /\ Inf \in Nat
        /\ Sign \in Nat \ {0} /\ Bias \in Int
    <2>1. 2^(ExpBits - 1) \in Nat
      <3>1. ExpBits - 1 \in Nat
        BY GenValsAssumption
      <3>2. QED
        BY <3>1, PowerType
    <2>2. QED
      BY <2>1, Weights, InfType, WordAssumption DEF Bias
  <1>4. s = IF e = E - 1
            THEN [kind |-> IF f = 0 THEN "infinity" ELSE "nan", sign |-> g]
            ELSE [kind     |-> "number",
                  sign     |-> g,
                  uexp     |-> IF e = 0 THEN 1 - Bias ELSE e - Bias,
                  mantissa |-> f + (IF e = 0 THEN 0 ELSE M)]
    BY DEF show_float
  <1>5. e # E - 1 => v < Inf
    <2> HIDE DEF u, v, e, f, g, E, M
    <2>1. ASSUME e # E - 1 PROVE v < Inf
      <3>1. e * M <= (E - 2) * M /\ (E - 2) * M = (E - 1) * M - M
            /\ e * M \in Int /\ (E - 1) * M \in Int
        BY <1>2, <1>3, <2>1
      <3>2. QED
        BY <1>2, <1>3, <3>1
    <2>2. QED
      BY <2>1
  <1>6. e = E - 1 => v = Inf + f
    BY <1>2, <1>3
  <1>7. g = 1 <=> u >= Sign
    <2> HIDE DEF u, v, e, f, g, E, M, Sign
    <2>1. QED
      BY <1>2, <1>3
  <1>8. ASSUME e # E - 1
        PROVE  s.uexp >= 1 - Bias /\ s.mantissa * 2^(s.uexp - (1 - Bias)) = Magnitude[v]
    <2>1. Magnitude[v] = Value(e, f)
      <3>1. v \in 0..Inf
        BY <1>2, <1>3, <1>5, <1>8
      <3>2. Magnitude[v] = Value(v \div M, v % M)
        BY <3>1, MagnitudeClosed DEF Closed
      <3>3. v \div M = e /\ v % M = f
        <4> HIDE DEF u, v, e, f, g, E, M
        <4>1. QED
          BY <1>2, <1>3, Division
      <3>4. QED
        BY <3>2, <3>3
    <2>2. /\ s.uexp = IF e = 0 THEN 1 - Bias ELSE e - Bias
          /\ s.mantissa = f + (IF e = 0 THEN 0 ELSE M)
      BY <1>4, <1>8
    <2> HIDE DEF u, v, e, f, g, E, M, s
    <2>3. CASE e = 0
      <3>1. s.uexp - (1 - Bias) = 0 /\ s.uexp >= 1 - Bias /\ s.mantissa = f
        BY <1>2, <1>3, <2>2, <2>3
      <3>2. 2^(s.uexp - (1 - Bias)) = 1
        <4>1. 2^0 = 1
          OBVIOUS
        <4>2. 2^(s.uexp - (1 - Bias)) = 2^0
          BY <3>1, Zenon
        <4>3. QED
          BY <4>1, <4>2, Zenon
      <3>3. Value(e, f) = f /\ f * 1 = f
        BY <1>2, <2>3 DEF Value
      <3>4. s.mantissa * 2^(s.uexp - (1 - Bias)) = f
        BY <3>1, <3>2, <3>3
      <3>5. QED
        BY <2>1, <3>1, <3>3, <3>4
    <2>4. CASE e # 0
      <3>1. s.uexp - (1 - Bias) = e - 1 /\ s.uexp >= 1 - Bias /\ s.mantissa = f + M
        BY <1>2, <1>3, <2>2, <2>4
      <3>2. Value(e, f) = (f + M) * 2^(e - 1)
        BY <2>4 DEF Value, M
      <3>3. QED
        BY <2>1, <3>1, <3>2
    <2>5. QED
      BY <2>3, <2>4
  <1>9. CASE e # E - 1
    <2>1. s.kind = "number" /\ s.sign = g
      BY <1>4, <1>9
    <2>2. QED
      BY <1>5, <1>7, <1>8, <1>9, <2>1 DEF Fine
  <1>10. CASE e = E - 1 /\ f = 0
    <2>1. s.kind = "infinity" /\ s.sign = g
      BY <1>4, <1>10
    <2>2. u = IF g = 1 THEN Neg(Inf) ELSE Inf
      <3>1. v = Inf
        BY <1>3, <1>6, <1>10
      <3> HIDE DEF u, v, e, f, g, E, M, s
      <3>2. QED
        BY <1>2, <1>3, <3>1 DEF Neg
    <2>3. QED
      BY <2>1, <2>2 DEF Fine
  <1>11. CASE e = E - 1 /\ f # 0
    <2>1. s.kind = "nan"
      BY <1>4, <1>11
    <2>2. v > Inf
      BY <1>2, <1>3, <1>6, <1>11
    <2>3. QED
      BY <2>1, <2>2 DEF Fine
  <1>12. QED
    BY <1>9, <1>10, <1>11

LEMMA IntFine ==
    ASSUME NEW w \in Words, ~IsFloat(w), Fits(w.number)
    PROVE  Fine(show_int(Converted(w)), w)
  <1> DEFINE n == w.number
             u == n % (2 * Sign)
  <1>1. n \in Int /\ -Sign <= n /\ n < 2 * Sign /\ Sign \in Nat \ {0}
    BY WordType, FitsExactly, WordAssumption
  <1>2. u = IF n >= 0 THEN n ELSE n + 2 * Sign
    <2> HIDE DEF n, Sign
    <2>1. QED
      BY <1>1, Remainder
  <1>3. n \in {ToInt(u), u}
    <2> HIDE DEF n, u, Sign
    <2>1. QED
      BY <1>1, <1>2 DEF ToInt
  <1>4. show_int(Converted(w)) = [kind |-> "int", signed |-> ToInt(u), unsigned |-> u]
    BY DEF show_int, Converted
  <1> HIDE DEF u
  <1>5. QED
    BY <1>3, <1>4 DEF Fine

LEMMA RefusedFine ==
    ASSUME NEW w \in Words, prog # "btest", ~get_num_val(w, NotGiven)
    PROVE  Fine(Invalid, w)
  <1>1. CASE IsFloat(w)
    BY <1>1 DEF Fine, Invalid, get_num_val
  <1>2. CASE ~IsFloat(w)
    <2>1. ~Fits(w.number)
      BY <1>2 DEF get_num_val
    <2>2. w.number \in Int /\ ~(-Sign <= w.number /\ w.number < 2 * Sign)
      BY <2>1, WordType, FitsExactly
    <2>3. Sign \in Nat
      BY WordAssumption
    <2>4. w.number \notin (-Sign)..(2 * Sign - 1)
      BY <2>2, <2>3
    <2>5. QED
      BY <2>4 DEF Fine, Invalid
  <1>3. QED
    BY <1>1, <1>2

(* One more value was printed. *)
LEMMA ShowOne ==
    ASSUME MainInv, ShownInv, AtOption({"val"}), UNCHANGED <<prog, argv>>,
           NEW s \in Printed, Fine(s, Word), shown' = Append(shown, s),
           stage' = "main" => optind' = optind + 1
    PROVE  ShownInv'
  <1>1. /\ Len(argv) \in Nat /\ DOMAIN argv = 1..Len(argv)
        /\ \A k \in DOMAIN argv : IsArgument(prog, argv[k])
        /\ optind \in Nat \ {0}
    BY CommandLineType DEF MainInv, MainTypeOK
  <1>2. stage = "main" /\ optind \in DOMAIN argv /\ argv[optind].opt = "val"
    BY DEF AtOption
  <1>3. prog # "btest"
    BY <1>1, <1>2 DEF IsArgument, Settings, Usages
  <1>4. shown \in Seq(Printed) /\ Len(shown) = optind - 1 /\ Len(shown) \in Nat
    BY <1>2, <1>3, LenProperties DEF ShownInv
  <1>5. /\ shown' \in Seq(Printed) /\ Len(shown') = optind
        /\ \A n \in 1..Len(shown) : shown'[n] = shown[n]
        /\ shown'[optind] = s
    BY <1>1, <1>4, AppendProperties
  <1>7. ASSUME NEW n \in 1..Len(shown') PROVE Fine(shown'[n], argv[n].arg)
    <2>1. CASE n = optind
      BY <1>5, <2>1 DEF Word
    <2>2. CASE n # optind
      <3>1. n \in 1..Len(shown)
        BY <1>1, <1>4, <1>5, <2>2
      <3>2. QED
        BY <1>5, <3>1 DEF ShownInv
    <2>3. QED
      BY <2>1, <2>2
  <1>8. stage' = "main" => Len(shown') = optind' - 1
    <2> SUFFICES ASSUME stage' = "main" PROVE Len(shown') = optind' - 1
      OBVIOUS
    <2>1. optind' = optind + 1 /\ optind \in Int
      BY <1>1
    <2>2. QED
      BY <1>5, <2>1
  <1>9. (\A n \in 1..Len(shown) : Fine(shown[n], argv[n].arg))'
    BY <1>7 DEF Fine
  <1>10. QED
    BY <1>3, <1>5, <1>8, <1>9 DEF ShownInv

LEMMA MainNextShownInv ==
    MainInv /\ ShownInv /\ [MainNext]_mainVars => ShownInv'
  <1> SUFFICES ASSUME MainInv, ShownInv, [MainNext]_mainVars PROVE ShownInv'
    OBVIOUS
  <1>1. /\ Len(argv) \in Nat /\ DOMAIN argv = 1..Len(argv)
        /\ \A k \in DOMAIN argv : IsArgument(prog, argv[k])
    BY CommandLineType DEF MainInv
  <1>2. ASSUME AtOption({"val"})
        PROVE  Word \in Words /\ Converted(Word) \in Unsigned /\ prog \in {"fshow", "ishow"}
    <2>1. IsArgument(prog, argv[optind]) /\ argv[optind].opt = "val"
      BY <1>1, <1>2 DEF AtOption
    <2>2. Word \in Words /\ prog \in {"fshow", "ishow"}
      BY <2>1, CommandLineType DEF MainInv, IsArgument, Word, Settings, Usages
    <2>3. QED
      BY <2>2, WordType
  <1>3. ASSUME UNCHANGED <<prog, argv, shown>>,
               stage' = "main" => stage = "main" /\ (prog = "btest" \/ optind' = optind)
        PROVE  ShownInv'
    <2>1. \A x, w : Fine(x, w)' <=> Fine(x, w)
      BY <1>3 DEF Fine
    <2>2. QED
      BY <1>3, <2>1 DEF ShownInv
  <1>4. CASE Show
    <2> DEFINE s == IF prog = "fshow" THEN show_float(Converted(Word)) ELSE show_int(Converted(Word))
    <2>1. /\ AtOption({"val"}) /\ get_num_val(Word, NotGiven)
          /\ shown' = Append(shown, s) /\ optind' = optind + 1 /\ UNCHANGED <<prog, argv>>
      BY <1>4 DEF Show, command
    <2>2. s \in Printed
      BY <1>2, <2>1 DEF Printed
    <2>3. Fine(s, Word)
      <3>1. CASE prog = "fshow"
        BY <1>2, <2>1, <3>1, FloatFine
      <3>2. CASE prog # "fshow"
        <4>1. prog = "ishow" /\ Word \in Words
          BY <1>2, <2>1, <3>2
        <4>2. ~IsFloat(Word) /\ Fits(Word.number)
          BY <2>1, <4>1 DEF get_num_val
        <4>3. QED
          BY <3>2, <4>1, <4>2, IntFine
      <3>3. QED
        BY <3>1, <3>2
    <2> HIDE DEF s
    <2>4. QED
      BY <2>1, <2>2, <2>3, ShowOne
  <1>5. CASE Refuse
    <2>1. /\ AtOption({"val"}) /\ ~get_num_val(Word, NotGiven)
          /\ shown' = Append(shown, Invalid) /\ UNCHANGED <<prog, argv>>
          /\ stage' = "main" => optind' = optind + 1
      BY <1>5 DEF Refuse, command
    <2>2. Invalid \in Printed
      BY <1>2, <2>1 DEF Printed
    <2>3. prog # "btest" /\ Word \in Words
      BY <1>2, <2>1
    <2>4. Fine(Invalid, Word)
      BY <2>1, <2>3, RefusedFine
    <2>5. QED
      BY <2>1, <2>2, <2>4, ShowOne
  <1>6. CASE Argument \/ Setting
    <2>1. /\ optind \in DOMAIN argv /\ argv[optind].opt \in {"1", "2", "3"} \cup Settings
          /\ stage = "main" /\ UNCHANGED <<prog, argv, stage, shown>>
      BY <1>6 DEF Argument, Setting, AtOption, command
    <2>2. IsArgument(prog, argv[optind])
      BY <1>1, <2>1
    <2>3. prog = "btest"
      BY <2>1, <2>2 DEF IsArgument, Settings
    <2>4. QED
      BY <1>3, <2>1, <2>3
  <1>7. CASE BadArgument \/ usage \/ RunTests \/ GenerateValues \/ AllShown \/ UNCHANGED mainVars
    <2>1. UNCHANGED <<prog, argv, shown, optind>> /\ (stage' = "main" => stage = "main")
      BY <1>7 DEF BadArgument, usage, RunTests, GenerateValues, AllShown, mainVars, main, command
    <2>2. QED
      BY <1>3, <2>1
  <1>8. QED
    BY <1>4, <1>5, <1>6, <1>7 DEF MainNext

LEMMA ShownInvariance == MainSpec => []ShownInv
  <1>1. MainInit => ShownInv
    <2> SUFFICES ASSUME MainInit PROVE ShownInv
      OBVIOUS
    <2>1. shown = <<>> /\ stage = "main" /\ optind = 1
      BY DEF MainInit
    <2>2. QED
      BY <2>1, EmptySeq DEF ShownInv
  <1>2. QED
    BY <1>1, MainNextShownInv, MainInvariance, PTL DEF MainSpec

(* fshow prints the value of each pattern, exact at both sides of the      *)
(* transition to normalized numbers, ishow the number typed; each refuses  *)
(* only what has no such value: for every width and layout of a word.      *)
THEOREM Printouts == MainSpec => []ShownAsTyped
  <1>1. ShownInv => ShownAsTyped
    <2> SUFFICES ASSUME ShownInv, NEW n \in DOMAIN shown PROVE Fine(shown[n], argv[n].arg)
      BY DEF ShownAsTyped, Fine
    <2>1. DOMAIN shown = 1..Len(shown)
      BY LenProperties DEF ShownInv
    <2>2. QED
      BY <2>1 DEF ShownInv
  <1>2. QED
    BY <1>1, ShownInvariance, PTL

=============================================================================
