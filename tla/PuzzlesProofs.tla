--------------------------- MODULE PuzzlesProofs ---------------------------
(* The data lab's puzzles, for every width of a word and every layout of a *)
(* float.                                                                  *)
EXTENDS Puzzles, InductionLemmas

-----------------------------------------------------------------------------
(* A word and its number *)

Weight == [b \in Bit |-> 2^b]

LEMMA WidthType ==
    /\ W \in Nat /\ W >= 8 /\ F \in Nat /\ F >= 1 /\ F + 4 <= W
    /\ Bit = 0..(W - 1) /\ IsFiniteSet(Bit) /\ Bit \subseteq Nat
    /\ \A b \in Bit : Weight[b] = 2^b /\ Weight[b] \in Int
  <1>1. W \in Nat /\ W >= 8 /\ F \in Nat /\ F >= 1 /\ F + 4 <= W
    BY BitsAssumption
  <1>2. Bit = 0..(W - 1) /\ IsFiniteSet(Bit) /\ Bit \subseteq Nat
    BY <1>1, FS_Interval DEF Bit
  <1>3. QED
    BY <1>1, <1>2, PowerType DEF Weight

LEMMA WordFinite ==
    ASSUME NEW w \in Word
    PROVE  IsFiniteSet(w) /\ \A b \in w : b \in Bit /\ Weight[b] \in Int
  BY WidthType, FS_Subset DEF Word

LEMMA NumSum ==
    ASSUME NEW w \in Word
    PROVE  Num[w] = Total(Weight, w)
  <1>1. IsFiniteSet(w) /\ \A b \in w : b \in Bit /\ Weight[b] \in Int /\ Weight[b] = 2^b
    BY WordFinite, WidthType
  <1>2. PICK sum : /\ Num[w] = sum[w]
                   /\ sum = CHOOSE f : f = [s \in SUBSET w |-> IF s = {} THEN 0
                                 ELSE 2^(CHOOSE x \in s : TRUE)
                                          + f[s \ {CHOOSE x \in s : TRUE}]]
    BY DEF Num, MapThenSumSet, MapThenFoldSet
  <1>3. \A s \in SUBSET w : s # {} => Weight[CHOOSE x \in s : TRUE] = 2^(CHOOSE x \in s : TRUE)
    BY <1>1
  <1>4. \A f : IsFold(f, Weight, w) <=>
                  f = [s \in SUBSET w |-> IF s = {} THEN 0
                           ELSE 2^(CHOOSE x \in s : TRUE)
                                    + f[s \ {CHOOSE x \in s : TRUE}]]
    BY <1>3 DEF IsFold
  <1>5. sum = CHOOSE f : IsFold(f, Weight, w)
    BY <1>2, <1>4, ZenonT(40)
  <1>6. sum[w] = Total(Weight, w)
    BY <1>1, <1>5, ChosenFold
  <1>7. QED
    BY <1>2, <1>6

LEMMA NumType ==
    ASSUME NEW w \in Word
    PROVE  Num[w] \in Int
  BY NumSum, WordFinite, TotalType

LEMMA NumEmpty == Num[{}] = 0
  BY NumSum, TotalEmpty DEF Word

(* One bit more. *)
LEMMA NumBit ==
    ASSUME NEW w \in Word, NEW b \in Bit, b \notin w
    PROVE  w \cup {b} \in Word /\ Num[w \cup {b}] = Num[w] + 2^b
  <1>1. w \cup {b} \in Word
    BY DEF Word
  <1>2. Num[w] = Total(Weight, w) /\ Num[w \cup {b}] = Total(Weight, w \cup {b})
    BY <1>1, NumSum
  <1>3. Total(Weight, w \cup {b}) = Total(Weight, w) + Weight[b]
    BY <1>1, WordFinite, TotalAdd
  <1>4. QED
    BY <1>1, <1>2, <1>3, WidthType

(* The bits below k. *)
Low(w, k) == w \cap 0..(k - 1)

LEMMA LowStep ==
    ASSUME NEW w \in Word, NEW k \in Bit
    PROVE  /\ Low(w, k) \in Word /\ Low(w, k + 1) \in Word
           /\ Num[Low(w, k)] \in Int
           /\ Num[Low(w, k + 1)] = Num[Low(w, k)] + (IF k \in w THEN 2^k ELSE 0)
  <1>1. Low(w, k) \in Word /\ Low(w, k + 1) \in Word
    BY DEF Low, Word
  <1>2. Num[Low(w, k)] \in Int
    BY <1>1, NumType
  <1>3. CASE k \in w
    <2>1. Low(w, k + 1) = Low(w, k) \cup {k} /\ k \notin Low(w, k)
      BY <1>3, WidthType DEF Low, Word
    <2>2. QED
      BY <1>1, <1>2, <1>3, <2>1, NumBit
  <1>4. CASE k \notin w
    <2>1. Low(w, k + 1) = Low(w, k)
      BY <1>4, WidthType DEF Low, Word
    <2>2. QED
      BY <1>1, <1>2, <1>4, <2>1
  <1>5. QED
    BY <1>3, <1>4

LEMMA LowEnds ==
    ASSUME NEW w \in Word
    PROVE  Low(w, 0) = {} /\ Low(w, W) = w
  <1>1. W \in Nat /\ Bit = 0..(W - 1) /\ w \subseteq Bit
    BY WidthType DEF Word
  <1>2. 0..(0 - 1) = {}
    OBVIOUS
  <1>3. QED
    BY <1>1, <1>2 DEF Low

LEMMA LowRange ==
    ASSUME NEW w \in Word, NEW k \in 0..W
    PROVE  Num[Low(w, k)] \in 0..(2^k - 1)
  <1> DEFINE T == {n \in 0..W : Num[Low(w, n)] \in 0..(2^n - 1)}
  <1>1. 0 \in T
    <2>1. Num[Low(w, 0)] = 0
      BY LowEnds, NumEmpty
    <2>2. 0 \in 0..W /\ 2^0 = 1
      BY WidthType
    <2>3. QED
      BY <2>1, <2>2
  <1>2. ASSUME NEW n \in 0..(W - 1), n \in T PROVE n + 1 \in T
    <2>1. n \in Bit /\ n \in Nat /\ n + 1 \in 0..W
      BY WidthType
    <2>2. 2^n \in Nat /\ 2^(n + 1) = 2 * 2^n
      BY <2>1, PowerStep
    <2>3. Num[Low(w, n + 1)] = Num[Low(w, n)] + (IF n \in w THEN 2^n ELSE 0)
      BY <2>1, LowStep
    <2>4. Num[Low(w, n)] \in 0..(2^n - 1)
      BY <1>2
    <2>5. Num[Low(w, n + 1)] \in 0..(2^(n + 1) - 1)
      BY <2>2, <2>3, <2>4
    <2>6. QED
      BY <2>1, <2>5
  <1> HIDE DEF T
  <1>3. 0..W \subseteq T
    <2>1. 0 \in Int /\ W \in Int
      BY WidthType
    <2>2. QED
      BY <1>1, <1>2, <2>1, IntervalInduction
  <1>4. QED
    BY <1>3 DEF T

LEMMA NumRange ==
    ASSUME NEW w \in Word
    PROVE  Num[w] \in 0..(2^W - 1)
  BY LowEnds, LowRange, WidthType

(* Different words have different numbers. *)
LEMMA NumInjective ==
    ASSUME NEW v \in Word, NEW w \in Word, Num[v] = Num[w]
    PROVE  v = w
  <1> DEFINE T == {n \in 0..W : Num[Low(v, n)] = Num[Low(w, n)] => Low(v, n) = Low(w, n)}
  <1>1. 0 \in T
    <2>1. Low(v, 0) = Low(w, 0)
      BY LowEnds
    <2>2. 0 \in 0..W
      BY WidthType
    <2>3. QED
      BY <2>1, <2>2
  <1>2. ASSUME NEW n \in 0..(W - 1), n \in T PROVE n + 1 \in T
    <2>1. n \in Bit /\ n \in Nat /\ n + 1 \in 0..W /\ n \in 0..W
      BY WidthType
    <2> SUFFICES ASSUME Num[Low(v, n + 1)] = Num[Low(w, n + 1)]
                 PROVE  Low(v, n + 1) = Low(w, n + 1)
      BY <2>1
    <2>2. /\ Num[Low(v, n + 1)] = Num[Low(v, n)] + (IF n \in v THEN 2^n ELSE 0)
          /\ Num[Low(w, n + 1)] = Num[Low(w, n)] + (IF n \in w THEN 2^n ELSE 0)
      BY <2>1, LowStep
    <2>3. Num[Low(v, n)] \in 0..(2^n - 1) /\ Num[Low(w, n)] \in 0..(2^n - 1) /\ 2^n \in Nat
      BY <2>1, LowRange, PowerType
    <2>4. Num[Low(v, n)] = Num[Low(w, n)] /\ (n \in v <=> n \in w)
      <3>1. \A p \in Nat : \A x, y \in 0..(p - 1) :
                /\ x + 0 = y + 0 => x = y
                /\ x + p = y + p => x = y
                /\ x + p # y + 0 /\ x + 0 # y + p
        OBVIOUS
      <3>2. QED
        BY <2>2, <2>3, <3>1
    <2>5. Low(v, n) = Low(w, n)
      BY <1>2, <2>4
    <2>6. QED
      BY <2>4, <2>5, WidthType DEF Low, Word
  <1> HIDE DEF T
  <1>3. 0..W \subseteq T
    <2>1. 0 \in Int /\ W \in Int
      BY WidthType
    <2>2. QED
      BY <1>1, <1>2, <2>1, IntervalInduction
  <1>4. W \in T
    BY <1>3, WidthType
  <1>5. QED
    BY <1>4, LowEnds DEF T

-----------------------------------------------------------------------------
(* The bits of a number, floor-divided: those of a negative number are its *)
(* two's complement.                                                       *)

IsBit(n, b) == (n \div 2^b) % 2 = 1

LEMMA QuotientRemainder ==
    ASSUME NEW n \in Int, NEW m \in Nat \ {0}
    PROVE  n \div m \in Int /\ n % m \in 0..(m - 1) /\ n = (n \div m) * m + (n % m)
  OBVIOUS

(* A quotient is known by its bounds. *)
LEMMA QuotientIs ==
    ASSUME NEW n \in Int, NEW m \in Nat \ {0}, NEW q \in Int, q * m <= n, n < q * m + m
    PROVE  n \div m = q /\ n % m = n - q * m
  <1> DEFINE rem == n - q * m
  <1>1. q * m \in Int
    OBVIOUS
  <1>2. rem \in 0..(m - 1) /\ n = q * m + rem
    BY <1>1
  <1> HIDE DEF rem
  <1>3. QED
    BY <1>2, <1>1, Division

LEMMA QuotientBounds ==
    ASSUME NEW n \in Int, NEW m \in Nat \ {0}
    PROVE  n \div m \in Int /\ (n \div m) * m <= n /\ n < (n \div m) * m + m
  <1> DEFINE q == n \div m
             rem == n % m
  <1>1. q \in Int /\ rem \in 0..(m - 1) /\ n = q * m + rem
    BY QuotientRemainder
  <1>2. q * m \in Int
    BY <1>1
  <1> HIDE DEF q, rem
  <1>3. QED
    BY <1>1, <1>2 DEF q

(* Dividing twice. *)
LEMMA QuotientTwice ==
    ASSUME NEW n \in Int, NEW l \in Nat \ {0}, NEW m \in Nat \ {0}
    PROVE  (n \div l) \div m = n \div (l * m)
  <1> DEFINE p == n \div l
             q == p \div m
  <1>1. p \in Int /\ p * l <= n /\ n < p * l + l
    BY QuotientBounds
  <1> HIDE DEF p
  <1>2. q \in Int /\ q * m <= p /\ p < q * m + m
    BY <1>1, QuotientBounds
  <1> HIDE DEF q
  <1> DEFINE k == q * m
  <1>3. k \in Int /\ k <= p /\ p <= k + m - 1
    BY <1>1, <1>2
  <1> HIDE DEF k
  <1>4. k * l <= p * l /\ p * l <= (k + m - 1) * l
    <2>1. \A a, b \in Int : a <= b => a * l <= b * l
      OBVIOUS
    <2>2. k + m - 1 \in Int
      BY <1>3
    <2>3. QED
      BY <1>1, <1>3, <2>1, <2>2
  <1>5. (k + m - 1) * l = k * l + l * m - l
    BY <1>3
  <1>6. k * l = q * (l * m)
    BY <1>2 DEF k
  <1>7. l * m \in Nat \ {0} /\ q * (l * m) \in Int /\ p * l \in Int
    BY <1>1, <1>2
  <1>8. q * (l * m) <= n /\ n < q * (l * m) + l * m
    BY <1>1, <1>4, <1>5, <1>6, <1>7
  <1>9. n \div (l * m) = q
    BY <1>2, <1>7, <1>8, QuotientIs
  <1>10. QED
    BY <1>9 DEF q, p

LEMMA QuotientType ==
    ASSUME NEW n \in Int, NEW k \in Nat
    PROVE  n \div 2^k \in Int /\ n % 2^k \in 0..(2^k - 1) /\ n \div 1 = n /\ n \div 2^0 = n
  <1>1. 2^k \in Nat \ {0} /\ 2^0 = 1
    BY PowerType
  <1>2. QED
    BY <1>1, QuotientRemainder

(* The bits of n shifted right ... *)
LEMMA BitOfQuotient ==
    ASSUME NEW n \in Int, NEW k \in Nat, NEW b \in Nat
    PROVE  IsBit(n \div 2^k, b) <=> IsBit(n, b + k)
  <1>1. 2^k \in Nat \ {0} /\ 2^b \in Nat \ {0} /\ 2^(k + b) = 2^k * 2^b /\ k + b = b + k
    BY PowerType, PowerSum
  <1>2. (n \div 2^k) \div 2^b = n \div (2^k * 2^b)
    BY <1>1, QuotientTwice
  <1>3. QED
    BY <1>1, <1>2 DEF IsBit

(* ... and left. *)
LEMMA BitOfProduct ==
    ASSUME NEW n \in Int, NEW k \in Nat, NEW b \in Nat
    PROVE  IsBit(n * 2^k, b) <=> b >= k /\ IsBit(n, b - k)
  <1>1. 2^k \in Nat \ {0} /\ 2^b \in Nat \ {0}
    BY PowerType
  <1>2. CASE b >= k
    <2>1. b - k \in Nat /\ 2^(b - k) \in Nat \ {0} /\ k + (b - k) = b
      BY <1>2, PowerType
    <2>2. 2^b = 2^k * 2^(b - k)
      BY <2>1, PowerSum
    <2>3. (n * 2^k) \div 2^k = n
      <3>1. n * 2^k \in Int /\ n * 2^k <= n * 2^k /\ n * 2^k < n * 2^k + 2^k
        BY <1>1
      <3>2. QED
        BY <1>1, <3>1, QuotientIs
    <2>4. (n * 2^k) \div 2^b = n \div 2^(b - k)
      <3>1. n * 2^k \in Int
        BY <1>1
      <3>2. ((n * 2^k) \div 2^k) \div 2^(b - k) = (n * 2^k) \div (2^k * 2^(b - k))
        BY <1>1, <2>1, <3>1, QuotientTwice
      <3>3. QED
        BY <2>2, <2>3, <3>2
    <2>5. QED
      BY <1>2, <2>4 DEF IsBit
  <1>3. CASE b < k
    <2>1. k - b - 1 \in Nat /\ k - b \in Nat /\ (k - b - 1) + 1 = k - b /\ b + (k - b) = k
      BY <1>3
    <2>2. 2^k = 2^b * 2^(k - b) /\ 2^(k - b) = 2 * 2^(k - b - 1) /\ 2^(k - b - 1) \in Nat
      <3>1. 2^k = 2^b * 2^(k - b)
        BY <2>1, PowerSum
      <3>2. 2^(k - b) = 2 * 2^(k - b - 1) /\ 2^(k - b - 1) \in Nat
        BY <2>1, PowerStep
      <3>3. QED
        BY <3>1, <3>2
    <2> DEFINE c == 2^(k - b - 1)
               h == n * c
               d == 2^b
    <2>3. c \in Nat /\ h \in Int /\ 2^k = d * (2 * c) /\ d \in Nat \ {0}
      BY <1>1, <2>2
    <2>4. n * 2^k = (2 * h) * d
      BY <2>3
    <2> HIDE DEF c, h, d
    <2>5. (2 * h) * d \in Int /\ (2 * h) * d <= (2 * h) * d /\ (2 * h) * d < (2 * h) * d + d
      BY <2>3
    <2>6. ((2 * h) * d) \div d = 2 * h
      BY <2>3, <2>5, QuotientIs
    <2>7. (2 * h) % 2 = 0
      BY <2>3
    <2>8. (n * 2^k) \div d = 2 * h
      BY <2>4, <2>6
    <2>9. ((n * 2^k) \div 2^b) % 2 = 0
      <3>1. ((n * 2^k) \div d) % 2 = 0
        BY <2>7, <2>8
      <3>2. QED
        BY <3>1 DEF d
    <2>10. ~IsBit(n * 2^k, b)
      BY <2>9 DEF IsBit
    <2>11. QED
      BY <1>3, <2>10
  <1>4. QED
    BY <1>2, <1>3

(* The complement. *)
LEMMA BitOfComplement ==
    ASSUME NEW n \in Int, NEW b \in Nat
    PROVE  IsBit(-n - 1, b) <=> ~IsBit(n, b)
  <1> DEFINE d == 2^b
             q == n \div d
  <1>1. d \in Nat \ {0}
    BY PowerType
  <1> HIDE DEF d
  <1>2. q \in Int /\ q * d <= n /\ n < q * d + d
    BY <1>1, QuotientBounds
  <1> HIDE DEF q
  <1>3. (-q - 1) * d = -(q * d) - d /\ q * d \in Int
    BY <1>1, <1>2
  <1>4. -n - 1 \in Int /\ -q - 1 \in Int /\ (-q - 1) * d <= -n - 1 /\ -n - 1 < (-q - 1) * d + d
    BY <1>1, <1>2, <1>3
  <1>5. (-n - 1) \div d = -q - 1
    BY <1>1, <1>4, QuotientIs
  <1>6. (-q - 1) % 2 = 1 <=> ~(q % 2 = 1)
    BY <1>2
  <1>7. QED
    BY <1>5, <1>6 DEF IsBit, q, d

(* Multiples of 2^k do not matter below k. *)
LEMMA BitOfSum ==
    ASSUME NEW n \in Int, NEW m \in Int, NEW k \in Nat, NEW b \in 0..(k - 1)
    PROVE  IsBit(n + m * 2^k, b) <=> IsBit(n, b)
  <1>1. k - b - 1 \in Nat /\ k - b \in Nat /\ (k - b - 1) + 1 = k - b /\ b + (k - b) = k /\ b \in Nat
    OBVIOUS
  <1>2. /\ 2^k = 2^b * 2^(k - b) /\ 2^(k - b) = 2 * 2^(k - b - 1) /\ 2^(k - b - 1) \in Nat
        /\ 2^b \in Nat \ {0}
    <2>1. 2^k = 2^b * 2^(k - b)
      BY <1>1, PowerSum
    <2>2. 2^(k - b) = 2 * 2^(k - b - 1) /\ 2^(k - b - 1) \in Nat
      BY <1>1, PowerStep
    <2>3. 2^b \in Nat \ {0}
      BY <1>1, PowerType
    <2>4. QED
      BY <2>1, <2>2, <2>3
  <1> DEFINE c == 2^(k - b - 1)
             h == m * c
             d == 2^b
             q == n \div d
  <1>3. c \in Nat /\ h \in Int /\ 2^k = d * (2 * c) /\ d \in Nat \ {0}
    BY <1>2
  <1>4. m * 2^k = (2 * h) * d
    BY <1>3
  <1> HIDE DEF c, h, d
  <1>5. q \in Int /\ q * d <= n /\ n < q * d + d
    BY <1>3, QuotientBounds
  <1> HIDE DEF q
  <1>6. (q + 2 * h) * d = q * d + (2 * h) * d /\ q * d \in Int /\ (2 * h) * d \in Int
    BY <1>3, <1>5
  <1> DEFINE x == n + (2 * h) * d
  <1>7. x \in Int /\ q + 2 * h \in Int /\ (q + 2 * h) * d <= x /\ x < (q + 2 * h) * d + d
    BY <1>3, <1>5, <1>6
  <1> HIDE DEF x
  <1>8. x \div d = q + 2 * h
    BY <1>3, <1>7, QuotientIs
  <1>9. (q + 2 * h) % 2 = q % 2
    BY <1>3, <1>5
  <1>10. QED
    BY <1>4, <1>8, <1>9 DEF IsBit, x, q, d

-----------------------------------------------------------------------------
(* A number and its word *)

LEMMA WordOfType ==
    ASSUME NEW n \in Int
    PROVE  /\ WordOf(n) \in Word
           /\ \A b \in Bit : b \in WordOf(n) <=> IsBit(n, b)
  BY DEF WordOf, Word, IsBit

LEMMA RemainderStep ==
    ASSUME NEW n \in Int, NEW k \in Nat
    PROVE  n % 2^(k + 1) = (n % 2^k) + (IF IsBit(n, k) THEN 2^k ELSE 0)
  <1> DEFINE d == 2^k
             q == n \div d
             rem == n % d
             p == q \div 2
             s == q % 2
  <1>1. d \in Nat \ {0} /\ 2^(k + 1) = 2 * d
    BY PowerType, PowerStep
  <1> HIDE DEF d
  <1>2. q \in Int /\ rem \in 0..(d - 1) /\ n = q * d + rem
    BY <1>1, QuotientRemainder
  <1>3. IsBit(n, k) <=> s = 1
    BY DEF IsBit, d
  <1> HIDE DEF q, rem
  <1>4. p \in Int /\ s \in {0, 1} /\ q = 2 * p + s
    BY <1>2
  <1> HIDE DEF p, s
  <1>5. q * d = p * (2 * d) + s * d /\ p * (2 * d) \in Int
    BY <1>1, <1>4
  <1>6. s * d = IF s = 1 THEN d ELSE 0
    BY <1>1, <1>4
  <1> DEFINE t == s * d + rem
  <1>7. t \in 0..(2 * d - 1) /\ n = p * (2 * d) + t /\ 2 * d \in Nat \ {0}
    BY <1>1, <1>2, <1>4, <1>5, <1>6
  <1> HIDE DEF t
  <1>8. n % (2 * d) = t
    BY <1>4, <1>7, Division
  <1>9. n % 2^(k + 1) = rem + (IF s = 1 THEN d ELSE 0)
    BY <1>1, <1>2, <1>6, <1>8 DEF t
  <1>10. QED
    BY <1>3, <1>9 DEF rem, d

LEMMA LowWordOf ==
    ASSUME NEW n \in Int, NEW j \in 0..W
    PROVE  Num[Low(WordOf(n), j)] = n % 2^j
  <1> DEFINE w == WordOf(n)
             T == {k \in 0..W : Num[Low(w, k)] = n % 2^k}
  <1>w. w \in Word /\ \A b \in Bit : b \in w <=> IsBit(n, b)
    BY WordOfType
  <1> HIDE DEF w
  <1>1. 0 \in T
    <2>1. Num[Low(w, 0)] = 0
      BY <1>w, LowEnds, NumEmpty
    <2>2. 0 \in 0..W
      BY WidthType
    <2>3. n % 2^0 = 0
      BY 2^0 = 1
    <2>4. QED
      BY <2>1, <2>2, <2>3
  <1>2. ASSUME NEW k \in 0..(W - 1), k \in T PROVE k + 1 \in T
    <2>1. k \in Bit /\ k \in Nat /\ k + 1 \in 0..W
      BY WidthType
    <2>2. Num[Low(w, k + 1)] = Num[Low(w, k)] + (IF k \in w THEN 2^k ELSE 0)
      BY <1>w, <2>1, LowStep
    <2>3. n % 2^(k + 1) = (n % 2^k) + (IF IsBit(n, k) THEN 2^k ELSE 0)
      BY <2>1, RemainderStep
    <2>4. k \in w <=> IsBit(n, k)
      BY <1>w, <2>1
    <2>5. Num[Low(w, k)] = n % 2^k
      BY <1>2
    <2>6. Num[Low(w, k + 1)] = n % 2^(k + 1)
      BY <2>2, <2>3, <2>4, <2>5
    <2>7. QED
      BY <2>1, <2>6
  <1> HIDE DEF T
  <1>3. 0..W \subseteq T
    <2>1. 0 \in Int /\ W \in Int
      BY WidthType
    <2>2. QED
      BY <1>1, <1>2, <2>1, IntervalInduction
  <1>4. QED
    BY <1>3 DEF T, w

LEMMA NumWordOf ==
    ASSUME NEW n \in Int
    PROVE  Num[WordOf(n)] = n % 2^W
  <1>1. WordOf(n) \in Word /\ W \in 0..W
    BY WordOfType, WidthType
  <1>2. QED
    BY <1>1, LowWordOf, LowEnds

(* The least number that does not fit a signed word. *)
Half == 2^(W - 1)

LEMMA HalfIs == Half \in Nat /\ Half >= 128 /\ 2^W = 2 * Half /\ W - 1 \in Bit /\ W - 1 \in Nat
  <1>1. W - 1 \in Nat /\ 7 \in Nat /\ 7 <= W - 1 /\ (W - 1) + 1 = W /\ W - 1 \in Bit
    BY WidthType
  <1>2. 2^(W - 1) \in Nat /\ 2^W = 2 * 2^(W - 1)
    BY <1>1, PowerStep
  <1>3. 2^7 <= 2^(W - 1)
    BY <1>1, PowerMonotonic
  <1>4. 2^7 = 128
    OBVIOUS
  <1>5. QED
    BY <1>1, <1>2, <1>3, <1>4 DEF Half

(* Arithmetic modulo 2^W, near the numbers of words. *)
LEMMA WrapIs ==
    ASSUME NEW n \in Int
    PROVE  /\ 0 <= n /\ n < 2 * Half => n % 2^W = n
           /\ 2 * Half <= n /\ n < 4 * Half => n % 2^W = n - 2 * Half
           /\ -2 * Half <= n /\ n < 0 => n % 2^W = n + 2 * Half
  <1>1. 2 * Half \in Nat \ {0} /\ Half \in Int /\ 2^W = 2 * Half
    BY HalfIs
  <1>2. ASSUME NEW q \in Int, q * (2 * Half) <= n, n < q * (2 * Half) + 2 * Half
        PROVE  n % 2^W = n - q * (2 * Half)
    BY <1>1, <1>2, QuotientIs
  <1>3. ASSUME 0 <= n, n < 2 * Half PROVE n % 2^W = n
    BY <1>1, <1>2, <1>3, 0 * (2 * Half) = 0
  <1>4. ASSUME 2 * Half <= n, n < 4 * Half PROVE n % 2^W = n - 2 * Half
    BY <1>1, <1>2, <1>4, 1 * (2 * Half) = 2 * Half
  <1>5. ASSUME -2 * Half <= n, n < 0 PROVE n % 2^W = n + 2 * Half
    <2>1. -1 \in Int /\ (-1) * (2 * Half) = -2 * Half
      BY <1>1
    <2>2. n % 2^W = n - (-1) * (2 * Half)
      BY <1>1, <1>2, <1>5, <2>1
    <2>3. QED
      BY <1>1, <2>1, <2>2
  <1>6. QED
    BY <1>3, <1>4, <1>5

LEMMA WordNumber ==
    ASSUME NEW w \in Word
    PROVE  /\ Num[w] \in Int /\ 0 <= Num[w] /\ Num[w] < 2 * Half
           /\ WordOf(Num[w]) = w
           /\ \A b \in Bit : b \in w <=> IsBit(Num[w], b)
  <1>1. Num[w] \in Int /\ 0 <= Num[w] /\ Num[w] < 2 * Half
    BY NumRange, HalfIs
  <1>2. Num[WordOf(Num[w])] = Num[w]
    BY <1>1, NumWordOf, WrapIs
  <1>3. WordOf(Num[w]) = w
    BY <1>1, <1>2, WordOfType, NumInjective
  <1>4. QED
    BY <1>1, <1>3, WordOfType

(* The low bits of a word are its number's remainder. *)
LEMMA LowIs ==
    ASSUME NEW w \in Word, NEW k \in 0..W
    PROVE  Low(w, k) \in Word /\ Num[Low(w, k)] = Num[w] % 2^k
  <1>1. Low(w, k) \in Word
    BY DEF Low, Word
  <1>2. Num[w] \in Int /\ WordOf(Num[w]) = w
    BY WordNumber
  <1>3. QED
    BY <1>1, <1>2, LowWordOf

LEMMA SignedIs ==
    ASSUME NEW w \in Word
    PROVE  /\ W - 1 \in w <=> Num[w] >= Half
           /\ Signed(w) = IF Num[w] >= Half THEN Num[w] - 2 * Half ELSE Num[w]
           /\ Signed(w) \in Int /\ -Half <= Signed(w) /\ Signed(w) < Half
           /\ W - 1 \in w <=> Signed(w) < 0
  <1>1. Num[w] = Num[Low(w, W - 1)] + (IF W - 1 \in w THEN Half ELSE 0)
    <2>1. Low(w, (W - 1) + 1) = w
      BY LowEnds, WidthType
    <2>2. QED
      BY <2>1, HalfIs, LowStep DEF Half
  <1>2. Num[Low(w, W - 1)] \in 0..(Half - 1)
    <2>1. W - 1 \in 0..W
      BY WidthType
    <2>2. QED
      BY <2>1, LowRange DEF Half
  <1>3. W - 1 \in w <=> Num[w] >= Half
    BY <1>1, <1>2, HalfIs
  <1>4. Num[w] \in Int /\ 0 <= Num[w] /\ Num[w] < 2 * Half /\ Half \in Nat /\ 2^W = 2 * Half
    BY WordNumber, HalfIs
  <1>5. Signed(w) = IF Num[w] >= Half THEN Num[w] - 2 * Half ELSE Num[w]
    BY <1>3, <1>4 DEF Signed
  <1>6. QED
    BY <1>3, <1>4, <1>5

LEMMA SignedWordOf ==
    ASSUME NEW n \in Int, -Half <= n, n < Half
    PROVE  Signed(WordOf(n)) = n
  <1>1. WordOf(n) \in Word /\ Num[WordOf(n)] = n % 2^W /\ Half \in Nat
    BY WordOfType, NumWordOf, HalfIs
  <1>2. Num[WordOf(n)] = IF n < 0 THEN n + 2 * Half ELSE n
    BY <1>1, WrapIs
  <1>3. QED
    BY <1>1, <1>2, SignedIs

(* Equal numbers modulo 2^W have the same word. *)
LEMMA WordOfSame ==
    ASSUME NEW n \in Int, NEW m \in Int, n % 2^W = m % 2^W
    PROVE  WordOf(n) = WordOf(m)
  BY WordOfType, NumWordOf, NumInjective

LEMMA WordOfSigned ==
    ASSUME NEW w \in Word
    PROVE  WordOf(Signed(w)) = w
  <1>1. /\ Signed(w) = IF Num[w] >= Half THEN Num[w] - 2 * Half ELSE Num[w]
        /\ Num[w] \in Int /\ 0 <= Num[w] /\ Num[w] < 2 * Half /\ Half \in Nat
    BY SignedIs, WordNumber, HalfIs
  <1>2. Signed(w) % 2^W = Num[w]
    BY <1>1, WrapIs
  <1>3. Num[w] % 2^W = Num[w]
    BY <1>1, WrapIs
  <1>4. WordOf(Signed(w)) = WordOf(Num[w])
    BY <1>1, <1>2, <1>3, WordOfSame
  <1>5. QED
    BY <1>4, WordNumber

-----------------------------------------------------------------------------
(* The operators of C *)

LEMMA ConstantWords ==
    /\ {} \in Word /\ One \in Word /\ Bit \in Word
    /\ Num[{}] = 0 /\ Num[One] = 1 /\ Num[Bit] = 2 * Half - 1
    /\ \A c \in BOOLEAN : Bool(c) \in Word
  <1>1. {} \in Word /\ One \in Word /\ Bit \in Word /\ 0 \in Bit
    BY WidthType DEF Word, One
  <1>2. Num[One] = 1
    <2>1. {} \cup {0} = One /\ 0 \notin {}
      BY DEF One
    <2>2. Num[{} \cup {0}] = Num[{}] + 2^0
      BY <1>1, NumBit
    <2>3. 2^0 = 1
      OBVIOUS
    <2>4. QED
      BY <2>1, <2>2, <2>3, NumEmpty
  <1>3. Num[Bit] = 2 * Half - 1
    <2> DEFINE n == 2 * Half - 1
    <2>1. n \in Int /\ 0 <= n /\ n < 2 * Half /\ -1 \in Int /\ -2 * Half <= -1 /\ -1 < 0
          /\ -1 + 2 * Half = n
      BY HalfIs
    <2>2. \A b \in Bit : IsBit(-1, b)
      <3>1. ASSUME NEW b \in Bit PROVE IsBit(-1, b)
        <4>1. b \in Nat /\ 2^b \in Nat \ {0}
          BY WidthType, PowerType
        <4>2. ~IsBit(0, b)
          <5>1. 0 \in Int /\ 0 * 2^b <= 0 /\ 0 < 0 * 2^b + 2^b
            BY <4>1
          <5>2. 0 \div 2^b = 0
            BY <4>1, <5>1, QuotientIs
          <5>3. QED
            BY <5>2 DEF IsBit
        <4>3. -0 - 1 = -1 /\ 0 \in Int
          OBVIOUS
        <4>4. IsBit(-0 - 1, b)
          BY <4>1, <4>2, <4>3, BitOfComplement
        <4>5. QED
          BY <4>3, <4>4
      <3>2. QED
        BY <3>1
    <2>3. WordOf(-1) = Bit
      BY <2>1, <2>2, WordOfType DEF Word
    <2>4. Num[WordOf(-1)] = -1 % 2^W
      BY <2>1, NumWordOf
    <2>5. -1 % 2^W = n
      BY <2>1, WrapIs
    <2>6. QED
      BY <2>3, <2>4, <2>5
  <1>4. QED
    BY <1>1, <1>2, <1>3, NumEmpty DEF Bool

LEMMA UnionIs ==
    ASSUME NEW v \in Word, NEW w \in Word, v \cap w = {}
    PROVE  v \cup w \in Word /\ Num[v \cup w] = Num[v] + Num[w]
  <1> DEFINE u == v \cup w
             T == {k \in 0..W : Num[Low(u, k)] = Num[Low(v, k)] + Num[Low(w, k)]}
  <1>u. u \in Word /\ \A b : b \in u <=> b \in v \/ b \in w
    BY DEF Word
  <1>d. \A b : ~(b \in v /\ b \in w)
    OBVIOUS
  <1> HIDE DEF u
  <1>1. 0 \in T
    <2>1. Num[Low(u, 0)] = 0 /\ Num[Low(v, 0)] = 0 /\ Num[Low(w, 0)] = 0
      BY <1>u, LowEnds, NumEmpty
    <2>2. 0 \in 0..W
      BY WidthType
    <2>3. QED
      BY <2>1, <2>2
  <1>2. ASSUME NEW k \in 0..(W - 1), k \in T PROVE k + 1 \in T
    <2>1. k \in Bit /\ k \in Nat /\ k + 1 \in 0..W /\ 2^k \in Int
      BY WidthType, PowerType
    <2>2. /\ Num[Low(u, k + 1)] = Num[Low(u, k)] + (IF k \in u THEN 2^k ELSE 0)
          /\ Num[Low(v, k + 1)] = Num[Low(v, k)] + (IF k \in v THEN 2^k ELSE 0)
          /\ Num[Low(w, k + 1)] = Num[Low(w, k)] + (IF k \in w THEN 2^k ELSE 0)
          /\ Num[Low(v, k)] \in Int /\ Num[Low(w, k)] \in Int
      BY <1>u, <2>1, LowStep
    <2>3. Num[Low(u, k)] = Num[Low(v, k)] + Num[Low(w, k)]
      BY <1>2
    <2>4. Num[Low(u, k + 1)] = Num[Low(v, k + 1)] + Num[Low(w, k + 1)]
      <3>1. (k \in u <=> k \in v \/ k \in w) /\ ~(k \in v /\ k \in w)
        BY <1>u, <1>d
      <3>2. QED
        BY <2>1, <2>2, <2>3, <3>1
    <2>5. QED
      BY <2>1, <2>4
  <1> HIDE DEF T
  <1>3. 0..W \subseteq T
    <2>1. 0 \in Int /\ W \in Int
      BY WidthType
    <2>2. QED
      BY <1>1, <1>2, <2>1, IntervalInduction
  <1>4. W \in T
    BY <1>3, WidthType
  <1>5. Num[Low(u, W)] = Num[Low(v, W)] + Num[Low(w, W)]
    BY <1>4 DEF T
  <1>6. Num[u] = Num[v] + Num[w]
    BY <1>5, <1>u, LowEnds
  <1>7. QED
    BY <1>6, <1>u DEF u

LEMMA NotIs ==
    ASSUME NEW x \in Word
    PROVE  Not(x) \in Word /\ Num[Not(x)] = 2 * Half - 1 - Num[x]
  <1>1. Not(x) \in Word /\ x \cap Not(x) = {} /\ x \cup Not(x) = Bit
    BY DEF Not, Word
  <1>2. Num[x \cup Not(x)] = Num[x] + Num[Not(x)] /\ Num[x] \in Int /\ Num[Not(x)] \in Int
    BY <1>1, UnionIs, WordNumber
  <1>3. Num[Bit] = 2 * Half - 1 /\ Half \in Int
    BY ConstantWords, HalfIs
  <1>4. Num[x] + Num[Not(x)] = 2 * Half - 1
    BY <1>1, <1>2, <1>3
  <1>5. \A a, b, c \in Int : a + b = c => b = c - a
    OBVIOUS
  <1>6. QED
    BY <1>1, <1>2, <1>3, <1>4, <1>5

LEMMA AddIs ==
    ASSUME NEW x \in Word, NEW y \in Word
    PROVE  /\ Add(x, y) \in Word
           /\ Num[Add(x, y)] = IF Num[x] + Num[y] < 2 * Half THEN Num[x] + Num[y]
                               ELSE Num[x] + Num[y] - 2 * Half
  <1> DEFINE n == Num[x] + Num[y]
  <1>1. n \in Int /\ 0 <= n /\ n < 4 * Half /\ Half \in Nat
    BY WordNumber, HalfIs
  <1>2. Add(x, y) = WordOf(n)
    BY DEF Add
  <1> HIDE DEF n
  <1>3. Num[WordOf(n)] = n % 2^W /\ WordOf(n) \in Word
    BY <1>1, NumWordOf, WordOfType
  <1>4. n % 2^W = IF n < 2 * Half THEN n ELSE n - 2 * Half
    BY <1>1, WrapIs
  <1>5. Num[Add(x, y)] = IF n < 2 * Half THEN n ELSE n - 2 * Half
    BY <1>2, <1>3, <1>4
  <1>6. Add(x, y) \in Word
    BY <1>2, <1>3
  <1>7. n = Num[x] + Num[y] /\ Num[x] \in Int /\ Num[y] \in Int
    BY WordNumber DEF n
  <1>8. QED
    BY <1>1, <1>5, <1>6, <1>7

LEMMA AddDisjoint ==
    ASSUME NEW x \in Word, NEW y \in Word, x \cap y = {}
    PROVE  Add(x, y) = x \cup y
  <1>1. x \cup y \in Word /\ Num[x \cup y] = Num[x] + Num[y]
    BY UnionIs
  <1>2. QED
    BY <1>1, WordNumber DEF Add

LEMMA BitAbove ==
    ASSUME NEW n \in Int, NEW k \in Nat, -2^k <= n, n < 2^k
    PROVE  IsBit(n, k) <=> n < 0
  <1> DEFINE d == 2^k
  <1>1. d \in Nat \ {0}
    BY PowerType
  <1> HIDE DEF d
  <1>2. -d <= n /\ n < d
    BY DEF d
  <1>3. CASE n >= 0
    <2>1. 0 * d <= n /\ n < 0 * d + d
      BY <1>1, <1>2, <1>3
    <2>2. n \div d = 0
      BY <1>1, <2>1, QuotientIs
    <2>3. QED
      BY <1>3, <2>2 DEF IsBit, d
  <1>4. CASE n < 0
    <2>1. -1 \in Int /\ (-1) * d <= n /\ n < (-1) * d + d
      BY <1>1, <1>2, <1>4
    <2>2. n \div d = -1
      BY <1>1, <2>1, QuotientIs
    <2>3. QED
      BY <1>4, <2>2 DEF IsBit, d
  <1>5. QED
    BY <1>3, <1>4

(* The bits of a word's numbers at every place. *)
LEMMA NumBits ==
    ASSUME NEW w \in Word, NEW k \in Nat
    PROVE  k \in w <=> IsBit(Num[w], k)
  <1>1. CASE k \in Bit
    BY <1>1, WordNumber
  <1>2. CASE k \notin Bit
    <2>1. W \in Nat /\ W <= k /\ k \notin w
      BY <1>2, WidthType DEF Word
    <2>2. 2^W <= 2^k /\ 2^W = 2 * Half /\ Half \in Int /\ 2^k \in Nat
      BY <2>1, PowerMonotonic, HalfIs, PowerType
    <2>3. Num[w] \in Int /\ 0 <= Num[w] /\ Num[w] < 2 * Half
      BY WordNumber
    <2>4. -2^k <= Num[w] /\ Num[w] < 2^k
      BY <2>2, <2>3
    <2>5. ~IsBit(Num[w], k)
      BY <2>3, <2>4, BitAbove
    <2>6. QED
      BY <2>1, <2>5
  <1>3. QED
    BY <1>1, <1>2

LEMMA SignedBits ==
    ASSUME NEW w \in Word, NEW k \in Nat
    PROVE  IsBit(Signed(w), k) <=> k \in w \/ (k >= W /\ W - 1 \in w)
  <1>0. /\ Signed(w) = IF Num[w] >= Half THEN Num[w] - 2 * Half ELSE Num[w]
        /\ Num[w] \in Int /\ Half \in Nat /\ 2^W = 2 * Half
        /\ Signed(w) \in Int /\ -Half <= Signed(w) /\ Signed(w) < Half
        /\ (W - 1 \in w <=> Signed(w) < 0) /\ W \in Nat
    BY SignedIs, WordNumber, HalfIs, WidthType
  <1>1. CASE k \in Bit
    <2>1. k \in 0..(W - 1) /\ ~(k >= W)
      BY <1>0, <1>1 DEF Bit
    <2>2. \A m \in Int : IsBit(Num[w] + m * 2^W, k) <=> IsBit(Num[w], k)
      BY <1>0, <2>1, BitOfSum
    <2>3. Num[w] + (-1) * 2^W = Num[w] - 2 * Half /\ -1 \in Int
      BY <1>0
    <2>4. IsBit(Num[w] - 2 * Half, k) <=> IsBit(Num[w], k)
      BY <2>2, <2>3
    <2>5. IsBit(Signed(w), k) <=> IsBit(Num[w], k)
      BY <1>0, <2>4
    <2>6. QED
      BY <2>1, <2>5, NumBits
  <1>2. CASE k \notin Bit
    <2>1. W <= k /\ k \notin w
      BY <1>0, <1>2 DEF Word, Bit
    <2>2. 2^W <= 2^k /\ 2^k \in Nat
      BY <1>0, <2>1, PowerMonotonic, PowerType
    <2>3. -2^k <= Signed(w) /\ Signed(w) < 2^k
      BY <1>0, <2>2
    <2>4. IsBit(Signed(w), k) <=> Signed(w) < 0
      BY <1>0, <2>3, BitAbove
    <2>5. QED
      BY <1>0, <2>1, <2>4
  <1>3. QED
    BY <1>1, <1>2

(* Shifts are multiplications and floored divisions. *)
LEMMA ShlIs ==
    ASSUME NEW x \in Word, NEW n \in Nat
    PROVE  Shl(x, n) \in Word /\ Shl(x, n) = WordOf(Num[x] * 2^n)
  <1>1. Num[x] \in Int /\ 2^n \in Nat /\ Num[x] * 2^n \in Int
    BY WordNumber, PowerType
  <1>2. Shl(x, n) \in Word /\ WordOf(Num[x] * 2^n) \in Word
    BY <1>1, WordOfType DEF Shl, Word
  <1>3. ASSUME NEW b \in Bit PROVE b \in Shl(x, n) <=> b \in WordOf(Num[x] * 2^n)
    <2>1. b \in Nat
      BY WidthType
    <2>2. b \in WordOf(Num[x] * 2^n) <=> b >= n /\ IsBit(Num[x], b - n)
      BY <1>1, <2>1, WordOfType, BitOfProduct
    <2>3. b \in Shl(x, n) <=> b >= n /\ b - n \in x
      BY <2>1, WidthType DEF Shl, Word
    <2>4. b >= n => b - n \in Nat
      BY <2>1
    <2>5. b >= n => (b - n \in x <=> IsBit(Num[x], b - n))
      BY <2>4, NumBits
    <2>6. QED
      BY <2>2, <2>3, <2>5
  <1>4. QED
    BY <1>2, <1>3 DEF Word

LEMMA ShrIs ==
    ASSUME NEW x \in Word, NEW n \in Nat
    PROVE  /\ Shr(x, n) \in Word /\ Shr(x, n) = WordOf(Num[x] \div 2^n)
           /\ Num[Shr(x, n)] = Num[x] \div 2^n
  <1>1. Num[x] \in Int /\ Num[x] \div 2^n \in Int
    BY WordNumber, QuotientType
  <1>2. Shr(x, n) \in Word /\ WordOf(Num[x] \div 2^n) \in Word
    BY <1>1, WordOfType DEF Shr, Word
  <1>3. ASSUME NEW b \in Bit PROVE b \in Shr(x, n) <=> b \in WordOf(Num[x] \div 2^n)
    <2>1. b \in Nat /\ b + n \in Nat
      BY WidthType
    <2>2. b \in WordOf(Num[x] \div 2^n) <=> IsBit(Num[x], b + n)
      BY <1>1, <2>1, WordOfType, BitOfQuotient
    <2>3. b \in Shr(x, n) <=> b + n \in x
      BY DEF Shr
    <2>4. QED
      BY <2>1, <2>2, <2>3, NumBits
  <1>4. Shr(x, n) = WordOf(Num[x] \div 2^n)
    BY <1>2, <1>3 DEF Word
  <1> DEFINE d == 2^n
             q == Num[x] \div d
  <1>5. d \in Nat \ {0}
    BY PowerType
  <1> HIDE DEF d
  <1>6. q \in Int /\ q * d <= Num[x] /\ Num[x] < q * d + d
    BY <1>1, <1>5, QuotientBounds
  <1> HIDE DEF q
  <1>7. 0 <= q /\ q < 2 * Half
    <2>1. 0 <= Num[x] /\ Num[x] < 2 * Half /\ Half \in Nat
      BY WordNumber, HalfIs
    <2>2. q >= 0
      <3>1. ASSUME q <= -1 PROVE FALSE
        <4>1. q * d <= -d
          BY <1>5, <1>6, <3>1
        <4>2. q * d \in Int
          BY <1>5, <1>6
        <4>3. QED
          BY <1>1, <1>5, <1>6, <2>1, <4>1, <4>2
      <3>2. QED
        BY <1>6, <3>1
    <2>3. q <= q * d
      BY <1>5, <1>6, <2>2
    <2>4. q * d \in Int
      BY <1>5, <1>6
    <2>5. QED
      BY <1>1, <1>6, <2>1, <2>2, <2>3, <2>4
  <1>8. Num[WordOf(q)] = q
    BY <1>6, <1>7, NumWordOf, WrapIs
  <1>9. QED
    BY <1>2, <1>4, <1>8 DEF q, d

LEMMA SarIs ==
    ASSUME NEW x \in Word, NEW n \in Nat
    PROVE  Sar(x, n) \in Word /\ Sar(x, n) = WordOf(Signed(x) \div 2^n)
  <1>1. Signed(x) \in Int /\ Signed(x) \div 2^n \in Int
    BY SignedIs, QuotientType
  <1>2. Sar(x, n) \in Word /\ WordOf(Signed(x) \div 2^n) \in Word
    BY <1>1, WordOfType DEF Sar, Word
  <1>3. ASSUME NEW b \in Bit PROVE b \in Sar(x, n) <=> b \in WordOf(Signed(x) \div 2^n)
    <2>1. b \in Nat /\ b + n \in Nat
      BY WidthType
    <2>2. b \in WordOf(Signed(x) \div 2^n) <=> IsBit(Signed(x), b + n)
      BY <1>1, <2>1, WordOfType, BitOfQuotient
    <2>3. b \in Sar(x, n) <=> b + n \in x \/ (b + n >= W /\ W - 1 \in x)
      BY DEF Sar
    <2>4. QED
      BY <2>1, <2>2, <2>3, SignedBits
  <1>4. QED
    BY <1>2, <1>3 DEF Word

-----------------------------------------------------------------------------
(* The integer puzzles *)

(* A word is empty exactly when its number is 0. *)
LEMMA ZeroIs ==
    ASSUME NEW x \in Word
    PROVE  x = {} <=> Num[x] = 0
  BY ConstantWords, NumInjective

LEMMA LnotIs ==
    ASSUME NEW x
    PROVE  Lnot(x) = (IF x = {} THEN One ELSE {}) /\ Lnot(x) \in Word
  BY ConstantWords DEF Lnot, Bool

LEMMA OneIs == One # {} /\ One \cap One = One
  BY DEF One

LEMMA BitXorRight ==
    ASSUME NEW x \in Word, NEW y \in Word
    PROVE  bitXor(x, y) = Xor(x, y)
  <1>1. x \subseteq Bit /\ y \subseteq Bit
    BY DEF Word
  <1>2. QED
    BY <1>1 DEF bitXor, Xor, Not

LEMMA TminRight == tmin = {W - 1}
  <1>1. W - 1 \in Bit /\ W - 1 \in Int
    BY HalfIs
  <1>2. {b + (W - 1) : b \in {0}} = {W - 1}
    BY <1>1
  <1>3. QED
    BY <1>1, <1>2 DEF tmin, Shl, One

LEMMA TmaxIs == Tmax \in Word /\ Num[Tmax] = Half - 1
  <1>1. Tmax \in Word /\ W - 1 \in Bit /\ W - 1 \notin Tmax /\ Tmax \cup {W - 1} = Bit
    BY HalfIs DEF Tmax, Word
  <1>2. Num[Bit] = Num[Tmax] + 2^(W - 1)
    BY <1>1, NumBit
  <1>3. Num[Bit] = 2 * Half - 1 /\ Half \in Int /\ Num[Tmax] \in Int
    BY <1>1, ConstantWords, HalfIs, WordNumber
  <1>4. QED
    BY <1>1, <1>2, <1>3 DEF Half

LEMMA IsTmaxRight ==
    ASSUME NEW x \in Word
    PROVE  isTmax(x) = Bool(x = Tmax)
  <1> DEFINE n == Num[x]
             a == Add(x, One)
             s == Sum(x, One, x, One)
  <1>1. n \in Int /\ 0 <= n /\ n < 2 * Half /\ Half \in Int /\ Half >= 128
    BY WordNumber, HalfIs
  <1>2. One \in Word /\ Num[One] = 1
    BY ConstantWords
  <1>3. a \in Word /\ Num[a] = IF n + 1 < 2 * Half THEN n + 1 ELSE n + 1 - 2 * Half
    BY <1>2, AddIs
  <1> HIDE DEF a
  <1>4. /\ Add(a, x) \in Word
        /\ Num[Add(a, x)] = IF Num[a] + n < 2 * Half THEN Num[a] + n ELSE Num[a] + n - 2 * Half
    BY <1>3, AddIs
  <1> DEFINE t == Add(a, x)
  <1>5. t \in Word /\ Num[t] = IF Num[a] + n < 2 * Half THEN Num[a] + n ELSE Num[a] + n - 2 * Half
    BY <1>4
  <1> HIDE DEF t
  <1>6. /\ Add(t, One) \in Word
        /\ Num[Add(t, One)] = IF Num[t] + 1 < 2 * Half THEN Num[t] + 1 ELSE Num[t] + 1 - 2 * Half
    BY <1>2, <1>5, AddIs
  <1>7. s = Add(t, One)
    BY DEF s, t, a, Sum
  <1> HIDE DEF s, n
  <1>8. s = {} <=> Num[t] + 1 = 2 * Half \/ Num[t] + 1 = 0
    BY <1>1, <1>5, <1>6, <1>7, ZeroIs, WordNumber
  <1>9. a = {} <=> n = 2 * Half - 1
    BY <1>1, <1>3, ZeroIs
  <1>10. s = {} /\ a # {} <=> n = Half - 1
    <2>1. Num[t] \in Int /\ 0 <= Num[t] /\ Num[a] \in Int
      BY <1>3, <1>5, WordNumber
    <2>2. CASE n = 2 * Half - 1
      BY <1>1, <1>9, <2>2
    <2>3. CASE n # 2 * Half - 1
      <3>1. Num[a] = n + 1
        BY <1>1, <1>3, <2>3
      <3>2. Num[t] = IF 2 * n + 1 < 2 * Half THEN 2 * n + 1 ELSE 2 * n + 1 - 2 * Half
        BY <1>1, <1>5, <3>1
      <3>3. QED
        BY <1>1, <1>8, <1>9, <2>1, <2>3, <3>2
    <2>4. QED
      BY <2>2, <2>3
  <1>11. x = Tmax <=> n = Half - 1
    BY TmaxIs, NumInjective DEF n
  <1>12. isTmax(x) = Lnot(s) \cap Lnot(Lnot(a))
    BY DEF isTmax, s, a
  <1>13. Lnot(s) \cap Lnot(Lnot(a)) = IF s = {} /\ a # {} THEN One ELSE {}
    BY LnotIs, OneIs
  <1>14. QED
    BY <1>10, <1>11, <1>12, <1>13 DEF Bool

LEMMA NegateIs ==
    ASSUME NEW x \in Word
    PROVE  /\ negate(x) \in Word
           /\ Num[negate(x)] = IF Num[x] = 0 THEN 0 ELSE 2 * Half - Num[x]
           /\ negate(x) = WordOf(-Signed(x)) /\ negate(x) = WordOf(-Num[x])
  <1> DEFINE n == Num[x]
             y == Not(x)
  <1>1. n \in Int /\ 0 <= n /\ n < 2 * Half /\ Half \in Int /\ Half >= 128
    BY WordNumber, HalfIs
  <1>2. One \in Word /\ Num[One] = 1
    BY ConstantWords
  <1>3. y \in Word /\ Num[y] = 2 * Half - 1 - n
    BY NotIs
  <1> HIDE DEF n, y
  <1>4. /\ Add(y, One) \in Word
        /\ Num[Add(y, One)] = IF Num[y] + 1 < 2 * Half THEN Num[y] + 1 ELSE Num[y] + 1 - 2 * Half
    BY <1>2, <1>3, AddIs
  <1>5. negate(x) \in Word /\ Num[negate(x)] = IF n = 0 THEN 0 ELSE 2 * Half - n
    BY <1>1, <1>3, <1>4 DEF negate, y
  <1>6. negate(x) = WordOf(IF n = 0 THEN 0 ELSE 2 * Half - n)
    BY <1>5, WordNumber
  <1>7. (-n) % 2^W = IF n = 0 THEN 0 ELSE 2 * Half - n
    BY <1>1, WrapIs
  <1>8. (IF n = 0 THEN 0 ELSE 2 * Half - n) % 2^W = IF n = 0 THEN 0 ELSE 2 * Half - n
    BY <1>1, WrapIs
  <1>9. Signed(x) \in Int /\ (-Signed(x)) % 2^W = IF n = 0 THEN 0 ELSE 2 * Half - n
    <2>1. Signed(x) = IF n >= Half THEN n - 2 * Half ELSE n
      BY SignedIs DEF n
    <2>2. QED
      BY <1>1, <2>1, WrapIs
  <1>10. negate(x) = WordOf(-Signed(x)) /\ negate(x) = WordOf(-n)
    BY <1>1, <1>6, <1>7, <1>8, <1>9, WordOfSame
  <1>11. QED
    BY <1>5, <1>10 DEF n

LEMMA XorEmpty ==
    ASSUME NEW x, NEW y
    PROVE  Xor(x, y) = {} <=> x = y
  BY DEF Xor

(* The width is a multiple of 8. *)
LEMMA WidthFactor == \E k \in Nat : W = 8 * k /\ k >= 1
  <1> DEFINE l == Len(Halves)
  <1>1. l \in Nat /\ W = 2^l /\ W >= 8
    BY BitsAssumption
  <1> HIDE DEF l
  <1>2. l >= 3
    <2> SUFFICES ASSUME l <= 2 PROVE FALSE
      BY <1>1
    <2>1. 2 \in Nat /\ l \in Nat /\ l <= 2
      BY <1>1
    <2>2. 2^l <= 2^2
      BY <2>1, PowerMonotonic
    <2>3. 2^2 = 4
      OBVIOUS
    <2>4. QED
      BY <1>1, <2>2, <2>3
  <1>3. l - 3 \in Nat /\ 3 + (l - 3) = l
    BY <1>1, <1>2
  <1>4. 2^(3 + (l - 3)) = 2^3 * 2^(l - 3)
    BY <1>3, 3 \in Nat, PowerSum
  <1>5. 2^3 = 8
    OBVIOUS
  <1>6. 2^(l - 3) \in Nat \ {0}
    BY <1>3, PowerType
  <1>7. W = 8 * 2^(l - 3)
    BY <1>1, <1>3, <1>4, <1>5
  <1>8. QED
    BY <1>6, <1>7

Odds(a, b) == {c \in a..(b - 1) : c % 2 = 1}

LEMMA OddShift ==
    ASSUME NEW h \in Nat, NEW k \in Nat, 2 * k + 2 * h <= W
    PROVE  Shl(Odds(0, 2 * h), 2 * k) = Odds(2 * k, 2 * k + 2 * h)
  <1>1. W \in Nat /\ Bit = 0..(W - 1)
    BY WidthType
  <1>2. \A b \in Int : (b + 2 * k) % 2 = b % 2
    OBVIOUS
  <1>3. ASSUME NEW c \in Shl(Odds(0, 2 * h), 2 * k) PROVE c \in Odds(2 * k, 2 * k + 2 * h)
    <2>1. PICK b \in Odds(0, 2 * h) : c = b + 2 * k
      BY DEF Shl
    <2>2. b \in 0..(2 * h - 1) /\ b % 2 = 1 /\ b \in Int
      BY DEF Odds
    <2>3. c \in (2 * k)..(2 * k + 2 * h - 1) /\ c % 2 = 1
      BY <1>2, <2>1, <2>2
    <2>4. QED
      BY <2>3 DEF Odds
  <1>4. ASSUME NEW c \in Odds(2 * k, 2 * k + 2 * h) PROVE c \in Shl(Odds(0, 2 * h), 2 * k)
    <2>1. c \in (2 * k)..(2 * k + 2 * h - 1) /\ c % 2 = 1 /\ c \in Int
      BY DEF Odds
    <2>2. c - 2 * k \in 0..(2 * h - 1) /\ c = (c - 2 * k) + 2 * k /\ c \in Bit
      BY <1>1, <2>1
    <2>3. (c - 2 * k) % 2 = 1
      BY <1>2, <2>1, <2>2
    <2>4. c - 2 * k \in Odds(0, 2 * h)
      BY <2>2, <2>3 DEF Odds
    <2>5. QED
      BY <2>2, <2>4 DEF Shl
  <1>5. QED
    BY <1>3, <1>4

LEMMA OddsApart ==
    ASSUME NEW a \in Int, NEW b \in Int, NEW c \in Int, a <= b, b <= c
    PROVE  Odds(a, b) \cap Odds(b, c) = {} /\ Odds(a, b) \cup Odds(b, c) = Odds(a, c)
  BY DEF Odds

LEMMA AllOddBitsRight ==
    ASSUME NEW x \in Word
    PROVE  allOddBits(x) = test_allOddBits(x)
  <1>1. PICK k \in Nat : W = 8 * k /\ k >= 1
    BY WidthFactor
  <1> DEFINE h == 2 * k
             O1 == Odds(0, h)
  <1>2. /\ W \div 4 = h /\ W \div 2 = 2 * h /\ (3 * W) \div 4 = 3 * h /\ W = 4 * h
        /\ h \in Nat /\ h = 2 * k
    BY <1>1
  <1> HIDE DEF h
  <1>3. /\ Shl(O1, h) = Odds(h, 2 * h) /\ Shl(O1, 2 * h) = Odds(2 * h, 3 * h)
        /\ Shl(O1, 3 * h) = Odds(3 * h, 4 * h)
    <2>1. \A m \in Nat : 2 * m + 2 * k <= W => Shl(Odds(0, 2 * k), 2 * m) = Odds(2 * m, 2 * m + 2 * k)
      BY OddShift
    <2>2. /\ k \in Nat /\ 2 * k + 2 * k <= W /\ 2 * k \in Nat /\ 2 * (2 * k) + 2 * k <= W
          /\ 3 * k \in Nat /\ 2 * (3 * k) + 2 * k <= W
          /\ 2 * k = h /\ 2 * k + 2 * k = 2 * h /\ 2 * (2 * k) = 2 * h /\ 2 * (2 * k) + 2 * k = 3 * h
          /\ 2 * (3 * k) = 3 * h /\ 2 * (3 * k) + 2 * k = 4 * h
      BY <1>1, <1>2
    <2>3. Shl(Odds(0, 2 * k), 2 * k) = Odds(2 * k, 2 * k + 2 * k)
      BY <2>1, <2>2
    <2>4. Shl(Odds(0, 2 * k), 2 * (2 * k)) = Odds(2 * (2 * k), 2 * (2 * k) + 2 * k)
      BY <2>1, <2>2
    <2>5. Shl(Odds(0, 2 * k), 2 * (3 * k)) = Odds(2 * (3 * k), 2 * (3 * k) + 2 * k)
      BY <2>1, <2>2
    <2>6. QED
      BY <2>2, <2>3, <2>4, <2>5
  <1>4. \A a, b \in 0..W : Odds(a, b) \in Word
    BY WidthType DEF Odds, Word
  <1>5. 0 \in 0..W /\ h \in 0..W /\ 2 * h \in 0..W /\ 3 * h \in 0..W /\ 4 * h \in 0..W
    BY <1>2
  <1>o. /\ 0 \in Int /\ h \in Int /\ 2 * h \in Int /\ 3 * h \in Int /\ 4 * h \in Int
        /\ 0 <= h /\ 0 <= 2 * h /\ 0 <= 3 * h /\ h <= 2 * h /\ 2 * h <= 3 * h /\ 3 * h <= 4 * h
    BY <1>2
  <1>6. Add(O1, Odds(h, 2 * h)) = Odds(0, 2 * h)
    <2>1. O1 \cap Odds(h, 2 * h) = {} /\ O1 \cup Odds(h, 2 * h) = Odds(0, 2 * h)
      BY <1>o, OddsApart
    <2>2. QED
      BY <1>4, <1>5, <2>1, AddDisjoint
  <1>7. Add(Odds(0, 2 * h), Odds(2 * h, 3 * h)) = Odds(0, 3 * h)
    <2>1. /\ Odds(0, 2 * h) \cap Odds(2 * h, 3 * h) = {}
          /\ Odds(0, 2 * h) \cup Odds(2 * h, 3 * h) = Odds(0, 3 * h)
      BY <1>o, OddsApart
    <2>2. QED
      BY <1>4, <1>5, <2>1, AddDisjoint
  <1>8. Add(Odds(0, 3 * h), Odds(3 * h, 4 * h)) = Odds(0, 4 * h)
    <2>1. /\ Odds(0, 3 * h) \cap Odds(3 * h, 4 * h) = {}
          /\ Odds(0, 3 * h) \cup Odds(3 * h, 4 * h) = Odds(0, 4 * h)
      BY <1>o, OddsApart
    <2>2. QED
      BY <1>4, <1>5, <2>1, AddDisjoint
  <1> DEFINE mask == Odds(0, W)
  <1>9. Sum(O1, Shl(O1, h), Shl(O1, 2 * h), Shl(O1, 3 * h)) = mask
    BY <1>2, <1>3, <1>6, <1>7, <1>8 DEF Sum
  <1>10. {b \in 0..(h - 1) : b % 2 = 1} = O1
    BY DEF Odds
  <1>11. allOddBits(x) = Lnot(Xor(x \cap mask, mask))
    <2> HIDE DEF mask
    <2>1. QED
      BY <1>2, <1>9, <1>10 DEF allOddBits
  <1>12. x \cap mask = mask <=> \A i \in Bit : i % 2 = 1 => i \in x
    BY DEF Odds, Bit
  <1> HIDE DEF mask
  <1>13. QED
    BY <1>11, <1>12, XorEmpty, ZenonT(40) DEF Lnot, test_allOddBits

(* The words 2^k - 1 are masks of the low bits. *)
LEMMA MaskIs ==
    ASSUME NEW k \in 0..W
    PROVE  WordOf(2^k - 1) = 0..(k - 1) /\ 2^k - 1 \in Nat
  <1>1. k \in Nat /\ 2^k \in Nat \ {0} /\ W \in Nat /\ k <= W /\ Bit = 0..(W - 1)
    BY WidthType, PowerType
  <1>2. 2^k - 1 \in Int
    BY <1>1
  <1>3. ASSUME NEW b \in Bit PROVE IsBit(2^k - 1, b) <=> b < k
    <2>1. b \in Nat
      BY WidthType
    <2>2. CASE b < k
      <3>1. b \in 0..(k - 1) /\ -1 \in Int /\ 1 \in Int /\ k \in Nat
        BY <1>1, <2>1, <2>2
      <3>2. IsBit((-1) + 1 * 2^k, b) <=> IsBit(-1, b)
        BY <3>1, BitOfSum
      <3>3. (-1) + 1 * 2^k = 2^k - 1
        BY <1>1
      <3>4. IsBit(-1, b)
        <4>1. 0 \in Nat /\ 2^0 = 1 /\ -1 \in Int
          OBVIOUS
        <4>2. WordOf(-1) \in Word /\ \A c \in Bit : c \in WordOf(-1) <=> IsBit(-1, c)
          BY <4>1, WordOfType
        <4>3. Num[WordOf(-1)] = (-1) % 2^W /\ Half \in Int
          BY <4>1, NumWordOf, HalfIs
        <4>4. (-1) % 2^W = 2 * Half - 1
          <5>1. -2 * Half <= -1 /\ -1 < 0 /\ -1 + 2 * Half = 2 * Half - 1
            BY HalfIs
          <5>2. QED
            BY <4>1, <5>1, WrapIs
        <4>5. WordOf(-1) = Bit
          BY <4>2, <4>3, <4>4, ConstantWords, NumInjective
        <4>6. QED
          BY <4>2, <4>5
      <3>5. QED
        BY <2>2, <3>2, <3>3, <3>4
    <2>3. CASE ~(b < k)
      <3>1. 2^k <= 2^b /\ 2^b \in Nat
        BY <1>1, <2>1, <2>3, PowerMonotonic, PowerType
      <3>2. -2^b <= 2^k - 1 /\ 2^k - 1 < 2^b
        BY <1>1, <3>1
      <3>3. IsBit(2^k - 1, b) <=> 2^k - 1 < 0
        BY <1>2, <2>1, <3>2, BitAbove
      <3>4. QED
        BY <1>1, <2>3, <3>3
    <2>4. QED
      BY <2>2, <2>3
  <1>4. WordOf(2^k - 1) \in Word /\ \A b \in Bit : b \in WordOf(2^k - 1) <=> b < k
    BY <1>2, <1>3, WordOfType
  <1> DEFINE w == WordOf(2^k - 1)
  <1>5. w \subseteq Bit /\ \A b \in Bit : b \in w <=> b < k
    BY <1>4 DEF Word
  <1> HIDE DEF w
  <1>6. \A b : b \in 0..(k - 1) <=> b \in Bit /\ b < k
    BY <1>1
  <1>b. w = 0..(k - 1)
    BY <1>5, <1>6
  <1>7. 2^k - 1 \in Nat
    BY <1>1
  <1>8. QED
    BY <1>b, <1>7 DEF w

(* The sign bit, alone or in every place. *)
LEMMA SarSign ==
    ASSUME NEW x \in Word
    PROVE  /\ Sar(x, W - 1) = IF W - 1 \in x THEN Bit ELSE {}
           /\ SignBit(x) = IF W - 1 \in x THEN One ELSE {}
  <1>1. W \in Nat /\ W >= 8 /\ Bit = 0..(W - 1) /\ x \subseteq Bit
    BY WidthType DEF Word
  <1>2. \A b \in Bit : b + (W - 1) \in x \/ (b + (W - 1) >= W /\ W - 1 \in x) <=> W - 1 \in x
    BY <1>1
  <1>3. Sar(x, W - 1) = IF W - 1 \in x THEN Bit ELSE {}
    BY <1>2 DEF Sar
  <1>4. Bit \cap One = One /\ {} \cap One = {}
    BY <1>1 DEF One
  <1>5. QED
    BY <1>3, <1>4 DEF SignBit

LEMMA IsAsciiDigitRight ==
    ASSUME NEW x \in Word
    PROVE  isAsciiDigit(x) = test_isAsciiDigit(x)
  <1> DEFINE s  == Signed(x)
             ten == WordOf(10)
             low == x \cap WordOf(15)
             diff == Add(low, negate(ten))
  <1>1. /\ s = IF Num[x] >= Half THEN Num[x] - 2 * Half ELSE Num[x]
        /\ s \in Int /\ -Half <= s /\ s < Half
        /\ Num[x] \in Int /\ 0 <= Num[x] /\ Num[x] < 2 * Half /\ Half \in Nat /\ Half >= 128
    BY SignedIs, WordNumber, HalfIs
  <1>2. 2^4 = 16 /\ 4 \in Nat /\ 4 \in 0..W /\ 4 - 1 = 3
    BY WidthType
  <1>3. Sar(x, 4) = WordOf(s \div 16)
    BY <1>2, SarIs
  <1> HIDE DEF s
  <1>4. Sar(x, 4) = WordOf(3) <=> s \div 16 = 3
    <2> DEFINE t == s \div 16
    <2>1. t \in Int /\ -Half <= t /\ t < Half
      BY <1>1
    <2> HIDE DEF t
    <2>2. Signed(WordOf(t)) = t /\ Signed(WordOf(3)) = 3
      BY <1>1, <2>1, 3 \in Int /\ -Half <= 3 /\ 3 < Half, SignedWordOf
    <2>3. QED
      BY <1>3, <2>2 DEF t
  <1>5. low = Low(x, 4)
    <2>1. WordOf(2^4 - 1) = 0..(4 - 1)
      BY <1>2, MaskIs
    <2>2. QED
      BY <1>2, <2>1 DEF Low
  <1>6. low \in Word /\ Num[low] = Num[x] % 16
    BY <1>2, <1>5, LowIs
  <1>7. ten \in Word /\ Num[ten] = 10
    BY <1>1, WordOfType, NumWordOf, WrapIs, 10 \in Int
  <1>8. negate(ten) \in Word /\ Num[negate(ten)] = 2 * Half - 10
    BY <1>7, NegateIs
  <1> HIDE DEF low, ten
  <1> DEFINE l == Num[low]
  <1>9. l \in 0..15
    BY <1>1, <1>6
  <1>10. diff \in Word /\ Num[diff] = IF l + (2 * Half - 10) < 2 * Half THEN l + (2 * Half - 10)
                                      ELSE l + (2 * Half - 10) - 2 * Half
    BY <1>6, <1>8, AddIs
  <1> HIDE DEF l, diff
  <1>11. W - 1 \in diff <=> l < 10
    BY <1>1, <1>9, <1>10, SignedIs
  <1>12. isAsciiDigit(x) = Lnot(Xor(Sar(x, 4), WordOf(3))) \cap Sar(diff, W - 1)
    BY DEF isAsciiDigit, diff, low, ten, negate
  <1>13. isAsciiDigit(x) = IF s \div 16 = 3 /\ l < 10 THEN One ELSE {}
    <2>1. One \cap Bit = One
      BY WidthType DEF One
    <2>2. Lnot(Xor(Sar(x, 4), WordOf(3))) = IF s \div 16 = 3 THEN One ELSE {}
      BY <1>4, XorEmpty, LnotIs
    <2>3. Sar(diff, W - 1) = IF l < 10 THEN Bit ELSE {}
      BY <1>10, <1>11, SarSign
    <2>4. QED
      BY <1>12, <2>1, <2>2, <2>3
  <1>14. s \div 16 = 3 /\ l < 10 <=> 48 <= s /\ s <= 57
    <2>1. l = Num[x] % 16
      BY <1>6 DEF l
    <2>2. s \div 16 = 3 <=> 48 <= s /\ s <= 63
      BY <1>1
    <2>3. 48 <= s => s = Num[x]
      BY <1>1
    <2>4. 48 <= s /\ s <= 63 => (s % 16 < 10 <=> s <= 57)
      BY <1>1
    <2>5. QED
      BY <1>1, <2>1, <2>2, <2>3, <2>4
  <1>15. QED
    BY <1>13, <1>14 DEF test_isAsciiDigit, Bool, s

LEMMA ConditionalRight ==
    ASSUME NEW x \in Word, NEW y \in Word, NEW z \in Word
    PROVE  conditional(x, y, z) = test_conditional(x, y, z)
  <1>1. Half \in Int /\ Half >= 128
    BY HalfIs
  <1>2. negate(One) = Bit /\ negate({}) = {}
    <2>1. negate(One) \in Word /\ Num[negate(One)] = 2 * Half - 1
      BY ConstantWords, NegateIs
    <2>2. negate({}) \in Word /\ Num[negate({})] = 0
      BY ConstantWords, NegateIs
    <2>3. QED
      BY <2>1, <2>2, ConstantWords, NumInjective
  <1>3. Lnot(Lnot(x)) = IF x = {} THEN {} ELSE One
    BY OneIs DEF Lnot, Bool
  <1>4. y \subseteq Bit /\ z \subseteq Bit
    BY DEF Word
  <1>5. Bit \cap y = y /\ Not(Bit) \cap z = {} /\ {} \cap y = {} /\ Not({}) \cap z = z
    BY <1>4 DEF Not
  <1>6. CASE x = {}
    <2>1. conditional(x, y, z) = ({} \cap y) \cup (Not({}) \cap z)
      BY <1>2, <1>3, <1>6 DEF conditional
    <2>2. QED
      BY <1>5, <1>6, <2>1 DEF test_conditional
  <1>7. CASE x # {}
    <2>1. conditional(x, y, z) = (Bit \cap y) \cup (Not(Bit) \cap z)
      BY <1>2, <1>3, <1>7 DEF conditional
    <2>2. QED
      BY <1>5, <1>7, <2>1 DEF test_conditional
  <1>8. QED
    BY <1>6, <1>7

LEMMA IsLessOrEqualRight ==
    ASSUME NEW x \in Word, NEW y \in Word
    PROVE  isLessOrEqual(x, y) = Bool(Signed(x) <= Signed(y))
  <1> DEFINE m == Num[x]
             n == Num[y]
             d == Add(y, negate(x))
  <1>1. /\ m \in Int /\ 0 <= m /\ m < 2 * Half /\ n \in Int /\ 0 <= n /\ n < 2 * Half
        /\ Half \in Int /\ Half >= 128
    BY WordNumber, HalfIs
  <1>2. negate(x) \in Word /\ Num[negate(x)] = IF m = 0 THEN 0 ELSE 2 * Half - m
    BY NegateIs
  <1> DEFINE k == Num[negate(x)]
  <1>3. d \in Word /\ Num[d] = IF n + k < 2 * Half THEN n + k ELSE n + k - 2 * Half
    BY <1>2, AddIs
  <1>4. /\ Signed(x) = IF m >= Half THEN m - 2 * Half ELSE m
        /\ Signed(y) = IF n >= Half THEN n - 2 * Half ELSE n
        /\ (W - 1 \in x <=> m >= Half) /\ (W - 1 \in y <=> n >= Half)
        /\ (W - 1 \in d <=> Num[d] >= Half)
    BY <1>3, SignedIs
  <1>5. k = IF m = 0 THEN 0 ELSE 2 * Half - m
    BY <1>2
  <1> HIDE DEF m, n, d, k
  <1>6. SignBit(x) = IF m >= Half THEN One ELSE {}
    BY <1>4, SarSign
  <1>7. SignBit(y) = IF n >= Half THEN One ELSE {}
    BY <1>4, SarSign
  <1>8. SignBit(d) = IF Num[d] >= Half THEN One ELSE {}
    BY <1>3, <1>4, SarSign
  <1> DEFINE diff == Xor(SignBit(x), SignBit(y))
  <1>9. isLessOrEqual(x, y) = (diff \cap SignBit(x)) \cup (Lnot(diff) \cap Lnot(SignBit(d)))
    BY DEF isLessOrEqual, d
  <1>10. diff = IF m >= Half <=> n >= Half THEN {} ELSE One
    BY <1>6, <1>7, OneIs DEF Xor
  <1> HIDE DEF diff
  <1>11. CASE m >= Half /\ ~(n >= Half)
    <2>1. isLessOrEqual(x, y) = One
      BY <1>6, <1>9, <1>10, <1>11, OneIs DEF Lnot, Bool
    <2>2. Signed(x) <= Signed(y)
      BY <1>1, <1>4, <1>11
    <2>3. QED
      BY <2>1, <2>2 DEF Bool
  <1>12. CASE ~(m >= Half) /\ n >= Half
    <2>1. isLessOrEqual(x, y) = {}
      BY <1>6, <1>9, <1>10, <1>12, OneIs DEF Lnot, Bool
    <2>2. ~(Signed(x) <= Signed(y))
      BY <1>1, <1>4, <1>12
    <2>3. QED
      BY <2>1, <2>2 DEF Bool
  <1>13. CASE m >= Half <=> n >= Half
    <2>1. diff = {} /\ Lnot(diff) = One
      BY <1>10, <1>13 DEF Lnot, Bool
    <2>2. isLessOrEqual(x, y) = Lnot(SignBit(d))
      BY <1>9, <2>1 DEF Lnot, Bool
    <2>3. Num[d] >= Half <=> n < m
      BY <1>1, <1>3, <1>5, <1>13
    <2>4. Signed(x) <= Signed(y) <=> ~(n < m)
      BY <1>1, <1>4, <1>13
    <2>5. Lnot(SignBit(d)) = IF n < m THEN {} ELSE One
      BY <1>8, <2>3, OneIs DEF Lnot, Bool
    <2>6. QED
      BY <2>2, <2>4, <2>5 DEF Bool
  <1>14. QED
    BY <1>11, <1>12, <1>13

LEMMA LogicalNegRight ==
    ASSUME NEW x \in Word
    PROVE  logicalNeg(x) = Lnot(x)
  <1> DEFINE u == x \cup negate(x)
  <1>1. /\ Num[x] \in Int /\ 0 <= Num[x] /\ Num[x] < 2 * Half /\ Half \in Int /\ Half >= 128
        /\ (W - 1 \in x <=> Num[x] >= Half)
    BY WordNumber, HalfIs, SignedIs
  <1>2. negate(x) \in Word /\ Num[negate(x)] = IF Num[x] = 0 THEN 0 ELSE 2 * Half - Num[x]
    BY NegateIs
  <1>3. W - 1 \in negate(x) <=> Num[negate(x)] >= Half
    BY <1>2, SignedIs
  <1>4. u \in Word /\ (W - 1 \in u <=> W - 1 \in x \/ W - 1 \in negate(x))
    BY <1>2 DEF Word
  <1>5. W - 1 \in u <=> Num[x] # 0
    BY <1>1, <1>2, <1>3, <1>4
  <1>6. Sar(u, W - 1) = IF x = {} THEN {} ELSE Bit
    BY <1>4, <1>5, SarSign, ZeroIs
  <1>7. logicalNeg(x) = Add(Sar(u, W - 1), One)
    BY DEF logicalNeg
  <1> HIDE DEF u
  <1>8. Add({}, One) = One
    <2>1. {} \cap One = {} /\ {} \cup One = One
      OBVIOUS
    <2>2. QED
      BY <2>1, ConstantWords, AddDisjoint
  <1>9. Add(Bit, One) = {}
    <2>1. Add(Bit, One) \in Word /\ Num[Add(Bit, One)] = 0
      BY <1>1, ConstantWords, AddIs
    <2>2. QED
      BY <2>1, ZeroIs
  <1>10. QED
    BY <1>6, <1>7, <1>8, <1>9 DEF Lnot, Bool

-----------------------------------------------------------------------------
(* howManyBits: x without its sign, by halves. *)

Unsigned(x) == (Sar(x, W - 1) \cap Not(x)) \cup (Not(Sar(x, W - 1)) \cap x)

LEMMA UnsignedIs ==
    ASSUME NEW x \in Word
    PROVE  /\ Unsigned(x) \in Word /\ W - 1 \notin Unsigned(x)
           /\ Num[Unsigned(x)] = IF Signed(x) < 0 THEN -Signed(x) - 1 ELSE Signed(x)
           /\ Unsigned(x) = WordOf(IF Signed(x) < 0 THEN -Signed(x) - 1 ELSE Signed(x))
  <1>1. /\ Signed(x) = IF Num[x] >= Half THEN Num[x] - 2 * Half ELSE Num[x]
        /\ (W - 1 \in x <=> Num[x] >= Half) /\ (W - 1 \in x <=> Signed(x) < 0)
        /\ Num[x] \in Int /\ Half \in Int /\ W - 1 \in Bit /\ x \subseteq Bit
    BY SignedIs, WordNumber, HalfIs DEF Word
  <1>2. Unsigned(x) = IF Signed(x) < 0 THEN Not(x) ELSE x
    <2>1. Sar(x, W - 1) = IF Signed(x) < 0 THEN Bit ELSE {}
      BY <1>1, SarSign
    <2>2. (Bit \cap Not(x)) \cup (Not(Bit) \cap x) = Not(x)
      BY DEF Not
    <2>3. ({} \cap Not(x)) \cup (Not({}) \cap x) = x
      BY <1>1 DEF Not
    <2>4. QED
      BY <2>1, <2>2, <2>3 DEF Unsigned
  <1>3. Not(x) \in Word /\ Num[Not(x)] = 2 * Half - 1 - Num[x] /\ (W - 1 \in x => W - 1 \notin Not(x))
    BY NotIs DEF Not
  <1>4. Unsigned(x) \in Word /\ W - 1 \notin Unsigned(x)
    BY <1>1, <1>2, <1>3
  <1>5. Num[Unsigned(x)] = IF Signed(x) < 0 THEN -Signed(x) - 1 ELSE Signed(x)
    <2>1. Signed(x) < 0 => 2 * Half - 1 - Num[x] = -Signed(x) - 1
      BY <1>1
    <2>2. ~(Signed(x) < 0) => Num[x] = Signed(x)
      BY <1>1
    <2>3. QED
      BY <1>2, <1>3, <2>1, <2>2
  <1>6. WordOf(Num[Unsigned(x)]) = Unsigned(x)
    BY <1>4, WordNumber
  <1>7. QED
    BY <1>4, <1>5, <1>6

(* The steps, as a function of their number. *)
Halved(f, x) ==
    \A k \in 0..Len(Halves) :
        f[k] = IF k = 0 THEN [x |-> Unsigned(x), n |-> 0] ELSE Halve(f[k - 1], Halves[k])

LEMMA HalvesIs ==
    /\ Len(Halves) \in Nat /\ Len(Halves) >= 1 /\ 2^Len(Halves) = W
    /\ \A k \in 1..Len(Halves) : /\ Halves[k] = 2^(Len(Halves) - k) /\ Halves[k] \in Nat \ {0}
                                 /\ 2^(Len(Halves) - (k - 1)) = 2 * Halves[k]
  <1> DEFINE l == Len(Halves)
  <1>1. l \in Nat /\ W = 2^l /\ W >= 8 /\ \A k \in 1..l : Halves[k] = 2^(l - k)
    BY BitsAssumption
  <1> HIDE DEF l
  <1>2. l >= 1
    <2>1. l = 0 => 2^l = 1
      OBVIOUS
    <2>2. QED
      BY <1>1, <2>1
  <1>3. ASSUME NEW k \in 1..l
        PROVE  Halves[k] \in Nat \ {0} /\ 2^(l - (k - 1)) = 2 * Halves[k]
    <2>1. l - k \in Nat /\ (l - k) + 1 = l - (k - 1)
      BY <1>1
    <2>2. 2^(l - k) \in Nat \ {0}
      BY <2>1, PowerType
    <2>3. 2^((l - k) + 1) = 2 * 2^(l - k)
      BY <2>1, PowerStep
    <2>4. QED
      BY <1>1, <2>1, <2>2, <2>3
  <1>4. QED
    BY <1>1, <1>2, <1>3 DEF l

LEMMA HalveType ==
    ASSUME NEW s \in [x : Word, n : Nat], NEW h \in Nat
    PROVE  Halve(s, h) \in [x : Word, n : Nat]
  <1>1. s.x \in Word /\ s.n \in Nat
    OBVIOUS
  <1>2. Sar(s.x, h) \in Word /\ s.n + h \in Nat
    BY <1>1, SarIs
  <1>3. QED
    BY <1>2 DEF Halve

LEMMA HowManyHalved ==
    ASSUME NEW x \in Word
    PROVE  \E f : /\ Halved(f, x)
                  /\ howManyBits(x) = WordOf(f[Len(Halves)].n + Num[f[Len(Halves)].x] + 1)
  <1> DEFINE l       == Len(Halves)
             D       == 0..l
             V       == [x : Word, n : Nat]
             first   == [x |-> Unsigned(x), n |-> 0]
             rank    == [k \in D |-> k]
             base    == [k \in D |-> first]
             next    == [k \in D |-> IF k = 0 THEN k ELSE k - 1]
             op      == [k \in D |-> [s \in V |-> IF k = 0 THEN s ELSE Halve(s, Halves[k])]]
             Body(f) == [k \in D |-> IF k = 0 THEN first ELSE Halve(f[k - 1], Halves[k])]
  <1>1. l \in Nat /\ \A k \in 1..l : Halves[k] \in Nat
    BY HalvesIs
  <1>2. first \in V
    BY UnsignedIs
  <1> HIDE DEF first, V
  <1>3. /\ rank \in [D -> 0..l] /\ base \in [D -> V] /\ next \in [D -> D]
        /\ \A k \in D : rank[k] = k /\ base[k] = first
        /\ \A k \in D : k # 0 => next[k] = k - 1
    BY <1>1, <1>2
  <1>4. op \in [D -> [V -> V]] /\ \A k \in D, s \in V : k # 0 => op[k][s] = Halve(s, Halves[k])
    <2>1. \A k \in D, s \in V : (IF k = 0 THEN s ELSE Halve(s, Halves[k])) \in V
      <3>1. ASSUME NEW k \in D, NEW s \in V, k # 0 PROVE Halve(s, Halves[k]) \in V
        <4>1. Halves[k] \in Nat
          BY <1>1, <3>1
        <4>2. QED
          BY <4>1, HalveType DEF V
      <3>2. QED
        BY <3>1
    <2>2. QED
      BY <2>1
  <1> HIDE DEF rank, base, next, op
  <1>5. Descends(rank, next, {0}, D)
    BY <1>1, <1>3 DEF Descends
  <1>6. PICK g \in [D -> V] : Recursive(g, base, op, next, {0}, D)
    <2> HIDE DEF D
    <2>1. QED
      BY <1>1, <1>3, <1>4, <1>5, Recursion
  <1>7. ASSUME NEW k \in D
        PROVE  g[k] = IF k = 0 THEN first ELSE Halve(g[k - 1], Halves[k])
    <2>1. g[k] = IF k \in {0} THEN base[k] ELSE op[k][g[next[k]]]
      BY <1>6 DEF Recursive
    <2>2. k # 0 => next[k] = k - 1 /\ k - 1 \in D
      BY <1>1, <1>3
    <2>3. QED
      BY <1>3, <1>4, <2>1, <2>2
  <1>8. g = Body(g)
    BY <1>6, <1>7
  <1> DEFINE after == CHOOSE f : f = Body(f)
  <1>9. after = Body(after)
    <2> HIDE DEF Body
    <2>1. QED
      BY <1>8
  <1>10. Halved(after, x)
    <2> HIDE DEF after
    <2>1. QED
      BY <1>9 DEF Halved, first
  <1>11. howManyBits(x) = WordOf(after[l].n + Num[after[l].x] + 1)
    BY DEF howManyBits, Unsigned, first
  <1>12. QED
    BY <1>10, <1>11

(* After k steps: what is left of a is a shifted right, below 2^(l - k),   *)
(* and not empty if anything was shifted out.                              *)
Remains(s, a, m) ==
    /\ s \in [x : Word, n : Nat]
    /\ \A b \in Nat : b \in s.x <=> b + s.n \in a
    /\ \A b \in s.x : b < m
    /\ s.n = 0 \/ s.x # {}

LEMMA HalveRemains ==
    ASSUME NEW a \in Word, W - 1 \notin a, NEW h \in Nat \ {0}, NEW s, Remains(s, a, 2 * h)
    PROVE  Remains(Halve(s, h), a, h)
  <1> DEFINE t == Sar(s.x, h)
  <1>1. /\ s \in [x : Word, n : Nat] /\ s.x \in Word /\ s.n \in Nat
        /\ \A b \in Nat : b \in s.x <=> b + s.n \in a
        /\ \A b \in s.x : b < 2 * h
        /\ (s.n = 0 \/ s.x # {})
    BY DEF Remains
  <1>2. s.x \subseteq Bit /\ a \subseteq Bit /\ Bit = 0..(W - 1) /\ W \in Nat /\ W >= 8
    BY <1>1, WidthType DEF Word
  <1>3. W - 1 \notin s.x
    <2>1. W - 1 \in Nat
      BY <1>2
    <2>2. (W - 1) + s.n \in a => s.n = 0
      BY <1>1, <1>2
    <2>3. s.n = 0 => (W - 1) + s.n = W - 1
      BY <1>2
    <2>4. QED
      BY <1>1, <2>1, <2>2, <2>3
  <1>4. ASSUME NEW b \in Nat PROVE b \in t <=> b + h \in s.x
    <2>1. b \in t <=> b \in Bit /\ b + h \in s.x
      BY <1>3 DEF Sar
    <2>2. b + h \in s.x => b \in Bit
      BY <1>2
    <2>3. QED
      BY <2>1, <2>2
  <1>5. CASE t = {}
    <2>1. Halve(s, h) = s
      BY <1>5 DEF Halve
    <2>2. ASSUME NEW b \in s.x PROVE b < h
      <3>1. b \in Int /\ 0 <= b
        BY <1>2
      <3>2. b >= h => b - h \in Nat /\ (b - h) + h = b
        BY <3>1
      <3>3. b >= h => b - h \in t
        BY <1>4, <3>2
      <3>4. QED
        BY <1>5, <3>1, <3>3
    <2>3. QED
      BY <1>1, <2>1, <2>2 DEF Remains
  <1>6. CASE t # {}
    <2> DEFINE u == [x |-> t, n |-> s.n + h]
    <2>1. Halve(s, h) = u
      BY <1>6 DEF Halve
    <2>2. t \in Word /\ u \in [x : Word, n : Nat] /\ u.x = t /\ u.n = s.n + h
      BY <1>1, SarIs
    <2>3. ASSUME NEW b \in Nat PROVE b \in t <=> b + (s.n + h) \in a
      <3>1. b + h \in Nat /\ (b + h) + s.n = b + (s.n + h)
        BY <1>1
      <3>2. QED
        BY <1>1, <1>4, <3>1
    <2>4. ASSUME NEW b \in t PROVE b < h
      <3>1. b \in Nat /\ b \in Int
        BY <1>2, <2>2 DEF Word
      <3>2. b + h < 2 * h
        BY <1>1, <1>4, <3>1
      <3>3. QED
        BY <3>1, <3>2
    <2> HIDE DEF t, u
    <2>5. QED
      BY <1>6, <2>1, <2>2, <2>3, <2>4 DEF Remains
  <1>7. QED
    BY <1>5, <1>6

LEMMA HalvedRemains ==
    ASSUME NEW x \in Word, NEW f, Halved(f, x)
    PROVE  Remains(f[Len(Halves)], Unsigned(x), 1)
  <1> DEFINE l == Len(Halves)
             a == Unsigned(x)
             T == {k \in 0..l : Remains(f[k], a, 2^(l - k))}
  <1>1. /\ l \in Nat /\ l >= 1 /\ 2^l = W
        /\ \A k \in 1..l : Halves[k] = 2^(l - k) /\ Halves[k] \in Nat \ {0} /\ 2^(l - (k - 1)) = 2 * Halves[k]
    BY HalvesIs
  <1>2. a \in Word /\ W - 1 \notin a /\ \A b \in a : b < W
    BY UnsignedIs, WidthType DEF Word
  <1>3. 0 \in T
    <2>1. f[0] = [x |-> a, n |-> 0]
      BY <1>1 DEF Halved
    <2>2. f[0] \in [x : Word, n : Nat] /\ f[0].x = a /\ f[0].n = 0
      BY <1>2, <2>1
    <2>3. \A b \in Nat : b + 0 = b
      OBVIOUS
    <2> HIDE DEF a
    <2>4. Remains(f[0], a, W)
      BY <1>2, <2>2, <2>3 DEF Remains
    <2>5. l - 0 = l /\ 0 \in 0..l
      BY <1>1
    <2>6. QED
      BY <1>1, <2>4, <2>5
  <1>4. ASSUME NEW k \in 0..(l - 1), k \in T PROVE k + 1 \in T
    <2>1. k + 1 \in 1..l /\ k + 1 \in 0..l /\ k + 1 # 0 /\ (k + 1) - 1 = k
      BY <1>1
    <2> DEFINE h == Halves[k + 1]
    <2>2. f[k + 1] = Halve(f[k], h)
      BY <2>1 DEF Halved
    <2>3. h = 2^(l - (k + 1)) /\ h \in Nat \ {0} /\ 2^(l - k) = 2 * h
      BY <1>1, <2>1
    <2> HIDE DEF a, h
    <2>4. Remains(f[k], a, 2 * h)
      BY <1>4, <2>3
    <2>5. Remains(Halve(f[k], h), a, h)
      BY <1>2, <2>3, <2>4, HalveRemains
    <2>6. QED
      BY <2>1, <2>2, <2>3, <2>5
  <1> HIDE DEF T
  <1>5. 0..l \subseteq T
    <2> HIDE DEF l
    <2>1. 0 \in Int /\ l \in Int
      BY <1>1
    <2>2. QED
      BY <1>3, <1>4, <2>1, IntervalInduction
  <1>6. l \in T
    BY <1>1, <1>5
  <1>7. l - l = 0 /\ 2^0 = 1
    BY <1>1
  <1>8. QED
    BY <1>6, <1>7 DEF T

(* The number of shifts that leave nothing of a. *)
IsCount(a, c) == Shr(a, c) = {} /\ \A n \in 0..(c - 1) : Shr(a, n) # {}

LEMMA CountUnique ==
    ASSUME NEW a, NEW c \in Nat, NEW d \in Nat, IsCount(a, c), IsCount(a, d)
    PROVE  c = d
  <1>1. CASE c < d
    BY <1>1, c \in 0..(d - 1) DEF IsCount
  <1>2. CASE d < c
    BY <1>2, d \in 0..(c - 1) DEF IsCount
  <1>3. QED
    BY <1>1, <1>2

LEMMA HowManyIs ==
    ASSUME NEW x \in Word
    PROVE  \E c \in 0..(W - 1) : /\ IsCount(Unsigned(x), c)
                                 /\ howManyBits(x) = WordOf(c + 1)
                                 /\ test_howManyBits(x) = WordOf(c + 1)
  <1> DEFINE a == Unsigned(x)
  <1>1. PICK f : /\ Halved(f, x)
                 /\ howManyBits(x) = WordOf(f[Len(Halves)].n + Num[f[Len(Halves)].x] + 1)
    BY HowManyHalved
  <1> DEFINE s == f[Len(Halves)]
             c == s.n + Num[s.x]
  <1>2. Remains(s, a, 1)
    BY <1>1, HalvedRemains
  <1>3. a \in Word /\ W - 1 \notin a /\ a \subseteq Bit /\ Bit = 0..(W - 1) /\ W \in Nat /\ W >= 8
    BY UnsignedIs, WidthType DEF Word
  <1> HIDE DEF s
  <1>4. /\ s.x \in Word /\ s.n \in Nat /\ s.x \subseteq Bit
        /\ \A b \in Nat : b \in s.x <=> b + s.n \in a
        /\ \A b \in s.x : b < 1
        /\ (s.n = 0 \/ s.x # {})
    BY <1>2 DEF Remains, Word
  <1> HIDE DEF a
  <1>5. c \in 0..(W - 1) /\ IsCount(a, c)
    <2>1. CASE s.x = {}
      <3>1. c = 0 /\ s.n = 0
        BY <1>4, <2>1, NumEmpty
      <3>2. \A b \in Bit : b \in Nat /\ b + 0 = b
        BY <1>3
      <3>3. Shr(a, 0) = {}
        BY <1>4, <2>1, <3>1, <3>2 DEF Shr
      <3>4. 0..(0 - 1) = {} /\ 0 \in 0..(W - 1)
        BY <1>3
      <3>5. QED
        BY <3>1, <3>3, <3>4 DEF IsCount
    <2>2. CASE s.x # {}
      <3>1. s.x = {0}
        BY <1>3, <1>4, <2>2
      <3>2. c = s.n + 1
        <4>1. s.x = One
          BY <3>1 DEF One
        <4>2. QED
          BY <4>1, ConstantWords
      <3>3. s.n \in a
        BY <1>4, <3>1, 0 \in Nat /\ 0 + s.n = s.n
      <3>4. s.n \in 0..(W - 2)
        <4>1. s.n # W - 1 /\ s.n \in 0..(W - 1)
          BY <1>3, <3>3
        <4>2. QED
          BY <1>3, <4>1
      <3>5. Shr(a, c) = {}
        <4>1. ASSUME NEW b \in Bit, b + c \in a PROVE FALSE
          <5> HIDE DEF c
          <5>b. b \in Int /\ 0 <= b /\ s.n \in Int /\ c = s.n + 1
            BY <1>3, <1>4, <3>2
          <5>1. b + 1 \in Nat /\ (b + 1) + s.n = b + c /\ b + 1 # 0
            BY <5>b
          <5>2. b + 1 \in s.x
            BY <1>4, <4>1, <5>1
          <5>3. QED
            BY <3>1, <5>1, <5>2
        <4>2. QED
          BY <4>1 DEF Shr
      <3>6. ASSUME NEW n \in 0..(c - 1) PROVE Shr(a, n) # {}
        <4>1. s.n - n \in Bit /\ (s.n - n) + n = s.n
          BY <1>3, <3>2, <3>4
        <4>2. s.n - n \in Shr(a, n)
          BY <3>3, <4>1 DEF Shr
        <4>3. QED
          BY <4>2
      <3>7. c \in 0..(W - 1)
        BY <1>3, <3>2, <3>4
      <3>8. QED
        BY <3>5, <3>6, <3>7 DEF IsCount
    <2>3. QED
      BY <2>1, <2>2
  <1> HIDE DEF c
  <1>6. howManyBits(x) = WordOf(c + 1)
    BY <1>1 DEF c, s
  <1>7. test_howManyBits(x) = WordOf(c + 1)
    <2> DEFINE cnt == CHOOSE d \in 0..W : /\ Shr(a, d) = {}
                                          /\ \A n \in 0..(d - 1) : Shr(a, n) # {}
    <2>1. test_howManyBits(x) = WordOf(cnt + 1)
      <3>1. a = WordOf(IF Signed(x) < 0 THEN -Signed(x) - 1 ELSE Signed(x))
        BY UnsignedIs DEF a
      <3>2. QED
        BY <3>1 DEF test_howManyBits
    <2>2. c \in 0..W /\ Shr(a, c) = {} /\ \A n \in 0..(c - 1) : Shr(a, n) # {}
      BY <1>3, <1>5 DEF IsCount
    <2>3. cnt \in 0..W /\ Shr(a, cnt) = {} /\ \A n \in 0..(cnt - 1) : Shr(a, n) # {}
      BY <2>2
    <2> HIDE DEF cnt
    <2>4. IsCount(a, cnt) /\ cnt \in Nat /\ c \in Nat
      BY <1>5, <2>3 DEF IsCount
    <2>5. cnt = c
      BY <1>5, <2>4, CountUnique
    <2>6. QED
      BY <2>1, <2>5
  <1>8. QED
    BY <1>5, <1>6, <1>7 DEF a

LEMMA BelowPower ==
    ASSUME NEW n \in Nat
    PROVE  n < 2^n
  <1> DEFINE T == {k \in Nat : k < 2^k}
  <1>1. 0 \in T
    BY 2^0 = 1
  <1>2. \A k \in Nat : k \in T => k + 1 \in T
    BY PowerStep
  <1> HIDE DEF T
  <1>3. Nat \subseteq T
    BY <1>1, <1>2, NatSetInduction
  <1>4. QED
    BY <1>3 DEF T

(* What is left of a after n shifts, by numbers. *)
LEMMA NothingLeft ==
    ASSUME NEW a \in Word, NEW n \in Nat
    PROVE  Shr(a, n) = {} <=> Num[a] < 2^n
  <1> DEFINE d == 2^n
             q == Num[a] \div d
  <1>1. Num[a] \in Int /\ 0 <= Num[a] /\ d \in Nat \ {0}
    BY WordNumber, PowerType
  <1>2. Shr(a, n) \in Word /\ Num[Shr(a, n)] = q
    BY ShrIs
  <1> HIDE DEF d
  <1>3. q \in Int /\ q * d <= Num[a] /\ Num[a] < q * d + d
    BY <1>1, QuotientBounds
  <1>4. Num[a] < d => q = 0
    <2>1. Num[a] < d => 0 * d <= Num[a] /\ Num[a] < 0 * d + d
      BY <1>1
    <2>2. QED
      BY <1>1, <2>1, QuotientIs
  <1> HIDE DEF q
  <1>5. q = 0 => Num[a] < d
    BY <1>1, <1>3
  <1>6. QED
    BY <1>2, <1>4, <1>5, ZeroIs DEF d

LEMMA HowManyMinimal ==
    ASSUME NEW x \in Word
    PROVE  /\ howManyBits(x) = test_howManyBits(x)
           /\ Fits(Signed(x), Num[howManyBits(x)])
           /\ ~Fits(Signed(x), Num[howManyBits(x)] - 1)
  <1> DEFINE a == Unsigned(x)
             v == Signed(x)
  <1>1. PICK c \in 0..(W - 1) : /\ IsCount(a, c)
                                /\ howManyBits(x) = WordOf(c + 1)
                                /\ test_howManyBits(x) = WordOf(c + 1)
    BY HowManyIs
  <1>2. c \in Nat /\ c + 1 \in Nat /\ c + 1 <= W /\ W \in Nat
    BY WidthType
  <1>3. Num[WordOf(c + 1)] = c + 1
    <2>1. W < 2 * Half
      BY <1>2, BelowPower, HalfIs
    <2>2. c + 1 \in Int /\ 0 <= c + 1 /\ c + 1 < 2 * Half
      BY <1>2, <2>1, HalfIs
    <2>3. QED
      BY <2>2, NumWordOf, WrapIs
  <1>4. a \in Word /\ v \in Int /\ Num[a] = IF v < 0 THEN -v - 1 ELSE v
    BY UnsignedIs, SignedIs
  <1> HIDE DEF a, v
  <1>5. Num[a] < 2^c
    BY <1>1, <1>2, <1>4, NothingLeft DEF IsCount
  <1>6. c # 0 => ~(Num[a] < 2^(c - 1)) /\ c - 1 \in Nat
    <2>1. c # 0 => c - 1 \in 0..(c - 1) /\ c - 1 \in Nat
      BY <1>2
    <2>2. c # 0 => Shr(a, c - 1) # {}
      BY <1>1, <2>1 DEF IsCount
    <2>3. QED
      BY <1>4, <2>1, <2>2, NothingLeft
  <1>7. Fits(v, c + 1)
    <2>1. (c + 1) - 1 = c /\ 2^c \in Nat /\ c + 1 > 0
      BY <1>2, PowerType
    <2>2. -2^c <= v /\ v < 2^c
      BY <1>4, <1>5, <2>1
    <2>3. QED
      BY <2>1, <2>2 DEF Fits
  <1>8. ~Fits(v, c)
    <2>1. CASE c = 0
      BY <2>1 DEF Fits
    <2>2. CASE c # 0
      <3>1. 2^(c - 1) \in Nat /\ ~(Num[a] < 2^(c - 1))
        BY <1>6, <2>2, PowerType
      <3>2. ~(-2^(c - 1) <= v /\ v < 2^(c - 1))
        BY <1>4, <3>1
      <3>3. QED
        BY <3>2 DEF Fits
    <2>3. QED
      BY <2>1, <2>2
  <1>9. (c + 1) - 1 = c
    BY <1>2
  <1>10. QED
    BY <1>1, <1>3, <1>7, <1>8, <1>9 DEF v

-----------------------------------------------------------------------------
(* Floats: a word is its three fields *)

ExpBits     == W - 1 - F
ExpField(e) == Shl(WordOf(e), F)
Fraction    == SUBSET (0..(F - 1))
Signs       == SUBSET {W - 1}

Float(s, e, f) == s \cup ExpField(e) \cup f

LEMMA FloatConstants ==
    /\ ExpBits \in Nat /\ ExpBits >= 3 /\ ExpBits + F = W - 1 /\ F \in Nat /\ F >= 1 /\ W \in Nat
    /\ Bit = 0..(W - 1)
    /\ MaxExp = 2^ExpBits - 1 /\ MaxExp \in Nat /\ Bias \in Nat /\ Bias >= 3 /\ MaxExp = 2 * Bias + 1
    /\ 2^F \in Nat \ {0} /\ Half \in Nat /\ Half >= 128 /\ (MaxExp + 1) * 2^F = Half
    /\ WordOf(MaxExp) = 0..(ExpBits - 1)
  <1>1. /\ ExpBits \in Nat /\ ExpBits >= 3 /\ ExpBits + F = W - 1 /\ F \in Nat /\ F >= 1 /\ W \in Nat
        /\ Bit = 0..(W - 1) /\ ExpBits \in 0..W
    BY WidthType DEF ExpBits
  <1> DEFINE d == 2^(ExpBits - 1)
  <1>2. ExpBits - 1 \in Nat /\ (ExpBits - 1) + 1 = ExpBits /\ 2 \in Nat /\ 2 <= ExpBits - 1
    BY <1>1
  <1>3. d \in Nat /\ 2^ExpBits = 2 * d
    BY <1>2, PowerStep
  <1>4. d >= 4
    <2>1. 2^2 <= d
      BY <1>2, PowerMonotonic
    <2>2. 2^2 = 4
      OBVIOUS
    <2>3. QED
      BY <2>1, <2>2
  <1>5. W - 2 - F = ExpBits - 1
    BY WidthType DEF ExpBits
  <1>6. MaxExp = 2^ExpBits - 1 /\ Bias = d - 1
    BY <1>5 DEF MaxExp, Bias, ExpBits
  <1> HIDE DEF d
  <1>7. MaxExp \in Nat /\ Bias \in Nat /\ Bias >= 3 /\ MaxExp = 2 * Bias + 1
    BY <1>3, <1>4, <1>6
  <1>8. 2^F \in Nat \ {0} /\ Half \in Nat /\ Half >= 128
    BY <1>1, PowerType, HalfIs
  <1>9. 2^(ExpBits + F) = 2^ExpBits * 2^F
    BY <1>1, PowerSum
  <1>10. (MaxExp + 1) * 2^F = Half
    <2>1. MaxExp + 1 = 2^ExpBits
      BY <1>3, <1>6
    <2>2. QED
      BY <1>1, <1>9, <2>1 DEF Half
  <1>11. WordOf(MaxExp) = 0..(ExpBits - 1)
    BY <1>1, <1>6, MaskIs
  <1>12. QED
    BY <1>1, <1>6, <1>7, <1>8, <1>10, <1>11

(* The word of a small number. *)
LEMMA SmallWord ==
    ASSUME NEW k \in 0..W, NEW n \in Nat, n < 2^k
    PROVE  WordOf(n) \in Word /\ Num[WordOf(n)] = n /\ \A b \in WordOf(n) : b \in 0..(k - 1)
  <1>1. k \in Nat /\ W \in Nat /\ k <= W /\ Bit = 0..(W - 1) /\ n \in Int
    BY WidthType
  <1>2. 2^k \in Nat /\ 2^k <= 2^W /\ 2^W = 2 * Half /\ Half \in Int
    BY <1>1, PowerMonotonic, PowerType, HalfIs
  <1>3. Num[WordOf(n)] = n
    <2>1. 0 <= n /\ n < 2 * Half
      BY <1>1, <1>2
    <2>2. QED
      BY <1>1, <2>1, NumWordOf, WrapIs
  <1>4. WordOf(n) \in Word /\ \A b \in Bit : b \in WordOf(n) <=> IsBit(n, b)
    BY <1>1, WordOfType
  <1>5. ASSUME NEW b \in WordOf(n) PROVE b \in 0..(k - 1)
    <2>1. b \in Bit /\ b \in Nat /\ IsBit(n, b)
      BY <1>1, <1>4 DEF Word
    <2>2. CASE b >= k
      <3>1. 2^k <= 2^b /\ 2^b \in Nat
        BY <1>1, <2>1, <2>2, PowerMonotonic, PowerType
      <3>2. -2^b <= n /\ n < 2^b
        BY <1>1, <1>2, <3>1
      <3>3. IsBit(n, b) <=> n < 0
        BY <1>1, <2>1, <3>2, BitAbove
      <3>4. QED
        BY <1>1, <2>1, <3>3
    <2>3. CASE b < k
      BY <1>1, <2>1, <2>3
    <2>4. QED
      BY <1>1, <2>1, <2>2, <2>3
  <1>6. QED
    BY <1>3, <1>4, <1>5

LEMMA FractionIs ==
    ASSUME NEW f \in Fraction
    PROVE  /\ f \in Word /\ Num[f] \in Nat /\ Num[f] < 2^F
           /\ f \cup {F} \in Word /\ Num[f \cup {F}] = 2^F + Num[f]
  <1>0. F \in Nat /\ F + 4 <= W /\ W \in Nat /\ Bit = 0..(W - 1) /\ f \subseteq 0..(F - 1)
    BY WidthType DEF Fraction
  <1>1. F \in 0..W /\ F \in Bit /\ F \notin f /\ f \in Word /\ Low(f, F) = f
    <2>1. F \in 0..W /\ F \in Bit /\ F \notin f
      BY <1>0
    <2>2. \A b \in f : b \in Bit
      BY <1>0
    <2>3. QED
      BY <1>0, <2>1, <2>2 DEF Low, Word
  <1>2. 2^F \in Nat
    BY WidthType, PowerType
  <1>3. Num[f] \in 0..(2^F - 1)
    BY <1>1, LowRange
  <1>4. f \cup {F} \in Word /\ Num[f \cup {F}] = Num[f] + 2^F
    BY <1>1, NumBit
  <1>5. QED
    BY <1>1, <1>2, <1>3, <1>4

(* A number below 2^F is the number of a fraction. *)
LEMMA FractionOf ==
    ASSUME NEW n \in Nat, n < 2^F
    PROVE  WordOf(n) \in Fraction /\ Num[WordOf(n)] = n
  <1>1. F \in 0..W
    BY WidthType
  <1>2. QED
    BY <1>1, SmallWord DEF Fraction

LEMMA ExpFieldIs ==
    ASSUME NEW e \in 0..MaxExp
    PROVE  /\ WordOf(e) \in Word /\ Num[WordOf(e)] = e /\ ExpField(e) \in Word
           /\ Num[ExpField(e)] = e * 2^F
           /\ \A b \in ExpField(e) : b \in F..(W - 2)
           /\ \A b \in 0..(ExpBits - 1) : b + F \in ExpField(e) <=> b \in WordOf(e)
  <1>1. /\ ExpBits \in Nat /\ ExpBits + F = W - 1 /\ F \in Nat /\ W \in Nat /\ ExpBits \in 0..W
        /\ Bit = 0..(W - 1) /\ MaxExp = 2^ExpBits - 1 /\ MaxExp \in Nat
        /\ 2^F \in Nat \ {0} /\ Half \in Nat /\ (MaxExp + 1) * 2^F = Half
    BY FloatConstants
  <1>2. e \in Nat /\ e < 2^ExpBits
    BY <1>1
  <1>3. WordOf(e) \in Word /\ Num[WordOf(e)] = e /\ \A b \in WordOf(e) : b \in 0..(ExpBits - 1)
    BY <1>1, <1>2, SmallWord
  <1>4. ExpField(e) \in Word /\ ExpField(e) = WordOf(e * 2^F)
    BY <1>1, <1>3, ShlIs DEF ExpField
  <1>5. Num[ExpField(e)] = e * 2^F
    <2> DEFINE p == 2^F
    <2>1. p \in Nat \ {0} /\ (MaxExp + 1) * p = Half
      BY <1>1
    <2> HIDE DEF p
    <2>2. \A m, n \in Int : m <= n => m * p <= n * p
      BY <2>1
    <2>3. 0 * p <= e * p /\ e * p <= (MaxExp + 1) * p /\ 0 * p = 0 /\ e * p \in Int
      BY <1>1, <1>2, <2>1, <2>2
    <2>4. e * p \in Int /\ 0 <= e * p /\ e * p < 2 * Half
      BY <1>1, <2>1, <2>3, HalfIs
    <2>5. Num[WordOf(e * p)] = e * p
      BY <2>4, NumWordOf, WrapIs
    <2>6. QED
      BY <1>4, <2>5 DEF p
  <1>6. \A b \in ExpField(e) : b \in F..(W - 2)
    BY <1>1, <1>3 DEF ExpField, Shl
  <1>7. ASSUME NEW b \in 0..(ExpBits - 1) PROVE b + F \in ExpField(e) <=> b \in WordOf(e)
    <2>1. b + F \in Bit /\ b \in Int
      BY <1>1
    <2>2. \A c \in WordOf(e) : c \in Int /\ (c + F = b + F => c = b)
      BY <1>1, <1>3, <2>1
    <2>3. QED
      BY <2>1, <2>2 DEF ExpField, Shl
  <1>8. QED
    BY <1>3, <1>4, <1>5, <1>6, <1>7

(* Taking a float apart. *)
LEMMA FieldsOf ==
    ASSUME NEW uf \in Word
    PROVE  /\ SignOf(uf) \in Signs /\ FracOf(uf) \in Fraction
           /\ ExpOf(uf) \in 0..MaxExp
           /\ uf = Float(SignOf(uf), ExpOf(uf), FracOf(uf))
  <1>1. /\ ExpBits \in Nat /\ ExpBits + F = W - 1 /\ F \in Nat /\ W \in Nat /\ ExpBits \in 0..W
        /\ F >= 1 /\ Bit = 0..(W - 1) /\ MaxExp = 2^ExpBits - 1 /\ MaxExp \in Nat
        /\ WordOf(MaxExp) = 0..(ExpBits - 1)
    BY FloatConstants
  <1> DEFINE w == Shr(uf, F) \cap WordOf(MaxExp)
  <1>2. w = Low(Shr(uf, F), ExpBits) /\ Shr(uf, F) \in Word
    BY <1>1, ShrIs DEF Low
  <1>3. w \in Word /\ Num[w] \in 0..(2^ExpBits - 1)
    <2>1. Low(Shr(uf, F), ExpBits) \in Word
      BY <1>1, <1>2, LowIs
    <2>2. Num[Low(Shr(uf, F), ExpBits)] \in 0..(2^ExpBits - 1)
      BY <1>1, <1>2, LowRange
    <2>3. QED
      BY <1>2, <2>1, <2>2
  <1>4. ExpOf(uf) = Num[w] /\ ExpOf(uf) \in 0..MaxExp
    BY <1>1, <1>3 DEF ExpOf
  <1>5. WordOf(ExpOf(uf)) = w
    BY <1>3, <1>4, WordNumber
  <1>6. SignOf(uf) \subseteq {W - 1} /\ FracOf(uf) \in Fraction
    BY DEF SignOf, FracOf, Fraction
  <1>7. \A c : c \in w <=> c \in 0..(ExpBits - 1) /\ c + F \in uf
    BY <1>1 DEF Shr
  <1> HIDE DEF w
  <1>8. \A b : b \in ExpField(ExpOf(uf)) <=> b \in F..(W - 2) /\ b \in uf
    <2>1. ASSUME NEW b \in ExpField(ExpOf(uf)) PROVE b \in F..(W - 2) /\ b \in uf
      <3>1. PICK c \in w : b = c + F
        BY <1>5 DEF ExpField, Shl
      <3>2. c \in 0..(ExpBits - 1) /\ c + F \in uf
        BY <1>7
      <3>3. QED
        BY <1>1, <3>1, <3>2
    <2>2. ASSUME NEW b \in F..(W - 2), b \in uf PROVE b \in ExpField(ExpOf(uf))
      <3>1. b - F \in 0..(ExpBits - 1) /\ (b - F) + F = b /\ b \in Bit
        BY <1>1
      <3>2. b - F \in w
        BY <1>7, <2>2, <3>1
      <3>3. QED
        BY <1>5, <3>1, <3>2 DEF ExpField, Shl
    <2>3. QED
      BY <2>1, <2>2
  <1>9. \A b \in uf : b = W - 1 \/ b \in F..(W - 2) \/ b \in 0..(F - 1)
    BY <1>1 DEF Word
  <1>10. uf = SignOf(uf) \cup ExpField(ExpOf(uf)) \cup FracOf(uf)
    BY <1>8, <1>9 DEF SignOf, FracOf
  <1>11. QED
    BY <1>4, <1>6, <1>10 DEF Float, Signs

(* Putting one together. *)
LEMMA FieldsTo ==
    ASSUME NEW s \in Signs, NEW e \in 0..MaxExp, NEW f \in Fraction
    PROVE  /\ Float(s, e, f) \in Word
           /\ SignOf(Float(s, e, f)) = s /\ ExpOf(Float(s, e, f)) = e /\ FracOf(Float(s, e, f)) = f
  <1> DEFINE u == Float(s, e, f)
  <1>1. /\ ExpBits \in Nat /\ ExpBits + F = W - 1 /\ F \in Nat /\ W \in Nat /\ ExpBits >= 3
        /\ F >= 1 /\ Bit = 0..(W - 1) /\ WordOf(MaxExp) = 0..(ExpBits - 1)
    BY FloatConstants
  <1>2. /\ WordOf(e) \in Word /\ Num[WordOf(e)] = e /\ ExpField(e) \in Word
        /\ \A b \in ExpField(e) : b \in F..(W - 2)
        /\ \A b \in 0..(ExpBits - 1) : b + F \in ExpField(e) <=> b \in WordOf(e)
    BY ExpFieldIs
  <1>3. /\ \A b \in s : b = W - 1
        /\ \A b \in f : b \in 0..(F - 1)
        /\ \A b : b \in u <=> b \in s \/ b \in ExpField(e) \/ b \in f
    BY DEF Fraction, Signs, Float
  <1> HIDE DEF u
  <1>4. u \in Word
    <2>1. \A b \in u : b \in Bit
      BY <1>1, <1>2, <1>3
    <2>2. QED
      BY <2>1 DEF Word
  <1>5. SignOf(u) = s
    <2>1. \A b \in u : b = W - 1 => b \in s
      BY <1>1, <1>2, <1>3
    <2>2. QED
      BY <1>3, <2>1 DEF SignOf
  <1>6. FracOf(u) = f
    <2>1. \A b \in u : b \in 0..(F - 1) => b \in f
      BY <1>1, <1>2, <1>3
    <2>2. QED
      BY <1>3, <2>1 DEF FracOf
  <1>7. Shr(u, F) \cap WordOf(MaxExp) = WordOf(e)
    <2>1. ASSUME NEW b \in 0..(ExpBits - 1) PROVE b + F \in u <=> b \in WordOf(e)
      <3>1. b + F # W - 1 /\ b + F \notin 0..(F - 1)
        BY <1>1
      <3>2. QED
        BY <1>2, <1>3, <3>1
    <2>2. 0..(ExpBits - 1) \subseteq Bit
      BY <1>1
    <2>3. WordOf(e) \subseteq 0..(ExpBits - 1)
      <3>1. MaxExp = 2^ExpBits - 1 /\ ExpBits \in 0..W /\ 2^ExpBits \in Int
        BY FloatConstants, PowerType
      <3>2. e \in Nat /\ e < 2^ExpBits
        BY <3>1
      <3>3. QED
        BY <3>1, <3>2, SmallWord
    <2>4. QED
      BY <1>1, <2>1, <2>2, <2>3 DEF Shr
  <1>8. QED
    BY <1>2, <1>4, <1>5, <1>6, <1>7 DEF ExpOf, u

(* A sum of units that fits the fraction, and one that is a normal number. *)
LEMMA FloatOfDenormal ==
    ASSUME NEW m \in Nat, m < 2^F
    PROVE  FloatOf(m) = WordOf(m)
  <1>1. F \in Nat /\ MaxExp - 1 + F \in Nat /\ F <= MaxExp - 1 + F
    BY FloatConstants
  <1>2. 2^F <= 2^(MaxExp - 1 + F) /\ 2^F \in Nat /\ 2^(MaxExp - 1 + F) \in Nat
    BY <1>1, PowerMonotonic, PowerType
  <1>3. ~(m >= 2^(MaxExp - 1 + F))
    BY <1>2
  <1>4. QED
    BY <1>3 DEF FloatOf

LEMMA PowerLess ==
    ASSUME NEW m \in Nat, NEW n \in Nat, 2^m < 2^n
    PROVE  m < n
  <1> SUFFICES ASSUME n <= m PROVE FALSE
    OBVIOUS
  <1>1. 2^n <= 2^m /\ 2^n \in Nat /\ 2^m \in Nat
    BY PowerMonotonic, PowerType
  <1>2. QED
    BY <1>1

Normal(e, f) == (2^F + Num[f]) * 2^(e - 1)

LEMMA NormalIs ==
    ASSUME NEW e \in Nat \ {0}, NEW f \in Fraction
    PROVE  /\ Normal(e, f) \in Nat /\ 2^(F + e - 1) <= Normal(e, f) /\ Normal(e, f) < 2^(F + e)
           /\ 2^F <= Normal(e, f) /\ Normal(e, f) \div 2^(e - 1) = 2^F + Num[f]
           /\ 2 * Normal(e, f) = Normal(e + 1, f)
  <1> DEFINE M == 2^F + Num[f]
             p == 2^F
             q == 2^(e - 1)
             m == Normal(e, f)
  <1>1. F \in Nat /\ e - 1 \in Nat /\ F + e - 1 = F + (e - 1) /\ F + e = (F + (e - 1)) + 1
        /\ (e - 1) + 1 = e /\ (e + 1) - 1 = e /\ e \in Int
    BY FloatConstants
  <1>2. p \in Nat \ {0} /\ q \in Nat \ {0} /\ 2^e = 2 * q
    BY <1>1, PowerType, PowerStep
  <1>f. Num[f] \in Nat /\ Num[f] < p
    BY FractionIs
  <1> HIDE DEF p, q
  <1>3. M \in Nat /\ p <= M /\ M < 2 * p
    <2>1. M = p + Num[f]
      BY DEF p
    <2> HIDE DEF M
    <2>2. QED
      BY <1>2, <1>f, <2>1
  <1>4. 2^(F + e - 1) = p * q /\ 2^(F + e) = 2 * (p * q)
    <2>1. 2^(F + (e - 1)) = p * q
      BY <1>1, PowerSum DEF p, q
    <2>2. F + (e - 1) \in Nat
      BY <1>1
    <2>3. 2^((F + (e - 1)) + 1) = 2 * 2^(F + (e - 1))
      BY <2>2, PowerStep
    <2>4. QED
      BY <1>1, <2>1, <2>3
  <1>5. m = M * q
    BY DEF Normal, q
  <1>6. Normal(e + 1, f) = M * (2 * q)
    BY <1>1, <1>2 DEF Normal
  <1> HIDE DEF M, p, q, m
  <1>7. \A x, y \in Int : /\ x <= y => x * q <= y * q
                          /\ x < y => x * q < y * q
    BY <1>2
  <1>8. p * q <= M * q /\ M * q < (2 * p) * q /\ (2 * p) * q = 2 * (p * q)
    BY <1>2, <1>3, <1>7
  <1>9. p <= p * q /\ p * q \in Nat /\ M * q \in Nat
    BY <1>2, <1>3
  <1>10. (M * q) \div q = M
    <2>1. M \in Int /\ M * q <= M * q /\ M * q < M * q + q
      BY <1>2, <1>3, <1>9
    <2>2. QED
      BY <1>2, <1>9, <2>1, QuotientIs
  <1>11. 2 * (M * q) = M * (2 * q)
    BY <1>2, <1>3
  <1>12. /\ m \in Nat /\ p * q <= m /\ m < 2 * (p * q) /\ p <= m /\ m \div q = M
         /\ 2 * m = Normal(e + 1, f)
    <2>1. p <= M * q
      BY <1>2, <1>8, <1>9
    <2>2. QED
      BY <1>5, <1>6, <1>8, <1>9, <1>10, <1>11, <2>1
  <1>13. QED
    BY <1>4, <1>12 DEF m, p, q, M

(* The word of a float's exponent and fraction, as one number. *)
LEMMA FieldsNumber ==
    ASSUME NEW e \in 0..MaxExp, NEW f \in Fraction
    PROVE  WordOf(e * 2^F + Num[f]) = ExpField(e) \cup f
  <1> DEFINE u == ExpField(e) \cup f
  <1>1. /\ ExpField(e) \in Word /\ Num[ExpField(e)] = e * 2^F
        /\ \A b \in ExpField(e) : b \in F..(W - 2)
    BY ExpFieldIs
  <1>2. f \in Word /\ \A b \in f : b \in 0..(F - 1)
    BY FractionIs DEF Fraction
  <1>3. ExpField(e) \cap f = {}
    BY <1>1, <1>2, WidthType
  <1>4. u \in Word /\ Num[u] = e * 2^F + Num[f]
    BY <1>1, <1>2, <1>3, UnionIs
  <1>5. QED
    BY <1>4, WordNumber

LEMMA FloatOfNormal ==
    ASSUME NEW e \in 1..(MaxExp - 1), NEW f \in Fraction
    PROVE  FloatOf(Normal(e, f)) = ExpField(e) \cup f
  <1> DEFINE m == Normal(e, f)
  <1>1. /\ F \in Nat /\ MaxExp \in Nat /\ MaxExp - 1 + F \in Nat /\ e \in Nat \ {0} /\ e \in Int
        /\ 2^F \in Nat \ {0}
    BY FloatConstants
  <1>2. /\ m \in Nat /\ 2^(F + e - 1) <= m /\ m < 2^(F + e)
        /\ 2^F <= m /\ m \div 2^(e - 1) = 2^F + Num[f]
    BY <1>1, NormalIs
  <1>3. F + e - 1 \in Nat /\ F + e \in Nat /\ F + e <= MaxExp - 1 + F
    BY <1>1
  <1>4. /\ 2^(F + e) <= 2^(MaxExp - 1 + F) /\ 2^(F + e) \in Nat /\ 2^(MaxExp - 1 + F) \in Nat
        /\ 2^(F + e - 1) \in Nat
    BY <1>1, <1>3, PowerMonotonic, PowerType
  <1> HIDE DEF m
  <1>5. ~(m >= 2^(MaxExp - 1 + F)) /\ ~(m < 2^F)
    BY <1>1, <1>2, <1>4
  <1> DEFINE Within(x) == 2^(F + x - 1) <= m /\ m < 2^(F + x)
             c == CHOOSE x \in 1..(MaxExp - 1) : Within(x)
  <1>6. FloatOf(m) = WordOf((c - 1) * 2^F + m \div 2^(c - 1))
    BY <1>5 DEF FloatOf
  <1>7. Within(e)
    BY <1>2
  <1>8. c \in 1..(MaxExp - 1) /\ Within(c)
    <2> HIDE DEF Within
    <2>1. QED
      BY <1>7
  <1> HIDE DEF c
  <1>9. F + c - 1 \in Nat /\ F + c \in Nat /\ c \in Int
    BY <1>1, <1>8
  <1>10. c = e
    <2>1. 2^(F + c - 1) \in Nat /\ 2^(F + c) \in Nat
      BY <1>9, PowerType
    <2>2. 2^(F + c - 1) < 2^(F + e) /\ 2^(F + e - 1) < 2^(F + c)
      BY <1>2, <1>4, <1>8, <2>1
    <2>3. F + c - 1 < F + e /\ F + e - 1 < F + c
      BY <1>3, <1>9, <2>2, PowerLess
    <2>4. QED
      BY <1>1, <1>9, <2>3
  <1>11. (e - 1) * 2^F + (2^F + Num[f]) = e * 2^F + Num[f]
    <2> DEFINE p == 2^F
               n == Num[f]
    <2>0. Num[f] \in Nat
      BY FractionIs
    <2>1. p \in Int /\ n \in Int
      BY <1>1, <2>0
    <2> HIDE DEF p, n
    <2>2. (e - 1) * p = e * p - p /\ e * p \in Int
      BY <1>1, <2>1
    <2>3. (e - 1) * p + (p + n) = e * p + n
      BY <2>1, <2>2
    <2>4. QED
      BY <2>3 DEF p, n
  <1>12. FloatOf(m) = WordOf(e * 2^F + Num[f])
    BY <1>2, <1>6, <1>10, <1>11
  <1>13. e \in 0..MaxExp
    BY <1>1
  <1>14. QED
    BY <1>12, <1>13, FieldsNumber DEF m

(* The magnitude of a float put together. *)
LEMMA MagnitudeOfFields ==
    ASSUME NEW s \in Signs, NEW e \in 0..MaxExp, NEW f \in Fraction
    PROVE  Magnitude(Float(s, e, f)) = IF e = 0 THEN Num[f] ELSE Normal(e, f)
  <1>1. ExpOf(Float(s, e, f)) = e /\ FracOf(Float(s, e, f)) = f
    BY FieldsTo
  <1>2. Num[f \cup {F}] = 2^F + Num[f]
    BY FractionIs
  <1>3. QED
    BY <1>1, <1>2 DEF Magnitude, Normal

Limit == 2^(MaxExp - 1 + F)

(* The magnitude that the exponent e and the fraction f stand for. *)
Value(e, f) == IF e = 0 THEN Num[f] ELSE Normal(e, f)

LEMMA ZeroField == ExpField(0) = {}
  <1>1. 0 \in 0..MaxExp /\ 2^F \in Int /\ 0 * 2^F = 0
    BY FloatConstants
  <1>2. ExpField(0) \in Word /\ Num[ExpField(0)] = 0
    BY <1>1, ExpFieldIs
  <1>3. QED
    BY <1>2, ZeroIs

(* FloatOf is right for the magnitude of every finite float. *)
LEMMA Representable ==
    ASSUME NEW e \in 0..(MaxExp - 1), NEW f \in Fraction, NEW s \in Signs
    PROVE  LET m == Value(e, f) IN
           /\ m \in Nat /\ m < Limit
           /\ s \cup FloatOf(m) = Float(s, e, f)
           /\ SignOf(Float(s, e, f)) = s /\ IsFinite(Float(s, e, f)) /\ Magnitude(Float(s, e, f)) = m
  <1>1. /\ MaxExp \in Nat /\ e \in 0..MaxExp /\ e # MaxExp /\ F \in Nat /\ 2^F \in Nat
        /\ MaxExp - 1 + F \in Nat /\ e \in Nat
    BY FloatConstants
  <1>2. /\ SignOf(Float(s, e, f)) = s /\ IsFinite(Float(s, e, f))
        /\ Magnitude(Float(s, e, f)) = Value(e, f)
    BY <1>1, FieldsTo, MagnitudeOfFields DEF IsFinite, Value
  <1>3. CASE e = 0
    <2>1. Value(e, f) = Num[f] /\ Num[f] \in Nat /\ Num[f] < 2^F /\ f \in Word
      BY <1>3, FractionIs DEF Value
    <2>2. 2^F <= Limit /\ Limit \in Nat
      <3>1. F <= MaxExp - 1 + F
        BY <1>1, <1>3, FloatConstants
      <3>2. QED
        BY <1>1, <3>1, PowerMonotonic, PowerType DEF Limit
    <2>3. FloatOf(Num[f]) = f
      BY <2>1, FloatOfDenormal, WordNumber
    <2>4. s \cup FloatOf(Num[f]) = Float(s, e, f)
      BY <1>3, <2>3, ZeroField DEF Float
    <2>5. Num[f] < Limit
      BY <1>1, <2>1, <2>2
    <2>6. QED
      BY <1>2, <2>1, <2>4, <2>5
  <1>4. CASE e # 0
    <2>1. e \in 1..(MaxExp - 1) /\ e \in Nat \ {0} /\ F + e \in Nat /\ F + e <= MaxExp - 1 + F
      BY <1>1, <1>4
    <2>2. Value(e, f) = Normal(e, f) /\ Normal(e, f) \in Nat /\ Normal(e, f) < 2^(F + e)
      BY <1>4, <2>1, NormalIs DEF Value
    <2>3. 2^(F + e) <= Limit /\ Limit \in Nat /\ 2^(F + e) \in Nat
      BY <1>1, <2>1, PowerMonotonic, PowerType DEF Limit
    <2>4. FloatOf(Normal(e, f)) = ExpField(e) \cup f
      BY <2>1, FloatOfNormal
    <2>5. s \cup FloatOf(Normal(e, f)) = Float(s, e, f)
      BY <2>4 DEF Float
    <2>6. Normal(e, f) < Limit
      BY <2>2, <2>3
    <2>7. QED
      BY <1>2, <2>2, <2>5, <2>6
  <1>5. QED
    BY <1>3, <1>4

Doubles(uf, res) ==
    IF 2 * Magnitude(uf) < Limit
    THEN IsFinite(res) /\ Magnitude(res) = 2 * Magnitude(uf)
    ELSE res = SignOf(uf) \cup Inf

LEMMA ScaleRight ==
    ASSUME NEW uf \in Word
    PROVE  LET res == floatScale2(uf) IN
           /\ res = test_floatScale2(uf) /\ SignOf(res) = SignOf(uf)
           /\ ~IsFinite(uf) => res = uf
           /\ IsFinite(uf) => Doubles(uf, res)
  <1> DEFINE s == SignOf(uf)
             e == ExpOf(uf)
             f == FracOf(uf)
             res == floatScale2(uf)
  <1>1. /\ s \in Signs /\ e \in 0..MaxExp /\ f \in Fraction /\ uf = Float(s, e, f)
        /\ MaxExp \in Nat /\ MaxExp >= 7 /\ e \in Nat
    BY FieldsOf, FloatConstants
  <1>2. Magnitude(uf) = Value(e, f)
    BY <1>1, MagnitudeOfFields DEF Value
  <1>3. /\ IsFinite(uf) <=> e # MaxExp
        /\ test_floatScale2(uf) = IF e # MaxExp THEN s \cup FloatOf(2 * Magnitude(uf)) ELSE uf
        /\ res = IF e = MaxExp THEN uf
               ELSE IF e = 0 THEN s \cup Shl(f, 1)
               ELSE IF e + 1 = MaxExp THEN s \cup Inf
               ELSE s \cup Shl(WordOf(e + 1), F) \cup f
    BY DEF IsFinite, test_floatScale2, floatScale2
  <1>4. SignOf(uf) = s
    OBVIOUS
  <1> SUFFICES /\ res = test_floatScale2(uf) /\ SignOf(res) = SignOf(uf)
               /\ ~IsFinite(uf) => res = uf
               /\ IsFinite(uf) => Doubles(uf, res)
    OBVIOUS
  <1> HIDE DEF s, e, f, res
  <1>5. ASSUME NEW g \in 0..(MaxExp - 1), NEW h \in Fraction, 2 * Magnitude(uf) = Value(g, h),
               e # MaxExp, res = Float(s, g, h)
        PROVE  res = test_floatScale2(uf) /\ SignOf(res) = SignOf(uf) /\ IsFinite(uf) /\ Doubles(uf, res)
    <2> DEFINE m == Value(g, h)
               v == Float(s, g, h)
    <2>1. m < Limit /\ s \cup FloatOf(m) = v /\ SignOf(v) = s /\ IsFinite(v) /\ Magnitude(v) = m
      BY <1>1, Representable
    <2>2. res = v /\ 2 * Magnitude(uf) = m
      BY <1>5
    <2> HIDE DEF m, v
    <2>3. IsFinite(uf) /\ test_floatScale2(uf) = v
      BY <1>3, <1>5, <2>1, <2>2
    <2>4. Doubles(uf, res)
      BY <2>1, <2>2 DEF Doubles
    <2>5. QED
      BY <1>4, <2>1, <2>2, <2>3, <2>4
  <1>6. CASE e = MaxExp
    BY <1>3, <1>4, <1>6
  <1>7. CASE e = 0
    <2> DEFINE n == Num[f]
               p == 2^F
    <2>1. n \in Nat /\ n < p /\ p \in Nat \ {0} /\ Magnitude(uf) = n /\ f \in Word
      BY <1>1, <1>2, <1>7, FractionIs, FloatConstants DEF Value
    <2>2. res = s \cup WordOf(2 * n)
      <3>0. 2^1 = 2
        OBVIOUS
      <3>1. Shl(f, 1) = WordOf(n * 2^1) /\ 2^1 = 2
        BY <2>1, <3>0, 1 \in Nat, ShlIs DEF n
      <3>2. n * 2^1 = 2 * n
        BY <2>1, <3>1
      <3>3. QED
        BY <1>1, <1>3, <1>7, <3>1, <3>2
    <2> HIDE DEF n, p
    <2>3. CASE 2 * n < p
      <3> DEFINE h == WordOf(2 * n)
      <3>1. h \in Fraction /\ Num[h] = 2 * n
        BY <2>1, <2>3, FractionOf DEF p
      <3>2. res = Float(s, 0, h)
        BY <2>2, ZeroField DEF Float
      <3> HIDE DEF h
      <3>3. 0 \in 0..(MaxExp - 1) /\ 2 * Magnitude(uf) = Value(0, h)
        BY <1>1, <2>1, <3>1 DEF Value
      <3>4. QED
        BY <1>1, <1>5, <1>7, <3>1, <3>2, <3>3
    <2>4. CASE ~(2 * n < p)
      <3> DEFINE h == WordOf(2 * n - p)
      <3>1. 2 * n - p \in Nat /\ 2 * n - p < p
        BY <2>1, <2>4
      <3>2. h \in Fraction /\ Num[h] = 2 * n - p
        BY <3>1, FractionOf DEF p
      <3>3. Value(1, h) = 2 * n
        <4>1. 1 - 1 = 0 /\ 2^0 = 1
          OBVIOUS
        <4>2. Value(1, h) = (p + Num[h]) * 1
          BY <4>1 DEF Value, Normal, p
        <4> HIDE DEF h
        <4>3. QED
          BY <2>1, <3>2, <4>2
      <3>4. WordOf(2 * n) = ExpField(1) \cup h
        <4>1. 1 \in 0..MaxExp /\ 1 * 2^F + Num[h] = 2 * n
          BY <1>1, <2>1, <3>2 DEF p
        <4>2. QED
          BY <3>2, <4>1, FieldsNumber
      <3>5. res = Float(s, 1, h)
        BY <2>2, <3>4 DEF Float
      <3> HIDE DEF h
      <3>6. 1 \in 0..(MaxExp - 1) /\ 2 * Magnitude(uf) = Value(1, h)
        BY <1>1, <2>1, <3>3
      <3>7. QED
        BY <1>1, <1>5, <1>7, <3>2, <3>5, <3>6
    <2>5. QED
      BY <2>3, <2>4
  <1>8. CASE e \in 1..(MaxExp - 1)
    <2>1. /\ Magnitude(uf) = Normal(e, f) /\ 2 * Normal(e, f) = Normal(e + 1, f)
          /\ e # 0 /\ e + 1 # 0 /\ e # MaxExp /\ e + 1 \in Nat \ {0}
      BY <1>1, <1>2, <1>8, NormalIs DEF Value
    <2>2. CASE e + 1 # MaxExp
      <3>1. e + 1 \in 0..(MaxExp - 1) /\ 2 * Magnitude(uf) = Value(e + 1, f)
        BY <1>1, <1>8, <2>1, <2>2 DEF Value
      <3>2. res = Float(s, e + 1, f)
        BY <1>3, <2>1, <2>2 DEF Float, ExpField
      <3>3. QED
        BY <1>1, <1>5, <2>1, <3>1, <3>2
    <2>3. CASE e + 1 = MaxExp
      <3>1. res = s \cup Inf
        BY <1>3, <2>1, <2>3
      <3>2. 2 * Magnitude(uf) >= Limit /\ 2 * Magnitude(uf) \in Nat
        <4>1. 2^(F + (e + 1) - 1) <= Normal(e + 1, f) /\ Normal(e + 1, f) \in Nat
          BY <1>1, <2>1, NormalIs
        <4>2. F + (e + 1) - 1 = MaxExp - 1 + F
          BY <1>1, <2>3, FloatConstants
        <4>3. 2^(F + (e + 1) - 1) = Limit /\ Limit \in Nat
          BY <1>1, <4>2, PowerType, FloatConstants DEF Limit
        <4>4. QED
          BY <2>1, <4>1, <4>3
      <3>3. ~(2 * Magnitude(uf) < Limit)
        <4>1. Limit \in Int
          BY <1>1, PowerType, FloatConstants DEF Limit
        <4>2. QED
          BY <3>2, <4>1
      <3>4. FloatOf(2 * Magnitude(uf)) = Inf
        BY <3>2 DEF FloatOf, Limit
      <3>5. SignOf(res) = s
        <4>1. res = Float(s, MaxExp, {})
          BY <3>1 DEF Float, Inf, ExpField
        <4>2. MaxExp \in 0..MaxExp /\ {} \in Fraction
          BY <1>1 DEF Fraction
        <4>3. QED
          BY <1>1, <4>1, <4>2, FieldsTo
      <3>6. QED
        BY <1>3, <1>4, <2>1, <3>1, <3>3, <3>4, <3>5 DEF Doubles
    <2>4. QED
      BY <2>2, <2>3
  <1>9. e = MaxExp \/ e = 0 \/ e \in 1..(MaxExp - 1)
    BY <1>1
  <1>10. QED
    BY <1>6, <1>7, <1>8, <1>9

-----------------------------------------------------------------------------
(* floatFloat2Int: the whole part of a magnitude *)

LEMMA QuotientRange ==
    ASSUME NEW n \in Int, NEW d \in Nat \ {0}, NEW a \in Int, NEW b \in Int, a * d <= n, n < b * d
    PROVE  a <= n \div d /\ n \div d < b
  <1> DEFINE q == n \div d
  <1>1. q \in Int /\ q * d <= n /\ n < q * d + d
    BY QuotientBounds
  <1> HIDE DEF q
  <1>2. \A x, y \in Int : x <= y => x * d <= y * d
    OBVIOUS
  <1>3. a * d \in Int /\ b * d \in Int /\ q * d \in Int /\ (q + 1) * d = q * d + d
    BY <1>1
  <1>4. a <= q
    <2> SUFFICES ASSUME q + 1 <= a PROVE FALSE
      BY <1>1
    <2>1. (q + 1) * d <= a * d
      BY <1>1, <1>2
    <2>2. QED
      BY <1>1, <1>3, <2>1
  <1>5. q < b
    <2> SUFFICES ASSUME b <= q PROVE FALSE
      BY <1>1
    <2>1. b * d <= q * d
      BY <1>1, <1>2
    <2>2. QED
      BY <1>1, <1>3, <2>1
  <1>6. QED
    BY <1>4, <1>5 DEF q

Whole(uf) == Magnitude(uf) \div UnitsInOne

LEMMA UnitsIs ==
    /\ Bias - 1 \in Nat /\ Bias - 1 + F \in Nat /\ Bias - 1 + F = F + (Bias - 1)
    /\ UnitsInOne \in Nat \ {0}
  <1>1. Bias \in Nat /\ Bias >= 3 /\ F \in Nat
    BY FloatConstants
  <1>2. Bias - 1 \in Nat /\ Bias - 1 + F \in Nat /\ Bias - 1 + F = F + (Bias - 1)
    BY <1>1
  <1>3. QED
    BY <1>2, PowerType DEF UnitsInOne

LEMMA WholeOfSmall ==
    ASSUME NEW m \in Nat, m < UnitsInOne
    PROVE  m \div UnitsInOne = 0
  <1>1. UnitsInOne \in Nat \ {0}
    BY UnitsIs
  <1>2. 0 * UnitsInOne <= m /\ m < 0 * UnitsInOne + UnitsInOne
    BY <1>1
  <1>3. QED
    BY <1>1, <1>2, QuotientIs

(* A float of exponent E >= 0: its integral part is its fraction shifted   *)
(* by E - F, one way or the other, and has E + 1 bits.                     *)
LEMMA WholeOfNormal ==
    ASSUME NEW e \in Nat, NEW f \in Fraction, NEW E \in Nat, e = E + Bias
    PROVE  LET w == Normal(e, f) \div UnitsInOne
               M == 2^F + Num[f]
           IN  /\ w \in Nat /\ 2^E <= w /\ w < 2^(E + 1)
               /\ E >= F => w = M * 2^(E - F)
               /\ E < F => w = M \div 2^(F - E)
  <1> DEFINE M == 2^F + Num[f]
             U == UnitsInOne
             m == Normal(e, f)
             w == m \div U
  <1>1. /\ F \in Nat /\ Bias \in Nat /\ Bias >= 3 /\ Bias - 1 \in Nat /\ Bias - 1 + F \in Nat
        /\ U \in Nat \ {0} /\ E \in Int /\ 2^F \in Nat
    BY FloatConstants, UnitsIs
  <1>2. M \in Nat
    <2>1. Num[f] \in Nat
      BY FractionIs
    <2>2. QED
      BY <1>1, <2>1
  <1>3. m \in Nat /\ 2^(F + e - 1) <= m /\ m < 2^(F + e)
    <2>1. e \in Nat \ {0}
      BY <1>1
    <2>2. QED
      BY <2>1, NormalIs
  <1>4. m = M * 2^(e - 1)
    BY DEF Normal
  <1>5. U = 2^(Bias - 1 + F)
    BY DEF UnitsInOne
  <1> HIDE DEF M, U, m
  <1>6. 2^E * U <= m /\ m < 2^(E + 1) * U /\ 2^E \in Nat /\ 2^(E + 1) \in Nat
    <2>1. /\ E + (Bias - 1 + F) = F + e - 1 /\ (E + 1) + (Bias - 1 + F) = F + e
          /\ E + 1 \in Nat
      BY <1>1
    <2>2. /\ 2^(E + (Bias - 1 + F)) = 2^E * 2^(Bias - 1 + F)
          /\ 2^((E + 1) + (Bias - 1 + F)) = 2^(E + 1) * 2^(Bias - 1 + F)
      BY <1>1, <2>1, PowerSum
    <2>3. 2^E \in Nat /\ 2^(E + 1) \in Nat
      BY <2>1, PowerType
    <2>4. QED
      BY <1>3, <1>5, <2>1, <2>2, <2>3
  <1>7. 2^E <= w /\ w < 2^(E + 1) /\ w \in Int
    <2>1. m \in Int /\ 2^E \in Int /\ 2^(E + 1) \in Int
      BY <1>3, <1>6
    <2>2. w \in Int
      BY <1>1, <2>1, QuotientBounds
    <2>3. QED
      BY <1>1, <1>6, <2>1, <2>2, QuotientRange
  <1>8. w \in Nat
    BY <1>6, <1>7
  <1>9. ASSUME E >= F PROVE w = M * 2^(E - F)
    <2> DEFINE p == 2^(E - F)
    <2>1. E - F \in Nat /\ e - 1 = (E - F) + (Bias - 1 + F)
      BY <1>1, <1>9
    <2>2. 2^(e - 1) = p * U /\ p \in Nat
      BY <1>1, <1>5, <2>1, PowerSum, PowerType
    <2> HIDE DEF p
    <2>3. m = (M * p) * U /\ M * p \in Int /\ (M * p) * U \in Int
      BY <1>1, <1>2, <1>4, <2>2
    <2>4. (M * p) * U <= m /\ m < (M * p) * U + U
      BY <1>1, <2>3
    <2>5. w = M * p
      BY <1>1, <2>3, <2>4, QuotientIs
    <2>6. QED
      BY <2>5 DEF p
  <1>10. ASSUME E < F PROVE w = M \div 2^(F - E)
    <2> DEFINE p == 2^(F - E)
               q == 2^(e - 1)
    <2>1. F - E \in Nat /\ e - 1 \in Nat /\ (e - 1) + (F - E) = Bias - 1 + F
      BY <1>1, <1>10
    <2>2. U = q * p /\ p \in Nat \ {0} /\ q \in Nat \ {0}
      BY <1>5, <2>1, PowerSum, PowerType
    <2>3. m = M * q
      BY <1>4
    <2> HIDE DEF p, q
    <2>4. (M * q) \div q = M /\ M * q \in Int
      <3>1. M * q \in Int /\ M * q <= M * q /\ M * q < M * q + q /\ M \in Int
        BY <1>2, <2>2
      <3>2. QED
        BY <2>2, <3>1, QuotientIs
    <2>5. ((M * q) \div q) \div p = (M * q) \div (q * p)
      BY <2>2, <2>4, QuotientTwice
    <2>6. QED
      BY <2>2, <2>3, <2>4, <2>5 DEF p
  <1>11. QED
    BY <1>7, <1>8, <1>9, <1>10 DEF M, m, U

LEMMA OutOfRangeIs == WordOf(-2^(W - 1)) = OutOfRange
  <1>1. {} \in Word /\ W - 1 \in Bit /\ W - 1 \notin {} /\ {} \cup {W - 1} = {W - 1}
    BY HalfIs, ConstantWords
  <1>2. {W - 1} \in Word /\ Num[{W - 1}] = Num[{}] + 2^(W - 1)
    BY <1>1, NumBit
  <1>3. Half \in Nat /\ Half >= 128 /\ Half = 2^(W - 1)
    BY HalfIs DEF Half
  <1>4. Num[{W - 1}] = Half
    BY <1>2, <1>3, NumEmpty
  <1>5. -Half \in Int /\ (-Half) % 2^W = Half
    <2>1. -Half \in Int /\ -2 * Half <= -Half /\ -Half < 0 /\ -Half + 2 * Half = Half
      BY <1>3
    <2>2. QED
      BY <2>1, WrapIs
  <1>6. WordOf(-Half) \in Word /\ Num[WordOf(-Half)] = Half
    BY <1>5, WordOfType, NumWordOf
  <1>7. WordOf(-Half) = {W - 1}
    BY <1>2, <1>4, <1>6, NumInjective
  <1>8. QED
    BY <1>3, <1>7 DEF OutOfRange

LEMMA MinusNothing ==
    ASSUME NEW n \in Int, n = 0
    PROVE  -n = 0
  <1>1. -n \in Int /\ n + (-n) = 0
    OBVIOUS
  <1>2. \A k, m \in Int : k + m = 0 /\ k = 0 => m = 0
    OBVIOUS
  <1>3. QED
    BY <1>1, <1>2

LEMMA Float2IntRight ==
    ASSUME NEW uf \in Word
    PROVE  floatFloat2Int(uf) = test_floatFloat2Int(uf)
  <1> DEFINE s == SignOf(uf)
             e == ExpOf(uf)
             f == FracOf(uf)
             E == e - Bias
             w == Whole(uf)
             M == 2^F + Num[f]
             result == IF E >= F THEN Shl(f \cup {F}, E - F) ELSE Shr(f \cup {F}, F - E)
             int    == IF s = {} THEN w ELSE -w
             InInt(x) == x \in -2^(W - 1)..(2^(W - 1) - 1)
  <1>1. /\ s \in Signs /\ e \in 0..MaxExp /\ f \in Fraction /\ uf = Float(s, e, f)
        /\ MaxExp \in Nat /\ e \in Nat /\ Bias \in Nat /\ Bias >= 3 /\ F \in Nat /\ W \in Nat
        /\ Half \in Nat /\ Half >= 128 /\ W - 1 \in Nat
    BY FieldsOf, FloatConstants
  <1>2. Magnitude(uf) = Value(e, f)
    BY <1>1, MagnitudeOfFields DEF Value
  <1>3. floatFloat2Int(uf) = IF e = MaxExp THEN OutOfRange
                             ELSE IF e = 0 \/ E < 0 THEN {}
                             ELSE IF TooLarge(E) THEN OutOfRange
                             ELSE IF s # {} THEN negate(result) ELSE result
    BY DEF floatFloat2Int
  <1>4. /\ test_floatFloat2Int(uf) = WordOf(IF e # MaxExp /\ InInt(int) THEN int ELSE -2^(W - 1))
        /\ w = Magnitude(uf) \div UnitsInOne
    BY DEF test_floatFloat2Int, IsFinite, Whole
  <1>5. \A x \in Int : InInt(x) <=> -Half <= x /\ x < Half
    BY <1>1 DEF Half
  <1>6. f \cup {F} \in Word /\ Num[f \cup {F}] = M /\ M \in Nat /\ Num[f] \in Nat /\ Num[f] < 2^F
        /\ 2^F \in Nat
    <2>1. f \cup {F} \in Word /\ Num[f \cup {F}] = M /\ Num[f] \in Nat /\ Num[f] < 2^F /\ 2^F \in Nat
      BY <1>1, FractionIs, PowerType
    <2>2. QED
      BY <2>1
  <1> HIDE DEF s, e, f, E, w, M, result, int, InInt
  <1>7. WordOf(0) = {}
    <2>1. {} \in Word /\ Num[{}] = 0
      BY ConstantWords
    <2>2. WordOf(Num[{}]) = {}
      BY <2>1, WordNumber
    <2>3. QED
      BY <2>1, <2>2
  <1>8. CASE e = MaxExp
    BY <1>3, <1>4, <1>8, OutOfRangeIs
  <1>9. CASE e # MaxExp /\ (e = 0 \/ E < 0)
    <2>1. Magnitude(uf) \in Nat /\ Magnitude(uf) < UnitsInOne
      <3>1. CASE e = 0
        <4>1. Magnitude(uf) = Num[f]
          BY <1>2, <3>1 DEF Value
        <4>2. 2^F <= UnitsInOne /\ UnitsInOne \in Nat
          <5>1. F <= Bias - 1 + F /\ Bias - 1 + F \in Nat
            BY <1>1
          <5>2. QED
            BY <1>1, <5>1, PowerMonotonic, PowerType DEF UnitsInOne
        <4>3. QED
          BY <1>6, <4>1, <4>2
      <3>2. CASE e # 0
        <4>1. Magnitude(uf) = Normal(e, f) /\ Normal(e, f) \in Nat /\ Normal(e, f) < 2^(F + e)
          BY <1>1, <1>2, <3>2, NormalIs DEF Value
        <4>2. F + e <= Bias - 1 + F /\ F + e \in Nat /\ Bias - 1 + F \in Nat
          BY <1>1, <1>9, <3>2 DEF E
        <4>3. 2^(F + e) <= UnitsInOne /\ UnitsInOne \in Nat /\ 2^(F + e) \in Nat
          BY <4>2, PowerMonotonic, PowerType DEF UnitsInOne
        <4>4. QED
          BY <4>1, <4>3
      <3>3. QED
        BY <3>1, <3>2
    <2>2. w = 0
      BY <1>4, <2>1, WholeOfSmall
    <2>3. int = 0 /\ InInt(0)
      <3>a. w \in Int
        BY <2>2
      <3>1. -w = 0
        BY <2>2, <3>a, MinusNothing, Zenon
      <3>2. -Half <= 0 /\ 0 < Half
        BY <1>1
      <3>3. QED
        BY <1>5, <2>2, <3>1, <3>2 DEF int
    <2>4. QED
      BY <1>3, <1>4, <1>7, <1>9, <2>3
  <1>10. CASE e # MaxExp /\ e # 0 /\ ~(E < 0)
    <2>1. E \in Nat /\ e = E + Bias /\ e \in Nat
      BY <1>1, <1>10 DEF E
    <2>2. w = Normal(e, f) \div UnitsInOne
      BY <1>2, <1>4, <1>10 DEF Value
    <2>3. /\ w \in Nat /\ 2^E <= w /\ w < 2^(E + 1)
          /\ E >= F => w = M * 2^(E - F)
          /\ E < F => w = M \div 2^(F - E)
      BY <1>1, <2>1, <2>2, WholeOfNormal DEF M
    <2>4. CASE TooLarge(E)
      <3>1. Half <= 2^E /\ 2^E \in Nat
        <4>1. W - 1 <= E
          BY <1>1, <2>1, <2>4 DEF TooLarge
        <4>2. QED
          BY <1>1, <2>1, <4>1, PowerMonotonic, PowerType DEF Half
      <3>2. Half <= w
        BY <1>1, <2>3, <3>1
      <3>3. int \in Int /\ (InInt(int) => int = -Half)
        <4>1. int = w \/ int = -w
          BY DEF int
        <4>2. int \in Int
          BY <2>3, <4>1
        <4>3. QED
          BY <1>1, <1>5, <2>3, <3>2, <4>1, <4>2
      <3>4. QED
        BY <1>3, <1>4, <1>10, <2>4, <3>3, OutOfRangeIs DEF Half
    <2>5. CASE ~TooLarge(E)
      <3>1. w < Half
        <4>1. E + 1 <= W - 1 /\ E + 1 \in Nat
          BY <1>1, <2>1, <2>5 DEF TooLarge
        <4>2. 2^(E + 1) <= Half /\ 2^(E + 1) \in Nat
          BY <1>1, <4>1, PowerMonotonic, PowerType DEF Half
        <4>3. QED
          BY <1>1, <2>3, <4>2
      <3>2. InInt(w) /\ InInt(-w) /\ w \in Int /\ -w \in Int
        <4>1. w \in Int /\ -w \in Int /\ -Half <= w /\ w < Half /\ -Half <= -w /\ -w < Half
          BY <1>1, <2>3, <3>1
        <4>2. QED
          BY <1>5, <4>1
      <3>3. result = WordOf(w) /\ result \in Word
        <4>1. CASE E >= F
          <5>1. E - F \in Nat /\ result = Shl(f \cup {F}, E - F)
            BY <1>1, <2>1, <4>1 DEF result
          <5>2. QED
            BY <1>6, <2>3, <4>1, <5>1, ShlIs
        <4>2. CASE E < F
          <5>1. F - E \in Nat /\ result = Shr(f \cup {F}, F - E)
            BY <1>1, <2>1, <4>2 DEF result
          <5>2. QED
            BY <1>6, <2>3, <4>2, <5>1, ShrIs
        <4>3. QED
          BY <1>1, <2>1, <4>1, <4>2
      <3>4. Num[result] = w
        <4>1. 0 <= w /\ w < 2 * Half /\ w \in Int
          BY <1>1, <2>3, <3>1
        <4>2. QED
          BY <3>3, <4>1, NumWordOf, WrapIs
      <3>5. negate(result) = WordOf(-w)
        BY <3>3, <3>4, NegateIs
      <3>6. test_floatFloat2Int(uf) = WordOf(int)
        BY <1>4, <1>10, <3>2 DEF int
      <3>7. floatFloat2Int(uf) = IF s # {} THEN negate(result) ELSE result
        BY <1>3, <1>10, <2>5
      <3>8. QED
        BY <3>3, <3>5, <3>6, <3>7 DEF int
    <2>6. QED
      BY <2>4, <2>5
  <1>11. QED
    BY <1>8, <1>9, <1>10

-----------------------------------------------------------------------------
(* floatPower2 and the loop of its test *)

LEMMA PowerConstants ==
    /\ Bias \in Nat /\ Bias >= 3 /\ F \in Nat /\ F >= 1 /\ MaxExp = 2 * Bias + 1 /\ MaxExp \in Nat
    /\ LeastPower \in Int /\ LeastPower = 1 - Bias - F
    /\ Half \in Nat /\ Half >= 128 /\ Bias + F < Half /\ Bias < Half
    /\ Ints = -Half..(Half - 1) /\ Powers = (LeastPower - 1)..(Bias + 1)
  <1> DEFINE p == 2^F
  <1>1. /\ Bias \in Nat /\ Bias >= 3 /\ F \in Nat /\ F >= 1 /\ MaxExp = 2 * Bias + 1 /\ MaxExp \in Nat
        /\ p \in Nat \ {0} /\ Half \in Nat /\ Half >= 128 /\ (MaxExp + 1) * p = Half /\ F < p
    BY FloatConstants, BelowPower
  <1> HIDE DEF p
  <1>2. (MaxExp + 1) * p = 2 * (Bias * p) + 2 * p /\ Bias * p \in Nat /\ Bias <= Bias * p
    BY <1>1
  <1>3. Bias + F < Half /\ Bias < Half
    BY <1>1, <1>2
  <1>4. LeastPower \in Int /\ LeastPower = 1 - Bias - F
    BY <1>1 DEF LeastPower
  <1>5. Ints = -Half..(Half - 1) /\ Powers = (LeastPower - 1)..(Bias + 1)
    BY DEF Ints, Powers, Half
  <1>6. QED
    BY <1>1, <1>3, <1>4, <1>5

LEMMA TimesType ==
    ASSUME NEW p \in Powers, NEW q \in Powers
    PROVE  Times(p, q) \in Powers
  BY PowerConstants DEF Times

LEMMA RoundType ==
    ASSUME NEW s \in Loop, s.x > 0
    PROVE  /\ Round(s) \in Loop /\ Round(s).x = s.x \div 2 /\ Round(s).x \in 0..(s.x - 1)
           /\ Round(s).result = IF s.x % 2 = 1 THEN Times(s.result, s.p2) ELSE s.result
           /\ Round(s).p2 = Times(s.p2, s.p2)
  <1>1. s.x \in Ints /\ s.result \in Powers /\ s.p2 \in Powers
    BY DEF Loop
  <1>2. Half \in Nat /\ Ints = -Half..(Half - 1)
    BY PowerConstants
  <1>3. s.x \in Int /\ s.x < Half
    BY <1>1, <1>2
  <1>4. s.x \div 2 \in 0..(s.x - 1)
    BY <1>3
  <1>5. s.x \div 2 \in Ints
    BY <1>2, <1>3, <1>4
  <1>6. Times(s.p2, s.p2) \in Powers /\ Times(s.result, s.p2) \in Powers
    BY <1>1, TimesType
  <1>7. QED
    BY <1>1, <1>4, <1>5, <1>6 DEF Round, Loop

PowerLoop(g) == \A s \in Loop : g[s] = IF s.x <= 0 THEN s.result ELSE g[Round(s)]

Start(x) == IF Signed(x) < 0 THEN [x |-> Signed(WordOf(-Signed(x))), result |-> 0, p2 |-> -1]
                             ELSE [x |-> Signed(x), result |-> 0, p2 |-> 1]

LEMMA PowerLoops ==
    ASSUME NEW x \in Word
    PROVE  \E g : /\ PowerLoop(g)
                  /\ test_floatPower2(x) = IF Special(x) \/ g[Start(x)] < LeastPower THEN {}
                                           ELSE IF g[Start(x)] > Bias THEN Inf
                                           ELSE FloatOf(2^(g[Start(x)] - LeastPower))
  <1> DEFINE Stop    == {s \in Loop : s.x <= 0}
             rank    == [s \in Loop |-> IF s.x <= 0 THEN 0 ELSE s.x]
             base    == [s \in Loop |-> s.result]
             next    == [s \in Loop |-> IF s.x <= 0 THEN s ELSE Round(s)]
             op      == [s \in Loop |-> [v \in Powers |-> v]]
             Body(g) == [s \in Loop |-> IF s.x <= 0 THEN s.result ELSE g[Round(s)]]
  <1>1. Half \in Nat /\ \A s \in Loop : s.x \in Int /\ s.x < Half /\ s.result \in Powers
    BY PowerConstants DEF Loop
  <1>2. /\ rank \in [Loop -> 0..Half] /\ base \in [Loop -> Powers]
        /\ op \in [Loop -> [Powers -> Powers]]
        /\ \A s \in Loop : rank[s] = (IF s.x <= 0 THEN 0 ELSE s.x) /\ base[s] = s.result
        /\ \A s \in Loop, v \in Powers : op[s][v] = v
        /\ \A s \in Loop : s \in Stop <=> s.x <= 0
    BY <1>1
  <1>3. /\ next \in [Loop -> Loop]
        /\ \A s \in Loop : ~(s.x <= 0) => next[s] = Round(s) /\ next[s] \in Loop /\ next[s].x \in 0..(s.x - 1)
    <2>1. ASSUME NEW s \in Loop, ~(s.x <= 0) PROVE Round(s) \in Loop /\ Round(s).x \in 0..(s.x - 1)
      <3>1. s.x > 0
        BY <1>1, <2>1
      <3>2. QED
        BY <3>1, RoundType
    <2>2. QED
      BY <2>1
  <1> HIDE DEF Stop, rank, base, next, op
  <1>4. Descends(rank, next, Stop, Loop)
    <2> SUFFICES ASSUME NEW s \in Loop, s \notin Stop PROVE rank[next[s]] < rank[s]
      BY DEF Descends
    <2>1. ~(s.x <= 0) /\ s.x \in Int /\ rank[s] = s.x
      BY <1>1, <1>2
    <2>2. next[s] \in Loop /\ next[s].x \in 0..(s.x - 1)
      BY <1>3, <2>1
    <2>3. rank[next[s]] = IF next[s].x <= 0 THEN 0 ELSE next[s].x
      BY <1>2, <2>2
    <2>4. QED
      BY <2>1, <2>2, <2>3
  <1>5. PICK g \in [Loop -> Powers] : Recursive(g, base, op, next, Stop, Loop)
    <2>1. /\ Half \in Nat /\ rank \in [Loop -> 0..Half] /\ base \in [Loop -> Powers]
          /\ op \in [Loop -> [Powers -> Powers]] /\ next \in [Loop -> Loop]
      BY <1>1, <1>2, <1>3
    <2>2. QED
      BY <1>4, <2>1, Recursion
  <1>6. ASSUME NEW s \in Loop
        PROVE  g[s] = IF s.x <= 0 THEN s.result ELSE g[Round(s)]
    <2>1. g[s] = IF s \in Stop THEN base[s] ELSE op[s][g[next[s]]]
      BY <1>5 DEF Recursive
    <2>2. CASE s.x <= 0
      BY <1>2, <2>1, <2>2
    <2>3. CASE ~(s.x <= 0)
      <3>1. next[s] = Round(s) /\ next[s] \in Loop
        BY <1>3, <2>3
      <3>2. g[next[s]] \in Powers
        BY <3>1
      <3>3. QED
        BY <1>2, <2>1, <2>3, <3>1, <3>2
    <2>4. QED
      BY <2>2, <2>3
  <1>7. g = Body(g)
    BY <1>5, <1>6
  <1> DEFINE power == CHOOSE h : h = Body(h)
  <1>8. power = Body(power)
    <2> HIDE DEF Body
    <2>1. QED
      BY <1>7
  <1>9. PowerLoop(power)
    <2> HIDE DEF power
    <2>1. QED
      BY <1>8 DEF PowerLoop
  <1>10. test_floatPower2(x) = IF Special(x) \/ power[Start(x)] < LeastPower THEN {}
                               ELSE IF power[Start(x)] > Bias THEN Inf
                               ELSE FloatOf(2^(power[Start(x)] - LeastPower))
    BY DEF test_floatPower2, Start
  <1>11. QED
    BY <1>9, <1>10

(* Above 1, the product is the power 2^(result + x * p2), or infinity; and *)
(* one round does not change it.                                           *)
Above(n) == IF n > Bias THEN Bias + 1 ELSE n

LEMMA RoundAbove ==
    ASSUME NEW x \in Nat \ {0}, NEW r0 \in 0..(Bias + 1), NEW p \in 1..(Bias + 1),
           NEW r1, r1 = IF x % 2 = 1 THEN Times(r0, p) ELSE r0
    PROVE  /\ r1 \in 0..(Bias + 1) /\ Times(p, p) \in 1..(Bias + 1)
           /\ Above(r1 + (x \div 2) * Times(p, p)) = Above(r0 + x * p)
  <1> DEFINE h == x \div 2
             b == x % 2
             z == h * p
             q == Times(p, p)
  <1>1. Bias \in Nat /\ LeastPower \in Int /\ LeastPower < 0
    BY PowerConstants
  <1>2. h \in Nat /\ b \in {0, 1} /\ x = 2 * h + b
    OBVIOUS
  <1> HIDE DEF h, b
  <1>3. z \in Nat /\ x * p = 2 * z + (IF b = 1 THEN p ELSE 0)
    <2>1. z \in Nat
      BY <1>1, <1>2
    <2>2. x * p = 2 * (h * p) + b * p
      BY <1>1, <1>2
    <2>3. b * p = IF b = 1 THEN p ELSE 0
      BY <1>1, <1>2
    <2>4. QED
      BY <2>1, <2>2, <2>3
  <1>4. r0 \in Int /\ p \in Int /\ 0 <= r0 /\ 1 <= p
    BY <1>1
  <1>5. q = IF p + p > Bias THEN Bias + 1 ELSE p + p
    BY <1>1, <1>4 DEF Times
  <1>6. r1 = IF b = 1 THEN (IF r0 + p > Bias THEN Bias + 1 ELSE r0 + p) ELSE r0
    BY <1>1, <1>4 DEF Times, b
  <1>7. h # 0 => z >= p
    BY <1>2, <1>4
  <1>8. r1 \in 0..(Bias + 1) /\ q \in 1..(Bias + 1) /\ r1 \in Int
    BY <1>1, <1>2, <1>4, <1>5, <1>6
  <1>9. CASE p + p <= Bias
    <2>1. h * q = 2 * z
      <3>1. q = p + p
        BY <1>1, <1>4, <1>5, <1>9
      <3>2. h * (p + p) = 2 * (h * p)
        BY <1>2, <1>4
      <3>3. QED
        BY <3>1, <3>2
    <2> HIDE DEF z
    <2>2. Above(r1 + 2 * z) = Above(r0 + (2 * z + (IF b = 1 THEN p ELSE 0)))
      BY <1>1, <1>2, <1>3, <1>4, <1>6 DEF Above
    <2>3. QED
      BY <1>3, <1>8, <2>1, <2>2 DEF h
  <1>10. CASE p + p > Bias
    <2>1. CASE h = 0
      <3>1. b = 1 /\ h * q = 0 /\ z = 0 /\ x * p = p
        BY <1>2, <1>3, <1>4, <1>8, <2>1
      <3>2. Above(r1 + 0) = Above(r0 + p)
        BY <1>1, <1>4, <1>6, <3>1 DEF Above
      <3>3. QED
        BY <1>8, <3>1, <3>2 DEF h
    <2>2. CASE h # 0
      <3>1. h * q >= Bias + 1 /\ h * q \in Int
        <4>1. q = Bias + 1 /\ h >= 1
          BY <1>2, <1>5, <1>10, <2>2
        <4>2. QED
          BY <1>1, <1>2, <4>1
      <3>2. Above(r1 + h * q) = Bias + 1
        <4> DEFINE y == h * q
        <4> HIDE DEF y
        <4>1. y >= Bias + 1 /\ y \in Int
          BY <3>1 DEF y
        <4>2. Above(r1 + y) = Bias + 1
          BY <1>1, <1>8, <4>1 DEF Above
        <4>3. QED
          BY <4>2 DEF y
      <3> HIDE DEF z
      <3>3. Above(r0 + (2 * z + (IF b = 1 THEN p ELSE 0))) = Bias + 1
        BY <1>1, <1>2, <1>3, <1>4, <1>7, <1>10, <2>2 DEF Above
      <3>4. QED
        BY <1>3, <1>8, <3>2, <3>3 DEF h
    <2>3. QED
      BY <2>1, <2>2
  <1>11. QED
    BY <1>1, <1>4, <1>9, <1>10

LEMMA LoopAbove ==
    ASSUME NEW g, PowerLoop(g), NEW s \in Loop, s.x >= 0, s.result >= 0, s.p2 >= 1
    PROVE  g[s] = Above(s.result + s.x * s.p2)
  <1> DEFINE Good(t) == t.x >= 0 /\ t.result >= 0 /\ t.p2 >= 1
             T == {k \in 0..Half : \A t \in Loop : Good(t) /\ t.x <= k => g[t] = Above(t.result + t.x * t.p2)}
  <1>1. /\ Bias \in Nat /\ Half \in Nat /\ Ints = -Half..(Half - 1) /\ Powers = (LeastPower - 1)..(Bias + 1)
        /\ LeastPower \in Int
    BY PowerConstants
  <1>2. ASSUME NEW t \in Loop
        PROVE  /\ t.x \in Int /\ t.x < Half /\ t.result \in Powers /\ t.p2 \in Powers
               /\ t.result \in Int /\ t.result <= Bias + 1 /\ t.p2 \in Int /\ t.p2 <= Bias + 1
    <2>1. t.x \in Ints /\ t.result \in Powers /\ t.p2 \in Powers
      BY DEF Loop
    <2>2. QED
      BY <1>1, <2>1
  <1>3. ASSUME NEW t \in Loop, Good(t), t.x <= 0 PROVE g[t] = Above(t.result + t.x * t.p2)
    <2>1. t.x = 0 /\ t.x * t.p2 = 0 /\ t.result + 0 = t.result
      BY <1>2, <1>3
    <2>2. g[t] = t.result
      BY <1>3 DEF PowerLoop
    <2>3. Above(t.result) = t.result
      BY <1>1, <1>2, <1>3 DEF Above
    <2>4. QED
      BY <2>1, <2>2, <2>3
  <1>4. 0 \in T
    BY <1>1, <1>3
  <1>5. ASSUME NEW k \in 0..(Half - 1), k \in T PROVE k + 1 \in T
    <2>1. k + 1 \in 0..Half /\ k \in Int
      BY <1>1
    <2> SUFFICES ASSUME NEW t \in Loop, Good(t), t.x <= k + 1
                 PROVE  g[t] = Above(t.result + t.x * t.p2)
      BY <2>1
    <2>2. CASE t.x <= 0
      BY <1>3, <2>2
    <2>3. CASE ~(t.x <= 0)
      <3> DEFINE u == Round(t)
      <3>1. t.x > 0 /\ t.x \in Nat \ {0} /\ t.result \in 0..(Bias + 1) /\ t.p2 \in 1..(Bias + 1)
        BY <1>1, <1>2, <2>3
      <3>2. /\ u \in Loop /\ u.x = t.x \div 2 /\ u.x \in 0..(t.x - 1)
            /\ u.result = (IF t.x % 2 = 1 THEN Times(t.result, t.p2) ELSE t.result)
            /\ u.p2 = Times(t.p2, t.p2)
        BY <3>1, RoundType
      <3>3. g[t] = g[u]
        BY <2>3 DEF PowerLoop
      <3> HIDE DEF u
      <3>4. /\ u.result \in 0..(Bias + 1) /\ Times(t.p2, t.p2) \in 1..(Bias + 1)
            /\ Above(u.result + (t.x \div 2) * Times(t.p2, t.p2)) = Above(t.result + t.x * t.p2)
        BY <3>1, <3>2, RoundAbove
      <3> DEFINE n == u.x
                 m == t.x
      <3>a. n \in 0..(m - 1) /\ m \in Int /\ m <= k + 1
        BY <1>2, <3>2
      <3>b. u.result >= 0 /\ u.p2 >= 1
        BY <1>1, <3>2, <3>4
      <3> HIDE DEF n, m
      <3>c. n >= 0 /\ n <= k
        BY <2>1, <3>a
      <3>5. Good(u) /\ u.x <= k
        BY <3>b, <3>c, Zenon DEF n
      <3>6. g[u] = Above(u.result + u.x * u.p2)
        BY <1>5, <3>2, <3>5
      <3>7. QED
        BY <3>2, <3>3, <3>4, <3>6
    <2>4. QED
      BY <2>2, <2>3
  <1> HIDE DEF T
  <1>6. 0..Half \subseteq T
    <2>1. 0 \in Int /\ Half \in Int
      BY <1>1
    <2>2. QED
      BY <1>4, <1>5, <2>1, IntervalInduction
  <1>7. Half \in T /\ s.x <= Half
    BY <1>1, <1>2, <1>6
  <1>8. QED
    BY <1>7 DEF T


(* Below 1, likewise with 0 for what is less than the least power.         *)
Below(n) == IF n < LeastPower THEN LeastPower - 1 ELSE n

LEMMA RoundBelow ==
    ASSUME NEW x \in Nat \ {0}, NEW r0 \in (LeastPower - 1)..0, NEW p \in (LeastPower - 1)..(-1),
           NEW r1, r1 = IF x % 2 = 1 THEN Times(r0, p) ELSE r0
    PROVE  /\ r1 \in (LeastPower - 1)..0 /\ Times(p, p) \in (LeastPower - 1)..(-1)
           /\ Below(r1 + (x \div 2) * Times(p, p)) = Below(r0 + x * p)
  <1> DEFINE h == x \div 2
             b == x % 2
             z == h * p
             q == Times(p, p)
  <1>1. Bias \in Nat /\ LeastPower \in Int /\ LeastPower < 0
    BY PowerConstants
  <1>2. h \in Nat /\ b \in {0, 1} /\ x = 2 * h + b
    OBVIOUS
  <1> HIDE DEF h, b
  <1>3. r0 \in Int /\ p \in Int /\ r0 <= 0 /\ p < 0 /\ p >= LeastPower - 1 /\ r0 >= LeastPower - 1
    BY <1>1
  <1>4. z \in Int /\ x * p = 2 * z + (IF b = 1 THEN p ELSE 0) /\ z <= 0 /\ (h # 0 => z <= p)
    <2>1. z \in Int
      BY <1>2, <1>3
    <2>2. x * p = 2 * (h * p) + b * p
      BY <1>2, <1>3
    <2>3. b * p = IF b = 1 THEN p ELSE 0
      BY <1>2, <1>3
    <2>4. z <= 0 /\ (h # 0 => z <= p)
      BY <1>2, <1>3
    <2>5. QED
      BY <2>1, <2>2, <2>3, <2>4
  <1>5. q = IF p + p < LeastPower THEN LeastPower - 1 ELSE p + p
    BY <1>1, <1>3 DEF Times
  <1>6. r1 = IF b = 1 THEN (IF r0 + p < LeastPower THEN LeastPower - 1 ELSE r0 + p) ELSE r0
    BY <1>1, <1>3 DEF Times, b
  <1>7. r1 \in (LeastPower - 1)..0 /\ q \in (LeastPower - 1)..(-1) /\ r1 \in Int /\ q \in Int
    BY <1>1, <1>2, <1>3, <1>5, <1>6
  <1>8. CASE ~(p + p < LeastPower)
    <2>1. h * q = 2 * z
      <3>1. q = p + p
        BY <1>5, <1>8
      <3>2. h * (p + p) = 2 * (h * p)
        BY <1>2, <1>3
      <3>3. QED
        BY <3>1, <3>2
    <2> HIDE DEF z
    <2>2. Below(r1 + 2 * z) = Below(r0 + (2 * z + (IF b = 1 THEN p ELSE 0)))
      BY <1>1, <1>2, <1>3, <1>4, <1>6 DEF Below
    <2>3. QED
      BY <1>4, <1>7, <2>1, <2>2 DEF h
  <1>9. CASE p + p < LeastPower
    <2>1. CASE h = 0
      <3>1. b = 1 /\ h * q = 0 /\ z = 0 /\ x * p = p
        BY <1>2, <1>3, <1>4, <1>7, <2>1
      <3>2. Below(r1 + 0) = Below(r0 + p)
        BY <1>1, <1>3, <1>6, <3>1 DEF Below
      <3>3. QED
        BY <1>7, <3>1, <3>2 DEF h
    <2>2. CASE h # 0
      <3>1. h * q <= LeastPower - 1 /\ h * q \in Int
        <4>1. q = LeastPower - 1 /\ h >= 1
          BY <1>2, <1>5, <1>9, <2>2
        <4>2. QED
          BY <1>1, <1>2, <4>1
      <3>2. Below(r1 + h * q) = LeastPower - 1
        <4> DEFINE y == h * q
        <4> HIDE DEF y
        <4>1. y <= LeastPower - 1 /\ y \in Int
          BY <3>1 DEF y
        <4>2. Below(r1 + y) = LeastPower - 1
          BY <1>1, <1>7, <4>1 DEF Below
        <4>3. QED
          BY <4>2 DEF y
      <3> HIDE DEF z
      <3>3. Below(r0 + (2 * z + (IF b = 1 THEN p ELSE 0))) = LeastPower - 1
        BY <1>1, <1>2, <1>3, <1>4, <1>9, <2>2 DEF Below
      <3>4. QED
        BY <1>4, <1>7, <3>2, <3>3 DEF h
    <2>3. QED
      BY <2>1, <2>2
  <1>10. QED
    BY <1>7, <1>8, <1>9

LEMMA LoopBelow ==
    ASSUME NEW g, PowerLoop(g), NEW s \in Loop, s.x >= 0, s.result <= 0, s.p2 <= -1
    PROVE  g[s] = Below(s.result + s.x * s.p2)
  <1> DEFINE Good(t) == t.x >= 0 /\ t.result <= 0 /\ t.p2 <= -1
             T == {k \in 0..Half : \A t \in Loop : Good(t) /\ t.x <= k => g[t] = Below(t.result + t.x * t.p2)}
  <1>1. /\ Bias \in Nat /\ Half \in Nat /\ Ints = -Half..(Half - 1) /\ Powers = (LeastPower - 1)..(Bias + 1)
        /\ LeastPower \in Int
    BY PowerConstants
  <1>2. ASSUME NEW t \in Loop
        PROVE  /\ t.x \in Int /\ t.x < Half /\ t.result \in Powers /\ t.p2 \in Powers
               /\ t.result \in Int /\ LeastPower - 1 <= t.result /\ t.p2 \in Int /\ LeastPower - 1 <= t.p2
    <2>1. t.x \in Ints /\ t.result \in Powers /\ t.p2 \in Powers
      BY DEF Loop
    <2>2. QED
      BY <1>1, <2>1
  <1>3. ASSUME NEW t \in Loop, Good(t), t.x <= 0 PROVE g[t] = Below(t.result + t.x * t.p2)
    <2>1. t.x = 0 /\ t.x * t.p2 = 0 /\ t.result + 0 = t.result
      BY <1>2, <1>3
    <2>2. g[t] = t.result
      BY <1>3 DEF PowerLoop
    <2>3. Below(t.result) = t.result
      BY <1>1, <1>2, <1>3 DEF Below
    <2>4. QED
      BY <2>1, <2>2, <2>3
  <1>4. 0 \in T
    BY <1>1, <1>3
  <1>5. ASSUME NEW k \in 0..(Half - 1), k \in T PROVE k + 1 \in T
    <2>1. k + 1 \in 0..Half /\ k \in Int
      BY <1>1
    <2> SUFFICES ASSUME NEW t \in Loop, Good(t), t.x <= k + 1
                 PROVE  g[t] = Below(t.result + t.x * t.p2)
      BY <2>1
    <2>2. CASE t.x <= 0
      BY <1>3, <2>2
    <2>3. CASE ~(t.x <= 0)
      <3> DEFINE u == Round(t)
      <3>1. t.x > 0 /\ t.x \in Nat \ {0} /\ t.result \in (LeastPower - 1)..0 /\ t.p2 \in (LeastPower - 1)..(-1)
        BY <1>1, <1>2, <2>3
      <3>2. /\ u \in Loop /\ u.x = t.x \div 2 /\ u.x \in 0..(t.x - 1)
            /\ u.result = (IF t.x % 2 = 1 THEN Times(t.result, t.p2) ELSE t.result)
            /\ u.p2 = Times(t.p2, t.p2)
        BY <3>1, RoundType
      <3>3. g[t] = g[u]
        BY <2>3 DEF PowerLoop
      <3> HIDE DEF u
      <3>4. /\ u.result \in (LeastPower - 1)..0 /\ Times(t.p2, t.p2) \in (LeastPower - 1)..(-1)
            /\ Below(u.result + (t.x \div 2) * Times(t.p2, t.p2)) = Below(t.result + t.x * t.p2)
        BY <3>1, <3>2, RoundBelow
      <3> DEFINE n == u.x
                 m == t.x
      <3>a. n \in 0..(m - 1) /\ m \in Int /\ m <= k + 1
        BY <1>2, <3>2
      <3>b. u.result <= 0 /\ u.p2 <= -1
        BY <1>1, <3>2, <3>4
      <3> HIDE DEF n, m
      <3>c. n >= 0 /\ n <= k
        BY <2>1, <3>a
      <3>5. Good(u) /\ u.x <= k
        BY <3>b, <3>c, Zenon DEF n
      <3>6. g[u] = Below(u.result + u.x * u.p2)
        BY <1>5, <3>2, <3>5
      <3>7. QED
        BY <3>2, <3>3, <3>4, <3>6
    <2>4. QED
      BY <2>2, <2>3
  <1> HIDE DEF T
  <1>6. 0..Half \subseteq T
    <2>1. 0 \in Int /\ Half \in Int
      BY <1>1
    <2>2. QED
      BY <1>4, <1>5, <2>1, IntervalInduction
  <1>7. Half \in T /\ s.x <= Half
    BY <1>1, <1>2, <1>6
  <1>8. QED
    BY <1>7 DEF T


LEMMA PositiveRepresentable ==
    ASSUME NEW e \in 0..(MaxExp - 1), NEW f \in Fraction, NEW m, m = Value(e, f)
    PROVE  /\ FloatOf(m) = Float({}, e, f)
           /\ SignOf(Float({}, e, f)) = {} /\ IsFinite(Float({}, e, f)) /\ Magnitude(Float({}, e, f)) = m
  <1> DEFINE s == {}
             u == Float(s, e, f)
             n == Value(e, f)
  <1>1. s \in Signs
    BY DEF Signs
  <1> HIDE DEF s
  <1>2. s \cup FloatOf(n) = u /\ SignOf(u) = s /\ IsFinite(u) /\ Magnitude(u) = n
    BY <1>1, Representable
  <1> DEFINE t == FloatOf(n)
  <1> HIDE DEF n, t
  <1>3. s \cup t = t
    BY DEF s
  <1>4. n = m
    BY DEF n
  <1>5. QED
    BY <1>2, <1>3, <1>4 DEF s, t

(* The float of a power of two is exact, from the least denormal on.       *)
LEMMA PowerFloat ==
    ASSUME NEW k \in 0..(MaxExp - 2 + F)
    PROVE  SignOf(FloatOf(2^k)) = {} /\ IsFinite(FloatOf(2^k)) /\ Magnitude(FloatOf(2^k)) = 2^k
  <1>1. F \in Nat /\ MaxExp \in Nat /\ MaxExp >= 7 /\ k \in Nat
    BY FloatConstants
  <1>2. ASSUME NEW e \in 0..(MaxExp - 1), NEW f \in Fraction, Value(e, f) = 2^k
        PROVE  SignOf(FloatOf(2^k)) = {} /\ IsFinite(FloatOf(2^k)) /\ Magnitude(FloatOf(2^k)) = 2^k
    <2> DEFINE v == Float({}, e, f)
    <2>1. FloatOf(2^k) = v /\ SignOf(v) = {} /\ IsFinite(v) /\ Magnitude(v) = 2^k
      BY <1>2, PositiveRepresentable
    <2> HIDE DEF v
    <2>2. QED
      BY <2>1
  <1>3. CASE k < F
    <2>1. 2^k \in Nat /\ 2^k < 2^F
      <3>1. k + 1 \in Nat /\ k + 1 <= F
        BY <1>1, <1>3
      <3>2. 2^(k + 1) <= 2^F /\ 2^(k + 1) = 2 * 2^k
        BY <1>1, <3>1, PowerMonotonic, PowerStep
      <3>3. 2^k \in Nat \ {0} /\ 2^F \in Nat
        BY <1>1, PowerType
      <3>4. QED
        BY <3>2, <3>3
    <2>2. WordOf(2^k) \in Fraction /\ Num[WordOf(2^k)] = 2^k
      BY <2>1, FractionOf
    <2>3. Value(0, WordOf(2^k)) = 2^k /\ 0 \in 0..(MaxExp - 1)
      BY <1>1, <2>2 DEF Value
    <2>4. QED
      BY <1>2, <2>2, <2>3
  <1>4. CASE ~(k < F)
    <2> DEFINE e == k - F + 1
    <2>1. e \in 0..(MaxExp - 1) /\ e # 0 /\ e - 1 \in Nat /\ k = F + (e - 1)
      BY <1>1, <1>4
    <2>2. {} \in Fraction /\ Num[{}] = 0 /\ 2^F \in Nat
      BY <1>1, ConstantWords, PowerType DEF Fraction
    <2>3. 2^k = 2^F * 2^(e - 1)
      BY <1>1, <2>1, PowerSum
    <2> HIDE DEF e
    <2>4. Value(e, {}) = 2^k
      <3>1. 2^F + Num[{}] = 2^F
        BY <2>2
      <3>2. QED
        BY <2>1, <2>3, <3>1 DEF Value, Normal
    <2>5. QED
      BY <1>2, <2>1, <2>2, <2>4
  <1>5. QED
    BY <1>3, <1>4

(* What the loop of the test finds.                                        *)
LEMMA Power2TestRight ==
    ASSUME NEW x \in Word
    PROVE  Power2Right(x, test_floatPower2(x))
  <1> DEFINE v == Signed(x)
             exp == IF v < 0 THEN Below(v) ELSE Above(v)
  <1>1. /\ Bias \in Nat /\ LeastPower \in Int /\ LeastPower = 1 - Bias - F /\ F \in Nat /\ F >= 1
        /\ Half \in Nat /\ Half >= 128 /\ Bias + F < Half /\ MaxExp = 2 * Bias + 1 /\ Bias >= 3
        /\ Ints = -Half..(Half - 1) /\ Powers = (LeastPower - 1)..(Bias + 1)
    BY PowerConstants
  <1>2. v \in Int /\ -Half <= v /\ v < Half
    BY SignedIs
  <1> HIDE DEF v
  <1>3. PICK g : /\ PowerLoop(g)
                 /\ test_floatPower2(x) = IF Special(x) \/ g[Start(x)] < LeastPower THEN {}
                                          ELSE IF g[Start(x)] > Bias THEN Inf
                                          ELSE FloatOf(2^(g[Start(x)] - LeastPower))
    BY PowerLoops
  <1>4. CASE v = -Half
    <2>1. x = {W - 1}
      <3>1. WordOf(v) = x /\ WordOf(-Half) = OutOfRange
        BY WordOfSigned, OutOfRangeIs DEF v, Half
      <3>2. QED
        BY <1>4, <3>1 DEF OutOfRange
    <2>2. test_floatPower2(x) = {}
      BY <1>3, <2>1 DEF Special
    <2>3. v < LeastPower
      BY <1>1, <1>4
    <2>4. QED
      BY <2>2, <2>3 DEF Power2Right, v
  <1>5. CASE v # -Half
    <2>1. ~Special(x)
      <3>1. Signed({W - 1}) = -Half
        <4>1. -Half \in Int /\ -Half <= -Half /\ -Half < Half
          BY <1>1
        <4>2. Signed(WordOf(-Half)) = -Half
          BY <4>1, SignedWordOf
        <4>3. QED
          BY <4>2, OutOfRangeIs DEF OutOfRange, Half
      <3>2. QED
        BY <1>5, <3>1 DEF Special, v
    <2>2. g[Start(x)] = exp
      <3>1. CASE v < 0
        <4>1. -v \in Int /\ -Half <= -v /\ -v < Half /\ 0 <= -v
          BY <1>1, <1>2, <1>5, <3>1
        <4>2. Signed(WordOf(-v)) = -v
          BY <4>1, SignedWordOf
        <4>3. Start(x) = [x |-> -v, result |-> 0, p2 |-> -1]
          BY <3>1, <4>2 DEF Start, v
        <4>4. Start(x) \in Loop
          <5>1. -v \in Ints /\ 0 \in Powers /\ -1 \in Powers
            BY <1>1, <4>1
          <5>2. QED
            BY <4>3, <5>1 DEF Loop
        <4>5. Start(x).x = -v /\ Start(x).result = 0 /\ Start(x).p2 = -1
          BY <4>3
        <4>6. g[Start(x)] = Below(0 + (-v) * (-1))
          <5>1. Start(x).x >= 0 /\ Start(x).result <= 0 /\ Start(x).p2 <= -1
            BY <4>1, <4>5
          <5>2. QED
            BY <1>3, <4>4, <4>5, <5>1, LoopBelow
        <4>7. 0 + (-v) * (-1) = v
          BY <1>2
        <4>8. QED
          BY <3>1, <4>6, <4>7
      <3>2. CASE ~(v < 0)
        <4>1. Start(x) = [x |-> v, result |-> 0, p2 |-> 1]
          BY <3>2 DEF Start, v
        <4>2. Start(x) \in Loop
          <5>1. v \in Ints /\ 0 \in Powers /\ 1 \in Powers
            BY <1>1, <1>2
          <5>2. QED
            BY <4>1, <5>1 DEF Loop
        <4>3. Start(x).x = v /\ Start(x).result = 0 /\ Start(x).p2 = 1
          BY <4>1
        <4>4. g[Start(x)] = Above(0 + v * 1)
          <5>1. Start(x).x >= 0 /\ Start(x).result >= 0 /\ Start(x).p2 >= 1
            BY <1>2, <3>2, <4>3
          <5>2. QED
            BY <1>3, <4>2, <4>3, <5>1, LoopAbove
        <4>5. 0 + v * 1 = v
          BY <1>2
        <4>6. QED
          BY <3>2, <4>4, <4>5
      <3>3. QED
        BY <3>1, <3>2
    <2> HIDE DEF exp
    <2>3. test_floatPower2(x) = IF exp < LeastPower THEN {}
                                ELSE IF exp > Bias THEN Inf ELSE FloatOf(2^(exp - LeastPower))
      BY <1>3, <2>1, <2>2
    <2>4. CASE v < LeastPower
      <3>1. exp < LeastPower
        BY <1>1, <1>2, <2>4 DEF exp, Below
      <3>2. QED
        BY <2>3, <2>4, <3>1 DEF Power2Right, v
    <2>5. CASE v > Bias
      <3>1. ~(exp < LeastPower) /\ exp > Bias /\ ~(v < LeastPower)
        BY <1>1, <1>2, <2>5 DEF exp, Above
      <3>2. QED
        BY <2>3, <2>5, <3>1 DEF Power2Right, v
    <2>6. CASE ~(v < LeastPower) /\ ~(v > Bias)
      <3>1. exp = v
        BY <1>1, <1>2, <2>6 DEF exp, Above, Below
      <3>2. v - LeastPower \in 0..(MaxExp - 2 + F)
        BY <1>1, <1>2, <2>6
      <3>3. test_floatPower2(x) = FloatOf(2^(v - LeastPower))
        BY <2>3, <2>6, <3>1
      <3>4. QED
        BY <2>6, <3>2, <3>3, PowerFloat DEF Power2Right, v
    <2>7. QED
      BY <2>4, <2>5, <2>6
  <1>6. QED
    BY <1>4, <1>5


(* floatPower2 where it does not shift a 1 into the fraction: x + bias is  *)
(* the exponent.                                                           *)
LEMMA Power2NormalsRight ==
    ASSUME NEW x \in Word, Signed(x) \notin LeastPower..(-Bias), Signed(x) + Bias < Half
    PROVE  Power2Right(x, floatPower2(x))
  <1> DEFINE v == Signed(x)
             exp == Signed(Add(x, WordOf(Bias)))
  <1>1. /\ Bias \in Nat /\ LeastPower \in Int /\ LeastPower = 1 - Bias - F /\ F \in Nat /\ F >= 1
        /\ Half \in Nat /\ Half >= 128 /\ Bias + F < Half /\ MaxExp = 2 * Bias + 1 /\ Bias >= 3
        /\ MaxExp \in Nat
    BY PowerConstants
  <1>2. v \in Int /\ -Half <= v /\ v < Half
    BY SignedIs
  <1>3. exp = v + Bias
    <2>1. Num[x] \in Int /\ 0 <= Num[x] /\ Num[x] < 2 * Half /\ v = IF Num[x] >= Half THEN Num[x] - 2 * Half ELSE Num[x]
      BY WordNumber, SignedIs
    <2>2. WordOf(Bias) \in Word /\ Num[WordOf(Bias)] = Bias
      <3>1. Bias \in 0..MaxExp
        BY <1>1
      <3>2. QED
        BY <3>1, ExpFieldIs
    <2> HIDE DEF v
    <2>3. /\ Add(x, WordOf(Bias)) \in Word
          /\ Num[Add(x, WordOf(Bias))] = IF Num[x] + Bias < 2 * Half THEN Num[x] + Bias ELSE Num[x] + Bias - 2 * Half
      BY <2>2, AddIs
    <2>4. exp = IF Num[Add(x, WordOf(Bias))] >= Half THEN Num[Add(x, WordOf(Bias))] - 2 * Half
                ELSE Num[Add(x, WordOf(Bias))]
      BY <2>3, SignedIs
    <2>5. v + Bias < Half
      BY DEF v
    <2> HIDE DEF exp
    <2> DEFINE n == Num[x]
               s == Num[Add(x, WordOf(Bias))]
    <2>6. /\ s = IF n + Bias < 2 * Half THEN n + Bias ELSE n + Bias - 2 * Half
          /\ exp = IF s >= Half THEN s - 2 * Half ELSE s
          /\ n \in Int /\ 0 <= n /\ n < 2 * Half /\ v = IF n >= Half THEN n - 2 * Half ELSE n
      BY <2>1, <2>3, <2>4
    <2> HIDE DEF n, s
    <2>7. QED
      BY <1>1, <2>5, <2>6
  <1>4. floatPower2(x) = IF exp <= -F THEN {}
                         ELSE IF exp >= MaxExp THEN Inf
                         ELSE IF exp <= 0 THEN Shl(One, F + exp)
                         ELSE Shl(WordOf(exp), F)
    BY DEF floatPower2
  <1> DEFINE known == v \notin LeastPower..(-Bias)
  <1>5. known
    OBVIOUS
  <1> HIDE DEF v, exp
  <1>6. CASE v < LeastPower
    <2>1. exp <= -F
      BY <1>1, <1>2, <1>3, <1>6
    <2>2. QED
      BY <1>4, <1>6, <2>1 DEF Power2Right, v
  <1>7. CASE v > Bias
    <2>1. ~(exp <= -F) /\ exp >= MaxExp /\ ~(v < LeastPower)
      BY <1>1, <1>2, <1>3, <1>7
    <2>2. QED
      BY <1>4, <1>7, <2>1 DEF Power2Right, v
  <1>8. CASE ~(v < LeastPower) /\ ~(v > Bias)
    <2>1. v > -Bias
      BY <1>1, <1>2, <1>5, <1>8
    <2>2. /\ ~(exp <= -F) /\ ~(exp >= MaxExp) /\ ~(exp <= 0)
          /\ exp \in 0..(MaxExp - 1) /\ exp # 0 /\ exp - 1 \in Nat /\ F + (exp - 1) = v - LeastPower
      BY <1>1, <1>2, <1>3, <1>8, <2>1
    <2>3. {} \in Fraction /\ {} \in Signs /\ Num[{}] = 0 /\ 2^F \in Nat
      BY <1>1, ConstantWords, PowerType DEF Fraction, Signs
    <2> DEFINE u == Float({}, exp, {})
               m == Value(exp, {})
    <2>4. SignOf(u) = {} /\ IsFinite(u) /\ Magnitude(u) = m
      BY <2>2, <2>3, PositiveRepresentable
    <2>5. u = floatPower2(x)
      <3>1. u = Shl(WordOf(exp), F)
        BY DEF Float, ExpField
      <3>2. QED
        BY <1>4, <2>2, <3>1
    <2>6. m = 2^(v - LeastPower)
      <3>1. m = (2^F + Num[{}]) * 2^(exp - 1)
        BY <2>2 DEF Value, Normal
      <3>2. 2^F + Num[{}] = 2^F
        BY <2>3
      <3>3. 2^(F + (exp - 1)) = 2^F * 2^(exp - 1)
        BY <1>1, <2>2, PowerSum
      <3>4. QED
        BY <2>2, <3>1, <3>2, <3>3
    <2> HIDE DEF u, m
    <2>7. QED
      BY <1>8, <2>4, <2>5, <2>6 DEF Power2Right, v
  <1>9. QED
    BY <1>1, <1>2, <1>6, <1>7, <1>8


-----------------------------------------------------------------------------
(* The calls *)

LEMMA ArgumentsType ==
    ASSUME NEW t \in test_set, NEW a \in Arguments(t.args)
    PROVE  /\ t.name # "none"
           /\ t.args \in {1, 2, 3} => a[1] \in Word
           /\ t.args \in {2, 3} => a[2] \in Word
           /\ t.args = 3 => a[3] \in Word
  <1>1. t.args \in {0, 1, 2, 3} /\ t.name # "none"
    BY DEF test_set, IntPuzzle, FloatPuzzle
  <1>2. CASE t.args = 3
    <2>1. a \in {<<x, y, z>> : x \in Word, y \in Sample, z \in Sample}
      BY <1>2 DEF Arguments
    <2>2. PICK x \in Word, y \in Sample, z \in Sample : a = <<x, y, z>>
      BY <2>1
    <2>3. Sample \subseteq Word
      BY BitsAssumption DEF Word, Bit
    <2>4. a[1] = x /\ a[2] = y /\ a[3] = z
      BY <2>2
    <2>5. QED
      BY <1>1, <2>3, <2>4
  <1>3. CASE t.args # 3
    <2>1. a \in [1..t.args -> Word]
      BY <1>1, <1>3 DEF Arguments
    <2>2. \A i \in 1..t.args : a[i] \in Word
      BY <2>1
    <2>3. QED
      BY <1>1, <1>3, <2>2
  <1>4. QED
    BY <1>2, <1>3

(* The number of arguments of each puzzle.                                 *)
LEMMA ArgumentCounts ==
    ASSUME NEW t \in test_set
    PROVE  /\ t.name \in {"bitXor", "isLessOrEqual"} => t.args = 2
           /\ t.name = "conditional" => t.args = 3
           /\ t.name \notin {"bitXor", "isLessOrEqual", "conditional", "tmin"} => t.args = 1
           /\ t.name \in {"bitXor", "tmin", "isTmax", "allOddBits", "negate", "isAsciiDigit",
                          "conditional", "isLessOrEqual", "logicalNeg", "howManyBits",
                          "floatScale2", "floatFloat2Int", "floatPower2"}
  BY DEF test_set, IntPuzzle, FloatPuzzle

LEMMA PuzzlesRight ==
    ASSUME NEW t \in test_set, NEW a \in Arguments(t.args), t.name # "floatPower2"
    PROVE  solution_funct(t.name, a) = test_funct(t.name, a)
  <1>1. /\ t.args \in {1, 2, 3} => a[1] \in Word
        /\ t.args \in {2, 3} => a[2] \in Word
        /\ t.args = 3 => a[3] \in Word
    BY ArgumentsType
  <1>2. CASE t.name = "bitXor"
    <2>1. a[1] \in Word /\ a[2] \in Word
      BY <1>1, <1>2, ArgumentCounts
    <2>2. QED
      BY <1>2, <2>1, BitXorRight DEF solution_funct, test_funct
  <1>3. CASE t.name = "tmin"
    BY <1>3, TminRight DEF solution_funct, test_funct
  <1>4. CASE t.name = "isTmax"
    <2>1. a[1] \in Word
      BY <1>1, <1>4, ArgumentCounts
    <2>2. QED
      BY <1>4, <2>1, IsTmaxRight DEF solution_funct, test_funct
  <1>5. CASE t.name = "allOddBits"
    <2>1. a[1] \in Word
      BY <1>1, <1>5, ArgumentCounts
    <2>2. QED
      BY <1>5, <2>1, AllOddBitsRight DEF solution_funct, test_funct
  <1>6. CASE t.name = "negate"
    <2>1. a[1] \in Word
      BY <1>1, <1>6, ArgumentCounts
    <2>2. QED
      BY <1>6, <2>1, NegateIs DEF solution_funct, test_funct
  <1>7. CASE t.name = "isAsciiDigit"
    <2>1. a[1] \in Word
      BY <1>1, <1>7, ArgumentCounts
    <2>2. QED
      BY <1>7, <2>1, IsAsciiDigitRight DEF solution_funct, test_funct
  <1>8. CASE t.name = "conditional"
    <2>1. a[1] \in Word /\ a[2] \in Word /\ a[3] \in Word
      BY <1>1, <1>8, ArgumentCounts
    <2>2. QED
      BY <1>8, <2>1, ConditionalRight DEF solution_funct, test_funct
  <1>9. CASE t.name = "isLessOrEqual"
    <2>1. a[1] \in Word /\ a[2] \in Word
      BY <1>1, <1>9, ArgumentCounts
    <2>2. QED
      BY <1>9, <2>1, IsLessOrEqualRight DEF solution_funct, test_funct
  <1>10. CASE t.name = "logicalNeg"
    <2>1. a[1] \in Word
      BY <1>1, <1>10, ArgumentCounts
    <2>2. QED
      BY <1>10, <2>1, LogicalNegRight DEF solution_funct, test_funct
  <1>11. CASE t.name = "howManyBits"
    <2>1. a[1] \in Word
      BY <1>1, <1>11, ArgumentCounts
    <2>2. QED
      BY <1>11, <2>1, HowManyMinimal DEF solution_funct, test_funct
  <1>12. CASE t.name = "floatScale2"
    <2>1. a[1] \in Word
      BY <1>1, <1>12, ArgumentCounts
    <2>2. QED
      BY <1>12, <2>1, ScaleRight DEF solution_funct, test_funct
  <1>13. CASE t.name = "floatFloat2Int"
    <2>1. a[1] \in Word
      BY <1>1, <1>13, ArgumentCounts
    <2>2. QED
      BY <1>13, <2>1, Float2IntRight DEF solution_funct, test_funct
  <1>14. QED
    BY <1>2, <1>3, <1>4, <1>5, <1>6, <1>7, <1>8, <1>9, <1>10, <1>11, <1>12, <1>13, ArgumentCounts

(* What has been called is a puzzle of the table, with arguments that      *)
(* btest may give it, and r and rt are what the two functions return.      *)
Called ==
    puzzle # "none" =>
        \E t \in test_set : /\ puzzle = t.name /\ args \in Arguments(t.args)
                            /\ r = solution_funct(puzzle, args) /\ rt = test_funct(puzzle, args)

LEMMA CalledInvariant == Spec => []Called
  <1>1. Init => Called
    BY DEF Init, Called
  <1>2. Called /\ [Next]_vars => Called'
    <2> SUFFICES ASSUME Called, [Next]_vars PROVE Called'
      OBVIOUS
    <2>1. CASE Call
      <3>1. PICK t \in test_set : \E a \in Arguments(t.args) :
                /\ puzzle' = t.name /\ args' = a
                /\ r' = solution_funct(t.name, a) /\ rt' = test_funct(t.name, a)
        BY <2>1 DEF Call
      <3>a. PICK a \in Arguments(t.args) :
                /\ puzzle' = t.name /\ args' = a
                /\ r' = solution_funct(t.name, a) /\ rt' = test_funct(t.name, a)
        BY <3>1
      <3>2. r' = solution_funct(puzzle', args') /\ rt' = test_funct(puzzle', args')
        BY <3>a
      <3>3. QED
        BY <3>a, <3>2 DEF Called
    <2>2. CASE UNCHANGED vars
      BY <2>2 DEF vars, Called
    <2>3. QED
      BY <2>1, <2>2 DEF Next
  <1>3. QED
    BY <1>1, <1>2, PTL DEF Spec

(* The puzzles of one argument that properties name.                       *)
LEMMA CalledWith ==
    ASSUME Called, puzzle \in {"howManyBits", "floatScale2", "floatPower2"}
    PROVE  /\ args[1] \in Word
           /\ puzzle = "howManyBits" => r = howManyBits(args[1]) /\ rt = test_howManyBits(args[1])
           /\ puzzle = "floatScale2" => r = floatScale2(args[1])
           /\ puzzle = "floatPower2" => r = floatPower2(args[1]) /\ rt = test_floatPower2(args[1])
  <1>1. PICK t \in test_set : /\ puzzle = t.name /\ args \in Arguments(t.args)
                              /\ r = solution_funct(puzzle, args) /\ rt = test_funct(puzzle, args)
    BY DEF Called
  <1>2. t.args = 1
    BY <1>1, ArgumentCounts
  <1>3. args[1] \in Word
    BY <1>1, <1>2, ArgumentsType
  <1>4. puzzle = "howManyBits" => r = howManyBits(args[1]) /\ rt = test_howManyBits(args[1])
    BY <1>1 DEF solution_funct, test_funct
  <1>5. puzzle = "floatScale2" => r = floatScale2(args[1])
    BY <1>1 DEF solution_funct
  <1>6. puzzle = "floatPower2" => r = floatPower2(args[1]) /\ rt = test_floatPower2(args[1])
    BY <1>1 DEF solution_funct, test_funct
  <1>7. QED
    BY <1>3, <1>4, <1>5, <1>6

(* For every width of a word that is a power of two, every split of a      *)
(* float into exponent and fraction, and all arguments, every puzzle of    *)
(* bits.c but floatPower2 returns what its test function returns: the      *)
(* masks, shifts and sums of the one and the arithmetic of the other are   *)
(* the same function, wherever a sum wraps.                                *)
THEOREM PuzzlesAgree == Spec => []TestsAgree
  <1>1. Called => TestsAgree
    <2> SUFFICES ASSUME Called, puzzle \notin {"none", "floatPower2"} PROVE r = rt
      BY DEF TestsAgree
    <2>1. PICK t \in test_set : /\ puzzle = t.name /\ args \in Arguments(t.args)
                                /\ r = solution_funct(puzzle, args) /\ rt = test_funct(puzzle, args)
      BY DEF Called
    <2>2. QED
      BY <2>1, PuzzlesRight
  <1>2. QED
    BY <1>1, CalledInvariant, PTL

(* howManyBits finds the least width by halving, W/2, W/4, ..., 1, and its *)
(* test by shifting a bit at a time: in the width found the argument fits, *)
(* and in one bit less it does not, for every argument of every width.     *)
THEOREM HowManyBitsExact == Spec => []HowManyBitsMinimal
  <1>1. Called => HowManyBitsMinimal
    <2> SUFFICES ASSUME Called, puzzle = "howManyBits"
                 PROVE  \A v \in {r, rt} : /\ Fits(Signed(args[1]), Num[v])
                                           /\ ~Fits(Signed(args[1]), Num[v] - 1)
      BY DEF HowManyBitsMinimal
    <2>1. args[1] \in Word /\ r = howManyBits(args[1]) /\ rt = test_howManyBits(args[1])
      BY CalledWith
    <2>2. /\ r = rt /\ Fits(Signed(args[1]), Num[r]) /\ ~Fits(Signed(args[1]), Num[r] - 1)
      BY <2>1, HowManyMinimal
    <2>3. QED
      BY <2>2
  <1>2. QED
    BY <1>1, CalledInvariant, PTL

(* floatScale2 doubles every finite float, where a denormal becomes a      *)
(* normal too, gives the infinity of its sign where twice the value is too *)
(* large, and returns infinities and NaNs as they are: for every format.   *)
THEOREM ScaleDoubles == Spec => []ScaleExact
  <1>1. Called => ScaleExact
    <2> SUFFICES ASSUME Called, puzzle = "floatScale2" PROVE ScaleExact
      BY DEF ScaleExact
    <2> DEFINE uf == args[1]
    <2>1. uf \in Word /\ r = floatScale2(uf)
      BY CalledWith
    <2> HIDE DEF uf
    <2>2. /\ SignOf(r) = SignOf(uf)
          /\ ~IsFinite(uf) => r = uf
          /\ IsFinite(uf) => Doubles(uf, r)
      BY <2>1, ScaleRight
    <2>3. QED
      BY <2>2 DEF ScaleExact, Doubles, Limit, uf
  <1>2. QED
    BY <1>1, CalledInvariant, PTL

(* The test of floatPower2, which squares and multiplies powers that       *)
(* underflow to 0 and overflow to infinity, gives the float of 2.0^x for   *)
(* every x: a square that is 0 or infinity is only ever used where the     *)
(* result is.                                                              *)
THEOREM Power2TestRepeatsSquares == Spec => []Power2TestExact
  <1>1. Called => Power2TestExact
    BY CalledWith, Power2TestRight DEF Power2TestExact
  <1>2. QED
    BY <1>1, CalledInvariant, PTL

(* floatPower2 is right for every x whose power is not a denormal and      *)
(* whose sum with the bias does not wrap: too small, normal or too large.  *)
THEOREM Power2RightOnNormals == Spec => []Power2ExactOnNormals
  <1>1. Called => Power2ExactOnNormals
    <2> SUFFICES ASSUME Called, puzzle = "floatPower2", Signed(args[1]) \notin LeastPower..(-Bias),
                        Signed(args[1]) + Bias < 2^(W - 1)
                 PROVE  Power2Right(args[1], r)
      BY DEF Power2ExactOnNormals
    <2>1. args[1] \in Word /\ r = floatPower2(args[1])
      BY CalledWith
    <2>2. Signed(args[1]) + Bias < Half
      BY DEF Half
    <2>3. QED
      BY <2>1, <2>2, Power2NormalsRight
  <1>2. QED
    BY <1>1, CalledInvariant, PTL

=============================================================================
