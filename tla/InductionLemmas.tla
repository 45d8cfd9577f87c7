--------------------------- MODULE InductionLemmas ---------------------------
(***************************************************************************)
(* Facts about data that the proofs about several components need:         *)
(* induction over the naturals, in a form that takes a set where the usual *)
(* one takes a predicate, powers of two, functions defined by recursion,   *)
(* and sums over finite sets.                                              *)
(***************************************************************************)
EXTENDS Integers, FiniteSetTheorems, FunctionTheorems, TLAPS

-----------------------------------------------------------------------------
(* Induction *)

(* A non-empty set of naturals has a least element: the initial intervals  *)
(* that its elements end are finite sets, one of which contains no other.  *)
LEMMA LeastNat ==
    ASSUME NEW T \in SUBSET Nat, T # {}
    PROVE  \E m \in T : \A n \in T : m <= n
  <1> DEFINE Ends == {1..n : n \in T}
  <1>1. Ends \subseteq FiniteSubsetsOf(Nat) /\ Ends # {}
    <2>1. \A n \in T : IsFiniteSet(1..n) /\ 1..n \subseteq Nat
      BY FS_Interval
    <2>2. QED
      BY <2>1 DEF FiniteSubsetsOf
  <1>2. PICK least \in Ends : \A e \in Ends : <<e, least>> \notin StrictSubsetOrdering(Nat)
    BY <1>1, FS_StrictSubsetOrderingWellFounded, WFMin
  <1>3. PICK m \in T : least = 1..m
    OBVIOUS
  <1>4. ASSUME NEW n \in T, n < m PROVE FALSE
    <2>1. 1..n \subseteq 1..m /\ m \in 1..m /\ m \notin 1..n
      BY <1>4
    <2>2. <<1..n, 1..m>> \in StrictSubsetOrdering(Nat)
      BY <2>1 DEF StrictSubsetOrdering
    <2>3. QED
      BY <1>2, <1>3, <2>2
  <1>5. QED
    BY <1>4

(* Induction over the naturals.                                            *)
LEMMA NatSetInduction ==
    ASSUME NEW T, 0 \in T, \A n \in Nat : n \in T => n + 1 \in T
    PROVE  Nat \subseteq T
  <1> SUFFICES ASSUME Nat \ T # {} PROVE FALSE
    OBVIOUS
  <1>1. PICK m \in Nat \ T : \A n \in Nat \ T : m <= n
    BY LeastNat
  <1>2. m - 1 \in Nat /\ m - 1 \in T
    BY <1>1
  <1>3. QED
    BY <1>1, <1>2

(* Induction up to a bound.                                                *)
LEMMA IntervalInduction ==
    ASSUME NEW lo \in Int, NEW hi \in Int, NEW T, lo \in T,
           \A n \in lo..(hi - 1) : n \in T => n + 1 \in T
    PROVE  lo..hi \subseteq T
  <1> DEFINE S == {n \in Nat : lo + n > hi \/ lo + n \in T}
  <1>1. 0 \in S
    OBVIOUS
  <1>2. \A n \in Nat : n \in S => n + 1 \in S
    <2> SUFFICES ASSUME NEW n \in Nat, n \in S, lo + n < hi PROVE lo + n + 1 \in T
      OBVIOUS
    <2>1. lo + n \in T /\ lo + n \in lo..(hi - 1)
      OBVIOUS
    <2>2. QED
      BY <2>1
  <1>3. Nat \subseteq S
    <2> HIDE DEF S
    <2>1. QED
      BY <1>1, <1>2, NatSetInduction
  <1>4. ASSUME NEW n \in lo..hi PROVE n \in T
    <2>1. n - lo \in Nat
      OBVIOUS
    <2>2. n - lo \in S
      BY <1>3, <2>1
    <2>3. QED
      BY <2>2
  <1>5. QED
    BY <1>4

-----------------------------------------------------------------------------
(* Powers of two: a set of n elements has 2^n subsets, and one element     *)
(* more doubles their number.                                              *)

LEMMA PowerStep ==
    ASSUME NEW n \in Nat
    PROVE  2^n \in Nat /\ 2^(n + 1) = 2 * 2^n
  <1> DEFINE S    == 1..n
             With == {T \cup {n + 1} : T \in SUBSET S}
             Plus == [T \in SUBSET S |-> T \cup {n + 1}]
  <1>1. IsFiniteSet(S) /\ Cardinality(S) = n
    BY FS_Interval
  <1>2. IsFiniteSet(S \cup {n + 1}) /\ Cardinality(S \cup {n + 1}) = n + 1
    BY <1>1, FS_AddElement
  <1>3. /\ IsFiniteSet(SUBSET S) /\ Cardinality(SUBSET S) = 2^n
        /\ Cardinality(SUBSET (S \cup {n + 1})) = 2^(n + 1)
    BY <1>1, <1>2, FS_SUBSET
  <1>4. IsFiniteSet(With) /\ Cardinality(With) = Cardinality(SUBSET S)
    <2>1. Plus \in [SUBSET S -> With] /\ \A T \in SUBSET S : Plus[T] = T \cup {n + 1}
      OBVIOUS
    <2>2. ASSUME NEW T \in SUBSET S, NEW U \in SUBSET S, Plus[T] = Plus[U]
          PROVE  T = U
      <3>1. n + 1 \notin T /\ n + 1 \notin U
        OBVIOUS
      <3>2. T \cup {n + 1} = U \cup {n + 1}
        BY <2>1, <2>2
      <3>3. QED
        BY <3>1, <3>2
    <2>3. \A V \in With : \E T \in SUBSET S : Plus[T] = V
      BY <2>1
    <2> HIDE DEF Plus, With
    <2>4. Plus \in Bijection(SUBSET S, With)
      BY <2>1, <2>2, <2>3, Fun_IsBij
    <2>5. QED
      BY <1>3, <2>4, FS_Bijection DEF ExistsBijection
  <1>5. SUBSET (S \cup {n + 1}) = (SUBSET S) \cup With
    <2>1. ASSUME NEW V \in SUBSET (S \cup {n + 1}) PROVE V \in (SUBSET S) \cup With
      <3>1. CASE n + 1 \notin V
        BY <2>1, <3>1
      <3>2. CASE n + 1 \in V
        <4>1. V \ {n + 1} \in SUBSET S /\ V = (V \ {n + 1}) \cup {n + 1}
          BY <2>1, <3>2
        <4>2. QED
          BY <4>1
      <3>3. QED
        BY <3>1, <3>2
    <2>2. QED
      BY <2>1
  <1>6. (SUBSET S) \cap With = {}
    <2>1. n + 1 \notin S
      OBVIOUS
    <2>2. QED
      BY <2>1
  <1> HIDE DEF With
  <1>7. Cardinality(SUBSET (S \cup {n + 1})) = Cardinality(SUBSET S) + Cardinality(With)
    <2>1. Cardinality((SUBSET S) \cup With)
              = Cardinality(SUBSET S) + Cardinality(With) - Cardinality((SUBSET S) \cap With)
      BY <1>3, <1>4, FS_Union
    <2>2. Cardinality((SUBSET S) \cap With) = 0
      BY <1>6, FS_EmptySet
    <2>3. Cardinality(SUBSET S) \in Nat
      BY <1>3, FS_CardinalityType
    <2>4. Cardinality(SUBSET (S \cup {n + 1})) = Cardinality((SUBSET S) \cup With)
      BY <1>5
    <2> HIDE DEF S
    <2>5. QED
      BY <1>4, <2>1, <2>2, <2>3, <2>4
  <1>8. Cardinality(SUBSET S) \in Nat
    BY <1>3, FS_CardinalityType
  <1>9. QED
    BY <1>3, <1>4, <1>7, <1>8

LEMMA PowerType ==
    ASSUME NEW n \in Nat
    PROVE  2^n \in Nat \ {0}
  <1> DEFINE T == {k \in Nat : 2^k \in Nat \ {0}}
  <1>1. 0 \in T
    BY 2^0 = 1
  <1>2. \A k \in Nat : k \in T => k + 1 \in T
    BY PowerStep
  <1> HIDE DEF T
  <1>3. Nat \subseteq T
    BY <1>1, <1>2, NatSetInduction
  <1>4. QED
    BY <1>3 DEF T

LEMMA PowerSum ==
    ASSUME NEW m \in Nat, NEW n \in Nat
    PROVE  2^(m + n) = 2^m * 2^n
  <1> DEFINE T == {k \in Nat : 2^(m + k) = 2^m * 2^k}
  <1>1. 0 \in T
    BY 2^0 = 1, PowerType
  <1>2. ASSUME NEW k \in Nat, k \in T PROVE k + 1 \in T
    <2>1. 2^(m + (k + 1)) = 2 * 2^(m + k)
      <3>1. m + (k + 1) = (m + k) + 1 /\ m + k \in Nat
        OBVIOUS
      <3>2. QED
        BY <3>1, PowerStep
    <2>2. 2^(k + 1) = 2 * 2^k
      BY PowerStep
    <2>3. 2^m \in Nat /\ 2^k \in Nat
      BY PowerType
    <2>4. 2 * (2^m * 2^k) = 2^m * (2 * 2^k)
      BY <2>3
    <2>5. QED
      BY <1>2, <2>1, <2>2, <2>4
  <1> HIDE DEF T
  <1>3. Nat \subseteq T
    BY <1>1, <1>2, NatSetInduction
  <1>4. QED
    BY <1>3 DEF T

LEMMA PowerMonotonic ==
    ASSUME NEW m \in Nat, NEW n \in Nat, m <= n
    PROVE  2^m <= 2^n
  <1>1. n - m \in Nat /\ m + (n - m) = n
    OBVIOUS
  <1>2. 2^n = 2^m * 2^(n - m)
    BY <1>1, PowerSum
  <1>3. 2^m \in Nat \ {0} /\ 2^(n - m) \in Nat \ {0}
    BY <1>1, PowerType
  <1>4. \A x, y \in Nat \ {0} : x <= x * y
    OBVIOUS
  <1>5. QED
    BY <1>2, <1>3, <1>4

(* Division with a remainder, for a divisor that is not a numeral.         *)
LEMMA Division ==
    ASSUME NEW m \in Nat \ {0}, NEW q \in Int, NEW r \in 0..(m - 1)
    PROVE  (q * m + r) \div m = q /\ (q * m + r) % m = r
  <1> DEFINE x == q * m + r
             d == x \div m
             s == x % m
  <1>1. x \in Int /\ d \in Int /\ s \in 0..(m - 1) /\ x = m * d + s
    OBVIOUS
  <1>2. x = q * m + r
    OBVIOUS
  <1> HIDE DEF x, d, s
  <1>3. ASSUME d > q PROVE FALSE
    <2>1. m * d >= m * (q + 1)
      BY <1>1, <1>3
    <2>2. m * (q + 1) = q * m + m /\ q * m \in Int /\ m * d \in Int
      BY <1>1
    <2>3. QED
      BY <1>1, <1>2, <2>1, <2>2
  <1>4. ASSUME d < q PROVE FALSE
    <2>1. m * q >= m * (d + 1)
      BY <1>1, <1>4
    <2>2. m * (d + 1) = m * d + m /\ q * m = m * q /\ q * m \in Int /\ m * d \in Int
      BY <1>1
    <2>3. QED
      BY <1>1, <1>2, <2>1, <2>2
  <1>5. d = q
    BY <1>1, <1>3, <1>4
  <1>6. s = r
    <2>1. m * q = q * m /\ m * q \in Int
      OBVIOUS
    <2>2. QED
      BY <1>1, <1>2, <1>5, <2>1
  <1>7. QED
    BY <1>5, <1>6 DEF x, d, s

-----------------------------------------------------------------------------
(* Recursive functions.  f[p \in D] == IF p \in Stop THEN base[p]          *)
(*                                     ELSE op[p][f[next[p]]]              *)
(* has a value when each argument is followed by one of lower rank: a      *)
(* recursive definition stands for a CHOOSE, which needs such a function.  *)
Descends(rank, next, Stop, D) == \A p \in D : p \notin Stop => rank[next[p]] < rank[p]

Recursive(f, base, op, next, Stop, D) ==
    \A p \in D : f[p] = IF p \in Stop THEN base[p] ELSE op[p][f[next[p]]]

LEMMA Recursion ==
    ASSUME NEW D, NEW V, NEW K \in Nat, NEW rank \in [D -> 0..K],
           NEW Stop, NEW base \in [D -> V], NEW next \in [D -> D], NEW op \in [D -> [V -> V]],
           Descends(rank, next, Stop, D)
    PROVE  \E f \in [D -> V] : Recursive(f, base, op, next, Stop, D)
  <1> DEFINE Body(f, p) == IF p \in Stop THEN base[p] ELSE op[p][f[next[p]]]
             T == {k \in 0..K : \E f \in [D -> V] : \A p \in D : rank[p] <= k => f[p] = Body(f, p)}
  <1>1. 0 \in T
    <2>1. \A p \in D : rank[p] <= 0 => p \in Stop
      BY DEF Descends
    <2>2. \A p \in D : rank[p] <= 0 => base[p] = Body(base, p)
      BY <2>1
    <2> HIDE DEF Body
    <2>3. QED
      BY <2>2
  <1>2. ASSUME NEW k \in 0..(K - 1), k \in T PROVE k + 1 \in T
    <2>1. PICK f \in [D -> V] : \A p \in D : rank[p] <= k => f[p] = Body(f, p)
      BY <1>2
    <2> DEFINE g == [p \in D |-> Body(f, p)]
    <2>2. g \in [D -> V]
      OBVIOUS
    <2>3. ASSUME NEW p \in D, rank[p] <= k + 1 PROVE g[p] = Body(g, p)
      <3>1. CASE p \in Stop
        BY <3>1
      <3>2. CASE p \notin Stop
        <4>1. next[p] \in D /\ rank[next[p]] <= k
          BY <2>3, <3>2 DEF Descends
        <4>2. g[next[p]] = f[next[p]]
          BY <2>1, <4>1
        <4>3. QED
          BY <3>2, <4>2
      <3>3. QED
        BY <3>1, <3>2
    <2> HIDE DEF g, Body
    <2>4. QED
      BY <2>2, <2>3
  <1>3. K \in T
    <2> HIDE DEF T
    <2>1. 0 \in Int /\ K \in Int /\ K \in 0..K
      OBVIOUS
    <2>2. \A k \in 0..(K - 1) : k \in T => k + 1 \in T
      BY <1>2
    <2>3. 0..K \subseteq T
      BY <1>1, <2>1, <2>2, IntervalInduction
    <2>4. QED
      BY <2>1, <2>3
  <1>4. PICK f \in [D -> V] : \A p \in D : rank[p] <= K => f[p] = Body(f, p)
    BY <1>3
  <1>5. QED
    BY <1>4 DEF Recursive

-----------------------------------------------------------------------------
(* Sums over a finite set *)

(* Induction over the subsets of a finite set: a set that follows from     *)
(* those with one element less.                                            *)
LEMMA SubsetInduction ==
    ASSUME NEW S, IsFiniteSet(S), NEW T,
           \A s \in SUBSET S : (\A x \in s : s \ {x} \in T) => s \in T
    PROVE  SUBSET S \subseteq T
  <1> DEFINE Out == (SUBSET S) \ T
  <1> SUFFICES ASSUME Out # {} PROVE FALSE
    OBVIOUS
  <1>1. Out \subseteq FiniteSubsetsOf(S)
    BY FS_FiniteSubsetsOfFinite
  <1>2. PICK s \in Out : \A t \in Out : <<t, s>> \notin StrictSubsetOrdering(S)
    <2> HIDE DEF Out
    <2>1. IsWellFoundedOn(StrictSubsetOrdering(S), FiniteSubsetsOf(S))
      BY FS_StrictSubsetOrderingWellFounded
    <2>2. QED
      BY <1>1, <2>1, WFMin
  <1>3. ASSUME NEW x \in s PROVE s \ {x} \in T
    <2>1. <<s \ {x}, s>> \in StrictSubsetOrdering(S)
      BY DEF StrictSubsetOrdering
    <2>2. s \ {x} \in SUBSET S
      OBVIOUS
    <2>3. QED
      BY <1>2, <2>1, <2>2
  <1>4. QED
    BY <1>3

(* G gives the sums of w over the subsets of S.                            *)
Additive(G, w, S) ==
    /\ G \in [SUBSET S -> Int]
    /\ G[{}] = 0
    /\ \A s \in SUBSET S : \A x \in s : G[s] = w[x] + G[s \ {x}]

Total(w, S) == (CHOOSE G : Additive(G, w, S))[S]

LEMMA SumsExist ==
    ASSUME NEW S, IsFiniteSet(S), NEW w, \A x \in S : w[x] \in Int
    PROVE  \E G : Additive(G, w, S)
  <1> DEFINE T == {s \in SUBSET S : \E G : Additive(G, w, s)}
  <1>1. {} \in T
    <2>1. Additive([s \in {{}} |-> 0], w, {})
      BY DEF Additive
    <2>2. QED
      BY <2>1
  <1>2. ASSUME NEW s \in SUBSET S, NEW x \in s, s \ {x} \in T PROVE s \in T
    <2>1. PICK G : Additive(G, w, s \ {x})
      BY <1>2
    <2> DEFINE H == [t \in SUBSET s |-> IF x \in t THEN w[x] + G[t \ {x}] ELSE G[t]]
    <2>2. \A t \in SUBSET (s \ {x}) : G[t] \in Int
      BY <2>1 DEF Additive
    <2>3. H \in [SUBSET s -> Int]
      <3> SUFFICES ASSUME NEW t \in SUBSET s
                   PROVE  (IF x \in t THEN w[x] + G[t \ {x}] ELSE G[t]) \in Int
        OBVIOUS
      <3>1. t \ {x} \in SUBSET (s \ {x})
        OBVIOUS
      <3>2. x \notin t => t \in SUBSET (s \ {x})
        OBVIOUS
      <3>3. QED
        BY <2>2, <3>1, <3>2
    <2>4. H[{}] = 0
      BY <2>1 DEF Additive
    <2>5. ASSUME NEW t \in SUBSET s, NEW y \in t
          PROVE  H[t] = w[y] + H[t \ {y}]
      <3>1. t \ {x} \in SUBSET (s \ {x}) /\ t \ {y} \in SUBSET s
        OBVIOUS
      <3>2. CASE y = x
        BY <3>1, <3>2
      <3>3. CASE y # x /\ x \in t
        <4>1. G[t \ {x}] = w[y] + G[(t \ {x}) \ {y}]
          BY <2>1, <3>1, <3>3 DEF Additive
        <4>2. (t \ {x}) \ {y} = (t \ {y}) \ {x} /\ (t \ {x}) \ {y} \in SUBSET (s \ {x})
          OBVIOUS
        <4>3. w[x] \in Int /\ w[y] \in Int /\ G[(t \ {x}) \ {y}] \in Int
          BY <2>2, <4>2
        <4>4. H[t] = w[x] + (w[y] + G[(t \ {y}) \ {x}])
          BY <3>3, <4>1, <4>2
        <4>5. H[t \ {y}] = w[x] + G[(t \ {y}) \ {x}]
          BY <3>1, <3>3
        <4>6. \A a, b, c \in Int : a + (b + c) = b + (a + c)
          OBVIOUS
        <4>7. G[(t \ {y}) \ {x}] \in Int
          BY <4>2, <4>3
        <4>8. w[x] + (w[y] + G[(t \ {y}) \ {x}]) = w[y] + (w[x] + G[(t \ {y}) \ {x}])
          BY <4>3, <4>6, <4>7
        <4> HIDE DEF H
        <4>9. QED
          BY <4>4, <4>5, <4>8
      <3>4. CASE y # x /\ x \notin t
        <4>1. t \in SUBSET (s \ {x}) /\ x \notin t \ {y}
          BY <3>4
        <4>2. G[t] = w[y] + G[t \ {y}]
          BY <2>1, <4>1 DEF Additive
        <4>3. QED
          BY <3>1, <3>4, <4>1, <4>2
      <3>5. QED
        BY <3>2, <3>3, <3>4
    <2> HIDE DEF H
    <2>6. QED
      BY <2>3, <2>4, <2>5 DEF Additive
  <1> HIDE DEF T
  <1>3. \A s \in SUBSET S : (\A x \in s : s \ {x} \in T) => s \in T
    BY <1>1, <1>2
  <1>4. SUBSET S \subseteq T
    BY <1>3, SubsetInduction
  <1>5. QED
    BY <1>4 DEF T

(* h adds the values of w in some order.                                   *)
SumsUp(h, w, S) ==
    /\ h[{}] = 0
    /\ \A s \in SUBSET S : s # {} => \E x \in s : h[s] = w[x] + h[s \ {x}]

(* Whatever element a fold takes next, it computes the sums.               *)
LEMMA FoldIsSum ==
    ASSUME NEW S, IsFiniteSet(S), NEW w, NEW G, Additive(G, w, S),
           NEW h, SumsUp(h, w, S)
    PROVE  \A s \in SUBSET S : h[s] = G[s]
  <1> DEFINE T == {s \in SUBSET S : h[s] = G[s]}
  <1>1. {} \in T
    BY DEF Additive, SumsUp
  <1>2. ASSUME NEW s \in SUBSET S, \A x \in s : s \ {x} \in T PROVE s \in T
    <2>1. CASE s = {}
      BY <1>1, <2>1
    <2>2. CASE s # {}
      <3>1. PICK x \in s : h[s] = w[x] + h[s \ {x}]
        BY <2>2 DEF SumsUp
      <3>2. h[s \ {x}] = G[s \ {x}]
        BY <1>2
      <3>3. G[s] = w[x] + G[s \ {x}]
        BY DEF Additive
      <3>4. QED
        BY <3>1, <3>2, <3>3
    <2>3. QED
      BY <2>1, <2>2
  <1>3. SUBSET S \subseteq T
    <2> HIDE DEF T
    <2>1. QED
      BY <1>2, SubsetInduction
  <1>4. QED
    BY <1>3

LEMMA TotalIs ==
    ASSUME NEW S, IsFiniteSet(S), NEW w, NEW v, \A x \in S : v[x] \in Int,
           NEW G, Additive(G, v, S),
           NEW s \in SUBSET S, \A x \in s : w[x] = v[x]
    PROVE  Total(w, s) = G[s] /\ Total(w, s) \in Int
  <1>1. IsFiniteSet(s)
    BY FS_Subset
  <1>2. PICK H : Additive(H, w, s) /\ Total(w, s) = H[s]
    <2>1. \E H : Additive(H, w, s)
      BY <1>1, SumsExist
    <2>2. Additive(CHOOSE H : Additive(H, w, s), w, s)
      BY <2>1
    <2>3. QED
      BY <2>2 DEF Total
  <1>4. SumsUp(G, w, s)
    <2>1. \A t \in SUBSET s : \A x \in t : G[t] = w[x] + G[t \ {x}]
      BY DEF Additive
    <2>2. QED
      BY <2>1 DEF Additive, SumsUp
  <1>5. G[s] = H[s]
    <2>1. \A t \in SUBSET s : G[t] = H[t]
      BY <1>1, <1>2, <1>4, FoldIsSum
    <2>2. QED
      BY <2>1
  <1>6. G[s] \in Int
    BY DEF Additive
  <1>7. QED
    BY <1>2, <1>5, <1>6

LEMMA TotalType ==
    ASSUME NEW S, IsFiniteSet(S), NEW w, \A x \in S : w[x] \in Int
    PROVE  Total(w, S) \in Int
  <1>1. PICK G : Additive(G, w, S)
    BY SumsExist
  <1>2. QED
    BY <1>1, TotalIs

LEMMA TotalEmpty ==
    ASSUME NEW w
    PROVE  Total(w, {}) = 0
  <1>1. IsFiniteSet({})
    BY FS_EmptySet
  <1>2. PICK G : Additive(G, w, {})
    BY <1>1, SumsExist
  <1>3. Total(w, {}) = G[{}]
    BY <1>1, <1>2, TotalIs
  <1>4. QED
    BY <1>2, <1>3 DEF Additive

LEMMA TotalAdd ==
    ASSUME NEW S, IsFiniteSet(S), NEW w, NEW x, x \notin S,
           \A y \in S \cup {x} : w[y] \in Int
    PROVE  Total(w, S \cup {x}) = Total(w, S) + w[x]
  <1> DEFINE T == S \cup {x}
  <1>1. IsFiniteSet(T) /\ S \in SUBSET T /\ T \in SUBSET T /\ x \in T /\ T \ {x} = S
    BY FS_AddElement
  <1>2. \A y \in T : w[y] \in Int
    OBVIOUS
  <1> HIDE DEF T
  <1>3. PICK G : Additive(G, w, T)
    BY <1>1, <1>2, SumsExist
  <1>4. Total(w, T) = G[T] /\ Total(w, S) = G[S] /\ Total(w, S) \in Int
    BY <1>1, <1>2, <1>3, TotalIs
  <1>5. G[T] = w[x] + G[S]
    BY <1>1, <1>3 DEF Additive
  <1>6. w[x] \in Int
    BY <1>1, <1>2
  <1>7. Total(w, T) = Total(w, S) + w[x]
    BY <1>4, <1>5, <1>6
  <1>8. QED
    BY <1>7 DEF T

(* Only the values summed matter. *)
LEMMA TotalSame ==
    ASSUME NEW S, IsFiniteSet(S), NEW w, NEW v, \A x \in S : w[x] \in Int /\ v[x] = w[x]
    PROVE  Total(v, S) = Total(w, S)
  <1>1. PICK G : Additive(G, w, S)
    BY SumsExist
  <1>2. Total(v, S) = G[S] /\ Total(w, S) = G[S]
    BY <1>1, TotalIs
  <1>3. QED
    BY <1>2

(* What is zero need not be summed. *)
LEMMA TotalZeros ==
    ASSUME NEW S, IsFiniteSet(S), NEW R \in SUBSET S, NEW w, \A x \in S : w[x] \in Int,
           \A x \in S \ R : w[x] = 0
    PROVE  Total(w, S) = Total(w, R)
  <1> DEFINE Z == S \ R
             T == {s \in SUBSET Z : Total(w, R \cup s) = Total(w, R)}
  <1>1. IsFiniteSet(Z)
    BY FS_Subset
  <1>2. ASSUME NEW s \in SUBSET Z, \A x \in s : s \ {x} \in T PROVE s \in T
    <2>1. CASE s = {}
      <3>1. R \cup s = R
        BY <2>1
      <3>2. QED
        BY <3>1
    <2>2. CASE s # {}
      <3>1. PICK x \in s : TRUE
        BY <2>2
      <3> DEFINE r == R \cup (s \ {x})
      <3>2. Total(w, r) = Total(w, R)
        BY <1>2, <3>1
      <3>3. r \in SUBSET S /\ x \notin r /\ R \cup s = r \cup {x} /\ x \in S /\ w[x] = 0
        BY <3>1
      <3>4. IsFiniteSet(r)
        BY <3>3, FS_Subset
      <3>5. \A y \in r \cup {x} : w[y] \in Int
        BY <3>3
      <3>6. Total(w, r) \in Int
        BY <3>3, <3>4, TotalType
      <3> HIDE DEF r
      <3>7. Total(w, r \cup {x}) = Total(w, r) + w[x]
        BY <3>3, <3>4, <3>5, TotalAdd
      <3>8. Total(w, r \cup {x}) = Total(w, r)
        BY <3>3, <3>6, <3>7
      <3>9. R \cup s = r \cup {x}
        BY <3>3
      <3>10. Total(w, R \cup s) = Total(w, R)
        BY <3>2, <3>8, <3>9
      <3>11. QED
        BY <3>10
    <2>3. QED
      BY <2>1, <2>2
  <1>3. SUBSET Z \subseteq T
    <2> HIDE DEF T, Z
    <2>1. QED
      BY <1>1, <1>2, SubsetInduction
  <1>4. Z \in T /\ R \cup Z = S
    BY <1>3
  <1>5. QED
    BY <1>4

(* Entries, each of which counts under its name: when every name has one   *)
(* entry, and the others are zero, the entries add up to the names'.       *)
CountedByName(w, D, name, v, F) ==
    /\ \A p \in D : name[p] \notin F => w[p] = 0
    /\ \A f \in F : \E p \in D : {n \in D : name[n] = f} = {p} /\ w[p] = v[f]

LEMMA TotalByName ==
    ASSUME NEW D, IsFiniteSet(D), NEW F, IsFiniteSet(F), NEW name, NEW w, NEW v,
           \A p \in D : w[p] \in Int, \A f \in F : v[f] \in Int,
           CountedByName(w, D, name, v, F)
    PROVE  Total(w, D) = Total(v, F)
  <1> DEFINE Of(s) == {p \in D : name[p] \in s}
             T == {s \in SUBSET F : Total(w, Of(s)) = Total(v, s)}
  <1>1. ASSUME NEW s \in SUBSET F, \A f \in s : s \ {f} \in T PROVE s \in T
    <2>1. CASE s = {}
      <3>1. Of(s) = {}
        BY <2>1
      <3>2. QED
        BY <2>1, <3>1, TotalEmpty
    <2>2. CASE s # {}
      <3>1. PICK f \in s : TRUE
        BY <2>2
      <3> DEFINE r == s \ {f}
                 d == Of(r)
      <3>2. Total(w, d) = Total(v, r)
        BY <1>1, <3>1
      <3>3. PICK p \in D : {n \in D : name[n] = f} = {p} /\ w[p] = v[f]
        BY <3>1 DEF CountedByName
      <3>4. Of(s) = d \cup {p} /\ p \notin d /\ s = r \cup {f} /\ f \notin r
        BY <3>1, <3>3
      <3>5. d \in SUBSET D /\ r \in SUBSET F
        OBVIOUS
      <3> HIDE DEF d, r
      <3>6. IsFiniteSet(d) /\ IsFiniteSet(r)
        BY <3>5, FS_Subset
      <3>7. \A x \in d \cup {p} : w[x] \in Int
        BY <3>5
      <3>8. \A x \in r \cup {f} : v[x] \in Int
        BY <3>1, <3>5
      <3>9. Total(w, d \cup {p}) = Total(w, d) + w[p]
        <4> HIDE DEF Of, T
        <4>1. p \notin d
          BY <3>4
        <4>2. QED
          BY <3>6, <3>7, <4>1, TotalAdd
      <3>10. Total(v, r \cup {f}) = Total(v, r) + v[f]
        <4> HIDE DEF Of, T
        <4>1. f \notin r
          BY <3>4
        <4>2. QED
          BY <3>6, <3>8, <4>1, TotalAdd
      <3>11. Total(w, Of(s)) = Total(v, s)
        BY <3>2, <3>3, <3>4, <3>9, <3>10
      <3>12. QED
        BY <3>11
    <2>3. QED
      BY <2>1, <2>2
  <1>2. SUBSET F \subseteq T
    <2> HIDE DEF T
    <2>1. QED
      BY <1>1, SubsetInduction
  <1>3. Total(w, Of(F)) = Total(v, F)
    BY <1>2
  <1>4. Total(w, D) = Total(w, Of(F))
    <2> DEFINE R == Of(F)
    <2>1. R \in SUBSET D /\ \A p \in D \ R : w[p] = 0
      BY DEF CountedByName
    <2> HIDE DEF R
    <2>2. Total(w, D) = Total(w, R)
      BY <2>1, TotalZeros
    <2>3. QED
      BY <2>2 DEF R
  <1>5. QED
    BY <1>3, <1>4

(* The function that MapThenSumSet's definition stands for, which has a    *)
(* value: the total.                                                       *)
IsFold(f, w, S) ==
    f = [s \in SUBSET S |-> IF s = {} THEN 0
            ELSE w[CHOOSE x \in s : TRUE] + f[s \ {CHOOSE x \in s : TRUE}]]

LEMMA FoldExists ==
    ASSUME NEW S, IsFiniteSet(S), NEW w, \A x \in S : w[x] \in Int
    PROVE  \E f : IsFold(f, w, S)
  <1>1. PICK G : Additive(G, w, S)
    BY SumsExist
  <1> DEFINE F == [s \in SUBSET S |-> IF s = {} THEN 0
                         ELSE w[CHOOSE x \in s : TRUE] + G[s \ {CHOOSE x \in s : TRUE}]]
  <1>2. ASSUME NEW s \in SUBSET S PROVE G[s] = F[s]
    <2>1. CASE s = {}
      BY <1>1, <2>1 DEF Additive
    <2>2. CASE s # {}
      <3>1. (CHOOSE x \in s : TRUE) \in s
        BY <2>2
      <3>2. QED
        BY <1>1, <2>2, <3>1 DEF Additive
    <2>3. QED
      BY <2>1, <2>2
  <1>3. G = F
    <2>1. G \in [SUBSET S -> Int]
      BY <1>1 DEF Additive
    <2>2. DOMAIN F = SUBSET S /\ F = [s \in SUBSET S |-> F[s]]
      OBVIOUS
    <2> HIDE DEF F
    <2>3. QED
      BY <1>2, <2>1, <2>2
  <1>4. QED
    BY <1>3 DEF IsFold

LEMMA FoldTotal ==
    ASSUME NEW S, IsFiniteSet(S), NEW w, \A x \in S : w[x] \in Int,
           NEW f, IsFold(f, w, S)
    PROVE  f[S] = Total(w, S)
  <1>1. PICK G : Additive(G, w, S)
    BY SumsExist
  <1>2. \A s \in SUBSET S : f[s] = IF s = {} THEN 0
                         ELSE w[CHOOSE x \in s : TRUE] + f[s \ {CHOOSE x \in s : TRUE}]
    BY DEF IsFold
  <1>3. f[{}] = 0
    BY <1>2
  <1>4. ASSUME NEW s \in SUBSET S, s # {} PROVE \E x \in s : f[s] = w[x] + f[s \ {x}]
    <2>1. (CHOOSE x \in s : TRUE) \in s
      BY <1>4
    <2>2. QED
      BY <1>2, <1>4, <2>1
  <1>5. f[S] = G[S]
    <2> SUFFICES ASSUME SumsUp(f, w, S) PROVE f[S] = G[S]
      BY <1>3, <1>4 DEF SumsUp
    <2>1. \A s \in SUBSET S : f[s] = G[s]
      BY <1>1, FoldIsSum
    <2>2. QED
      BY <2>1
  <1>6. Total(w, S) = G[S]
    BY <1>1, TotalIs
  <1>7. QED
    BY <1>5, <1>6

LEMMA ChosenFold ==
    ASSUME NEW S, IsFiniteSet(S), NEW w, \A x \in S : w[x] \in Int,
           NEW f, f = CHOOSE g : IsFold(g, w, S)
    PROVE  f[S] = Total(w, S)
  <1>1. IsFold(f, w, S)
    BY FoldExists
  <1>2. QED
    BY <1>1, FoldTotal

=============================================================================
