-------------------------- MODULE TransposeProofs --------------------------
(* trans is correct and both checkers are exact, for every matrix size.    *)
EXTENDS Transpose, TLAPS

(* The loop variables of a loop over height x width elements, and the      *)
(* elements it has dealt with.                                             *)
LoopInv(height, width) == /\ i \in 0..height /\ j \in 0..(width - 1)
                          /\ i = height => j = 0
Past(p, q) == p < i \/ (p = i /\ q < j)

(* The part of X written, or compared, so far agrees with the transpose of Y. *)
DoneSoFar(X, Y) ==
    \A p \in Rows : \A q \in Cols : Past(p, q) => X[<<q, p>>] = Y[<<p, q>>]

LoopsInv ==
    /\ pc \in {"call", "correctTrans", "is_transpose"} => LoopInv(N, M)
    /\ pc = "compare" => LoopInv(M, N)
    /\ pc = "call" /\ fn = "trans" => DoneSoFar(B, A)
    /\ pc = "correctTrans" => DoneSoFar(C, A)
    /\ pc = "compare" =>
          /\ IsTransposeOf(C, A)
          /\ \A p \in Cols : \A q \in Rows : Past(p, q) => B[<<p, q>>] = C[<<p, q>>]
    /\ pc = "is_transpose" => DoneSoFar(B, A)
    /\ pc # "call" /\ fn = "trans" => IsTransposeOf(B, A)

IInv == TypeOK /\ LoopsInv /\ VerdictExact

(* After the last element everything has been dealt with.                  *)
LEMMA AllPast ==
    ASSUME NEW X, NEW Y, i = N, DoneSoFar(X, Y)
    PROVE  IsTransposeOf(X, Y)
  <1> SUFFICES ASSUME NEW p \in Rows, NEW q \in Cols
               PROVE  X[<<q, p>>] = Y[<<p, q>>]
    BY DEF IsTransposeOf
  <1>1. Past(p, q)
    BY TransposeAssumption DEF Past, Rows
  <1>2. QED
    BY <1>1 DEF DoneSoFar

(* One iteration deals with one more element, the one at i, j.             *)
LEMMA AdvanceStep ==
    ASSUME NEW height \in Nat, NEW width \in Nat \ {0},
           LoopInv(height, width), i < height, Advance(width)
    PROVE  /\ LoopInv(height, width)'
           /\ \A p \in Int : \A q \in 0..(width - 1) :
                  Past(p, q)' <=> Past(p, q) \/ (p = i /\ q = j)
  BY DEF LoopInv, Advance, Past

(* A loop that starts has dealt with nothing.                              *)
LEMMA RewindStep ==
    ASSUME NEW height \in Nat, NEW width \in Nat \ {0}, Rewind
    PROVE  /\ LoopInv(height, width)'
           /\ \A p \in Nat : \A q \in Nat : ~Past(p, q)'
  BY DEF LoopInv, Rewind, Past

(* X after the assignment of element r, c of Y: it changes that element only. *)
Copy(X, Y, r, c) == [X EXCEPT ![<<c, r>>] = Y[<<r, c>>]]

(* That element is as in Y, the others as in X.                            *)
LEMMA CopyOne ==
    ASSUME NEW X \in MatrixT, NEW Y \in Matrix, NEW r \in Rows, NEW c \in Cols
    PROVE  /\ Copy(X, Y, r, c) \in MatrixT
           /\ \A p \in Rows : \A q \in Cols :
                  Copy(X, Y, r, c)[<<q, p>>] = IF p = r /\ q = c THEN Y[<<p, q>>] ELSE X[<<q, p>>]
  <1>1. Y[<<r, c>>] \in Value /\ <<c, r>> \in Cols \X Rows
    BY DEF Matrix
  <1>2. Copy(X, Y, r, c) \in MatrixT
    BY <1>1 DEF MatrixT, Copy
  <1>3. ASSUME NEW p \in Rows, NEW q \in Cols
        PROVE  Copy(X, Y, r, c)[<<q, p>>] = IF p = r /\ q = c THEN Y[<<p, q>>] ELSE X[<<q, p>>]
    <2>1. <<q, p>> \in Cols \X Rows
      OBVIOUS
    <2>2. <<q, p>> = <<c, r>> <=> p = r /\ q = c
      OBVIOUS
    <2>3. QED
      BY <2>1, <2>2 DEF MatrixT, Copy
  <1>4. QED
    BY <1>2, <1>3

(* Before the call nothing has been copied and nothing decided.            *)
LEMMA InitIInv == Init => IInv
  BY TransposeAssumption
  DEF Init, IInv, TypeOK, LoopsInv, LoopInv, DoneSoFar, Past, VerdictExact,
      Rows, Cols, MatrixT

-----------------------------------------------------------------------------

(* Each action preserves the loop invariants: first the function called.   *)
LEMMA TransStep == IInv /\ Trans => IInv'
  <1> SUFFICES ASSUME IInv, Trans PROVE IInv'
    OBVIOUS
  <1>1. TypeOK /\ LoopInv(N, M) /\ i < N /\ Advance(M) /\ DoneSoFar(B, A)
    BY DEF IInv, TypeOK, LoopsInv, Trans, More
  <1>2. /\ B' = Copy(B, A, i, j)
        /\ UNCHANGED <<fn, checker, A0, pc, A, C, verdict>> /\ pc = "call"
    BY DEF Trans, Copy
  <1>3. A \in Matrix /\ B \in MatrixT /\ i \in Rows /\ j \in Cols
    BY <1>1, TransposeAssumption DEF TypeOK, LoopInv, Rows, Cols
  <1>4. /\ B' \in MatrixT
        /\ \A p \in Rows : \A q \in Cols :
               B'[<<q, p>>] = IF p = i /\ q = j THEN A[<<p, q>>] ELSE B[<<q, p>>]
    BY <1>2, <1>3, CopyOne
  <1>5. /\ LoopInv(N, M)'
        /\ \A p \in Int : \A q \in 0..(M - 1) :
               Past(p, q)' <=> Past(p, q) \/ (p = i /\ q = j)
    BY <1>1, AdvanceStep, TransposeAssumption
  <1>6. DoneSoFar(B, A)'
    BY <1>1, <1>2, <1>4, <1>5 DEF DoneSoFar, Rows, Cols
  <1>7. TypeOK'
    BY <1>1, <1>2, <1>4, <1>5, TransposeAssumption DEF TypeOK, LoopInv
  <1>8. QED
    BY <1>2, <1>5, <1>6, <1>7 DEF IInv, LoopsInv, VerdictExact

(* correctTrans builds the transpose in C.                                 *)
LEMMA CorrectTransStep == IInv /\ CorrectTrans => IInv'
  <1> SUFFICES ASSUME IInv, CorrectTrans PROVE IInv'
    OBVIOUS
  <1>1. TypeOK /\ LoopInv(N, M) /\ DoneSoFar(C, A) /\ pc = "correctTrans"
    BY DEF IInv, TypeOK, LoopsInv, CorrectTrans
  <1>2. UNCHANGED <<fn, checker, A0, A, B, verdict>>
    BY DEF CorrectTrans
  <1>3. CASE i < N
    <2>1. C' = Copy(C, A, i, j) /\ Advance(M) /\ pc' = pc
      BY <1>3 DEF CorrectTrans, More, Copy
    <2>2. A \in Matrix /\ C \in MatrixT /\ i \in Rows /\ j \in Cols
      BY <1>1, <1>3, TransposeAssumption DEF TypeOK, LoopInv, Rows, Cols
    <2>3. /\ C' \in MatrixT
          /\ \A p \in Rows : \A q \in Cols :
                 C'[<<q, p>>] = IF p = i /\ q = j THEN A[<<p, q>>] ELSE C[<<q, p>>]
      BY <2>1, <2>2, CopyOne
    <2>4. /\ LoopInv(N, M)'
          /\ \A p \in Int : \A q \in 0..(M - 1) :
                 Past(p, q)' <=> Past(p, q) \/ (p = i /\ q = j)
      BY <1>1, <1>3, <2>1, AdvanceStep, TransposeAssumption
    <2>5. DoneSoFar(C, A)'
      BY <1>1, <1>2, <2>3, <2>4 DEF DoneSoFar, Rows, Cols
    <2>6. TypeOK'
      BY <1>1, <1>2, <2>1, <2>3, <2>4, TransposeAssumption DEF TypeOK, LoopInv
    <2>7. (fn = "trans" => IsTransposeOf(B, A))'
      BY <1>1, <1>2 DEF IInv, LoopsInv, IsTransposeOf
    <2>8. QED
      BY <1>1, <2>1, <2>4, <2>5, <2>6, <2>7 DEF IInv, LoopsInv, VerdictExact
  <1>4. CASE ~(i < N)
    <2>1. pc' = "compare" /\ Rewind /\ UNCHANGED C
      BY <1>4 DEF CorrectTrans, More
    <2>2. i = N
      BY <1>1, <1>4, TransposeAssumption DEF LoopInv
    <2>3. IsTransposeOf(C, A)
      BY <1>1, <2>2, AllPast
    <2>4. IsTransposeOf(C, A)'
      BY <1>2, <2>1, <2>3 DEF IsTransposeOf
    <2>5. LoopInv(M, N)' /\ \A p \in Nat : \A q \in Nat : ~Past(p, q)'
      BY <2>1, RewindStep, TransposeAssumption
    <2>6. \A p \in Cols : \A q \in Rows : ~Past(p, q)'
      BY <2>5, TransposeAssumption DEF Rows, Cols
    <2>7. TypeOK'
      BY <1>1, <1>2, <2>1 DEF TypeOK, Rewind
    <2>8. (fn = "trans" => IsTransposeOf(B, A))'
      BY <1>1, <1>2 DEF IInv, LoopsInv, IsTransposeOf
    <2>9. QED
      BY <2>1, <2>4, <2>5, <2>6, <2>7, <2>8 DEF IInv, LoopsInv, VerdictExact
  <1>5. QED
    BY <1>3, <1>4

(* The function has returned: trans has dealt with every element.          *)
LEMMA CallValidateStep == IInv /\ CallValidate => IInv'
  <1> SUFFICES ASSUME IInv, CallValidate PROVE IInv'
    OBVIOUS
  <1>1. /\ TypeOK /\ LoopInv(N, M) /\ pc = "call" /\ pc' = "correctTrans" /\ Rewind
        /\ UNCHANGED <<fn, checker, A0, A, B, C, verdict>>
    BY DEF IInv, TypeOK, LoopsInv, CallValidate, Returns
  <1>2. fn = "trans" => IsTransposeOf(B, A)
    <2>1. ASSUME fn = "trans" PROVE i = N /\ DoneSoFar(B, A)
      BY <1>1, <2>1, TransposeAssumption DEF IInv, LoopsInv, CallValidate, Returns, More, LoopInv
    <2>2. QED
      BY <2>1, AllPast
  <1>3. (fn = "trans" => IsTransposeOf(B, A))'
    BY <1>1, <1>2 DEF IsTransposeOf
  <1>4. LoopInv(N, M)' /\ \A p \in Nat : \A q \in Nat : ~Past(p, q)'
    BY <1>1, RewindStep, TransposeAssumption
  <1>5. DoneSoFar(C, A)'
    BY <1>4, TransposeAssumption DEF DoneSoFar, Rows, Cols
  <1>6. TypeOK'
    BY <1>1 DEF TypeOK, Rewind
  <1>7. QED
    BY <1>1, <1>3, <1>4, <1>5, <1>6 DEF IInv, LoopsInv, VerdictExact

(* The same, before is_transpose.                                          *)
LEMMA CallIsTransposeStep == IInv /\ CallIsTranspose => IInv'
  <1> SUFFICES ASSUME IInv, CallIsTranspose PROVE IInv'
    OBVIOUS
  <1>1. /\ TypeOK /\ LoopInv(N, M) /\ pc = "call" /\ pc' = "is_transpose" /\ Rewind
        /\ UNCHANGED <<fn, checker, A0, A, B, C, verdict>>
    BY DEF IInv, TypeOK, LoopsInv, CallIsTranspose, Returns
  <1>2. fn = "trans" => IsTransposeOf(B, A)
    <2>1. ASSUME fn = "trans" PROVE i = N /\ DoneSoFar(B, A)
      BY <1>1, <2>1, TransposeAssumption DEF IInv, LoopsInv, CallIsTranspose, Returns, More, LoopInv
    <2>2. QED
      BY <2>1, AllPast
  <1>3. (fn = "trans" => IsTransposeOf(B, A))'
    BY <1>1, <1>2 DEF IsTransposeOf
  <1>4. LoopInv(N, M)' /\ \A p \in Nat : \A q \in Nat : ~Past(p, q)'
    BY <1>1, RewindStep, TransposeAssumption
  <1>5. DoneSoFar(B, A)'
    BY <1>4, TransposeAssumption DEF DoneSoFar, Rows, Cols
  <1>6. TypeOK'
    BY <1>1 DEF TypeOK, Rewind
  <1>7. QED
    BY <1>1, <1>3, <1>4, <1>5, <1>6 DEF IInv, LoopsInv, VerdictExact

(* validate's comparison stops at a difference or at the end.              *)
LEMMA CompareStep == IInv /\ Compare => IInv'
  <1> SUFFICES ASSUME IInv, Compare PROVE IInv'
    OBVIOUS
  <1>1. /\ TypeOK /\ LoopInv(M, N) /\ IsTransposeOf(C, A) /\ pc = "compare"
        /\ \A p \in Cols : \A q \in Rows : Past(p, q) => B[<<p, q>>] = C[<<p, q>>]
        /\ fn = "trans" => IsTransposeOf(B, A)
    BY DEF IInv, TypeOK, LoopsInv, Compare
  <1>2. UNCHANGED <<fn, checker, A0, A, B, C>>
    BY DEF Compare
  <1>3. /\ IsTransposeOf(C, A)'
        /\ (fn = "trans" => IsTransposeOf(B, A))'
        /\ IsTransposeOf(B, A)' <=> IsTransposeOf(B, A)
    BY <1>1, <1>2 DEF IsTransposeOf
  <1>4. CASE ~More(M) /\ Decide(1)
    <2>1. i = M
      BY <1>1, <1>4, TransposeAssumption DEF LoopInv, More
    <2>2. \A p \in Cols : \A q \in Rows : Past(p, q)
      BY <2>1, TransposeAssumption DEF Past, Cols
    <2>3. IsTransposeOf(B, A)
      BY <1>1, <2>2 DEF IsTransposeOf
    <2>4. TypeOK' /\ VerdictExact'
      BY <1>1, <1>2, <1>3, <1>4, <2>3 DEF TypeOK, Decide, VerdictExact
    <2>5. QED
      BY <1>3, <1>4, <2>4 DEF IInv, LoopsInv, Decide
  <1>5. CASE More(M) /\ ~Agree(B[<<i, j>>], C[<<i, j>>]) /\ Decide(0)
    <2>1. i \in Cols /\ j \in Rows
      BY <1>1, <1>5, TransposeAssumption DEF LoopInv, More, Rows, Cols
    <2>2. ~IsTransposeOf(B, A)
      BY <1>1, <1>5, <2>1 DEF IsTransposeOf, Agree
    <2>3. TypeOK' /\ VerdictExact'
      BY <1>1, <1>2, <1>3, <1>5, <2>2 DEF TypeOK, Decide, VerdictExact
    <2>4. QED
      BY <1>3, <1>5, <2>3 DEF IInv, LoopsInv, Decide
  <1>6. CASE /\ More(M) /\ Agree(B[<<i, j>>], C[<<i, j>>]) /\ Advance(N)
             /\ UNCHANGED <<pc, verdict>>
    <2>1. /\ LoopInv(M, N)'
          /\ \A p \in Int : \A q \in 0..(N - 1) :
                 Past(p, q)' <=> Past(p, q) \/ (p = i /\ q = j)
      BY <1>1, <1>6, AdvanceStep, TransposeAssumption DEF More
    <2>2. \A p \in Cols : \A q \in Rows : Past(p, q)' => B[<<p, q>>] = C[<<p, q>>]
      BY <1>1, <1>6, <2>1, TransposeAssumption DEF Agree, Rows, Cols
    <2>3. TypeOK'
      BY <1>1, <1>2, <1>6, <2>1, TransposeAssumption DEF TypeOK, LoopInv
    <2>4. (\A p \in Cols : \A q \in Rows : Past(p, q) => B[<<p, q>>] = C[<<p, q>>])'
      BY <1>2, <2>2 DEF Rows, Cols
    <2>5. QED
      BY <1>1, <1>3, <1>6, <2>1, <2>3, <2>4 DEF IInv, LoopsInv, VerdictExact
  <1>7. QED
    BY <1>4, <1>5, <1>6 DEF Compare

(* So does is_transpose, comparing A and B directly.                       *)
LEMMA IsTransposeStep == IInv /\ IsTranspose => IInv'
  <1> SUFFICES ASSUME IInv, IsTranspose PROVE IInv'
    OBVIOUS
  <1>1. /\ TypeOK /\ LoopInv(N, M) /\ DoneSoFar(B, A) /\ pc = "is_transpose"
        /\ fn = "trans" => IsTransposeOf(B, A)
    BY DEF IInv, TypeOK, LoopsInv, IsTranspose
  <1>2. UNCHANGED <<fn, checker, A0, A, B, C>>
    BY DEF IsTranspose
  <1>3. /\ (fn = "trans" => IsTransposeOf(B, A))'
        /\ IsTransposeOf(B, A)' <=> IsTransposeOf(B, A)
    BY <1>1, <1>2 DEF IsTransposeOf
  <1>4. CASE ~More(N) /\ Decide(1)
    <2>1. i = N
      BY <1>1, <1>4, TransposeAssumption DEF LoopInv, More
    <2>2. IsTransposeOf(B, A)
      BY <1>1, <2>1, AllPast
    <2>3. TypeOK' /\ VerdictExact'
      BY <1>1, <1>2, <1>3, <1>4, <2>2 DEF TypeOK, Decide, VerdictExact
    <2>4. QED
      BY <1>3, <1>4, <2>3 DEF IInv, LoopsInv, Decide
  <1>5. CASE More(N) /\ ~Agree(A[<<i, j>>], B[<<j, i>>]) /\ Decide(0)
    <2>1. i \in Rows /\ j \in Cols
      BY <1>1, <1>5, TransposeAssumption DEF LoopInv, More, Rows, Cols
    <2>2. ~IsTransposeOf(B, A)
      BY <1>5, <2>1 DEF IsTransposeOf, Agree
    <2>3. TypeOK' /\ VerdictExact'
      BY <1>1, <1>2, <1>3, <1>5, <2>2 DEF TypeOK, Decide, VerdictExact
    <2>4. QED
      BY <1>3, <1>5, <2>3 DEF IInv, LoopsInv, Decide
  <1>6. CASE /\ More(N) /\ Agree(A[<<i, j>>], B[<<j, i>>]) /\ Advance(M)
             /\ UNCHANGED <<pc, verdict>>
    <2>1. /\ LoopInv(N, M)'
          /\ \A p \in Int : \A q \in 0..(M - 1) :
                 Past(p, q)' <=> Past(p, q) \/ (p = i /\ q = j)
      BY <1>1, <1>6, AdvanceStep, TransposeAssumption DEF More
    <2>2. \A p \in Rows : \A q \in Cols : Past(p, q)' => B[<<q, p>>] = A[<<p, q>>]
      BY <1>1, <1>6, <2>1, TransposeAssumption DEF Agree, Rows, Cols, DoneSoFar
    <2>3. TypeOK'
      BY <1>1, <1>2, <1>6, <2>1, TransposeAssumption DEF TypeOK, LoopInv
    <2>4. DoneSoFar(B, A)'
      BY <1>2, <2>2 DEF DoneSoFar, Rows, Cols
    <2>5. QED
      BY <1>1, <1>3, <1>6, <2>1, <2>3, <2>4 DEF IInv, LoopsInv, VerdictExact
  <1>7. QED
    BY <1>4, <1>5, <1>6 DEF IsTranspose

(* A step that changes nothing preserves the invariant.                    *)
LEMMA StutterStep == IInv /\ UNCHANGED vars => IInv'
  <1> SUFFICES ASSUME IInv, UNCHANGED vars PROVE IInv'
    OBVIOUS
  <1>1. UNCHANGED <<fn, checker, A0, pc, i, j, A, B, C, verdict>>
    BY DEF vars
  <1>2. TypeOK'
    BY <1>1 DEF IInv, TypeOK
  <1>3. LoopsInv'
    BY <1>1 DEF IInv, LoopsInv, LoopInv, DoneSoFar, Past, IsTransposeOf
  <1>4. VerdictExact'
    BY <1>1 DEF IInv, VerdictExact, IsTransposeOf
  <1>5. QED
    BY <1>2, <1>3, <1>4 DEF IInv

-----------------------------------------------------------------------------

(* The loop invariants hold of every execution.                            *)
THEOREM Invariance == Spec => []IInv
  <1>1. IInv /\ [Next]_vars => IInv'
    BY TransStep, CallValidateStep, CorrectTransStep, CompareStep,
       CallIsTransposeStep, IsTransposeStep, StutterStep DEF Next
  <1>2. QED
    BY InitIInv, <1>1, PTL DEF Spec

(* The loop variables and matrices of trans, validate and is_transpose     *)
(* keep their types: no element outside A, B or C is written.              *)
THEOREM TypeCorrect == Spec => []TypeOK
  <1>1. IInv => TypeOK
    BY DEF IInv
  <1>2. QED
    BY Invariance, <1>1, PTL

(* validate and is_transpose accept exactly the transpose.                 *)
THEOREM CheckersExact == Spec => []VerdictExact
  <1>1. IInv => VerdictExact
    BY DEF IInv
  <1>2. QED
    BY Invariance, <1>1, PTL

(* A stays as initMatrix filled it.                                        *)
AsFilled == A = A0

LEMMA AKept == Spec => []AsFilled
  <1>1. Init => AsFilled
    BY DEF Init, AsFilled
  <1>2. AsFilled /\ [Next]_vars => AsFilled'
    <2>1. [Next]_vars => UNCHANGED <<A, A0>>
      BY DEF Next, Trans, CallValidate, CorrectTrans, Compare, CallIsTranspose,
             IsTranspose, vars
    <2>2. QED
      BY <2>1 DEF AsFilled
  <1>3. QED
    BY <1>1, <1>2, PTL DEF Spec

(* trans transposes what it was given, and either checker accepts it.      *)
THEOREM TransTransposes == Spec => []TransCorrect
  <1>1. IInv /\ AsFilled => TransCorrect
    BY DEF IInv, LoopsInv, VerdictExact, TransCorrect, AsFilled
  <1>2. QED
    BY Invariance, AKept, <1>1, PTL

=============================================================================
