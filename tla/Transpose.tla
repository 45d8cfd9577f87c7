----------------------------- MODULE Transpose -----------------------------
(***************************************************************************)
(* What tracegen does with one registered function of the cache lab: fill  *)
(* A and B (initMatrix), call trans or the empty transpose_submit of       *)
(* src/lab/cache/trans.c, and check the result, by validate                *)
(* (src/lab/cache/tracegen.c, which compares with correctTrans of          *)
(* cachelab.c) or by the student's own is_transpose.  A is N x M, B is     *)
(* M x N.  One step is one iteration of an inner loop.                     *)
(***************************************************************************)
EXTENDS Integers

CONSTANTS M, N,     \* columns and rows of A
          Value     \* what an element holds

ASSUME TransposeAssumption == M \in Nat \ {0} /\ N \in Nat \ {0} /\ 0 \in Value

Rows == 0..(N - 1)
Cols == 0..(M - 1)

VARIABLES
    fn,         \* the function called
    A0,         \* history: A as initMatrix filled it
    checker,    \* the check made
    pc,
    i, j,       \* loop variables
    A, B, C,    \* C is correctTrans' output
    verdict     \* what the check returned, or -1

vars == <<fn, checker, A0, pc, i, j, A, B, C, verdict>>

Matrix  == [Rows \X Cols -> Value]      \* A[i][j] is A[<<i, j>>]
MatrixT == [Cols \X Rows -> Value]

TypeOK ==
    /\ fn \in {"trans", "transpose_submit"}
    /\ checker \in {"validate", "is_transpose"}
    /\ pc \in {"call", "correctTrans", "compare", "is_transpose", "done"}
    /\ i \in Nat /\ j \in Nat
    /\ A0 \in Matrix /\ A \in Matrix /\ B \in MatrixT /\ C \in MatrixT
    /\ verdict \in {-1, 0, 1}

(* initMatrix: rand() for every element.  With transpose_submit, which does *)
(* nothing, the checks meet every A and B, as a student's function may     *)
(* leave them.                                                             *)
Init ==
    /\ fn \in {"trans", "transpose_submit"}
    /\ checker \in {"validate", "is_transpose"}
    /\ pc = "call"
    /\ i = 0 /\ j = 0
    /\ A0 \in Matrix /\ A = A0 /\ B \in MatrixT
    /\ C = [p \in Cols \X Rows |-> 0]
    /\ verdict = -1

-----------------------------------------------------------------------------
(* for (i = 0; i < height; i++) for (j = 0; j < width; j++) ... *)

More(height) == i < height

Advance(width) ==
    IF j + 1 < width THEN j' = j + 1 /\ i' = i ELSE j' = 0 /\ i' = i + 1

Rewind == i' = 0 /\ j' = 0

(* Mutant: A is changed before it is read. *)
Trans_Destroys ==
    /\ pc = "call" /\ fn = "trans" /\ More(N)
    /\ A' = [A EXCEPT ![<<i, j>>] = 1]
    /\ B' = [B EXCEPT ![<<j, i>>] = 1]
    /\ Advance(M)
    /\ UNCHANGED <<fn, checker, A0, pc, C, verdict>>

Trans ==
    /\ pc = "call" /\ fn = "trans" /\ More(N)
    /\ B' = [B EXCEPT ![<<j, i>>] = A[<<i, j>>]]
    /\ Advance(M)
    /\ UNCHANGED <<fn, checker, A0, pc, A, C, verdict>>

Returns == pc = "call" /\ (fn = "transpose_submit" \/ ~More(N))

CallValidate ==
    /\ Returns /\ checker = "validate"
    /\ pc' = "correctTrans"
    /\ Rewind
    /\ UNCHANGED <<fn, checker, A0, A, B, C, verdict>>

CorrectTrans ==
    /\ pc = "correctTrans"
    /\ IF More(N)
       THEN /\ C' = [C EXCEPT ![<<j, i>>] = A[<<i, j>>]]
            /\ Advance(M)
            /\ UNCHANGED pc
       ELSE /\ pc' = "compare"
            /\ Rewind
            /\ UNCHANGED C
    /\ UNCHANGED <<fn, checker, A0, A, B, verdict>>

(* Mutant: only the last row and column are compared. *)
Agree_Corner(x, y) == x = y \/ i = 0 \/ j = 0
Agree(x, y) == x = y

Decide(v) == pc' = "done" /\ verdict' = v /\ UNCHANGED <<i, j>>

Compare ==
    /\ pc = "compare"
    /\ \/ ~More(M) /\ Decide(1)
       \/ More(M) /\ ~Agree(B[<<i, j>>], C[<<i, j>>]) /\ Decide(0)
       \/ More(M) /\ Agree(B[<<i, j>>], C[<<i, j>>]) /\ Advance(N) /\ UNCHANGED <<pc, verdict>>
    /\ UNCHANGED <<fn, checker, A0, A, B, C>>

CallIsTranspose ==
    /\ Returns /\ checker = "is_transpose"
    /\ pc' = "is_transpose"
    /\ Rewind
    /\ UNCHANGED <<fn, checker, A0, A, B, C, verdict>>

IsTranspose ==
    /\ pc = "is_transpose"
    /\ \/ ~More(N) /\ Decide(1)
       \/ More(N) /\ ~Agree(A[<<i, j>>], B[<<j, i>>]) /\ Decide(0)
       \/ More(N) /\ Agree(A[<<i, j>>], B[<<j, i>>]) /\ Advance(M) /\ UNCHANGED <<pc, verdict>>
    /\ UNCHANGED <<fn, checker, A0, A, B, C>>

Next == Trans \/ CallValidate \/ CorrectTrans \/ Compare \/ CallIsTranspose \/ IsTranspose

Spec == Init /\ [][Next]_vars

-----------------------------------------------------------------------------
(* Properties *)

IsTransposeOf(X, Y) == \A p \in Rows : \A q \in Cols : X[<<q, p>>] = Y[<<p, q>>]

(* Both checkers accept B exactly when it is the transpose of A, also when *)
(* B was right by accident or differs in one element only.                 *)
VerdictExact == pc = "done" => (verdict = 1 <=> IsTransposeOf(B, A))

(* trans passes the check whatever B held before, and B is the transpose   *)
(* of A as initMatrix filled it: validate, which compares B with the A that *)
(* the function left, could not tell.                                      *)
TransCorrect == pc = "done" /\ fn = "trans" => verdict = 1 /\ IsTransposeOf(B, A0)

=============================================================================
