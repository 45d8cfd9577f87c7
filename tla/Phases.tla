------------------------------- MODULE Phases -------------------------------
(***************************************************************************)
(* What each phase of the bomb (src/lab/bomb/bomb.asm) accepts.  A line is *)
(* what the phases make of it: its text, the leading decimal numbers that  *)
(* sscanf("%d ...") reads, its characters.  Ints have W bits.              *)
(***************************************************************************)
EXTENDS Integers, Sequences

CONSTANT W      \* width of an int: 32

ASSUME WidthAssumption == W \in Nat /\ W >= 12

Wrap(x)     == ((x + 2^(W - 1)) % 2^W) - 2^(W - 1)
(* x <= k for an unsigned comparison of words, k >= 0. *)
Below(x, k) == x \in 0..k

-----------------------------------------------------------------------------
Sentence == "Border relations with Canada have never been better."

phase_1(line) == line.text = Sentence

read_six_numbers(line) == Len(line.ints) > 5

phase_2(line) ==
    /\ read_six_numbers(line)
    /\ line.ints[1] = 1
    /\ \A k \in 2..6 : line.ints[k] = Wrap(2 * line.ints[k - 1])

(* The jump table sends 0 to the first case of the listing, 1 to the last. *)
Case == [k \in 0..7 |-> <<207, 311, 707, 256, 389, 206, 682, 327>>[k + 1]]

phase_3(line) ==
    /\ Len(line.ints) > 1
    /\ Below(line.ints[1], 7)
    /\ line.ints[2] = Case[line.ints[1]]

(* Mutant: a turn to the right adds nothing. *)
TurnRight_Unmarked(path) == Wrap(2 * path)
TurnRight(path) == Wrap(2 * path + 1)
TurnLeft(path)  == Wrap(2 * path)

(* The path of a binary search for x, a bit per turn; r = <<low, high>>    *)
(* holds x in each call, as 0..14 does when phase 4 makes the first.       *)
Mid(r) == r[1] + (r[2] - r[1]) \div 2

func4(x, low, high) ==
    LET f[r \in (low..x) \X (x..high)] ==
            IF x < Mid(r) THEN TurnLeft(f[<<r[1], Mid(r) - 1>>])
            ELSE IF x = Mid(r) THEN 0
            ELSE TurnRight(f[<<Mid(r) + 1, r[2]>>])
    IN  f[<<low, high>>]

phase_4(line) ==
    /\ Len(line.ints) > 1
    /\ Below(line.ints[1], 14)
    /\ func4(line.ints[1], 0, 14) = 0
    /\ line.ints[2] = 0

Code == <<"m", "a", "d", "u", "i", "e", "r", "s", "n", "f", "o", "t", "v", "b", "y", "l">>

phase_5(line) ==
    /\ Len(line.chars) = 6
    /\ [k \in 1..6 |-> Code[(line.chars[k] % 16) + 1]] = <<"f", "l", "y", "e", "r", "s">>

Value == <<332, 168, 924, 691, 477, 443>>       \* node1 .. node6

(* Mutant: the list must increase. *)
Ordered_Up(v, next)   == v <= next
Ordered(v, next) == v >= next

(* The nodes are linked in the order 7 - number; the list must not rise. *)
phase_6(line) ==
    /\ read_six_numbers(line)
    /\ \A k \in 1..6 : Below(Wrap(line.ints[k] - 1), 5)
    /\ \A j, k \in 1..6 : j < k => line.ints[j] # line.ints[k]
    /\ LET node == [k \in 1..6 |-> 7 - line.ints[k]]
       IN  \A k \in 1..5 : Ordered(Value[node[k]], Value[node[k + 1]])

(* The tree at n1: the children of each node, 0 for none. *)
Null  == 0
Nodes == {1, 6, 7, 8, 20, 22, 35, 36, 40, 45, 47, 50, 99, 107, 1001}
Left  == [n \in Nodes |-> CASE n = 36 -> 8 [] n = 8 -> 6 [] n = 50 -> 45 [] n = 6 -> 1
                            [] n = 22 -> 20 [] n = 45 -> 40 [] n = 107 -> 99 [] OTHER -> Null]
Right == [n \in Nodes |-> CASE n = 36 -> 50 [] n = 8 -> 22 [] n = 50 -> 107 [] n = 6 -> 7
                            [] n = 22 -> 35 [] n = 45 -> 47 [] n = 107 -> 1001 [] OTHER -> Null]

fun7(v) ==
    LET f[p \in {Null} \cup Nodes] ==
            IF p = Null THEN -1
            ELSE IF v < p THEN TurnLeft(f[Left[p]])
            ELSE IF v = p THEN 0
            ELSE TurnRight(f[Right[p]])
    IN  f[36]

(* strtol gives 0 for a line without a number. *)
secret_phase(line) ==
    /\ line.ints # <<>>
    /\ Below(Wrap(line.ints[1] - 1), 1000)
    /\ fun7(line.ints[1]) = 2

Secret == 7
Phase == 1..Secret

Defuses(n, line) ==
    CASE n = 1 -> phase_1(line) [] n = 2 -> phase_2(line) [] n = 3 -> phase_3(line)
      [] n = 4 -> phase_4(line) [] n = 5 -> phase_5(line) [] n = 6 -> phase_6(line)
      [] n = Secret -> secret_phase(line)

=============================================================================
