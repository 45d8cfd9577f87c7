------------------------------- MODULE MC_Bomb -------------------------------
(* The lines of src/lab/bomb/sol.txt, whole and without their last         *)
(* character, with and without the word of the fourth.                     *)
EXTENDS Bomb

L(text, ints, length) ==
    [text |-> text, ints |-> ints, chars |-> <<>>, key |-> FALSE, length |-> length, blank |-> FALSE]

Solution == <<L(Sentence, <<>>, 52), L("powers", <<1, 2, 4, 8, 16, 32>>, 13), L("3 256", <<3, 256>>, 5),
              [L("7 0 DrEvil", <<7, 0>>, 10) EXCEPT !.key = TRUE],
              [L("ionefg", <<>>, 6) EXCEPT !.chars = <<105, 111, 110, 101, 102, 103>>],
              L("4 3 2 1 6 5", <<4, 3, 2, 1, 6, 5>>, 11), L("20", <<20>>, 2)>>
Shortened == <<L("Border", <<>>, 51), L("to 3", <<1, 2, 4, 8, 16, 3>>, 12), L("3 25", <<3, 25>>, 4),
               L("7 0 DrEvi", <<7, 0>>, 9), L("ionef", <<>>, 5),
               L("4 3 2 1 6 ", <<4, 3, 2, 1, 6>>, 10), L("2", <<2>>, 1)>>
Permutations6 == {s \in [1..6 -> 1..6] : IsInjective(s)}

NoWord  == L("7 0", <<7, 0>>, 3)
Blank   == [L("", <<>>, 0) EXCEPT !.blank = TRUE]

(* The powers of two with spaces up to the longest line that is accepted,  *)
(* one more, and a line whose first 79 characters fill the entry.          *)
Padded(n) == L("powers", <<1, 2, 4, 8, 16, 32>>, n)
Longest   == Padded(77)
TooLong   == Padded(78)
Part      == Padded(79)
Rest      == L("rest", <<>>, 30)

Whole(l)      == [line |-> l, cut |-> l, newline |-> TRUE]
Answers       == [n \in 1..7 |-> Whole(Solution[n])]
WithoutWord   == [Answers EXCEPT ![4] = Whole(NoWord)]
Unfinished(n) == [line |-> Solution[n], cut |-> Shortened[n], newline |-> FALSE]

(* The first n answers, with a blank line after them, or with the last one *)
(* unfinished; or with the second padded, in one piece or in two.          *)
Files ==
    UNION {{SubSeq(s, 1, n), Append(SubSeq(s, 1, n), Whole(Blank))} : s \in {Answers, WithoutWord}, n \in 0..7}
        \cup {Append(SubSeq(Answers, 1, n - 1), Unfinished(n)) : n \in 1..7}
        \cup {[Answers EXCEPT ![2] = Whole(Longest)], [Answers EXCEPT ![2] = Whole(TooLong)],
              <<Answers[1], [Whole(Part) EXCEPT !.newline = FALSE], Whole(Rest), Answers[3]>>}

(* The answers from the n-th, possibly after a blank line. *)
Typed ==
    UNION {{SubSeq(Answers, n, 7), <<Whole(Blank)>> \o SubSeq(Answers, n, 7)} : n \in 1..8}

(* Candidates for the three phases that search or sort. *)
Numbers(s) == L("numbers", s, 20)
Candidates ==
    [n \in {4, 6, Secret} |->
        CASE n = 4 -> {Numbers(<<a, b>>) : a \in -1..15, b \in {0, 1}}
          [] n = 6 -> {Numbers(s) : s \in Permutations6 \cup {[k \in 1..6 |-> k - 1], [k \in 1..6 |-> k + 1]}}
          [] n = Secret -> {Numbers(<<v>>) : v \in {-1, 0} \cup UNION {{m - 1, m, m + 1} : m \in Nodes}}]
Guesses == UNION {{Append(SubSeq(Answers, 1, n - 1), Whole(l)) : l \in Candidates[n]} : n \in {4, 6, Secret}}

MC_Inputs ==
    [argc : Argc, file : Files, typed : Typed] \cup [argc : {"1"}, file : {<<>>}, typed : Guesses]

MC_Lines ==
    Range(Solution) \cup Range(Shortened) \cup {NoWord, Blank, Longest, TooLong, Part, Rest} \cup UNION Range(Candidates)

=============================================================================
