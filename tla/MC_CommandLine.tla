--------------------------- MODULE MC_CommandLine ---------------------------
(* Seven-bit ints and floats; TEST_RANGE = 4 is the least the code allows  *)
(* and exceeds what one exponent holds.  The table has the full range, the *)
(* mark of the float puzzles, a range small enough to be exhausted, one    *)
(* with a value more than the array holds and one that has four too many   *)
(* to be exhausted; a small one at either end of the ints.                 *)
EXTENDS CommandLine

MC_Ranges == {<<-64, 63>>, <<1, 1>>, <<-3, 2>>, <<-20, 32>>, <<-20, 35>>, <<20, 63>>, <<-64, -62>>}

Whole(n)           == [marks |-> <<>>, number |-> n, whole |-> TRUE, pattern |-> 0]
Hex(n)             == [marks |-> <<"x", "e">>, number |-> n, whole |-> TRUE, pattern |-> 0]
Point(n, p, whole) == [marks |-> <<".">>, number |-> n, whole |-> whole, pattern |-> p]
Power(n, p)        == [marks |-> <<"e">>, number |-> n, whole |-> TRUE, pattern |-> p]

(* 5, the ends of the signed and the unsigned range and the numbers past   *)
(* them, foo, 0x1e, 1.0, 1.0f, -1e0. *)
TypedWords ==
    {Whole(n) : n \in {0, 5, -64, -65, 127, 128, 255}} \cup
        {Hex(30), Point(1, One, TRUE), Point(1, One, FALSE), Power(-1, Neg(One))}
Patterns == {Whole(n) : n \in 0..127}

MC_ArgVals == -64..63
MC_Words == TypedWords \cup Patterns

O(letter, value) == [opt |-> letter, arg |-> value]
Options ==
    {O("1", w) : w \in TypedWords} \cup {O("2", Whole(5)), O("3", Whole(0)), O("3", Whole(127))}
        \cup {O("f", "tmin"), O("r", 2), O("r", -1), O("T", 0), O("T", 3), O("g", 1), O("h", 0), O("?", 0)}

UpToTwo(S) == {<<>>} \cup {<<x>> : x \in S} \cup {<<x, y>> : x, y \in S}
Vals(S)    == {O("val", w) : w \in S}

MC_CommandLines ==
    [prog : {"btest"}, argv : UpToTwo(Options)] \cup
        [prog : {"fshow", "ishow"}, argv : UpToTwo(Vals(TypedWords)) \cup {<<o>> : o \in Vals(Patterns)}]

=============================================================================
