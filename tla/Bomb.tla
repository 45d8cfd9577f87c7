-------------------------------- MODULE Bomb --------------------------------
(***************************************************************************)
(* The bomb (src/lab/bomb/bomb.c and bomb.asm): main reads a line for each *)
(* of six phases, from a file and then from standard input, or from        *)
(* standard input only; phase_defused leads to the secret phase when the   *)
(* fourth line has a third word.  Every line is kept in input_strings.     *)
(*                                                                         *)
(* A stream is a sequence of what fgets(, 80,) returns one by one: a line  *)
(* with its newline, the first 79 characters of a longer one, or the end   *)
(* of a stream that lacks the last newline.                                *)
(***************************************************************************)
EXTENDS Phases, SequencesExt

CONSTANTS
    Lines,          \* what the lines say, see Line
    Inputs          \* how the bomb is started and what it can read, see IsInput

EntrySize == 80         \* an entry of input_strings, and the bound given to fgets
MaxLength == 78         \* the longest string read_line takes

(* A line: its text, the ints it begins with, its character codes (of a    *)
(* line of six), whether its third word is DrEvil after two numbers, its   *)
(* length, and whether it has only spaces.                                 *)
IsLine(l) ==
    /\ DOMAIN l = {"text", "ints", "chars", "key", "length", "blank"}
    /\ l.ints \in Seq({x \in Int : Wrap(x) = x}) /\ l.chars \in Seq(0..255)
    /\ l.key \in BOOLEAN /\ l.blank \in BOOLEAN
    /\ l.length \in 0..(EntrySize - 1)

(* What fgets returned: a line, and the line without its last character,   *)
(* which matters when there is no newline.                                 *)
Chunk == [line : Lines, cut : Lines, newline : BOOLEAN]

(* The length fgets' string has. *)
SizeOf(c) == c.line.length + (IF c.newline THEN 1 ELSE 0)

(* The string fills the entry, or ends with a newline or with the stream.  *)
Fills(c) == SizeOf(c) = EntrySize - 1
IsStream(s) ==
    /\ s \in Seq(Chunk)
    /\ \A k \in DOMAIN s : /\ SizeOf(s[k]) \in 1..(EntrySize - 1)
                           /\ s[k].newline \/ Fills(s[k]) \/ k = Len(s)

(* argc, where it is 2 "unreadable" if the file cannot be opened, the file *)
(* and what comes from standard input.                                     *)
Argc == {"1", "2", "unreadable", "more"}

IsInput(u) ==
    /\ DOMAIN u = {"argc", "file", "typed"}
    /\ u.argc \in Argc
    /\ IsStream(u.file) /\ IsStream(u.typed)

ASSUME BombAssumption ==
    /\ \A l \in Lines : IsLine(l)
    /\ \A u \in Inputs : IsInput(u)

NoLine == [text |-> "", ints |-> <<>>, chars |-> <<>>, key |-> FALSE, length |-> 0, blank |-> TRUE]

VARIABLES
    argc,
    grade_bomb,         \* the environment has GRADE_BOMB
    file, typed,        \* the two streams
    fpos, tpos,         \* chunks read of each
    infile,
    num_input_strings,
    input_strings,
    phase,              \* phase main is at
    pc,
    status              \* exit status, or Running

inputs == <<argc, grade_bomb, file, typed>>
stream == <<fpos, tpos, infile>>
vars   == <<inputs, stream, num_input_strings, input_strings, phase, pc, status>>

Running == -1

TypeOK ==
    /\ argc \in Argc /\ grade_bomb \in BOOLEAN
    /\ fpos \in 0..Len(file) /\ tpos \in 0..Len(typed)
    /\ infile \in {"file", "stdin"}
    /\ num_input_strings \in 0..Secret
    /\ DOMAIN input_strings = 1..(Secret + 1)
    /\ \A n \in 1..(Secret + 1) : IsLine(input_strings[n])
    /\ phase \in Phase
    /\ pc \in {"main", "read", "reread", "phase", "defused", "returned", "exploded", "exited"}
    /\ status \in {Running, 0, 8, 16}

Init ==
    /\ \E u \in Inputs : argc = u.argc /\ file = u.file /\ typed = u.typed
    /\ grade_bomb \in BOOLEAN
    /\ fpos = 0 /\ tpos = 0
    /\ infile = "stdin"
    /\ num_input_strings = 0
    /\ input_strings = [n \in 1..(Secret + 1) |-> NoLine]
    /\ phase = 1 /\ pc = "main" /\ status = Running

-----------------------------------------------------------------------------
(* main *)

OpenInput ==
    /\ pc = "main" /\ argc \in {"1", "2"}
    /\ infile' = IF argc = "1" THEN "stdin" ELSE "file"
    /\ pc' = "read"
    /\ UNCHANGED <<inputs, fpos, tpos, num_input_strings, input_strings, phase, status>>

BadUsage ==
    /\ pc = "main" /\ argc \in {"unreadable", "more"}
    /\ pc' = "exited" /\ status' = 8
    /\ UNCHANGED <<inputs, stream, num_input_strings, input_strings, phase>>

-----------------------------------------------------------------------------
(* read_line: skip reads into the next entry of input_strings until the    *)
(* line is not blank.                                                      *)

Reading == pc \in {"read", "reread"}
AtEnd   == IF infile = "file" THEN fpos = Len(file) ELSE tpos = Len(typed)
Next1   == IF infile = "file" THEN file[fpos + 1] ELSE typed[tpos + 1]

Consume ==
    IF infile = "file" THEN fpos' = fpos + 1 /\ UNCHANGED <<tpos, infile>>
                       ELSE tpos' = tpos + 1 /\ UNCHANGED <<fpos, infile>>

Entry == num_input_strings + 1

(* Mutant: the test is one off. *)
Fits_Shorter(c) == SizeOf(c) < MaxLength
Fits(c) == SizeOf(c) <= MaxLength

(* The last character is dropped, newline or not. *)
Stored(c) == IF c.newline THEN c.line ELSE c.cut

(* Mutant: the blank line is not consumed. *)
SkipBlank_Again ==
    /\ Reading /\ ~AtEnd /\ Next1.line.blank
    /\ input_strings' = [input_strings EXCEPT ![Entry] = Next1.line]
    /\ UNCHANGED <<inputs, stream, num_input_strings, phase, pc, status>>

SkipBlank ==
    /\ Reading /\ ~AtEnd /\ Next1.line.blank
    /\ Consume
    /\ input_strings' = [input_strings EXCEPT ![Entry] = Next1.line]
    /\ UNCHANGED <<inputs, num_input_strings, phase, pc, status>>

ReadLine ==
    /\ Reading /\ ~AtEnd /\ ~Next1.line.blank /\ Fits(Next1)
    /\ Consume
    /\ input_strings' = [input_strings EXCEPT ![Entry] = Stored(Next1)]
    /\ num_input_strings' = num_input_strings + 1
    /\ pc' = "phase"
    /\ UNCHANGED <<inputs, phase, status>>

(* The line is replaced by a message, and explode_bomb exits. *)
LineTooLong ==
    /\ Reading /\ ~AtEnd /\ ~Next1.line.blank /\ ~Fits(Next1)
    /\ Consume
    /\ num_input_strings' = num_input_strings + 1
    /\ input_strings' = [input_strings EXCEPT ![Entry] = NoLine]
    /\ pc' = "exploded" /\ status' = 8
    /\ UNCHANGED <<inputs, phase>>

(* Mutant: a line is lost at the switch. *)
SwitchToStdin_Loses ==
    /\ pc = "read" /\ AtEnd /\ infile = "file" /\ ~grade_bomb
    /\ infile' = "stdin" /\ tpos' = IF tpos < Len(typed) THEN tpos + 1 ELSE tpos
    /\ pc' = "reread"
    /\ UNCHANGED <<inputs, fpos, num_input_strings, input_strings, phase, status>>

SwitchToStdin ==
    /\ pc = "read" /\ AtEnd /\ infile = "file" /\ ~grade_bomb
    /\ infile' = "stdin"
    /\ pc' = "reread"
    /\ UNCHANGED <<inputs, fpos, tpos, num_input_strings, input_strings, phase, status>>

(* Premature EOF: 8 when standard input ends, 0 when it ends right after   *)
(* the file, or the file ends and the bomb is being graded.                *)
EndOfInput ==
    /\ Reading /\ AtEnd
    /\ pc = "read" /\ infile = "file" => grade_bomb
    /\ pc' = "exited"
    /\ status' = IF pc = "read" /\ infile = "stdin" THEN 8 ELSE 0
    /\ UNCHANGED <<inputs, stream, num_input_strings, input_strings, phase>>

-----------------------------------------------------------------------------
(* The phases *)

Current == input_strings[num_input_strings]

DefusePhase ==
    /\ pc = "phase" /\ Defuses(phase, Current)
    /\ pc' = "defused"
    /\ UNCHANGED <<inputs, stream, num_input_strings, input_strings, phase, status>>

(* Mutant: explode_bomb exits as the bomb does at the end of the input. *)
Explode_Quiet ==
    /\ pc = "phase" /\ ~Defuses(phase, Current)
    /\ pc' = "exploded" /\ status' = 0
    /\ UNCHANGED <<inputs, stream, num_input_strings, input_strings, phase>>

(* explode_bomb *)
Explode ==
    /\ pc = "phase" /\ ~Defuses(phase, Current)
    /\ pc' = "exploded" /\ status' = 8
    /\ UNCHANGED <<inputs, stream, num_input_strings, input_strings, phase>>

(* Mutant: the word is looked for in the last line. *)
SecretFound_LastLine == num_input_strings = 6 /\ input_strings[6].key
SecretFound == num_input_strings = 6 /\ input_strings[4].key

phase_defused ==
    /\ pc = "defused"
    /\ IF SecretFound
       THEN phase' = Secret /\ pc' = "read" /\ UNCHANGED status
       ELSE IF phase < 6
       THEN phase' = phase + 1 /\ pc' = "read" /\ UNCHANGED status
       ELSE pc' = "returned" /\ status' = 0 /\ UNCHANGED phase
    /\ UNCHANGED <<inputs, stream, num_input_strings, input_strings>>

(* ctrl-c, once initialize_bomb has run. *)
sig_handler ==
    /\ pc \notin {"main", "returned", "exploded", "exited"}
    /\ pc' = "exited" /\ status' = 16
    /\ UNCHANGED <<inputs, stream, num_input_strings, input_strings, phase>>

Step ==
    \/ OpenInput \/ BadUsage
    \/ SkipBlank \/ ReadLine \/ LineTooLong \/ SwitchToStdin \/ EndOfInput
    \/ DefusePhase \/ Explode \/ phase_defused

Next == Step \/ sig_handler

Spec == Init /\ [][Next]_vars

(* The process runs; its streams are finite. *)
FairSpec == Spec /\ WF_vars(Step)

-----------------------------------------------------------------------------
(* Properties *)

(* What the user gave the bomb, in the order in which main's comment says  *)
(* it is read: "from <file> until EOF, and then [...] standard input".     *)
Chunks    == (IF argc = "2" THEN file ELSE <<>>) \o typed
Given     == {k \in 1..Len(Chunks) : ~Chunks[k].line.blank}
LineNo(k) == Cardinality({j \in Given : j <= k})

(* Each phase gets the next line: none is lost, repeated or overwritten at *)
(* blank lines, at the switch to standard input, or by a later line.  A    *)
(* line that fills its entry, possibly only part of one, is not used: the  *)
(* bomb explodes at it.                                                    *)
LinesInOrder ==
    /\ num_input_strings <= Cardinality(Given)
    /\ \A k \in Given :
           LineNo(k) <= num_input_strings =>
               \/ input_strings[LineNo(k)] = Stored(Chunks[k])
               \/ Fills(Chunks[k]) /\ pc = "exploded" /\ LineNo(k) = num_input_strings

(* The bomb is defused by a line for each phase, and by one for the secret *)
(* phase exactly when the fourth has the word.                             *)
DefusedByAll ==
    pc = "returned" =>
        /\ \A n \in 1..num_input_strings : Defuses(n, input_strings[n])
        /\ num_input_strings = IF input_strings[4].key THEN Secret ELSE 6

(* The exit status is 0 for a defused bomb, for a file that ends under     *)
(* GRADE_BOMB and for standard input that ends right after the file: who   *)
(* sees it knows only that every line defused its phase, and that a bomb   *)
(* not defused has read all it was given.                                  *)
ZeroMeansNoMistake ==
    status = 0 =>
        /\ \A n \in 1..num_input_strings : Defuses(n, input_strings[n])
        /\ pc # "returned" => AtEnd

Answer(k) ==
    /\ Chunks[k].newline /\ ~Fills(Chunks[k])
    /\ Defuses(LineNo(k), Chunks[k].line)

(* "as you defuse each phase, you can add its defusing string to <file>":  *)
(* complete lines that defuse their phases never make the bomb explode, up *)
(* to the last that leaves a character of its entry free.                  *)
AnswersNeverExplode ==
    (\A k \in Given : LineNo(k) <= Secret => Answer(k)) => pc # "exploded"

(* The bomb always ends.                                                   *)
Ends == <>(status # Running)

(* Phase n has judged its line, Current. *)
Judged(n) == phase = n /\ pc \in {"defused", "exploded"}

(* func4 is zero on the left spine of its search only (the notes' 0, 1, 3  *)
(* and 7), and fun7 leads left, right, right to 22 or 20 only.             *)
SearchesExact ==
    /\ Judged(4) => (pc = "defused" <=> \E k \in 0..3 : IsPrefix(<<2^k - 1, 0>>, Current.ints))
    /\ Judged(Secret) => (pc = "defused" <=> \E v \in {20, 22} : IsPrefix(<<v>>, Current.ints))

(* Six numbers defuse phase 6 only in the order that sorts the nodes.      *)
Larger(n) == Cardinality({m \in 1..6 : Value[m] > Value[n]})
Phase6Exact ==
    Judged(6) => (pc = "defused" <=> /\ Len(Current.ints) > 5
                                     /\ \A k \in 1..6 : \E n \in 1..6 :
                                            Larger(n) = k - 1 /\ Current.ints[k] = 7 - n)

=============================================================================
