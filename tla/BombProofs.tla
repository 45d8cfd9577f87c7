----------------------------- MODULE BombProofs -----------------------------
(* Type correctness of the bomb, what its being defused says, and what its *)
(* exit status says, for every width of an int, set of lines and input.    *)
EXTENDS Bomb, SequenceTheorems, InductionLemmas

(* What fgets returns fits its buffer.                                     *)
Sized(s) == \A k \in DOMAIN s : SizeOf(s[k]) \in 1..(EntrySize - 1)

Streams ==
    /\ file \in Seq(Chunk) /\ typed \in Seq(Chunk)
    /\ Sized(file) /\ Sized(typed)

(* Where main stands in the phases: line n is that of phase n, the secret  *)
(* phase is reached through the word of the fourth line only, and every    *)
(* line before the current one defused its phase.                          *)
PhaseInv ==
    /\ pc \in {"main", "read", "reread"} => num_input_strings = phase - 1
    /\ pc \in {"phase", "defused", "returned"} => num_input_strings = phase
    /\ phase = Secret => input_strings[4].key
    /\ pc = "returned" => phase \in {6, Secret} /\ (phase = 6 => ~input_strings[4].key)
    /\ pc \in {"main", "read", "reread", "defused", "returned"} =>
           \A n \in 1..num_input_strings : Defuses(n, input_strings[n])
    /\ pc = "phase" =>
           \A n \in 1..(num_input_strings - 1) : Defuses(n, input_strings[n])

(* The program has not ended, or its status says how.                      *)
StatusInv ==
    /\ pc \in {"main", "read", "reread", "phase", "defused"} => status = Running
    /\ pc = "exploded" => status = 8
    /\ pc = "exited" /\ status = 0 =>
           AtEnd /\ \A n \in 1..num_input_strings : Defuses(n, input_strings[n])

IInv == Streams /\ TypeOK /\ PhaseInv /\ StatusInv

LEMMA NoLineType == IsLine(NoLine)
  BY DEF IsLine, NoLine, EntrySize

LEMMA InitIInv == Init => IInv
  <1> SUFFICES ASSUME Init PROVE IInv
    OBVIOUS
  <1>1. Streams /\ argc \in Argc
    BY BombAssumption DEF Init, IsInput, IsStream, Sized, Streams
  <1>2. TypeOK
    BY <1>1, NoLineType DEF Init, TypeOK, Streams, Phase, Secret, Running
  <1>3. PhaseInv /\ StatusInv
    BY DEF Init, PhaseInv, StatusInv, Secret, Running
  <1>4. QED
    BY <1>1, <1>2, <1>3 DEF IInv

(* The stream read next yields a chunk, and its position stays within it.  *)
LEMMA ConsumeType ==
    ASSUME Streams, TypeOK, ~AtEnd, UNCHANGED inputs, Consume
    PROVE  /\ Next1 \in Chunk
           /\ fpos' \in 0..Len(file) /\ tpos' \in 0..Len(typed)
           /\ infile' = infile
  BY DEF Streams, TypeOK, AtEnd, Consume, Next1, inputs

(* A read_line that is about to store has an entry to store in.            *)
LEMMA EntryType ==
    ASSUME TypeOK, PhaseInv, Reading
    PROVE  Entry \in 1..Secret
  BY DEF TypeOK, PhaseInv, Reading, Entry, Phase, Secret

LEMMA ChunkLines ==
    ASSUME NEW c \in Chunk
    PROVE  IsLine(c.line) /\ IsLine(Stored(c))
  BY BombAssumption DEF Chunk, Stored

(* Storing in the entry leaves the lines before it alone.                  *)
LEMMA StoreKeeps ==
    ASSUME TypeOK, PhaseInv, Reading, NEW l, IsLine(l),
           input_strings' = [input_strings EXCEPT ![Entry] = l]
    PROVE  /\ DOMAIN input_strings' = 1..(Secret + 1)
           /\ \A n \in 1..(Secret + 1) : IsLine(input_strings'[n])
           /\ \A n \in 1..num_input_strings : input_strings'[n] = input_strings[n]
           /\ phase = Secret => input_strings'[4] = input_strings[4]
  <1>1. Entry \in 1..Secret /\ num_input_strings = phase - 1 /\ phase \in 1..7
    BY EntryType DEF PhaseInv, Reading, TypeOK, Phase, Secret
  <1>2. Entry # 4 \/ phase # Secret
    BY <1>1 DEF Entry, Secret
  <1>3. QED
    BY <1>1, <1>2 DEF TypeOK, Entry, Secret

LEMMA NextIInv == IInv /\ [Next]_vars => IInv'
  <1> SUFFICES ASSUME IInv, [Next]_vars PROVE IInv'
    OBVIOUS
  <1>0. Streams /\ TypeOK /\ PhaseInv /\ StatusInv
    BY DEF IInv
  <1> HIDE DEF IInv
  <1>1. CASE OpenInput
    BY <1>0, <1>1 DEF OpenInput, IInv, Streams, TypeOK, PhaseInv, StatusInv, inputs
  <1>2. CASE BadUsage
    BY <1>0, <1>2 DEF BadUsage, IInv, Streams, TypeOK, PhaseInv, StatusInv, inputs, stream, Running
  <1>3. CASE SkipBlank
    <2>1. /\ Reading /\ Next1 \in Chunk /\ UNCHANGED inputs
          /\ fpos' \in 0..Len(file) /\ tpos' \in 0..Len(typed) /\ infile' = infile
      BY <1>0, <1>3, ConsumeType DEF SkipBlank
    <2>2. IsLine(Next1.line)
      BY <2>1, ChunkLines
    <2>3. /\ DOMAIN input_strings' = 1..(Secret + 1)
          /\ \A n \in 1..(Secret + 1) : IsLine(input_strings'[n])
          /\ \A n \in 1..num_input_strings : input_strings'[n] = input_strings[n]
          /\ phase = Secret => input_strings'[4] = input_strings[4]
      BY <1>0, <1>3, <2>1, <2>2, StoreKeeps DEF SkipBlank
    <2>4. UNCHANGED <<inputs, num_input_strings, phase, pc, status>>
      BY <1>3 DEF SkipBlank
    <2>5. Streams' /\ TypeOK'
      BY <1>0, <2>1, <2>3, <2>4 DEF Streams, TypeOK, inputs
    <2>6. PhaseInv' /\ StatusInv'
      BY <1>0, <2>1, <2>3, <2>4 DEF PhaseInv, StatusInv, Reading
    <2>7. QED
      BY <2>5, <2>6 DEF IInv
  <1>4. CASE ReadLine
    <2>1. /\ Reading /\ Next1 \in Chunk /\ UNCHANGED inputs
          /\ fpos' \in 0..Len(file) /\ tpos' \in 0..Len(typed) /\ infile' = infile
      BY <1>0, <1>4, ConsumeType DEF ReadLine
    <2>2. IsLine(Stored(Next1))
      BY <2>1, ChunkLines
    <2>3. /\ DOMAIN input_strings' = 1..(Secret + 1)
          /\ \A n \in 1..(Secret + 1) : IsLine(input_strings'[n])
          /\ \A n \in 1..num_input_strings : input_strings'[n] = input_strings[n]
          /\ phase = Secret => input_strings'[4] = input_strings[4]
      BY <1>0, <1>4, <2>1, <2>2, StoreKeeps DEF ReadLine
    <2>4. /\ num_input_strings' = num_input_strings + 1 /\ pc' = "phase"
          /\ UNCHANGED <<inputs, phase, status>>
      BY <1>4 DEF ReadLine
    <2>5. num_input_strings' = phase /\ phase \in Phase
      BY <1>0, <2>1, <2>4 DEF PhaseInv, Reading, TypeOK, Phase, Secret
    <2>6. Streams' /\ TypeOK'
      BY <1>0, <2>1, <2>3, <2>4, <2>5 DEF Streams, TypeOK, inputs, Phase
    <2>7. PhaseInv'
      <3>1. \A n \in 1..num_input_strings : Defuses(n, input_strings[n])
        BY <1>0, <2>1 DEF PhaseInv, Reading
      <3>2. 1..(num_input_strings' - 1) = 1..num_input_strings
        BY <1>0, <2>4 DEF TypeOK
      <3>3. \A n \in 1..(num_input_strings' - 1) : Defuses(n, input_strings'[n])
        BY <2>3, <3>1, <3>2
      <3>4. QED
        BY <1>0, <2>3, <2>4, <2>5, <3>3 DEF PhaseInv
    <2>8. StatusInv'
      BY <1>0, <2>1, <2>4 DEF StatusInv, Reading
    <2>9. QED
      BY <2>6, <2>7, <2>8 DEF IInv
  <1>5. CASE LineTooLong
    <2>1. /\ Reading /\ UNCHANGED inputs
          /\ fpos' \in 0..Len(file) /\ tpos' \in 0..Len(typed) /\ infile' = infile
      BY <1>0, <1>5, ConsumeType DEF LineTooLong
    <2>2. /\ DOMAIN input_strings' = 1..(Secret + 1)
          /\ \A n \in 1..(Secret + 1) : IsLine(input_strings'[n])
          /\ phase = Secret => input_strings'[4] = input_strings[4]
      BY <1>0, <1>5, <2>1, NoLineType, StoreKeeps DEF LineTooLong
    <2>3. num_input_strings' \in 1..Secret
      BY <1>0, <1>5, EntryType DEF LineTooLong, Entry
    <2>4. pc' = "exploded" /\ status' = 8 /\ UNCHANGED <<inputs, phase>>
      BY <1>5 DEF LineTooLong
    <2>5. Streams' /\ TypeOK'
      BY <1>0, <2>1, <2>2, <2>3, <2>4 DEF Streams, TypeOK, inputs, Secret
    <2>6. PhaseInv' /\ StatusInv'
      BY <1>0, <2>2, <2>4 DEF PhaseInv, StatusInv
    <2>7. QED
      BY <2>5, <2>6 DEF IInv
  <1>6. CASE SwitchToStdin
    BY <1>0, <1>6 DEF SwitchToStdin, IInv, Streams, TypeOK, PhaseInv, StatusInv, inputs
  <1>7. CASE EndOfInput
    <2>1. Streams' /\ TypeOK'
      BY <1>0, <1>7 DEF EndOfInput, Streams, TypeOK, inputs, stream
    <2>2. PhaseInv'
      BY <1>0, <1>7 DEF EndOfInput, PhaseInv
    <2>3. StatusInv'
      BY <1>0, <1>7 DEF EndOfInput, StatusInv, PhaseInv, Reading, AtEnd, inputs, stream
    <2>4. QED
      BY <2>1, <2>2, <2>3 DEF IInv
  <1>8. CASE DefusePhase
    <2>1. Streams' /\ TypeOK'
      BY <1>0, <1>8 DEF DefusePhase, Streams, TypeOK, inputs, stream
    <2>2. \A n \in 1..num_input_strings : Defuses(n, input_strings[n])
      <3>1. num_input_strings = phase /\ Defuses(phase, input_strings[phase])
        BY <1>0, <1>8 DEF DefusePhase, PhaseInv, Current
      <3>2. \A n \in 1..(num_input_strings - 1) : Defuses(n, input_strings[n])
        BY <1>0, <1>8 DEF DefusePhase, PhaseInv
      <3>3. QED
        BY <1>0, <3>1, <3>2 DEF TypeOK
    <2>3. PhaseInv' /\ StatusInv'
      BY <1>0, <1>8, <2>2 DEF DefusePhase, PhaseInv, StatusInv
    <2>4. QED
      BY <2>1, <2>3 DEF IInv
  <1>9. CASE Explode
    BY <1>0, <1>9 DEF Explode, IInv, Streams, TypeOK, PhaseInv, StatusInv, inputs, stream
  <1>10. CASE phase_defused
    <2>1. /\ pc = "defused" /\ num_input_strings = phase /\ phase \in 1..7
          /\ UNCHANGED <<inputs, stream, num_input_strings, input_strings>>
          /\ \A n \in 1..num_input_strings : Defuses(n, input_strings[n])
      BY <1>0, <1>10 DEF phase_defused, PhaseInv, TypeOK, Phase, Secret
    <2>2. CASE SecretFound
      <3>1. phase = 6 /\ phase' = Secret /\ pc' = "read" /\ status' = status /\ input_strings[4].key
        BY <1>10, <2>1, <2>2 DEF phase_defused, SecretFound
      <3>2. QED
        BY <1>0, <2>1, <3>1 DEF IInv, Streams, TypeOK, PhaseInv, StatusInv, inputs, stream, Phase, Secret
    <2>3. CASE ~SecretFound /\ phase < 6
      <3>1. phase' = phase + 1 /\ pc' = "read" /\ status' = status
        BY <1>10, <2>3 DEF phase_defused
      <3>2. QED
        BY <1>0, <2>1, <2>3, <3>1 DEF IInv, Streams, TypeOK, PhaseInv, StatusInv, inputs, stream, Phase, Secret
    <2>4. CASE ~SecretFound /\ ~(phase < 6)
      <3>1. phase' = phase /\ pc' = "returned" /\ status' = 0
        BY <1>10, <2>4 DEF phase_defused
      <3>2. phase = 6 => ~input_strings[4].key
        BY <2>1, <2>4 DEF SecretFound
      <3>3. QED
        BY <1>0, <2>1, <2>4, <3>1, <3>2 DEF IInv, Streams, TypeOK, PhaseInv, StatusInv, inputs, stream, Phase, Secret
    <2>5. QED
      BY <2>2, <2>3, <2>4
  <1>11. CASE sig_handler
    BY <1>0, <1>11 DEF sig_handler, IInv, Streams, TypeOK, PhaseInv, StatusInv, inputs, stream
  <1>12. CASE UNCHANGED vars
    BY <1>0, <1>12 DEF vars, IInv, Streams, TypeOK, PhaseInv, StatusInv, AtEnd, inputs, stream
  <1>13. QED
    BY <1>1, <1>2, <1>3, <1>4, <1>5, <1>6, <1>7, <1>8, <1>9, <1>10, <1>11, <1>12 DEF Next, Step

(* The lines, the phases and the status stay in step.                      *)
THEOREM Invariance == Spec => []IInv
  <1>1. QED
    BY InitIInv, NextIInv, PTL DEF Spec

(* The bomb's variables keep their types: no line is stored past the       *)
(* entries of input_strings, no stream is read past its end.               *)
THEOREM TypeCorrect == Spec => []TypeOK
  <1>1. IInv => TypeOK
    BY DEF IInv
  <1>2. QED
    BY <1>1, Invariance, PTL

(* main returns only after a line for each of the six phases, and for the  *)
(* secret one exactly when the fourth line has the word, whatever lines    *)
(* are read from which stream.                                             *)
THEOREM Defused == Spec => []DefusedByAll
  <1>1. IInv => DefusedByAll
    BY DEF IInv, TypeOK, PhaseInv, DefusedByAll, Phase, Secret
  <1>2. QED
    BY <1>1, Invariance, PTL

(* An exit status of 0 means that no line exploded the bomb, and that it   *)
(* was defused or read all it was given.                                   *)
THEOREM ZeroStatus == Spec => []ZeroMeansNoMistake
  <1>1. IInv => ZeroMeansNoMistake
    BY DEF IInv, TypeOK, PhaseInv, StatusInv, ZeroMeansNoMistake, Running
  <1>2. QED
    BY <1>1, Invariance, PTL

-----------------------------------------------------------------------------
(* The lines given and the lines kept: the chunks read are the first ones  *)
(* of file and typed, num_input_strings counts the lines among them, and   *)
(* each is where its number says.                                          *)

Read == fpos + tpos

(* A line read is in its entry, or it was too long and the bomb exploded.  *)
Kept(k) ==
    \/ Fits(Chunks[k]) /\ input_strings[LineNo(k)] = Stored(Chunks[k])
    \/ ~Fits(Chunks[k]) /\ pc = "exploded" /\ k = Read

ReadInv ==
    /\ pc = "main" => Read = 0
    /\ argc # "2" => fpos = 0
    /\ infile = "file" => argc = "2" /\ tpos = 0
    /\ argc = "2" /\ infile = "stdin" /\ pc # "main" => fpos = Len(file)
    /\ num_input_strings = LineNo(Read)
    /\ \A k \in Given : k <= Read => Kept(k)
    /\ pc = "phase" => Read \in Given
    /\ pc = "exploded" => \E k \in Given : LineNo(k) <= Secret /\ ~Answer(k)

LEMMA ChunksType ==
    ASSUME Streams
    PROVE  /\ Chunks \in Seq(Chunk) /\ Len(Chunks) \in Nat
           /\ Len(Chunks) = (IF argc = "2" THEN Len(file) ELSE 0) + Len(typed)
           /\ argc = "2" => \A n \in 1..Len(file) : Chunks[n] = file[n]
           /\ \A n \in 1..Len(typed) :
                  Chunks[(IF argc = "2" THEN Len(file) ELSE 0) + n] = typed[n]
  <1> DEFINE first == IF argc = "2" THEN file ELSE <<>>
  <1>1. /\ first \in Seq(Chunk) /\ typed \in Seq(Chunk)
        /\ Len(first) = IF argc = "2" THEN Len(file) ELSE 0
    BY EmptySeq DEF Streams
  <1>2. Chunks = first \o typed
    BY DEF Chunks
  <1> HIDE DEF first
  <1>3. /\ first \o typed \in Seq(Chunk) /\ Len(first \o typed) = Len(first) + Len(typed)
        /\ \A n \in 1..(Len(first) + Len(typed)) :
               (first \o typed)[n] = IF n <= Len(first) THEN first[n] ELSE typed[n - Len(first)]
    BY <1>1, ConcatProperties
  <1>4. Len(first) \in Nat /\ Len(typed) \in Nat
    BY <1>1, LenProperties
  <1>5. \A n \in 1..Len(first) : Chunks[n] = first[n]
    BY <1>2, <1>3, <1>4
  <1>6. ASSUME NEW n \in 1..Len(typed) PROVE Chunks[Len(first) + n] = typed[n]
    <2>1. /\ Len(first) + n \in 1..(Len(first) + Len(typed))
          /\ ~(Len(first) + n <= Len(first)) /\ (Len(first) + n) - Len(first) = n
      BY <1>4
    <2>2. QED
      BY <1>2, <1>3, <2>1
  <1>7. argc = "2" => first = file
    BY DEF first
  <1>8. QED
    BY <1>1, <1>2, <1>3, <1>4, <1>5, <1>6, <1>7

(* The number of a line goes up by one at each line, and only there.       *)
LEMMA LineNoStep ==
    ASSUME Streams, NEW k \in Nat
    PROVE  /\ IsFiniteSet(Given) /\ LineNo(k) \in Nat /\ LineNo(k) <= Cardinality(Given)
           /\ LineNo(0) = 0
           /\ LineNo(k + 1) = IF k + 1 \in Given THEN LineNo(k) + 1 ELSE LineNo(k)
  <1> DEFINE Upto(n) == {j \in Given : j <= n}
  <1>1. Len(Chunks) \in Nat
    BY ChunksType
  <1>2. Given \subseteq 1..Len(Chunks) /\ IsFiniteSet(1..Len(Chunks))
    BY <1>1, FS_Interval, 1 \in Int /\ Len(Chunks) \in Int DEF Given
  <1>3. IsFiniteSet(Given) /\ \A n : IsFiniteSet(Upto(n))
    BY <1>2, FS_Subset
  <1>4. /\ Cardinality(Upto(k)) \in Nat /\ Cardinality(Upto(k)) <= Cardinality(Given)
    BY <1>3, FS_Subset, FS_CardinalityType
  <1>0. \A j \in Given : j \in Nat \ {0}
    BY <1>1, <1>2
  <1>5. Upto(0) = {}
    BY <1>0
  <1>6. k + 1 \in Given => Upto(k + 1) = Upto(k) \cup {k + 1} /\ k + 1 \notin Upto(k)
    BY <1>0
  <1>7. k + 1 \notin Given => Upto(k + 1) = Upto(k)
    <2>1. \A j \in Given : j <= k + 1 /\ j # k + 1 => j <= k
      BY <1>0
    <2>2. QED
      BY <1>0, <2>1
  <1>8. \A n : LineNo(n) = Cardinality(Upto(n))
    BY DEF LineNo
  <1> HIDE DEF Upto
  <1>9. k + 1 \in Given => Cardinality(Upto(k + 1)) = Cardinality(Upto(k)) + 1
    BY <1>3, <1>6, FS_AddElement
  <1>10. QED
    BY <1>3, <1>4, <1>5, <1>7, <1>8, <1>9, FS_EmptySet

(* Later chunks have greater numbers if they are lines.                    *)
LEMMA LineNoOrder ==
    ASSUME Streams, NEW j \in Nat, NEW k \in Nat, j <= k
    PROVE  LineNo(j) <= LineNo(k) /\ (j < k /\ k \in Given => LineNo(j) < LineNo(k))
  <1> DEFINE Upto(n) == {i \in Given : i <= n}
  <1>1. \A i \in Given : i \in Nat
    BY ChunksType DEF Given
  <1>2. IsFiniteSet(Upto(j)) /\ IsFiniteSet(Upto(k))
    BY LineNoStep, FS_Subset
  <1>3. Upto(j) \subseteq Upto(k)
    BY <1>1
  <1>4. j < k /\ k \in Given => k \in Upto(k) /\ k \notin Upto(j)
    BY <1>1
  <1>5. LineNo(j) = Cardinality(Upto(j)) /\ LineNo(k) = Cardinality(Upto(k))
    BY DEF LineNo
  <1> HIDE DEF Upto
  <1>6. /\ Cardinality(Upto(j)) \in Nat /\ Cardinality(Upto(k)) \in Nat
        /\ Cardinality(Upto(j)) <= Cardinality(Upto(k))
        /\ Upto(j) # Upto(k) => Cardinality(Upto(j)) < Cardinality(Upto(k))
    BY <1>2, <1>3, FS_Subset, FS_CardinalityType
  <1>7. QED
    BY <1>4, <1>5, <1>6

LEMMA SameGiven ==
    ASSUME UNCHANGED inputs
    PROVE  /\ Chunks' = Chunks /\ Given' = Given /\ (\A k : LineNo(k)' = LineNo(k))
           /\ \A k : Answer(k)' <=> Answer(k)
  BY DEF inputs, Chunks, Given, LineNo, Answer

(* read_line takes the next chunk of those given.                          *)
LEMMA TakeNext ==
    ASSUME Streams, TypeOK, ReadInv, Reading, ~AtEnd, Consume, UNCHANGED inputs
    PROVE  /\ Read \in Nat /\ Read + 1 \in 1..Len(Chunks) /\ Read' = Read + 1
           /\ Next1 = Chunks[Read + 1]
           /\ infile' = infile /\ (argc # "2" => fpos' = 0)
           /\ infile = "file" => tpos' = 0
           /\ infile = "stdin" => fpos' = fpos
           /\ ~Next1.line.blank <=> Read + 1 \in Given
  <1>1. /\ fpos \in 0..Len(file) /\ tpos \in 0..Len(typed) /\ Len(file) \in Nat /\ Len(typed) \in Nat
        /\ infile \in {"file", "stdin"} /\ pc # "main"
    BY LenProperties DEF TypeOK, Streams, Reading
  <1>2. CASE infile = "file"
    <2>1. /\ argc = "2" /\ tpos = 0 /\ fpos + 1 \in 1..Len(file) /\ fpos' = fpos + 1
          /\ tpos' = tpos /\ infile' = infile /\ Next1 = file[fpos + 1]
      BY <1>1, <1>2 DEF ReadInv, AtEnd, Consume, Next1
    <2>2. Chunks[fpos + 1] = file[fpos + 1] /\ Read = fpos /\ Read' = fpos + 1
      BY <1>1, <2>1, ChunksType DEF Read
    <2>3. QED
      BY <1>1, <1>2, <2>1, <2>2, ChunksType DEF Given
  <1>3. CASE infile = "stdin"
    <2> DEFINE before == IF argc = "2" THEN Len(file) ELSE 0
    <2>1. /\ fpos = before /\ tpos + 1 \in 1..Len(typed) /\ fpos' = fpos
          /\ tpos' = tpos + 1 /\ infile' = infile /\ Next1 = typed[tpos + 1]
          /\ before \in Nat /\ tpos \in Nat /\ tpos + 1 <= Len(typed)
      BY <1>1, <1>3 DEF ReadInv, AtEnd, Consume, Next1
    <2>2. Chunks[before + (tpos + 1)] = typed[tpos + 1]
      BY <2>1, ChunksType
    <2>4. Len(Chunks) = before + Len(typed)
      BY ChunksType
    <2> HIDE DEF before
    <2>3. Read = before + tpos /\ Read' = before + (tpos + 1) /\ before + (tpos + 1) = Read + 1
      BY <2>1 DEF Read
    <2>5. Read \in Nat /\ Read + 1 \in 1..Len(Chunks) /\ Read' = Read + 1
      BY <1>1, <2>1, <2>3, <2>4
    <2>6. Next1 = Chunks[Read + 1]
      BY <2>1, <2>2, <2>3
    <2>7. (argc # "2" => fpos' = 0) /\ (infile # "file")
      BY <1>3, <2>1 DEF ReadInv
    <2>8. QED
      BY <2>1, <2>5, <2>6, <2>7 DEF Given
  <1>4. QED
    BY <1>1, <1>2, <1>3

(* A chunk that does not fit fills its entry, and the other way around.    *)
LEMMA ChunkSize ==
    ASSUME Streams, NEW k \in 1..Len(Chunks)
    PROVE  Fits(Chunks[k]) <=> ~Fills(Chunks[k])
  <1> DEFINE before == IF argc = "2" THEN Len(file) ELSE 0
  <1>0. ASSUME NEW c, SizeOf(c) \in 1..(EntrySize - 1) PROVE Fits(c) <=> ~Fills(c)
    <2> DEFINE size == SizeOf(c)
    <2>1. size \in 1..79 /\ (Fits(c) <=> size <= 78) /\ (Fills(c) <=> size = 79)
      <3>1. EntrySize - 1 = 79
        BY DEF EntrySize
      <3>2. size \in 1..79
        BY <1>0, <3>1
      <3>3. Fits(c) <=> size <= 78
        BY Zenon DEF Fits, MaxLength
      <3>4. Fills(c) <=> size = 79
        BY <3>1, Zenon DEF Fills
      <3>5. QED
        BY <3>2, <3>3, <3>4
    <2> HIDE DEF size
    <2>2. size <= 78 <=> ~(size = 79)
      BY <2>1
    <2>3. QED
      BY <2>1, <2>2, Zenon
  <1>1. /\ \A n \in 1..Len(file) : SizeOf(file[n]) \in 1..(EntrySize - 1)
        /\ \A n \in 1..Len(typed) : SizeOf(typed[n]) \in 1..(EntrySize - 1)
    BY DEF Streams, Sized
  <1>2. Len(file) \in Nat /\ Len(typed) \in Nat /\ before \in Nat
    BY LenProperties DEF Streams
  <1>3. /\ Len(Chunks) = before + Len(typed)
        /\ argc = "2" => \A n \in 1..Len(file) : Chunks[n] = file[n]
        /\ \A n \in 1..Len(typed) : Chunks[before + n] = typed[n]
    BY ChunksType
  <1>4. CASE k <= before
    <2>1. argc = "2" /\ k \in 1..Len(file)
      BY <1>2, <1>3, <1>4
    <2>2. SizeOf(Chunks[k]) \in 1..(EntrySize - 1)
      BY <1>1, <1>3, <2>1
    <2>3. QED
      BY <1>0, <2>2, Zenon
  <1>5. CASE ~(k <= before)
    <2> HIDE DEF before
    <2>1. k - before \in 1..Len(typed) /\ before + (k - before) = k
      BY <1>2, <1>3, <1>5
    <2>2. SizeOf(Chunks[k]) \in 1..(EntrySize - 1)
      BY <1>1, <1>3, <2>1
    <2>3. QED
      BY <1>0, <2>2, Zenon
  <1>6. QED
    BY <1>4, <1>5

(* What the next entry becomes: lines kept before stay, and a line read    *)
(* has that entry's number.                                                *)
LEMMA KeepLines ==
    ASSUME Streams, TypeOK, PhaseInv, ReadInv, Reading, ~AtEnd, Consume, UNCHANGED inputs,
           NEW l, input_strings' = [input_strings EXCEPT ![Entry] = l]
    PROVE  /\ Read + 1 \in Given => LineNo(Read + 1) = Entry /\ input_strings'[Entry] = l
           /\ \A k \in Given : k <= Read
                  => Fits(Chunks[k]) /\ input_strings'[LineNo(k)] = Stored(Chunks[k])
  <1>1. Read \in Nat /\ num_input_strings = LineNo(Read) /\ Entry = num_input_strings + 1
    BY TakeNext DEF ReadInv, Entry
  <1>2. Entry \in 1..(Secret + 1) /\ DOMAIN input_strings = 1..(Secret + 1)
    BY EntryType DEF TypeOK, Secret
  <1>3. Read + 1 \in Given => LineNo(Read + 1) = Entry
    BY <1>1, LineNoStep
  <1>4. ASSUME NEW k \in Given, k <= Read PROVE LineNo(k) # Entry
    <2>1. k \in Nat
      BY DEF Given
    <2>2. LineNo(k) <= LineNo(Read) /\ LineNo(k) \in Nat /\ LineNo(Read) \in Nat
      BY <1>1, <1>4, <2>1, LineNoOrder, LineNoStep
    <2>3. QED
      BY <1>1, <2>2
  <1>5. \A n : n # Entry => input_strings'[n] = input_strings[n]
    BY <1>2
  <1>6. QED
    BY <1>2, <1>3, <1>4, <1>5 DEF ReadInv, Kept, Reading

(* An answer defuses its phase once it is stored.                          *)
LEMMA AnswerDefuses ==
    ASSUME Streams, ReadInv, NEW k \in Given, Answer(k), k <= Read
    PROVE  Defuses(LineNo(k), input_strings[LineNo(k)])
  <1>1. input_strings[LineNo(k)] = Stored(Chunks[k])
    BY ChunkSize DEF ReadInv, Kept, Answer, Given
  <1>2. Stored(Chunks[k]) = Chunks[k].line
    BY DEF Stored, Answer
  <1>3. QED
    BY <1>1, <1>2 DEF Answer

LEMMA NextReadInv == IInv /\ ReadInv /\ [Next]_vars => ReadInv'
  <1> SUFFICES ASSUME IInv, ReadInv, [Next]_vars PROVE ReadInv'
    OBVIOUS
  <1>0. Streams /\ TypeOK /\ PhaseInv /\ num_input_strings \in Nat
    BY DEF IInv, TypeOK, Secret
  <1>2. ASSUME UNCHANGED <<inputs, fpos, tpos, num_input_strings, input_strings>>,
               pc' = "main" => pc = "main", pc' # "phase", pc # "exploded",
               infile' = "file" => argc = "2" /\ tpos = 0,
               argc = "2" /\ infile' = "stdin" /\ pc' # "main" => fpos = Len(file),
               pc' = "exploded" => \E k \in Given : LineNo(k) <= Secret /\ ~Answer(k)
        PROVE  ReadInv'
    <2>1. /\ Chunks' = Chunks /\ Given' = Given /\ (\A k : LineNo(k)' = LineNo(k))
          /\ \A k : Answer(k)' <=> Answer(k)
      BY <1>2, SameGiven
    <2>2. Read' = Read /\ argc' = argc /\ file' = file
      BY <1>2 DEF Read, inputs
    <2>3. LineNo(Read)' = LineNo(Read)
      BY <2>1, <2>2 DEF LineNo
    <2>4. (\A k \in Given : k <= Read => Kept(k))'
      BY <1>2, <2>1, <2>2 DEF ReadInv, Kept, LineNo
    <2>5. (pc = "exploded" => \E k \in Given : LineNo(k) <= Secret /\ ~Answer(k))'
      BY <1>2, <2>1 DEF LineNo, Answer, Secret
    <2>6. QED
      BY <1>2, <2>2, <2>3, <2>4, <2>5 DEF ReadInv
  <1>3. ASSUME Reading, ~AtEnd, Consume, UNCHANGED inputs,
               NEW l, input_strings' = [input_strings EXCEPT ![Entry] = l],
               num_input_strings' = LineNo(Read + 1), pc' # "main",
               Read + 1 \in Given => (IF Fits(Next1) THEN l = Stored(Next1) ELSE pc' = "exploded"),
               pc' = "phase" => Read + 1 \in Given,
               pc' = "exploded" => Read + 1 \in Given /\ ~Fits(Next1)
        PROVE  ReadInv'
    <2>1. /\ Chunks' = Chunks /\ Given' = Given /\ (\A k : LineNo(k)' = LineNo(k))
          /\ \A k : Answer(k)' <=> Answer(k)
      BY <1>3, SameGiven
    <2>2. /\ Read \in Nat /\ Read + 1 \in 1..Len(Chunks) /\ Read' = Read + 1
          /\ Next1 = Chunks[Read + 1]
          /\ infile' = infile /\ (argc # "2" => fpos' = 0)
          /\ infile = "file" => tpos' = 0
          /\ infile = "stdin" => fpos' = fpos
      BY <1>0, <1>3, TakeNext
    <2>3. /\ Read + 1 \in Given => LineNo(Read + 1) = Entry /\ input_strings'[Entry] = l
          /\ \A k \in Given : k <= Read
                 => Fits(Chunks[k]) /\ input_strings'[LineNo(k)] = Stored(Chunks[k])
      BY <1>0, <1>3, KeepLines
    <2>4. argc' = argc /\ file' = file
      BY <1>3 DEF inputs
    <2>5. num_input_strings' = LineNo(Read)'
      BY <1>3, <2>1, <2>2 DEF LineNo
    <2>6. ASSUME NEW k \in Given, k <= Read + 1
          PROVE  \/ Fits(Chunks[k]) /\ input_strings'[LineNo(k)] = Stored(Chunks[k])
                 \/ ~Fits(Chunks[k]) /\ pc' = "exploded" /\ k = Read + 1
      <3>1. CASE k <= Read
        BY <2>3, <2>6, <3>1
      <3>2. CASE k = Read + 1
        BY <1>3, <2>2, <2>3, <2>6, <3>2
      <3>3. k \in Nat
        BY DEF Given
      <3>4. QED
        BY <2>2, <2>6, <3>1, <3>2, <3>3
    <2>7. (\A k \in Given : k <= Read => Kept(k))'
      BY <2>1, <2>2, <2>6 DEF Kept, LineNo
    <2>8. ASSUME pc' = "exploded" PROVE Read + 1 \in Given /\ LineNo(Read + 1) <= Secret /\ ~Answer(Read + 1)
      <3>1. Read + 1 \in Given /\ LineNo(Read + 1) = Entry
        BY <1>3, <2>3, <2>8
      <3>2. Entry \in 1..Secret
        BY <1>0, <1>3, EntryType
      <3>3. ~Answer(Read + 1)
        BY <1>0, <1>3, <2>2, <2>8, ChunkSize DEF Answer
      <3>4. QED
        BY <3>1, <3>2, <3>3 DEF Secret
    <2>9. (pc = "exploded" => \E k \in Given : LineNo(k) <= Secret /\ ~Answer(k))'
      BY <2>1, <2>8 DEF LineNo, Answer, Secret
    <2>10. argc = "2" /\ infile = "stdin" => fpos = Len(file)
      BY <1>3 DEF ReadInv, Reading
    <2>11. QED
      BY <1>3, <2>1, <2>2, <2>4, <2>5, <2>7, <2>9, <2>10 DEF ReadInv
  <1>4. CASE OpenInput
    <2>1. Read = 0 /\ fpos = 0 /\ tpos = 0
      BY <1>0, <1>4 DEF OpenInput, ReadInv, Read, TypeOK
    <2>2. QED
      BY <1>2, <1>4, <2>1 DEF OpenInput
  <1>5. CASE BadUsage \/ EndOfInput \/ DefusePhase \/ phase_defused \/ sig_handler
    <2>1. /\ UNCHANGED <<inputs, fpos, tpos, infile, num_input_strings, input_strings>>
          /\ pc' \in {"exited", "defused", "read", "returned"}
          /\ pc = "main" => argc # "2"
          /\ pc # "exploded"
      BY <1>5 DEF BadUsage, EndOfInput, DefusePhase, phase_defused, sig_handler, stream, Reading
    <2>2. QED
      BY <1>2, <2>1 DEF ReadInv
  <1>6. CASE SkipBlank
    <2>1. Read + 1 \notin Given /\ Read \in Nat
      BY <1>0, <1>6, TakeNext DEF SkipBlank
    <2>2. num_input_strings' = LineNo(Read + 1)
      BY <1>0, <1>6, <2>1, LineNoStep DEF SkipBlank, ReadInv
    <2>3. QED
      BY <1>3, <1>6, <2>1, <2>2 DEF SkipBlank, Reading
  <1>7. CASE ReadLine
    <2>1. Read + 1 \in Given /\ Read \in Nat
      BY <1>0, <1>7, TakeNext DEF ReadLine
    <2>2. num_input_strings' = LineNo(Read + 1)
      BY <1>0, <1>7, <2>1, LineNoStep DEF ReadLine, ReadInv
    <2>3. QED
      BY <1>3, <1>7, <2>1, <2>2 DEF ReadLine
  <1>8. CASE LineTooLong
    <2>1. Read + 1 \in Given /\ Read \in Nat /\ Next1 = Chunks[Read + 1] /\ Read + 1 \in 1..Len(Chunks)
      BY <1>0, <1>8, TakeNext DEF LineTooLong
    <2>2. num_input_strings' = LineNo(Read + 1)
      BY <1>0, <1>8, <2>1, LineNoStep DEF LineTooLong, ReadInv
    <2>3. QED
      BY <1>3, <1>8, <2>1, <2>2 DEF LineTooLong
  <1>9. CASE SwitchToStdin
    BY <1>2, <1>9 DEF SwitchToStdin, AtEnd
  <1>10. CASE Explode
    <2>1. Read \in Given /\ num_input_strings = phase /\ LineNo(Read) = phase /\ phase <= Secret
      BY <1>0, <1>10 DEF Explode, ReadInv, PhaseInv, TypeOK, Phase, Secret
    <2>2. ~Answer(Read)
      <3>1. Read \in Nat
        BY <2>1 DEF Given
      <3>2. QED
        BY <1>0, <1>10, <2>1, <3>1, AnswerDefuses DEF Explode, Current
    <2>3. QED
      BY <1>2, <1>10, <2>1, <2>2 DEF Explode, stream, ReadInv
  <1>11. CASE UNCHANGED vars
    <2>1. /\ Chunks' = Chunks /\ Given' = Given /\ (\A k : LineNo(k)' = LineNo(k))
          /\ \A k : Answer(k)' <=> Answer(k)
      BY <1>11, SameGiven DEF vars
    <2>2. QED
      BY <1>11 DEF vars, inputs, stream, ReadInv, Read, Given, Chunks, LineNo, Answer, Kept
  <1>12. QED
    BY <1>4, <1>5, <1>6, <1>7, <1>8, <1>9, <1>10, <1>11 DEF Next, Step

LEMMA InitReadInv == Init => ReadInv
  <1> SUFFICES ASSUME Init PROVE ReadInv
    OBVIOUS
  <1>1. Streams
    BY InitIInv DEF IInv
  <1>2. /\ pc = "main" /\ fpos = 0 /\ tpos = 0 /\ infile = "stdin" /\ num_input_strings = 0 /\ Read = 0
    BY DEF Init, Read
  <1>3. LineNo(0) = 0
    BY <1>1, LineNoStep
  <1>4. \A k \in Given : ~(k <= 0)
    BY DEF Given
  <1>5. QED
    BY <1>2, <1>3, <1>4 DEF ReadInv

LEMMA ReadInvariance == Spec => []ReadInv
  <1>1. QED
    BY InitReadInv, NextReadInv, Invariance, PTL DEF Spec

(* Each phase is given the next line, whatever is read from the file and   *)
(* what from standard input, no line is overwritten, and a line that fills *)
(* its entry ends the bomb.                                                *)
THEOREM InOrder == Spec => []LinesInOrder
  <1>1. IInv /\ ReadInv => LinesInOrder
    <2> SUFFICES ASSUME IInv, ReadInv PROVE LinesInOrder
      OBVIOUS
    <2>1. Streams /\ Read \in Nat /\ num_input_strings = LineNo(Read)
      BY DEF IInv, TypeOK, ReadInv, Read
    <2>2. LineNo(Read) <= Cardinality(Given)
      BY <2>1, LineNoStep
    <2>3. ASSUME NEW k \in Given, LineNo(k) <= num_input_strings PROVE k <= Read
      <3>1. k \in Nat
        BY DEF Given
      <3>2. LineNo(k) \in Nat /\ LineNo(Read) \in Nat
        BY <2>1, <3>1, LineNoStep
      <3>3. Read < k => LineNo(Read) < LineNo(k)
        BY <2>1, <3>1, LineNoOrder
      <3>4. QED
        BY <2>1, <2>3, <3>1, <3>2, <3>3
    <2>4. ASSUME NEW k \in Given, LineNo(k) <= num_input_strings
          PROVE  \/ input_strings[LineNo(k)] = Stored(Chunks[k])
                 \/ Fills(Chunks[k]) /\ pc = "exploded" /\ LineNo(k) = num_input_strings
      <3>1. Fits(Chunks[k]) <=> ~Fills(Chunks[k])
        BY <2>1, ChunkSize DEF Given
      <3>2. QED
        BY <2>1, <2>3, <2>4, <3>1 DEF ReadInv, Kept
    <2>5. QED
      BY <2>1, <2>2, <2>4 DEF LinesInOrder
  <1>2. QED
    BY <1>1, Invariance, ReadInvariance, PTL

(* A bomb given complete lines that defuse their phases never explodes.    *)
THEOREM NeverExplodes == Spec => []AnswersNeverExplode
  <1>1. ReadInv => AnswersNeverExplode
    BY DEF ReadInv, AnswersNeverExplode
  <1>2. QED
    BY <1>1, ReadInvariance, PTL

-----------------------------------------------------------------------------
(* Ints.  Wrap leaves the W-bit ints alone, and only those.                *)

LEMMA WidthHalf ==
    /\ 2^(W - 1) \in Nat /\ 2^(W - 1) >= 2048
    /\ 2^W = 2 * 2^(W - 1)
  <1>1. W - 1 \in Nat /\ 11 <= W - 1 /\ (W - 1) + 1 = W
    BY WidthAssumption
  <1>2. 2^11 = 2048
    <2>1. 2^0 = 1
      OBVIOUS
    <2>2. 2^(0 + 1) = 2
      BY <2>1, PowerStep
    <2>3. 2^(1 + 1) = 4
      BY <2>2, PowerStep
    <2>4. 2^(2 + 1) = 8
      BY <2>3, PowerStep
    <2>5. 2^(3 + 1) = 16
      BY <2>4, PowerStep
    <2>6. 2^(4 + 1) = 32
      BY <2>5, PowerStep
    <2>7. 2^(5 + 1) = 64
      BY <2>6, PowerStep
    <2>8. 2^(6 + 1) = 128
      BY <2>7, PowerStep
    <2>9. 2^(7 + 1) = 256
      BY <2>8, PowerStep
    <2>10. 2^(8 + 1) = 512
      BY <2>9, PowerStep
    <2>11. 2^(9 + 1) = 1024
      BY <2>10, PowerStep
    <2>12. QED
      BY <2>11, PowerStep
  <1>3. 2^11 <= 2^(W - 1) /\ 2^(W - 1) \in Nat
    BY <1>1, PowerMonotonic, PowerType
  <1>4. 2^((W - 1) + 1) = 2 * 2^(W - 1)
    BY <1>1, PowerStep
  <1>5. QED
    BY <1>1, <1>2, <1>3, <1>4

LEMMA WrapIs ==
    ASSUME NEW q \in Int, NEW y \in (-(2^(W - 1)))..(2^(W - 1) - 1)
    PROVE  Wrap(q * 2^W + y) = y
  <1> DEFINE P == 2^(W - 1)
             r == y + P
  <1>1. P \in Nat /\ P >= 2048 /\ 2^W = 2 * P
    BY WidthHalf
  <1>2. Wrap(q * 2^W + y) = (((q * 2^W + y) + P) % 2^W) - P
    BY DEF Wrap
  <1>3. y \in (-P)..(P - 1)
    OBVIOUS
  <1> HIDE DEF P
  <1>4. 2^W \in Nat \ {0} /\ r \in 0..(2^W - 1) /\ q * 2^W \in Int
    BY <1>1, <1>3
  <1>5. (q * 2^W + y) + P = q * 2^W + r
    BY <1>1, <1>3, <1>4
  <1>6. (q * 2^W + r) % 2^W = r
    BY <1>4, Division
  <1>7. QED
    BY <1>1, <1>2, <1>3, <1>5, <1>6

LEMMA WrapFixed ==
    ASSUME NEW x \in (-(2^(W - 1)))..(2^(W - 1) - 1)
    PROVE  Wrap(x) = x
  <1>1. 2^W \in Nat /\ 2^(W - 1) \in Nat
    BY WidthHalf
  <1>2. 0 * 2^W + x = x
    BY <1>1
  <1>3. Wrap(0 * 2^W + x) = x
    BY WrapIs
  <1>4. QED
    BY <1>2, <1>3

LEMMA WrapType ==
    ASSUME NEW x \in Int
    PROVE  Wrap(x) \in (-(2^(W - 1)))..(2^(W - 1) - 1)
  <1> DEFINE P == 2^(W - 1)
             r == (x + P) % 2^W
  <1>1. P \in Nat /\ P >= 2048 /\ 2^W = 2 * P
    BY WidthHalf
  <1>2. Wrap(x) = r - P
    BY DEF Wrap
  <1> HIDE DEF P
  <1>3. 2^W \in Nat /\ 2^W > 0 /\ x + P \in Int
    BY <1>1
  <1>4. r \in 0..(2^W - 1)
    BY <1>3
  <1> HIDE DEF r
  <1>5. r - P \in (-P)..(P - 1)
    BY <1>1, <1>4
  <1>6. QED
    BY <1>2, <1>5 DEF P

(* The turns of the two searches, on the small numbers they work with.     *)
Small == -1000..1000

LEMMA LeftTurn ==
    ASSUME NEW p \in Small
    PROVE  TurnLeft(p) = 2 * p /\ p \in Int
  <1>1. 2^(W - 1) \in Nat /\ 2^(W - 1) >= 2048
    BY WidthHalf
  <1>2. p \in Int /\ 2 * p \in (-(2^(W - 1)))..(2^(W - 1) - 1)
    BY <1>1 DEF Small
  <1>3. QED
    BY <1>2, WrapFixed DEF TurnLeft

LEMMA RightTurn ==
    ASSUME NEW p \in Small
    PROVE  TurnRight(p) = 2 * p + 1 /\ p \in Int
  <1>1. 2^(W - 1) \in Nat /\ 2^(W - 1) >= 2048
    BY WidthHalf
  <1>2. p \in Int /\ 2 * p + 1 \in (-(2^(W - 1)))..(2^(W - 1) - 1)
    BY <1>1 DEF Small
  <1>3. QED
    BY <1>2, WrapFixed DEF TurnRight

LEMMA IntsType ==
    ASSUME NEW line, IsLine(line)
    PROVE  /\ Len(line.ints) \in Nat /\ line.ints \in Seq(Int)
           /\ \A k \in 1..Len(line.ints) :
                  line.ints[k] \in Int /\ Wrap(line.ints[k]) = line.ints[k]
  <1> DEFINE Fixed == {x \in Int : Wrap(x) = x}
  <1>1. line.ints \in Seq(Fixed)
    BY DEF IsLine
  <1>2. \A x \in Fixed : x \in Int /\ Wrap(x) = x
    OBVIOUS
  <1> HIDE DEF Fixed
  <1>3. Len(line.ints) \in Nat
    BY <1>1, LenProperties
  <1>4. \A k \in 1..Len(line.ints) : line.ints[k] \in Fixed
    BY <1>1, ElementOfSeq
  <1>5. line.ints \in Seq(Int)
    BY <1>1, <1>2
  <1>6. QED
    BY <1>2, <1>3, <1>4, <1>5

(* A comparison of k less one with a small bound, for a W-bit int k.       *)
(* The bounds that lines are compared with.                                *)
Limits == 0..1000

LEMMA BelowLess ==
    ASSUME NEW x \in Int, Wrap(x) = x, NEW k \in Limits
    PROVE  Below(Wrap(x - 1), k) <=> x \in 1..(k + 1)
  <1> DEFINE P == 2^(W - 1)
  <1>1. P \in Nat /\ P >= 2048 /\ 2^W = 2 * P
    BY WidthHalf
  <1>2. x \in (-P)..(P - 1)
    BY WrapType
  <1> HIDE DEF P
  <1>3. CASE x # -P
    <2>1. x - 1 \in (-P)..(P - 1)
      BY <1>1, <1>2, <1>3
    <2>2. Wrap(x - 1) = x - 1
      BY <2>1, WrapFixed DEF P
    <2>3. QED
      BY <1>2, <2>2 DEF Below, Limits
  <1>4. CASE x = -P
    <2>1. x - 1 = (-1) * 2^W + (P - 1) /\ P - 1 \in (-P)..(P - 1) /\ -1 \in Int
      BY <1>1, <1>4
    <2>2. Wrap(x - 1) = P - 1
      BY <2>1, WrapIs DEF P
    <2>3. QED
      BY <1>1, <1>4, <2>2 DEF Below, Limits
  <1>5. QED
    BY <1>3, <1>4
-----------------------------------------------------------------------------
(* Phase 6 *)

(* The place of each node in the decreasing order of the values.           *)
Place == <<4, 5, 0, 1, 2, 3>>

LEMMA LargerIs == \A n \in 1..6 : Larger(n) = Place[n]
  <1> DEFINE Up(n) == {m \in 1..6 : Value[m] > Value[n]}
  <1>1. \A n : Larger(n) = Cardinality(Up(n))
    BY DEF Larger
  <1>2. \A i \in 2..6 : IsFiniteSet(3..i) /\ Cardinality(3..i) = i - 2
    BY FS_Interval, 3 \in Int /\ \A i \in 2..6 : i \in Int
  <1>3. Up(3) = {}
    BY DEF Value
  <1>4. Up(4) = 3..3 /\ Up(5) = 3..4 /\ Up(6) = 3..5 /\ Up(1) = 3..6
    <2>1. ASSUME NEW i \in {1, 4, 5, 6} 
          PROVE Up(i) = 3..(IF i = 1 THEN 6 ELSE i - 1)
      BY DEF Value
    <2>2. QED
      BY <2>1
  <1>5. Up(2) = (3..6) \cup {1} /\ 1 \notin 3..6
    BY DEF Value
  <1> HIDE DEF Up
  <1>6. Cardinality(Up(2)) = 5
    <2>1. IsFiniteSet(3..6) /\ Cardinality(3..6) = 4
      BY <1>2
    <2>2. QED
      BY <1>5, <2>1, FS_AddElement
  <1>7. QED
    BY <1>1, <1>2, <1>3, <1>4, <1>6, FS_EmptySet DEF Place

LEMMA PlaceOrder ==
    /\ \A n \in 1..6 : Place[n] \in 0..5
    /\ \A m, n \in 1..6 : Value[m] >= Value[n] <=> Place[m] <= Place[n]
    /\ \A m, n \in 1..6 : Place[m] = Place[n] => m = n
    /\ \A k \in 0..5 : \E n \in 1..6 : Place[n] = k
  BY DEF Place, Value

(* The nodes 7 - s[k] of six numbers are linked in decreasing order.       *)
Sorting(s) ==
    /\ \A k \in 1..6 : s[k] \in 1..6
    /\ \A j, k \in 1..6 : j < k => s[j] # s[k]
    /\ LET node == [k \in 1..6 |-> 7 - s[k]]
       IN  \A k \in 1..5 : Ordered(Value[node[k]], Value[node[k + 1]])

LEMMA SortingIs ==
    ASSUME NEW s, \A k \in 1..6 : s[k] \in Int
    PROVE  Sorting(s) <=> \A k \in 1..6 : \E n \in 1..6 : Larger(n) = k - 1 /\ s[k] = 7 - n
  <1> DEFINE node == [k \in 1..6 |-> 7 - s[k]]
  <1>1. \A k \in 1..6 : node[k] = 7 - s[k] /\ node[k] \in Int
    OBVIOUS
  <1>2. Sorting(s) <=> /\ \A k \in 1..6 : s[k] \in 1..6
                       /\ \A j, k \in 1..6 : j < k => s[j] # s[k]
                       /\ \A k \in 1..5 : Value[node[k]] >= Value[node[k + 1]]
    BY Zenon DEF Sorting, Ordered
  <1> HIDE DEF node
  <1>3. ASSUME NEW k \in 1..6
        PROVE  (\E n \in 1..6 : Larger(n) = k - 1 /\ s[k] = 7 - n)
                   <=> node[k] \in 1..6 /\ Place[node[k]] = k - 1
    <2>1. \A n \in 1..6 : s[k] = 7 - n <=> node[k] = n
      BY <1>1
    <2>2. QED
      BY <2>1, LargerIs
  <1>4. \A k \in 1..6 : s[k] \in 1..6 <=> node[k] \in 1..6
    BY <1>1
  <1>5. \A j, k \in 1..6 : s[j] # s[k] <=> node[j] # node[k]
    BY <1>1
  <1>6. ASSUME \A k \in 1..6 : node[k] \in 1..6 /\ Place[node[k]] = k - 1
        PROVE  Sorting(s)
    <2>1. \A j, k \in 1..6 : j < k => node[j] # node[k]
      BY <1>6
    <2>2. ASSUME NEW k \in 1..5 PROVE Value[node[k]] >= Value[node[k + 1]]
      <3>1. k \in 1..6 /\ k + 1 \in 1..6
        OBVIOUS
      <3>2. node[k] \in 1..6 /\ node[k + 1] \in 1..6 /\ Place[node[k]] <= Place[node[k + 1]]
        BY <1>6, <3>1
      <3>3. QED
        BY <3>2, PlaceOrder
    <2>3. QED
      BY <1>2, <1>4, <1>5, <1>6, <2>1, <2>2
  <1>7. ASSUME Sorting(s), NEW k \in 1..6
        PROVE  node[k] \in 1..6 /\ Place[node[k]] = k - 1
    <2>1. \A j \in 1..6 : node[j] \in 1..6 /\ Place[node[j]] \in 0..5
      BY <1>2, <1>4, <1>7, PlaceOrder
    <2>2. ASSUME NEW j \in 1..5 PROVE Place[node[j]] < Place[node[j + 1]]
      <3>1. j \in 1..6 /\ j + 1 \in 1..6 /\ j < j + 1
        OBVIOUS
      <3>2. node[j] # node[j + 1] /\ Value[node[j]] >= Value[node[j + 1]]
        BY <1>2, <1>5, <1>7, <3>1
      <3>3. Place[node[j]] <= Place[node[j + 1]] /\ Place[node[j]] # Place[node[j + 1]]
        BY <2>1, <3>1, <3>2, PlaceOrder
      <3>4. QED
        BY <2>1, <3>1, <3>3
    <2>3. /\ Place[node[1]] < Place[node[2]] /\ Place[node[2]] < Place[node[3]]
          /\ Place[node[3]] < Place[node[4]] /\ Place[node[4]] < Place[node[5]]
          /\ Place[node[5]] < Place[node[6]]
      BY <2>2
    <2>4. QED
      BY <2>1, <2>3
  <1>8. QED
    BY <1>3, <1>6, <1>7

LEMMA Phase6 ==
    ASSUME NEW line, IsLine(line)
    PROVE  phase_6(line) <=> /\ Len(line.ints) > 5
                             /\ \A k \in 1..6 : \E n \in 1..6 :
                                    Larger(n) = k - 1 /\ line.ints[k] = 7 - n
  <1>1. ASSUME Len(line.ints) > 5, NEW k \in 1..6
        PROVE  line.ints[k] \in Int /\ (Below(Wrap(line.ints[k] - 1), 5) <=> line.ints[k] \in 1..6)
    <2>1. line.ints[k] \in Int /\ Wrap(line.ints[k]) = line.ints[k]
      BY <1>1, IntsType
    <2> DEFINE x == line.ints[k]
    <2> HIDE DEF x
    <2>3. x \in Int /\ Wrap(x) = x
      BY <2>1 DEF x
    <2> DEFINE five == 5
    <2>a. five \in Limits /\ five + 1 = 6
      BY SMTT(20) DEF Limits
    <2> HIDE DEF five
    <2>b. Below(Wrap(x - 1), five) <=> x \in 1..(five + 1)
      BY <2>3, <2>a, BelowLess
    <2>c. Below(Wrap(x - 1), five) <=> x \in 1..6
      BY <2>a, <2>b
    <2>4. Below(Wrap(x - 1), 5) <=> x \in 1..6
      BY <2>c, Zenon DEF five
    <2>5. QED
      BY <2>3, <2>4 DEF x
  <1>2. phase_6(line) <=> Len(line.ints) > 5 /\ Sorting(line.ints)
    BY <1>1, Zenon DEF phase_6, read_six_numbers, Sorting
  <1>3. QED
    BY <1>1, <1>2, SortingIs

-----------------------------------------------------------------------------
(* func4 *)

(* The search's path is no longer than its range, and 0 as long as it      *)
(* turns left only.                                                        *)
Path4(x, f) ==
    \A r \in (0..x) \X (x..14) :
        f[r] = IF x < Mid(r) THEN TurnLeft(f[<<r[1], Mid(r) - 1>>])
               ELSE IF x = Mid(r) THEN 0
               ELSE TurnRight(f[<<Mid(r) + 1, r[2]>>])

LEMMA MidIs ==
    ASSUME NEW x \in 0..14, NEW r \in (0..x) \X (x..14)
    PROVE  /\ r[1] \in 0..x /\ r[2] \in x..14 /\ r[1] \in Int /\ r[2] \in Int
           /\ Mid(r) \in Int /\ r[1] <= Mid(r) /\ Mid(r) <= r[2]
           /\ Mid(r) - r[1] = (r[2] - r[1]) \div 2
  <1>1. r[1] \in 0..x /\ r[2] \in x..14
    OBVIOUS
  <1>2. r[1] \in Int /\ r[2] \in Int /\ r[2] - r[1] \in Nat
    BY <1>1
  <1>3. (r[2] - r[1]) \div 2 \in 0..(r[2] - r[1])
    BY <1>2
  <1>4. Mid(r) = r[1] + (r[2] - r[1]) \div 2
    BY DEF Mid
  <1>5. QED
    BY <1>1, <1>2, <1>3, <1>4

LEMMA MidNext ==
    ASSUME NEW x \in 0..14, NEW r \in (0..x) \X (x..14)
    PROVE  /\ x < Mid(r) => <<r[1], Mid(r) - 1>> \in (0..x) \X (x..14)
           /\ x > Mid(r) => <<Mid(r) + 1, r[2]>> \in (0..x) \X (x..14)
  <1>1. /\ r[1] \in 0..x /\ r[2] \in x..14
        /\ Mid(r) \in Int /\ r[1] <= Mid(r) /\ Mid(r) <= r[2]
    BY MidIs
  <1>2. x < Mid(r) => Mid(r) - 1 \in x..14
    BY <1>1
  <1>3. x > Mid(r) => Mid(r) + 1 \in 0..x
    BY <1>1
  <1>4. QED
    BY <1>1, <1>2, <1>3

LEMMA Func4Path ==
    ASSUME NEW x \in 0..14
    PROVE  \E f : Path4(x, f) /\ func4(x, 0, 14) = f[<<0, 14>>]
  <1> DEFINE D       == (0..x) \X (x..14)
             Stop    == {r \in D : x = Mid(r)}
             rank    == [r \in D |-> r[2] - r[1]]
             base    == [r \in D |-> 0]
             next    == [r \in D |-> IF x < Mid(r) THEN <<r[1], Mid(r) - 1>>
                                     ELSE IF x = Mid(r) THEN r ELSE <<Mid(r) + 1, r[2]>>]
             op      == [r \in D |-> IF x < Mid(r) THEN [v \in Int |-> TurnLeft(v)]
                                                   ELSE [v \in Int |-> TurnRight(v)]]
             Body(f) == [r \in D |-> IF x < Mid(r) THEN TurnLeft(f[<<r[1], Mid(r) - 1>>])
                                     ELSE IF x = Mid(r) THEN 0
                                     ELSE TurnRight(f[<<Mid(r) + 1, r[2]>>])]
  <1>1. \A v \in Int : TurnLeft(v) \in Int /\ TurnRight(v) \in Int
    BY WrapType, WidthHalf DEF TurnLeft, TurnRight
  <1>2. /\ rank \in [D -> 0..14] /\ base \in [D -> Int] /\ op \in [D -> [Int -> Int]]
        /\ \A r \in D : rank[r] = r[2] - r[1] /\ base[r] = 0
        /\ \A r \in D, v \in Int : op[r][v] = IF x < Mid(r) THEN TurnLeft(v) ELSE TurnRight(v)
    <2>1. \A r \in D : r[2] - r[1] \in 0..14
      BY MidIs
    <2>2. QED
      BY <1>1, <2>1
  <1>3. /\ \A r \in D : r \in Stop <=> x = Mid(r)
        /\ \A r \in D : x < Mid(r) => next[r] = <<r[1], Mid(r) - 1>>
        /\ \A r \in D : x > Mid(r) => next[r] = <<Mid(r) + 1, r[2]>>
        /\ next \in [D -> D]
    <2>1. \A r \in D : Mid(r) \in Int
      BY MidIs
    <2>2. \A r \in D : x < Mid(r) => next[r] = <<r[1], Mid(r) - 1>> /\ next[r] \in D
      BY MidNext
    <2>3. \A r \in D : x > Mid(r) => next[r] = <<Mid(r) + 1, r[2]>> /\ next[r] \in D
      <3>1. \A r \in D : x > Mid(r) => ~(x < Mid(r)) /\ x # Mid(r)
        BY <2>1
      <3>2. QED
        BY <3>1, MidNext
    <2>4. \A r \in D : x = Mid(r) => next[r] \in D
      BY <2>1
    <2>5. \A r \in D : next[r] \in D
      BY <2>1, <2>2, <2>3, <2>4
    <2>6. QED
      BY <2>2, <2>3, <2>5
  <1> HIDE DEF rank, base, next, op, Stop
  <1>5. Descends(rank, next, Stop, D)
    <2>1. ASSUME NEW r \in D, x < Mid(r) PROVE rank[next[r]] < rank[r]
      <3>1. next[r] = <<r[1], Mid(r) - 1>> /\ next[r] \in D
        BY <1>3, <2>1
      <3>2. rank[next[r]] = (Mid(r) - 1) - r[1] /\ rank[r] = r[2] - r[1]
        BY <1>2, <3>1
      <3>3. r[1] \in Int /\ r[2] \in Int /\ Mid(r) \in Int /\ Mid(r) <= r[2]
        BY MidIs
      <3>4. QED
        BY <3>2, <3>3
    <2>2. ASSUME NEW r \in D, x > Mid(r) PROVE rank[next[r]] < rank[r]
      <3>1. next[r] = <<Mid(r) + 1, r[2]>> /\ next[r] \in D
        BY <1>3, <2>2
      <3>2. rank[next[r]] = r[2] - (Mid(r) + 1) /\ rank[r] = r[2] - r[1]
        BY <1>2, <3>1
      <3>3. r[1] \in Int /\ r[2] \in Int /\ Mid(r) \in Int /\ r[1] <= Mid(r)
        BY MidIs
      <3>4. QED
        BY <3>2, <3>3
    <2>3. \A r \in D : Mid(r) \in Int
      BY MidIs
    <2>4. QED
      BY <1>3, <2>1, <2>2, <2>3 DEF Descends
  <1>8. PICK g \in [D -> Int] : Recursive(g, base, op, next, Stop, D)
    <2>1. 14 \in Nat /\ rank \in [D -> 0..14] /\ base \in [D -> Int] /\ op \in [D -> [Int -> Int]]
          /\ next \in [D -> D]
      BY <1>2, <1>3
    <2> HIDE DEF D
    <2>2. QED
      BY <1>5, <2>1, Recursion
  <1>9. ASSUME NEW r \in D
        PROVE  g[r] = IF x < Mid(r) THEN TurnLeft(g[<<r[1], Mid(r) - 1>>])
                      ELSE IF x = Mid(r) THEN 0
                      ELSE TurnRight(g[<<Mid(r) + 1, r[2]>>])
    <2>1. Mid(r) \in Int
      BY MidIs
    <2>2. g[next[r]] \in Int
      BY <1>3
    <2>3. CASE x < Mid(r)
      <3>1. g[r] = op[r][g[next[r]]]
        BY <1>3, <1>8, <2>1, <2>3 DEF Recursive
      <3>2. QED
        BY <1>2, <1>3, <2>2, <2>3, <3>1
    <2>4. CASE x = Mid(r)
      BY <1>2, <1>3, <1>8, <2>1, <2>4 DEF Recursive
    <2>5. CASE x > Mid(r)
      <3>1. g[r] = op[r][g[next[r]]] /\ ~(x < Mid(r)) /\ x # Mid(r)
        BY <1>3, <1>8, <2>1, <2>5 DEF Recursive
      <3>2. QED
        BY <1>2, <1>3, <2>2, <2>5, <3>1, ZenonT(40)
    <2>6. QED
      BY <2>1, <2>3, <2>4, <2>5
  <1>10. g = Body(g)
    BY <1>9
  <1>11. func4(x, 0, 14) = (CHOOSE f : f = Body(f))[<<0, 14>>]
    BY DEF func4
  <1>12. ASSUME NEW f, f = Body(f) PROVE Path4(x, f)
    BY <1>12 DEF Path4
  <1>13. QED
    BY <1>10, <1>11, <1>12

(* The path a range leads to is no longer than the range.                  *)
LEMMA PathBound ==
    ASSUME NEW x \in 0..14, NEW f, Path4(x, f), NEW r \in (0..x) \X (x..14)
    PROVE  f[r] \in 0..(r[2] - r[1])
  <1> DEFINE D == (0..x) \X (x..14)
             T == {k \in 0..14 : \A s \in D : s[2] - s[1] <= k => f[s] \in 0..(s[2] - s[1])}
  <1>1. ASSUME NEW k \in 0..14, NEW s \in D, s[2] - s[1] <= k,
               \A t \in D : t[2] - t[1] <= k - 1 => f[t] \in 0..(t[2] - t[1])
        PROVE  f[s] \in 0..(s[2] - s[1])
    <2>1. /\ s[1] \in Int /\ s[2] \in Int /\ s[1] \in 0..x /\ s[2] \in x..14
          /\ Mid(s) \in Int /\ s[1] <= Mid(s) /\ Mid(s) <= s[2]
          /\ Mid(s) - s[1] = (s[2] - s[1]) \div 2
      BY MidIs
    <2>2. f[s] = IF x < Mid(s) THEN TurnLeft(f[<<s[1], Mid(s) - 1>>])
                 ELSE IF x = Mid(s) THEN 0
                 ELSE TurnRight(f[<<Mid(s) + 1, s[2]>>])
      BY DEF Path4
    <2>3. CASE x < Mid(s)
      <3> DEFINE t == <<s[1], Mid(s) - 1>>
                 d == (Mid(s) - 1) - s[1]
      <3>1. t \in D
        BY <2>3, MidNext
      <3>2. t[2] - t[1] = d /\ d \in Int /\ d <= k - 1
        BY <1>1, <2>1
      <3>3. f[t] \in 0..d
        BY <1>1, <3>1, <3>2
      <3>4. f[s] = TurnLeft(f[t])
        BY <2>2, <2>3
      <3>5. 2 * d <= s[2] - s[1] /\ d <= 14
        BY <2>1
      <3> HIDE DEF t, d
      <3>6. f[t] \in Small
        BY <3>2, <3>3, <3>5 DEF Small
      <3>7. TurnLeft(f[t]) = 2 * f[t]
        BY <3>6, LeftTurn
      <3>8. QED
        BY <2>1, <3>2, <3>3, <3>4, <3>5, <3>7
    <2>4. CASE x = Mid(s)
      BY <2>1, <2>2, <2>4
    <2>5. CASE x > Mid(s)
      <3> DEFINE t == <<Mid(s) + 1, s[2]>>
                 d == s[2] - (Mid(s) + 1)
      <3>1. t \in D
        BY <2>5, MidNext
      <3>2. t[2] - t[1] = d /\ d \in Int /\ d <= k - 1
        BY <1>1, <2>1
      <3>3. f[t] \in 0..d
        BY <1>1, <3>1, <3>2
      <3>4. f[s] = TurnRight(f[t])
        BY <2>1, <2>2, <2>5
      <3>5. 2 * d + 1 <= s[2] - s[1] /\ d <= 14
        BY <2>1
      <3> HIDE DEF t, d
      <3>6. f[t] \in Small
        BY <3>2, <3>3, <3>5 DEF Small
      <3>7. TurnRight(f[t]) = 2 * f[t] + 1
        BY <3>6, RightTurn
      <3>8. QED
        BY <2>1, <3>2, <3>3, <3>4, <3>5, <3>7
    <2>6. QED
      BY <2>1, <2>3, <2>4, <2>5
  <1>2. 0 \in T
    <2>1. ASSUME NEW t \in D PROVE ~(t[2] - t[1] <= 0 - 1)
      BY MidIs
    <2>2. QED
      BY <1>1, <2>1
  <1>3. ASSUME NEW k \in 0..(14 - 1), k \in T PROVE k + 1 \in T
    <2>1. k + 1 \in 0..14 /\ (k + 1) - 1 = k
      OBVIOUS
    <2>2. QED
      BY <1>1, <1>3, <2>1
  <1>4. 0..14 \subseteq T
    <2> HIDE DEF T
    <2>1. 0 \in Int /\ 14 \in Int
      OBVIOUS
    <2>2. \A k \in 0..(14 - 1) : k \in T => k + 1 \in T
      BY <1>3
    <2>3. QED
      BY <1>2, <2>1, <2>2, IntervalInduction
  <1>5. r[2] - r[1] <= 14
    BY MidIs
  <1>6. QED
    BY <1>4, <1>5

Searched(x) == (0..x) \X (x..14)

LEMMA PathSmall ==
    ASSUME NEW x \in 0..14, NEW f, Path4(x, f), NEW r \in Searched(x)
    PROVE  f[r] \in Small
  <1>r. r \in (0..x) \X (x..14)
    BY DEF Searched
  <1>1. f[r] \in 0..(r[2] - r[1])
    BY <1>r, PathBound
  <1> DEFINE lo == r[1]
             hi == r[2]
             v  == f[r]
  <1>2. lo \in 0..x /\ hi \in x..14 /\ lo \in Int /\ hi \in Int
    BY <1>r, MidIs
  <1>3. v \in 0..(hi - lo)
    BY <1>1
  <1> HIDE DEF lo, hi, v
  <1>4. v \in Small
    BY <1>2, <1>3 DEF Small
  <1>5. QED
    BY <1>4 DEF v

LEMMA Func4Zero ==
    ASSUME NEW x \in 0..14
    PROVE  func4(x, 0, 14) = 0 <=> x \in {0, 1, 3, 7}
  <1>1. PICK f : Path4(x, f) /\ func4(x, 0, 14) = f[<<0, 14>>]
    BY Func4Path
  <1>s. ASSUME NEW r \in Searched(x) PROVE f[r] \in Small
    <2>1. Path4(x, f)
      BY <1>1
    <2>2. QED
      BY <2>1, PathSmall
  <1>2. ASSUME NEW b \in x..14, NEW m \in Int, m = b \div 2
        PROVE  f[<<0, b>>] = 0 <=> x = m \/ (x < m /\ f[<<0, m - 1>>] = 0)
    <2> DEFINE s == <<0, b>>
    <2>1. s \in (0..x) \X (x..14) /\ s[1] = 0 /\ s[2] = b
      OBVIOUS
    <2>2. Mid(s) = m
      BY <1>2, <2>1 DEF Mid
    <2>3. f[s] = IF x < m THEN TurnLeft(f[<<0, m - 1>>])
                 ELSE IF x = m THEN 0
                 ELSE TurnRight(f[<<m + 1, b>>])
      BY <1>1, <2>1, <2>2 DEF Path4
    <2>4. CASE x < m
      <3> DEFINE t == <<0, m - 1>>
      <3>1. t \in (0..x) \X (x..14)
        BY <2>1, <2>2, <2>4, MidNext
      <3>2. f[t] \in Small
        <4> HIDE DEF s, t
        <4>1. t \in Searched(x)
          BY <3>1, Zenon DEF Searched
        <4>2. QED
          BY <1>s, <4>1, Zenon
      <3>3. TurnLeft(f[t]) = 2 * f[t] /\ f[t] \in Int
        BY <3>2, LeftTurn
      <3>4. f[s] = 2 * f[t]
        BY <2>3, <2>4, <3>3
      <3>5. (f[s] = 0 <=> f[t] = 0) /\ x # m
        <4> HIDE DEF s, t
        <4>1. QED
          BY <1>2, <2>4, <3>3, <3>4
      <3>6. QED
        BY <2>4, <3>5
    <2>5. CASE x = m
      BY <2>3, <2>5
    <2>6. CASE x > m
      <3> DEFINE t == <<m + 1, b>>
      <3>1. t \in (0..x) \X (x..14)
        BY <2>1, <2>2, <2>6, MidNext
      <3>2. f[t] \in Small
        <4> HIDE DEF s, t
        <4>1. t \in Searched(x)
          BY <3>1, Zenon DEF Searched
        <4>2. QED
          BY <1>s, <4>1, Zenon
      <3>4. TurnRight(f[t]) = 2 * f[t] + 1 /\ f[t] \in Int
        BY <3>2, RightTurn
      <3>5. f[s] = 2 * f[t] + 1 /\ ~(x < m) /\ x # m
        BY <1>2, <2>3, <2>6, <3>4
      <3>6. f[s] # 0
        <4> HIDE DEF s, t
        <4>1. QED
          BY <3>4, <3>5
      <3>7. QED
        BY <3>5, <3>6
    <2>7. QED
      BY <2>4, <2>5, <2>6
  <1>3. f[<<0, 14>>] = 0 <=> x = 7 \/ (x < 7 /\ f[<<0, 6>>] = 0)
    BY <1>2, 14 \in x..14 /\ 7 = 14 \div 2 /\ 7 - 1 = 6
  <1>4. x <= 6 => (f[<<0, 6>>] = 0 <=> x = 3 \/ (x < 3 /\ f[<<0, 2>>] = 0))
    BY <1>2, (x <= 6 => 6 \in x..14) /\ 3 = 6 \div 2 /\ 3 - 1 = 2
  <1>5. x <= 2 => (f[<<0, 2>>] = 0 <=> x = 1 \/ (x < 1 /\ f[<<0, 0>>] = 0))
    BY <1>2, (x <= 2 => 2 \in x..14) /\ 1 = 2 \div 2 /\ 1 - 1 = 0
  <1>6. x <= 0 => (f[<<0, 0>>] = 0 <=> x = 0 \/ (x < 0 /\ f[<<0, 0 - 1>>] = 0))
    BY <1>2, (x <= 0 => 0 \in x..14) /\ 0 = 0 \div 2
  <1>7. QED
    BY <1>1, <1>3, <1>4, <1>5, <1>6

(* A line that begins with one number, or two.                             *)
LEMMA PrefixIs ==
    ASSUME NEW s \in Seq(Int), NEW a \in Int
    PROVE  /\ IsPrefix(<<a>>, s) <=> Len(s) >= 1 /\ s[1] = a
           /\ \A b \in Int : IsPrefix(<<a, b>>, s) <=> Len(s) >= 2 /\ s[1] = a /\ s[2] = b
  BY DEF IsPrefix

LEMMA Phase4 ==
    ASSUME NEW line, IsLine(line)
    PROVE  phase_4(line) <=> \E k \in 0..3 : IsPrefix(<<2^k - 1, 0>>, line.ints)
  <1> DEFINE s == line.ints
  <1>1. s \in Seq(Int) /\ Len(s) \in Nat /\ \A k \in 1..Len(s) : s[k] \in Int
    BY IntsType
  <1>2. phase_4(line) <=> Len(s) > 1 /\ s[1] \in 0..14 /\ func4(s[1], 0, 14) = 0 /\ s[2] = 0
    BY Zenon DEF phase_4, Below
  <1> HIDE DEF s
  <1>3. phase_4(line) <=> Len(s) >= 2 /\ s[1] \in {0, 1, 3, 7} /\ s[2] = 0
    BY <1>1, <1>2, Func4Zero
  <1>4. 2^0 = 1 /\ 2^1 = 2 /\ 2^2 = 4 /\ 2^3 = 8
    <2>1. 2^0 = 1
      OBVIOUS
    <2>2. 2^(0 + 1) = 2
      BY <2>1, PowerStep
    <2>3. 2^(1 + 1) = 4
      BY <2>2, PowerStep
    <2>4. 2^(2 + 1) = 8
      BY <2>3, PowerStep
    <2>5. QED
      BY <2>1, <2>2, <2>3, <2>4
  <1>5. (\E k \in 0..3 : IsPrefix(<<2^k - 1, 0>>, s)) <=> \E a \in {0, 1, 3, 7} : IsPrefix(<<a, 0>>, s)
    BY <1>4
  <1>6. \A a \in {0, 1, 3, 7} : IsPrefix(<<a, 0>>, s) <=> Len(s) >= 2 /\ s[1] = a /\ s[2] = 0
    BY <1>1, PrefixIs, \A a \in {0, 1, 3, 7} : a \in Int /\ 0 \in Int
  <1>7. QED
    BY <1>3, <1>5, <1>6 DEF s

-----------------------------------------------------------------------------
(* fun7 *)

Leaves == {1, 7, 20, 35, 40, 47, 99, 1001}

LEMMA Children ==
    /\ Left[36] = 8 /\ Right[36] = 50 /\ Left[8] = 6 /\ Right[8] = 22
    /\ Left[50] = 45 /\ Right[50] = 107 /\ Left[6] = 1 /\ Right[6] = 7
    /\ Left[22] = 20 /\ Right[22] = 35 /\ Left[45] = 40 /\ Right[45] = 47
    /\ Left[107] = 99 /\ Right[107] = 1001
    /\ \A p \in Leaves : Left[p] = Null /\ Right[p] = Null
  <1>1. Left[36] = 8 /\ Right[36] = 50
    BY DEF Left, Right, Nodes
  <1>2. Left[8] = 6 /\ Right[8] = 22
    BY DEF Left, Right, Nodes
  <1>3. Left[50] = 45 /\ Right[50] = 107
    BY DEF Left, Right, Nodes
  <1>4. Left[6] = 1 /\ Right[6] = 7
    BY DEF Left, Right, Nodes
  <1>5. Left[22] = 20 /\ Right[22] = 35
    BY DEF Left, Right, Nodes
  <1>6. Left[45] = 40 /\ Right[45] = 47
    BY DEF Left, Right, Nodes
  <1>7. Left[107] = 99 /\ Right[107] = 1001
    BY DEF Left, Right, Nodes
  <1>8. \A p \in Leaves : Left[p] = Null /\ Right[p] = Null
    BY DEF Left, Right, Nodes, Leaves
  <1>9. QED
    BY <1>1, <1>2, <1>3, <1>4, <1>5, <1>6, <1>7, <1>8

Level == [p \in {Null} \cup Nodes |->
             IF p = Null THEN 0 ELSE IF p \in Leaves THEN 1
             ELSE IF p \in {6, 22, 45, 107} THEN 2 ELSE IF p \in {8, 50} THEN 3 ELSE 4]

LEMMA Levels ==
    /\ Level \in [{Null} \cup Nodes -> 0..4]
    /\ \A p \in Nodes : /\ Left[p] \in {Null} \cup Nodes /\ Right[p] \in {Null} \cup Nodes
                        /\ Level[Left[p]] < Level[p] /\ Level[Right[p]] < Level[p]
  <1>1. Level \in [{Null} \cup Nodes -> 0..4]
    BY DEF Level
  <1>2. /\ Level[36] = 4 /\ Level[8] = 3 /\ Level[50] = 3 /\ Level[Null] = 0
        /\ Level[6] = 2 /\ Level[22] = 2 /\ Level[45] = 2 /\ Level[107] = 2
        /\ \A p \in Leaves : Level[p] = 1
    BY DEF Level, Nodes, Leaves, Null
  <1>3. Nodes = {36, 8, 50, 6, 22, 45, 107} \cup Leaves
    BY DEF Nodes, Leaves
  <1>4. \A p \in Leaves : /\ Left[p] \in {Null} \cup Nodes /\ Right[p] \in {Null} \cup Nodes
                          /\ Level[Left[p]] < Level[p] /\ Level[Right[p]] < Level[p]
    BY <1>2, Children
  <1>5. \A p \in {36, 8, 50, 6, 22, 45, 107} :
            /\ Left[p] \in {Null} \cup Nodes /\ Right[p] \in {Null} \cup Nodes
            /\ Level[Left[p]] < Level[p] /\ Level[Right[p]] < Level[p]
    BY <1>2, <1>3, Children DEF Leaves
  <1>6. QED
    BY <1>1, <1>3, <1>4, <1>5

Path7(v, f) ==
    \A p \in {Null} \cup Nodes :
        f[p] = IF p = Null THEN -1
               ELSE IF v < p THEN TurnLeft(f[Left[p]])
               ELSE IF v = p THEN 0
               ELSE TurnRight(f[Right[p]])

LEMMA Fun7Path ==
    ASSUME NEW v \in Int
    PROVE  \E f : Path7(v, f) /\ fun7(v) = f[36]
  <1> DEFINE D       == {Null} \cup Nodes
             Stop    == {p \in D : p = Null \/ v = p}
             base    == [p \in D |-> IF p = Null THEN -1 ELSE 0]
             next    == [p \in D |-> IF p = Null THEN Null ELSE IF v < p THEN Left[p] ELSE Right[p]]
             op      == [p \in D |-> [u \in Int |-> IF v < p THEN TurnLeft(u) ELSE TurnRight(u)]]
             Body(f) == [p \in D |-> IF p = Null THEN -1
                                     ELSE IF v < p THEN TurnLeft(f[Left[p]])
                                     ELSE IF v = p THEN 0
                                     ELSE TurnRight(f[Right[p]])]
  <1>1. \A u \in Int : TurnLeft(u) \in Int /\ TurnRight(u) \in Int
    BY WrapType, WidthHalf DEF TurnLeft, TurnRight
  <1>2. /\ base \in [D -> Int] /\ op \in [D -> [Int -> Int]] /\ next \in [D -> D]
        /\ \A p \in D, u \in Int : op[p][u] = IF v < p THEN TurnLeft(u) ELSE TurnRight(u)
        /\ \A p \in D : base[p] = IF p = Null THEN -1 ELSE 0
        /\ \A p \in D : p \in Stop <=> p = Null \/ v = p
        /\ \A p \in Nodes : next[p] = IF v < p THEN Left[p] ELSE Right[p]
        /\ D = {Null} \cup Nodes
    <2>1. op \in [D -> [Int -> Int]]
      BY <1>1
    <2>2. next \in [D -> D] /\ \A p \in Nodes : next[p] = IF v < p THEN Left[p] ELSE Right[p]
      <3>1. \A p \in Nodes : p # Null
        BY DEF Nodes, Null
      <3>2. QED
        BY <3>1, Levels
    <2>3. base \in [D -> Int]
      OBVIOUS
    <2>4. QED
      BY <2>1, <2>2, <2>3
  <1> HIDE DEF D, Stop, base, next, op
  <1>3. Descends(Level, next, Stop, D)
    BY <1>2, Levels DEF Descends
  <1>4. PICK g \in [D -> Int] : Recursive(g, base, op, next, Stop, D)
    <2>1. Level \in [D -> 0..4] /\ 4 \in Nat
      BY <1>2, Levels
    <2>2. QED
      BY <1>2, <1>3, <2>1, Recursion
  <1>5. ASSUME NEW p \in D
        PROVE  g[p] = IF p = Null THEN -1
                      ELSE IF v < p THEN TurnLeft(g[Left[p]])
                      ELSE IF v = p THEN 0
                      ELSE TurnRight(g[Right[p]])
    <2>1. CASE p = Null
      BY <1>2, <1>4, <2>1 DEF Recursive
    <2>2. CASE p # Null /\ v = p
      BY <1>2, <1>4, <2>2 DEF Recursive
    <2>3. CASE p # Null /\ v # p
      <3>1. p \in Nodes /\ p \notin Stop /\ next[p] \in D
        BY <1>2, <2>3
      <3>2. g[p] = op[p][g[next[p]]] /\ g[next[p]] \in Int
        BY <1>4, <3>1 DEF Recursive
      <3>3. QED
        BY <1>2, <2>3, <3>1, <3>2
    <2>4. p \in Nodes => ~(v = p /\ v < p)
      BY DEF Nodes
    <2>5. QED
      BY <1>2, <2>1, <2>2, <2>3, <2>4
  <1>6. g = Body(g)
    BY <1>5
  <1>7. fun7(v) = (CHOOSE f : f = Body(f))[36]
    BY DEF fun7, D
  <1>8. ASSUME NEW f, f = Body(f) PROVE Path7(v, f)
    BY <1>8 DEF Path7, D
  <1>9. QED
    BY <1>6, <1>7, <1>8

(* What a search gives at a node, from what it gives below it.             *)
Bounded(f, p, k)      == f[p] \in (-k)..k
Turned(f, v, p, l, r) == f[p] = IF v < p THEN 2 * f[l] ELSE IF v = p THEN 0 ELSE 2 * f[r] + 1

LEMMA TurnAt ==
    ASSUME NEW v \in Int, NEW f, Path7(v, f), NEW p \in Nodes, NEW l, NEW r, l = Left[p], r = Right[p],
           NEW k \in 1..100, NEW h \in Int, h = 2 * k + 1, Bounded(f, l, k), Bounded(f, r, k)
    PROVE  Turned(f, v, p, l, r) /\ Bounded(f, p, h)
  <1>1. f[p] = IF v < p THEN TurnLeft(f[l])
               ELSE IF v = p THEN 0 ELSE TurnRight(f[r])
    <2>1. p # Null
      BY DEF Nodes, Null
    <2>2. QED
      BY <2>1 DEF Path7
  <1> DEFINE a == f[l]
             b == f[r]
             c == f[p]
  <1>2. a \in (-k)..k /\ b \in (-k)..k
    BY DEF Bounded
  <1>3. c = IF v < p THEN TurnLeft(a) ELSE IF v = p THEN 0 ELSE TurnRight(b)
    BY <1>1
  <1> HIDE DEF a, b, c
  <1>4. a \in Small /\ b \in Small
    <2>1. ASSUME NEW n \in (-k)..k PROVE n \in Small
      <3>1. n \in Int /\ -k <= n /\ n <= k /\ k \in Int /\ k <= 100
        OBVIOUS
      <3>2. -1000 <= n /\ n <= 1000
        BY <3>1
      <3>3. QED
        BY <3>1, <3>2 DEF Small
    <2>2. QED
      BY <1>2, <2>1
  <1>5. TurnLeft(a) = 2 * a /\ TurnRight(b) = 2 * b + 1
    BY <1>4, LeftTurn, RightTurn
  <1>6. c = IF v < p THEN 2 * a ELSE IF v = p THEN 0 ELSE 2 * b + 1
    BY <1>3, <1>5
  <1>7. c \in (-h)..h
    BY <1>2, <1>6
  <1>8. QED
    BY <1>6, <1>7 DEF Turned, Bounded, a, b, c

LEMMA LeafTurn ==
    ASSUME NEW v \in Int, NEW f, Path7(v, f), NEW p \in Leaves
    PROVE  Bounded(f, p, 3) /\ (f[p] = 0 <=> v = p) /\ f[p] \in Int
  <1>1. p \in Nodes /\ p \in Int /\ Left[p] = Null /\ Right[p] = Null
    BY Children DEF Leaves, Nodes
  <1>2. f[Null] = -1
    BY DEF Path7
  <1>3. Bounded(f, Null, 1)
    BY <1>2 DEF Bounded
  <1>4. 1 \in 1..100 /\ 3 \in Int /\ 3 = 2 * 1 + 1
    OBVIOUS
  <1>5. Turned(f, v, p, Null, Null) /\ Bounded(f, p, 3)
    BY <1>1, <1>3, <1>4, TurnAt
  <1> DEFINE c == f[p]
  <1>6. c = IF v < p THEN -2 ELSE IF v = p THEN 0 ELSE -1
    BY <1>2, <1>5 DEF Turned
  <1> HIDE DEF c
  <1>7. (c = 0 <=> v = p) /\ c \in Int
    BY <1>1, <1>6
  <1>8. QED
    BY <1>5, <1>7 DEF c

LEMMA Fun7Two ==
    ASSUME NEW v \in Int
    PROVE  fun7(v) = 2 <=> v \in {20, 22}
  <1>1. PICK f : Path7(v, f) /\ fun7(v) = f[36]
    BY Fun7Path
  <1>2. /\ 36 \in Nodes /\ 8 \in Nodes /\ 50 \in Nodes /\ 6 \in Nodes
        /\ 22 \in Nodes /\ 45 \in Nodes /\ 107 \in Nodes
    BY DEF Nodes
  <1>3. /\ 1 \in Leaves /\ 7 \in Leaves /\ 20 \in Leaves /\ 35 \in Leaves
        /\ 40 \in Leaves /\ 47 \in Leaves /\ 99 \in Leaves /\ 1001 \in Leaves
    BY DEF Leaves
  <1>4. /\ Bounded(f, 1, 3) /\ Bounded(f, 7, 3) /\ Bounded(f, 20, 3) /\ Bounded(f, 35, 3)
        /\ Bounded(f, 40, 3) /\ Bounded(f, 47, 3) /\ Bounded(f, 99, 3) /\ Bounded(f, 1001, 3)
        /\ f[20] \in Int /\ (f[20] = 0 <=> v = 20) /\ f[35] \in Int
    BY <1>1, <1>3, LeafTurn
  <1>5. Turned(f, v, 6, 1, 7) /\ Bounded(f, 6, 7)
    <2>1. 6 \in Nodes /\ Bounded(f, 1, 3) /\ Bounded(f, 7, 3)
      BY <1>2, <1>4
    <2>2. Left[6] = 1 /\ Right[6] = 7
      BY Children
    <2>3. 3 \in 1..100 /\ 7 \in Int /\ 7 = 2 * 3 + 1
      OBVIOUS
    <2>4. QED
      BY <1>1, <2>1, <2>2, <2>3, TurnAt
  <1>6. Turned(f, v, 22, 20, 35) /\ Bounded(f, 22, 7)
    <2>1. 22 \in Nodes /\ Bounded(f, 20, 3) /\ Bounded(f, 35, 3)
      BY <1>2, <1>4
    <2>2. Left[22] = 20 /\ Right[22] = 35
      BY Children
    <2>3. 3 \in 1..100 /\ 7 \in Int /\ 7 = 2 * 3 + 1
      OBVIOUS
    <2>4. QED
      BY <1>1, <2>1, <2>2, <2>3, TurnAt
  <1>7. Turned(f, v, 45, 40, 47) /\ Bounded(f, 45, 7)
    <2>1. 45 \in Nodes /\ Bounded(f, 40, 3) /\ Bounded(f, 47, 3)
      BY <1>2, <1>4
    <2>2. Left[45] = 40 /\ Right[45] = 47
      BY Children
    <2>3. 3 \in 1..100 /\ 7 \in Int /\ 7 = 2 * 3 + 1
      OBVIOUS
    <2>4. QED
      BY <1>1, <2>1, <2>2, <2>3, TurnAt
  <1>8. Turned(f, v, 107, 99, 1001) /\ Bounded(f, 107, 7)
    <2>1. 107 \in Nodes /\ Bounded(f, 99, 3) /\ Bounded(f, 1001, 3)
      BY <1>2, <1>4
    <2>2. Left[107] = 99 /\ Right[107] = 1001
      BY Children
    <2>3. 3 \in 1..100 /\ 7 \in Int /\ 7 = 2 * 3 + 1
      OBVIOUS
    <2>4. QED
      BY <1>1, <2>1, <2>2, <2>3, TurnAt
  <1>9. Turned(f, v, 8, 6, 22) /\ Bounded(f, 8, 15)
    <2>1. 8 \in Nodes /\ Bounded(f, 6, 7) /\ Bounded(f, 22, 7)
      BY <1>2, <1>5, <1>6
    <2>2. Left[8] = 6 /\ Right[8] = 22
      BY Children
    <2>3. 7 \in 1..100 /\ 15 \in Int /\ 15 = 2 * 7 + 1
      OBVIOUS
    <2>4. QED
      BY <1>1, <2>1, <2>2, <2>3, TurnAt
  <1>10. Turned(f, v, 50, 45, 107) /\ Bounded(f, 50, 15)
    <2>1. 50 \in Nodes /\ Bounded(f, 45, 7) /\ Bounded(f, 107, 7)
      BY <1>2, <1>7, <1>8
    <2>2. Left[50] = 45 /\ Right[50] = 107
      BY Children
    <2>3. 7 \in 1..100 /\ 15 \in Int /\ 15 = 2 * 7 + 1
      OBVIOUS
    <2>4. QED
      BY <1>1, <2>1, <2>2, <2>3, TurnAt
  <1>11. Turned(f, v, 36, 8, 50) /\ Bounded(f, 36, 31)
    <2>1. 36 \in Nodes /\ Bounded(f, 8, 15) /\ Bounded(f, 50, 15)
      BY <1>2, <1>9, <1>10
    <2>2. Left[36] = 8 /\ Right[36] = 50
      BY Children
    <2>3. 15 \in 1..100 /\ 31 \in Int /\ 31 = 2 * 15 + 1
      OBVIOUS
    <2>4. QED
      BY <1>1, <2>1, <2>2, <2>3, TurnAt
  <1> DEFINE a6  == f[6]
             a8  == f[8]
             a20 == f[20]
             a22 == f[22]
             a35 == f[35]
             a36 == f[36]
             a50 == f[50]
  <1>12. /\ a20 \in Int /\ (a20 = 0 <=> v = 20) /\ a35 \in Int
         /\ a22 = IF v < 22 THEN 2 * a20 ELSE IF v = 22 THEN 0 ELSE 2 * a35 + 1
    BY <1>4, <1>6 DEF Turned
  <1>13. a6 \in Int /\ a50 \in Int
    BY <1>5, <1>10 DEF Bounded
  <1>14. /\ a8 = IF v < 8 THEN 2 * a6 ELSE IF v = 8 THEN 0 ELSE 2 * a22 + 1
         /\ a36 = IF v < 36 THEN 2 * a8 ELSE IF v = 36 THEN 0 ELSE 2 * a50 + 1
    BY <1>9, <1>11 DEF Turned
  <1> HIDE DEF a6, a8, a20, a22, a35, a36, a50
  <1>15. a22 \in Int /\ (a22 = 0 <=> v \in {20, 22})
    BY <1>12
  <1>16. a8 \in Int /\ (a8 = 1 <=> v \in {20, 22})
    BY <1>13, <1>14, <1>15
  <1>17. a36 = 2 <=> v \in {20, 22}
    BY <1>13, <1>14, <1>16
  <1>18. QED
    BY <1>1, <1>17 DEF a36

LEMMA SecretPhase ==
    ASSUME NEW line, IsLine(line)
    PROVE  secret_phase(line) <=> \E v \in {20, 22} : IsPrefix(<<v>>, line.ints)
  <1> DEFINE s == line.ints
  <1>1. s \in Seq(Int) /\ Len(s) \in Nat /\ (\A k \in 1..Len(s) : s[k] \in Int /\ Wrap(s[k]) = s[k])
        /\ (s # <<>> <=> Len(s) >= 1)
    BY IntsType, EmptySeq
  <1>2. secret_phase(line) <=> s # <<>> /\ Below(Wrap(s[1] - 1), 1000) /\ fun7(s[1]) = 2
    BY ZenonT(40) DEF secret_phase
  <1> DEFINE v == s[1]
  <1> HIDE DEF s, v
  <1>3. ASSUME Len(s) >= 1 PROVE (Below(Wrap(v - 1), 1000) /\ fun7(v) = 2) <=> v \in {20, 22}
    <2>1. v \in Int /\ Wrap(v) = v
      BY <1>1, <1>3 DEF v
    <2> DEFINE top == 1000
    <2>2. top \in Limits /\ top + 1 = 1001 /\ top \in Int
      BY SMTT(20) DEF Limits
    <2> HIDE DEF top
    <2>3. Below(Wrap(v - 1), top) <=> v \in 1..(top + 1)
      BY <2>1, <2>2, BelowLess
    <2>4. fun7(v) = 2 <=> v \in {20, 22}
      BY <2>1, Fun7Two
    <2>5. \A n \in {20, 22} : n \in 1..(top + 1)
      BY <2>2
    <2>6. (Below(Wrap(v - 1), top) /\ fun7(v) = 2) <=> v \in {20, 22}
      BY <2>3, <2>4, <2>5, Zenon
    <2>7. QED
      BY <2>6, ZenonT(40) DEF top
  <1>4. \A a \in {20, 22} : IsPrefix(<<a>>, s) <=> Len(s) >= 1 /\ v = a
    BY <1>1, PrefixIs, \A a \in {20, 22} : a \in Int DEF v
  <1>5. QED
    BY <1>1, <1>2, <1>3, <1>4 DEF s, v

-----------------------------------------------------------------------------
(* The judgement of the phase main is at *)

LEMMA NoLineExplodes ==
    ASSUME NEW n \in Phase
    PROVE  ~Defuses(n, NoLine)
  <1>1. Len(<<>>) = 0
    BY EmptySeq
  <1>2. n = 1 \/ n = 2 \/ n = 3 \/ n = 4 \/ n = 5 \/ n = 6 \/ n = 7
    BY DEF Phase, Secret
  <1>3. CASE n = 1
    BY <1>3 DEF NoLine, Defuses, Secret, phase_1, Sentence
  <1>4. CASE n = 2
    BY <1>1, <1>4 DEF NoLine, Defuses, Secret, phase_2, read_six_numbers
  <1>5. CASE n = 3
    BY <1>1, <1>5 DEF NoLine, Defuses, Secret, phase_3
  <1>6. CASE n = 4
    BY <1>1, <1>6 DEF NoLine, Defuses, Secret, phase_4
  <1>7. CASE n = 5
    BY <1>1, <1>7 DEF NoLine, Defuses, Secret, phase_5
  <1>8. CASE n = 6
    BY <1>1, <1>8 DEF NoLine, Defuses, Secret, phase_6, read_six_numbers
  <1>9. CASE n = 7
    BY <1>9 DEF NoLine, Defuses, Secret, secret_phase
  <1>10. QED
    BY <1>2, <1>3, <1>4, <1>5, <1>6, <1>7, <1>8, <1>9

JudgeInv == pc = "exploded" => num_input_strings = phase /\ ~Defuses(phase, Current)

LEMMA NextJudgeInv == IInv /\ JudgeInv /\ [Next]_vars => JudgeInv'
  <1> SUFFICES ASSUME IInv, JudgeInv, [Next]_vars, pc' = "exploded" PROVE JudgeInv'
    BY DEF JudgeInv
  <1>1. TypeOK /\ PhaseInv
    BY DEF IInv
  <1>2. CASE LineTooLong
    <2>1. num_input_strings = phase - 1 /\ phase \in Phase /\ Entry \in 1..Secret
      BY <1>1, <1>2, EntryType DEF LineTooLong, Reading, PhaseInv, TypeOK
    <2>2. num_input_strings' = phase /\ phase' = phase /\ Entry = phase
      BY <1>2, <2>1 DEF LineTooLong, Entry, Phase, Secret
    <2>3. input_strings'[phase] = NoLine
      BY <1>1, <1>2, <2>1, <2>2 DEF LineTooLong, TypeOK, Secret
    <2>4. QED
      BY <2>1, <2>2, <2>3, NoLineExplodes DEF JudgeInv, Current
  <1>3. CASE Explode
    BY <1>1, <1>3 DEF Explode, JudgeInv, Current, PhaseInv
  <1>4. CASE UNCHANGED vars
    BY <1>4 DEF vars, inputs, stream, JudgeInv, Current
  <1>5. CASE OpenInput \/ BadUsage \/ SkipBlank \/ ReadLine \/ SwitchToStdin \/ EndOfInput
                \/ DefusePhase \/ phase_defused \/ sig_handler
    BY <1>5 DEF OpenInput, BadUsage, SkipBlank, ReadLine, SwitchToStdin, EndOfInput,
                DefusePhase, phase_defused, sig_handler, Reading
  <1>6. QED
    BY <1>2, <1>3, <1>4, <1>5 DEF Next, Step

(* A phase has judged its line as Defuses says.                            *)
JudgedAsDefuses ==
    \A n \in Phase : Judged(n) => IsLine(Current) /\ (pc = "defused" <=> Defuses(n, Current))

LEMMA JudgeInvariance == Spec => []JudgedAsDefuses
  <1>1. Init => JudgeInv
    BY DEF Init, JudgeInv
  <1>2. IInv /\ JudgeInv => JudgedAsDefuses
    <2> SUFFICES ASSUME IInv, JudgeInv, NEW n \in Phase, Judged(n)
                 PROVE  IsLine(Current) /\ (pc = "defused" <=> Defuses(n, Current))
      BY DEF JudgedAsDefuses
    <2>1. TypeOK /\ PhaseInv /\ phase = n /\ num_input_strings = n /\ n \in 1..7
      BY DEF IInv, JudgeInv, Judged, PhaseInv, Phase, Secret
    <2>2. IsLine(Current)
      BY <2>1 DEF TypeOK, Current, Secret
    <2>3. pc = "defused" => Defuses(n, Current)
      BY <2>1 DEF PhaseInv, Current
    <2>4. pc # "defused" => ~Defuses(n, Current)
      BY <2>1 DEF JudgeInv, Judged
    <2>5. QED
      BY <2>2, <2>3, <2>4
  <1>3. QED
    BY <1>1, <1>2, NextJudgeInv, Invariance, PTL DEF Spec

(* func4 and fun7 accept exactly the numbers to the left spine of the one  *)
(* search and the two on the left, right, right path of the other.         *)
THEOREM Searches == Spec => []SearchesExact
  <1>1. JudgedAsDefuses => SearchesExact
    <2> SUFFICES ASSUME JudgedAsDefuses PROVE SearchesExact
      OBVIOUS
    <2>1. 4 \in Phase /\ Secret \in Phase
      BY DEF Phase, Secret
    <2>2. \A l : (Defuses(4, l) <=> phase_4(l)) /\ (Defuses(Secret, l) <=> secret_phase(l))
      BY DEF Defuses, Secret
    <2>3. ASSUME Judged(4)
          PROVE  pc = "defused" <=> \E k \in 0..3 : IsPrefix(<<2^k - 1, 0>>, Current.ints)
      BY <2>1, <2>2, <2>3, Phase4 DEF JudgedAsDefuses
    <2>4. ASSUME Judged(Secret)
          PROVE  pc = "defused" <=> \E v \in {20, 22} : IsPrefix(<<v>>, Current.ints)
      BY <2>1, <2>2, <2>4, SecretPhase DEF JudgedAsDefuses
    <2>5. QED
      BY <2>3, <2>4 DEF SearchesExact
  <1>2. QED
    BY <1>1, JudgeInvariance, PTL

(* Of all lines, phase 6 accepts those that number the nodes in decreasing *)
(* order of their values.                                                  *)
THEOREM Sorted6 == Spec => []Phase6Exact
  <1>1. JudgedAsDefuses => Phase6Exact
    <2> SUFFICES ASSUME JudgedAsDefuses, Judged(6)
                 PROVE  pc = "defused" <=> /\ Len(Current.ints) > 5
                                           /\ \A k \in 1..6 : \E n \in 1..6 :
                                                  Larger(n) = k - 1 /\ Current.ints[k] = 7 - n
      BY DEF Phase6Exact
    <2>1. 6 \in Phase
      BY DEF Phase, Secret
    <2>2. Defuses(6, Current) <=> phase_6(Current)
      BY DEF Defuses, Secret
    <2>3. QED
      BY <2>1, <2>2, Phase6 DEF JudgedAsDefuses
  <1>2. QED
    BY <1>1, JudgeInvariance, PTL

=============================================================================
