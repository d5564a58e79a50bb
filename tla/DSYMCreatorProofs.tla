------------------------- MODULE DSYMCreatorProofs -------------------------
(***************************************************************************)
(* Proofs about DSYMCreator: what the process leaves on the disk and what  *)
(* its exit code says, for raw symbol files and disks of every size.       *)
(***************************************************************************)
EXTENDS DSYMCreator, FiniteSetTheorems, TLAPS

(* A raw symbol file is a sequence of lines. *)
LEMMA LinesAreSequence ==
  ASSUME NEW k \in Nat, NEW s \in [1 .. k -> LineKinds]
  PROVE  s \in Seq(LineKinds) /\ Len(s) = k
OBVIOUS

(* The process starts before its first check, with the old file on the disk. *)
LEMMA InitIInv == Init => IInv
<1> SUFFICES ASSUME Init PROVE IInv
  OBVIOUS
<1>1. lines \in Seq(LineKinds)
  <2>1. PICK k \in 0 .. MaxLines : lines \in [1 .. k -> LineKinds]
    BY DEF Init
  <2> QED  BY <2>1, LinesAreSequence, ToolAssumption
<1>2. TypeOK
  <2>1. line \in 1 .. Len(lines) + 1 /\ count \in 0 .. line - 1
    BY <1>1 DEF Init
  <2> QED  BY <1>1, <2>1 DEF Init, TypeOK, Old, Running
<1>3. Checked /\ LinesCounted
  BY DEF Init, Checked, LinesCounted
<1>4. BytesTracked /\ OldOutputSurvives /\ ExitCodeTells
  BY DEF Init, BytesTracked, OldOutputSurvives, ExitCodeTells, Old
<1> QED  BY <1>2, <1>3, <1>4 DEF IInv

(* The flags are checked one after the other; every refusal leaves the old  *)
(* file and an exit code that says so.                                      *)
LEMMA ChecksIInv ==
  IInv /\ (CheckFlags \/ ParseVmbase \/ ReadRaw \/ Dump) => IInv'
<1> SUFFICES ASSUME IInv, CheckFlags \/ ParseVmbase \/ ReadRaw \/ Dump PROVE IInv'
  OBVIOUS
<1> USE DEF Continue, Throw, Return, Abort
<1>1. UNCHANGED <<flags, lines, line, count, room, file, stream>>
  BY DEF CheckFlags, ParseVmbase, ReadRaw, Dump
<1>2. /\ pc \in {"flags", "vmbase", "read", "lines"}
      /\ \/ pc' \in {"vmbase", "read", "lines", "open"} /\ code' = code
         \/ pc' = "exit" /\ code' = 2
         \/ pc' = "gone" /\ code' = Aborted
  BY DEF CheckFlags, ParseVmbase, ReadRaw, Dump, ExitCode
<1>3. TypeOK'
  BY <1>1, <1>2 DEF IInv, TypeOK, Whole
<1>4. Checked'
  <2>1. CASE CheckFlags
    BY <1>1, <2>1 DEF IInv, Checked, CheckFlags
  <2>2. CASE ParseVmbase
    BY <1>1, <2>2 DEF IInv, Checked, ParseVmbase
  <2>3. CASE ReadRaw
    BY <1>1, <2>3 DEF IInv, TypeOK, Checked, LinesCounted, ReadRaw
  <2>4. CASE Dump
    BY <1>1, <2>4 DEF IInv, TypeOK, Checked, Dump, LastLine
  <2> QED  BY <2>1, <2>2, <2>3, <2>4
<1>5. LinesCounted'
  <2>1. CASE pc = "read" /\ pc' = "lines"
    <3>1. line = 1 /\ count = 0
      BY <2>1 DEF IInv, LinesCounted
    <3>2. FunctionsBefore(line) = {}
      BY <3>1 DEF FunctionsBefore
    <3> QED  BY <1>1, <2>1, <3>1, <3>2, FS_EmptySet DEF LinesCounted, FunctionsBefore
  <2>2. CASE ~(pc = "read" /\ pc' = "lines")
    BY <1>1, <1>2, <2>2 DEF IInv, LinesCounted, FunctionsBefore,
       CheckFlags, ParseVmbase, ReadRaw, Dump
  <2> QED  BY <2>1, <2>2
<1>6. file = Old /\ ~stream /\ code = Running /\ ~file.rest
  BY <1>2 DEF IInv, BytesTracked
<1>7. BytesTracked'
  BY <1>1, <1>2, <1>6 DEF BytesTracked
<1>8. OldOutputSurvives' /\ ExitCodeTells'
  BY <1>1, <1>2, <1>6 DEF OldOutputSurvives, ExitCodeTells, Aborted, Killed
<1> QED  BY <1>3, <1>4, <1>5, <1>7, <1>8 DEF IInv

(* One more line: the functions before it, and this one unless it is blank. *)
LEMMA OneMoreLine ==
  ASSUME TypeOK, line <= Len(lines)
  PROVE  Cardinality(FunctionsBefore(line + 1)) =
           IF lines[line] = "blank" THEN Cardinality(FunctionsBefore(line))
                                    ELSE Cardinality(FunctionsBefore(line)) + 1
<1>1. line \in Nat \ {0}
  BY DEF TypeOK
<1>2. IsFiniteSet(FunctionsBefore(line))
  <2>1. IsFiniteSet(1 .. line - 1)
    BY <1>1, FS_Interval
  <2>2. FunctionsBefore(line) \subseteq 1 .. line - 1
    BY DEF FunctionsBefore
  <2> QED  BY <2>1, <2>2, FS_Subset
<1>3. line \notin FunctionsBefore(line)
  BY <1>1 DEF FunctionsBefore
<1>4. CASE lines[line] = "blank"
  <2>1. FunctionsBefore(line + 1) = FunctionsBefore(line)
    BY <1>1, <1>4 DEF FunctionsBefore
  <2> QED  BY <1>4, <2>1
<1>5. CASE lines[line] # "blank"
  <2>1. FunctionsBefore(line + 1) = FunctionsBefore(line) \cup {line}
    BY <1>1, <1>5 DEF FunctionsBefore
  <2> QED  BY <1>2, <1>3, <1>5, <2>1, FS_AddElement
<1> QED  BY <1>4, <1>5

LEMMA ReadLineIInv == IInv /\ ReadLine => IInv'
<1> SUFFICES ASSUME IInv, ReadLine PROVE IInv'
  OBVIOUS
<1> USE DEF Continue, Abort
<1>1. /\ pc = "lines" /\ line <= Len(lines) /\ line' = line + 1
      /\ UNCHANGED <<flags, lines, room, file, stream>>
  BY DEF ReadLine
<1>2. /\ line \in Nat /\ count \in 0 .. line - 1 /\ lines \in Seq(LineKinds)
      /\ file = Old /\ ~stream /\ code = Running /\ ~file.rest
  BY <1>1 DEF IInv, TypeOK, BytesTracked
<1>3. \/ /\ lines[line] = "blank" /\ count' = count
         /\ pc' = "lines" /\ code' = code
      \/ /\ lines[line] = "symbol" /\ count' = count + 1
         /\ pc' = "lines" /\ code' = code
      \/ count' = count /\ pc' = "gone" /\ code' = Aborted
  BY <1>1 DEF ReadLine, Accepted
<1>4. TypeOK'
  <2>1. line' \in 1 .. Len(lines') + 1 /\ count' \in 0 .. line' - 1
    BY <1>1, <1>2, <1>3 DEF IInv, TypeOK
  <2> QED  BY <1>1, <1>2, <1>3, <2>1 DEF IInv, TypeOK
<1>5. Checked'
  BY <1>1, <1>2, <1>3 DEF IInv, Checked
<1>6. LinesCounted'
  <2>1. CASE pc' = "gone"
    BY <2>1 DEF LinesCounted
  <2>2. CASE pc' = "lines"
    <3>1. count = Cardinality(FunctionsBefore(line))
      BY <1>1 DEF IInv, LinesCounted
    <3>2. count' = Cardinality(FunctionsBefore(line + 1))
      BY <1>1, <1>3, <2>2, <3>1, OneMoreLine DEF IInv
    <3>3. FunctionsBefore(line)' = FunctionsBefore(line + 1)
      BY <1>1 DEF FunctionsBefore
    <3> QED  BY <2>2, <3>2, <3>3 DEF LinesCounted
  <2> QED  BY <1>3, <2>1, <2>2
<1>7. BytesTracked'
  BY <1>1, <1>2, <1>3 DEF BytesTracked
<1>8. OldOutputSurvives' /\ ExitCodeTells'
  BY <1>1, <1>2, <1>3 DEF OldOutputSurvives, ExitCodeTells, Aborted, Killed
<1> QED  BY <1>4, <1>5, <1>6, <1>7, <1>8 DEF IInv

(* Opening, writing and keeping the rest: no input is checked any more, and *)
(* at most pc, file, room, stream and code change.                          *)
LEMMA OutputIInv == IInv /\ (Open \/ Write \/ KeepRest) => IInv'
<1> SUFFICES ASSUME IInv, Open \/ Write \/ KeepRest PROVE IInv'
  OBVIOUS
<1> DEFINE whole == Whole(count)
           Part(n) == [whole |-> n, rest |-> FALSE]
<1> USE DEF Continue, Throw, Return
<1>1. UNCHANGED <<flags, lines, line, count>>
  BY DEF Open, Write, KeepRest
<1>2. /\ line \in Nat /\ count \in Nat /\ whole \in Nat /\ whole' = whole
      /\ room \in 0 .. MaxRoom
      /\ pc \in {"open", "write"} /\ ~stream /\ code = Running
  BY <1>1 DEF IInv, TypeOK, BytesTracked, Open, Write, KeepRest, Whole
<1>3. /\ pc = "open" => file = Old
      /\ pc = "write" => file.whole \in 0 .. whole /\ file = Part(file.whole)
  <2>1. file = Old \/ file \in [whole : 0 .. whole, rest : BOOLEAN]
    BY DEF IInv, TypeOK
  <2>2. file.rest = FALSE
    BY <1>2, <2>1 DEF IInv, BytesTracked, Old
  <2>3. pc = "write" => file # Old
    BY DEF IInv, BytesTracked
  <2>4. pc = "open" => file = Old
    BY DEF IInv, BytesTracked
  <2> QED  BY <2>1, <2>2, <2>3, <2>4
<1>4. \A n \in Nat : Part(n) # Old /\ Part(n).whole = n /\ ~Part(n).rest
  BY DEF Old
<1>5. Old.whole = -1 /\ ~Old.rest
  BY DEF Old
<1>6. Checked' /\ LinesCounted'
  <2>1. pc' \in {"write", "exit"} /\ (pc' = "write" => pc = "write" \/ flags.writable)
    BY <1>2 DEF Open, Write, WriteFails, KeepRest
  <2>2. Checked'
    BY <1>1, <1>2, <2>1 DEF IInv, Checked
  <2>3. FunctionsBefore(line)' = FunctionsBefore(line)
    BY <1>1 DEF FunctionsBefore
  <2>4. LinesCounted'
    BY <1>1, <1>2, <2>1, <2>3 DEF IInv, LinesCounted
  <2> QED  BY <2>2, <2>4
<1>7. CASE Open
  <2>1. /\ pc = "open" /\ UNCHANGED <<room, stream>>
        /\ \/ flags.writable /\ pc' = "write" /\ code' = code /\ file' = Part(0)
           \/ pc' = "exit" /\ code' = 1 /\ file' = file
    BY <1>7 DEF Open, ExitCode
  <2>2. TypeOK'
    <3>1. Part(0) \in [whole : 0 .. whole, rest : BOOLEAN]
      BY <1>2
    <3> QED  BY <1>1, <1>2, <1>3, <2>1, <3>1 DEF IInv, TypeOK
  <2>3. BytesTracked'
    BY <1>2, <1>3, <1>4, <1>5, <2>1 DEF BytesTracked
  <2>4. OldOutputSurvives'
    <3>1. CASE flags.writable
      BY <1>1, <2>1, <3>1 DEF IInv, TypeOK, Checked, OldOutputSurvives, InputAccepted
    <3>2. CASE ~flags.writable
      BY <1>3, <2>1, <3>2 DEF OldOutputSurvives
    <3> QED  BY <3>1, <3>2
  <2>5. ExitCodeTells'
    BY <2>1 DEF ExitCodeTells
  <2> QED  BY <1>6, <2>2, <2>3, <2>4, <2>5 DEF IInv
<1>8. CASE Write
  <2>1. /\ pc = "write" /\ file.whole \in 0 .. whole - 1 /\ stream' = stream
        /\ \/ /\ room > 0 /\ room' = room - 1 /\ pc' = "write" /\ code' = code
              /\ file' = [file EXCEPT !.whole = file.whole + 1]
           \/ pc' = "exit" /\ code' = 4 /\ UNCHANGED <<file, room>>
    BY <1>2, <1>3, <1>8 DEF Write, WriteFails, ExitCode
  <2> DEFINE more == file.whole + 1
  <2>2. pc' = "write" => file' = Part(more)
    BY <1>3, <2>1
  <2>3. more \in 0 .. whole /\ more \in Nat
    BY <1>2, <2>1
  <2> HIDE DEF more
  <2>4. TypeOK'
    <3>1. \A n \in 0 .. whole : Part(n) \in [whole : 0 .. whole, rest : BOOLEAN]
      OBVIOUS
    <3>2. room' \in 0 .. MaxRoom
      BY <1>2, <2>1, ToolAssumption
    <3>3. file' \in [whole : 0 .. whole', rest : BOOLEAN]
      BY <1>2, <1>3, <2>1, <2>2, <2>3, <3>1
    <3> HIDE DEF whole, Part
    <3> QED  BY <1>1, <2>1, <3>2, <3>3 DEF IInv, TypeOK, whole
  <2>5. BytesTracked'
    <3>1. CASE pc' = "write"
      BY <1>2, <1>4, <2>1, <2>2, <2>3, <3>1 DEF BytesTracked
    <3>2. CASE pc' = "exit"
      BY <1>2, <1>3, <1>4, <2>1, <3>2 DEF BytesTracked
    <3> QED  BY <2>1, <3>1, <3>2
  <2>6. OldOutputSurvives'
    BY <1>1, <1>3, <1>5, <2>1 DEF IInv, OldOutputSurvives, InputAccepted
  <2>7. ExitCodeTells'
    BY <2>1 DEF ExitCodeTells
  <2> QED  BY <1>6, <2>4, <2>5, <2>6, <2>7 DEF IInv
<1>9. CASE KeepRest
  <2>1. /\ pc = "write" /\ file = Part(whole) /\ stream' = TRUE
        /\ pc' = "exit" /\ code' = 0 /\ UNCHANGED <<file, room>>
    BY <1>2, <1>3, <1>9 DEF KeepRest
  <2>2. TypeOK'
    BY <1>1, <1>2, <2>1 DEF IInv, TypeOK
  <2>3. BytesTracked'
    BY <1>1, <1>2, <1>4, <2>1 DEF BytesTracked
  <2>4. OldOutputSurvives'
    BY <1>1, <2>1 DEF IInv, OldOutputSurvives, InputAccepted
  <2>5. ExitCodeTells'
    BY <2>1 DEF ExitCodeTells
  <2> QED  BY <1>6, <2>2, <2>3, <2>4, <2>5 DEF IInv
<1> QED  BY <1>7, <1>8, <1>9

(* exit() flushes what it can, after the exit code has been decided. *)
LEMMA ExitIInv == IInv /\ Exit => IInv'
<1> SUFFICES ASSUME IInv, Exit PROVE IInv'
  OBVIOUS
<1> DEFINE whole == Whole(count)
<1>1. /\ pc = "exit" /\ pc' = "gone" /\ stream' = FALSE
      /\ UNCHANGED <<flags, lines, line, count, code>> /\ whole' = whole
      /\ \/ stream /\ room > 0 /\ room' = room - 1 /\ file' = [file EXCEPT !.rest = TRUE]
         \/ UNCHANGED <<file, room>>
  BY DEF Exit, Whole
<1>2. /\ count \in Nat /\ whole \in Nat /\ room \in 0 .. MaxRoom /\ ~file.rest
      /\ file = Old \/ file \in [whole : 0 .. whole, rest : BOOLEAN]
  BY <1>1 DEF IInv, TypeOK, BytesTracked, Whole
<1>3. \/ code = 0 /\ stream /\ file = [whole |-> whole, rest |-> FALSE]
      \/ code = 4 /\ ~stream /\ file.whole \in 0 .. whole - 1
      \/ code \in {1, 2} /\ ~stream /\ file = Old
  BY <1>1 DEF IInv, BytesTracked
<1>4. \/ code = 0 /\ file' \in [whole : {whole}, rest : BOOLEAN] /\ file # Old
      \/ code = 4 /\ file' = file /\ file.whole \in 0 .. whole - 1
      \/ code \in {1, 2} /\ file' = file /\ file = Old
  <2>1. CASE stream
    <3>1. code = 0 /\ file = [whole |-> whole, rest |-> FALSE]
      BY <1>3, <2>1
    <3>2. file' = [whole |-> whole, rest |-> TRUE] \/ file' = file
      BY <1>1, <3>1
    <3>3. file # Old
      BY <1>2, <3>1 DEF Old
    <3>4. \A b \in BOOLEAN : [whole |-> whole, rest |-> b] \in
                              [whole : {whole}, rest : BOOLEAN]
      OBVIOUS
    <3>5. file' \in [whole : {whole}, rest : BOOLEAN]
      BY <3>1, <3>2, <3>4
    <3> QED  BY <3>1, <3>3, <3>5
  <2>2. CASE ~stream
    BY <1>1, <1>3, <2>2
  <2> QED  BY <2>1, <2>2
<1>5. TypeOK'
  <2>1. room' \in 0 .. MaxRoom
    BY <1>1, <1>2, ToolAssumption
  <2>2. file' = Old \/ file' \in [whole : 0 .. whole, rest : BOOLEAN]
    BY <1>2, <1>4
  <2> HIDE DEF whole
  <2> QED  BY <1>1, <2>1, <2>2 DEF IInv, TypeOK, whole
<1>6. Checked' /\ LinesCounted'
  BY <1>1 DEF Checked, LinesCounted
<1>7. BytesTracked'
  BY <1>1 DEF BytesTracked
<1>8. OldOutputSurvives'
  BY <1>1, <1>4 DEF IInv, OldOutputSurvives, InputAccepted
<1>9. ExitCodeTells'
  BY <1>1, <1>2, <1>4 DEF ExitCodeTells, Killed
<1> QED  BY <1>5, <1>6, <1>7, <1>8, <1>9 DEF IInv

(* A killed process leaves on the disk what is there. *)
LEMMA KillIInv == IInv /\ Kill => IInv'
<1> SUFFICES ASSUME IInv, Kill PROVE IInv'
  OBVIOUS
<1>1. /\ pc # "gone" /\ pc' = "gone" /\ code' = -9 /\ stream' = FALSE
      /\ UNCHANGED <<flags, lines, line, count, room, file>>
  BY DEF Kill, Killed
<1>2. TypeOK'
  BY <1>1 DEF IInv, TypeOK, Killed, Whole
<1>3. Checked' /\ LinesCounted' /\ BytesTracked'
  BY <1>1 DEF Checked, LinesCounted, BytesTracked
<1>4. OldOutputSurvives' /\ ExitCodeTells'
  BY <1>1 DEF IInv, BytesTracked, OldOutputSurvives, InputAccepted, ExitCodeTells, Killed
<1> QED  BY <1>2, <1>3, <1>4 DEF IInv

(* For raw symbol files and disks of every size, every reachable state      *)
(* satisfies the inductive invariant.                                       *)
THEOREM Inductive == Spec => []IInv
<1>1. IInv /\ [Next]_vars => IInv'
  <2> SUFFICES ASSUME IInv, [Next]_vars PROVE IInv'
    OBVIOUS
  <2>1. CASE CheckFlags \/ ParseVmbase \/ ReadRaw \/ Dump
    BY <2>1, ChecksIInv
  <2>2. CASE ReadLine
    BY <2>2, ReadLineIInv
  <2>3. CASE Open \/ Write \/ KeepRest
    BY <2>3, OutputIInv
  <2>4. CASE Exit
    BY <2>4, ExitIInv
  <2>5. CASE Kill
    BY <2>5, KillIInv
  <2>6. CASE Gone \/ UNCHANGED vars
    <3>1. UNCHANGED vars
      BY <2>6 DEF Gone
    <3>2. TypeOK' /\ Checked'
      BY <3>1 DEF vars, IInv, TypeOK, Whole, Checked
    <3>3. LinesCounted' /\ BytesTracked'
      BY <3>1 DEF vars, IInv, LinesCounted, FunctionsBefore, BytesTracked, Whole
    <3>4. OldOutputSurvives' /\ ExitCodeTells'
      BY <3>1 DEF vars, IInv, OldOutputSurvives, InputAccepted, ExitCodeTells, Whole
    <3> QED  BY <3>2, <3>3, <3>4 DEF IInv
  <2> QED  BY <2>1, <2>2, <2>3, <2>4, <2>5, <2>6 DEF Next
<1> QED  BY InitIInv, <1>1, PTL DEF Spec

(* The program counter, the counters and the exit code keep their types     *)
(* (main.mm:80-97).                                                         *)
THEOREM TypeCorrect == Spec => []TypeOK
BY Inductive, PTL DEF IInv

(* main.mm:73-75, util.h:78: an earlier symbol file is destroyed only for   *)
(* input that has been accepted to its last line.                           *)
THEOREM OldOutputIsSafe == Spec => []OldOutputSurvives
BY Inductive, PTL DEF IInv

(* main.mm:54-63: no function of an accepted input is left out.             *)
THEOREM NoLineIsLost == Spec => []EveryLineCounts
<1>1. IInv => EveryLineCounts
  <2> SUFFICES ASSUME IInv, pc \in {"open", "write"}
               PROVE  count = Cardinality({k \in DOMAIN lines : lines[k] # "blank"})
    BY DEF EveryLineCounts
  <2>1. line - 1 = Len(lines) /\ DOMAIN lines = 1 .. Len(lines)
    BY DEF IInv, TypeOK, Checked
  <2>2. FunctionsBefore(line) = {k \in DOMAIN lines : lines[k] # "blank"}
    BY <2>1 DEF FunctionsBefore
  <2> QED  BY <2>2 DEF IInv, LinesCounted
<1> QED  BY Inductive, <1>1, PTL

(* util.h:51-63, main.mm:80-96: the exit code says what became of the       *)
(* output.                                                                  *)
THEOREM ExitCodeIsRight == Spec => []ExitCodeTells
BY Inductive, PTL DEF IInv
=============================================================================
