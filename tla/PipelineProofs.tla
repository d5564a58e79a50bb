--------------------------- MODULE PipelineProofs ---------------------------
(***************************************************************************)
(* Theorems about Pipeline, for any number of runs, binaries and kinds of  *)
(* files.                                                                  *)
(***************************************************************************)
EXTENDS Pipeline, FiniteSetTheorems, TLAPS

Places == Calls \cup {"new", "openraw", "writeraw", "format", "openout", "writeout",
                      "ok", "failed"}
Substeps == {"open", "write", "read", "tool", "ida"}
Paths == ({"input"} \X Binaries) \cup ({"thin"} \X Archs)

(* lipo is only called on a path that was given as --input. *)
Commands ==
  {c \in [tool : Calls, path : Paths, arch : Archs] :
     c.tool = "lipo" => c.path \in {"input"} \X Binaries}
Scripts == Commands \cup {NoFile, Nothing, Garbled}

(* The types of all variables.  binary_path is the input until lipo has      *)
(* returned, and only IDA has two steps.                                    *)
TypeInv ==
  /\ options \in [Runs -> Options]
  /\ pc \in [Runs -> Places]
  /\ sub \in [Runs -> Substeps]
  /\ operand \in [Runs -> Paths]
  /\ script \in [Runs -> Scripts]
  /\ got \in [Runs -> Results]
  /\ shell \in Scripts
  /\ thin \in [Archs -> Slices \cup {NoSlice}]
  /\ raw \in Texts \cup {NoFile}
  /\ output \in [Binaries -> SymbolFiles]
  /\ disturbed \subseteq Runs
  /\ \A r \in Runs :
       /\ pc[r] \notin Calls => sub[r] = "open"
       /\ pc[r] \in {"new", "lipo"} => operand[r] = <<"input", options[r].bin>>
       /\ sub[r] = "ida" => script[r].tool = "ida"

-----------------------------------------------------------------------------

LEMMA OptionsAre ==
  ASSUME TypeInv, NEW r \in Runs
  PROVE  /\ options[r].bin \in Binaries /\ Arch(r) \in Archs
         /\ options[r].mode \in {"objc", "ida"} /\ options[r].ida \in BOOLEAN
         /\ Slice(r) \in Slices
BY PipelineAssumption DEF TypeInv, Options, Arch, Slice, SliceOf, Slices

LEMMA TextsAre ==
  /\ Nothing \in Texts /\ Garbled \in Texts
  /\ \A t \in {"objc", "ida", "uuid", "vm"}, c \in Slices, w \in BOOLEAN :
       Text(t, c, w) \in Texts
BY DEF Texts

(* Contents that are a slice are one of the binaries'. *)
LEMMA SlicesAre ==
  ASSUME TypeInv, NEW path \in Paths, IsSlice(Contents(path))
  PROVE  Contents(path) \in Slices
<1>1. CASE path \in {"input"} \X Binaries
  BY <1>1 DEF Contents, IsSlice, Slices
<1>2. CASE path \in {"thin"} \X Archs
  BY <1>2 DEF Contents, IsSlice, Slices, TypeInv
<1> QED
  BY <1>1, <1>2 DEF Paths

(* A child whose script begins with a tool executes a command. *)
LEMMA CommandsAre ==
  ASSUME TypeInv, NEW r \in Runs, NEW tool \in Calls, script[r].tool = tool
  PROVE  /\ script[r] \in Commands /\ script[r].path \in Paths
         /\ script[r].arch \in Archs
         /\ tool = "lipo" => script[r].path \in {"input"} \X Binaries
<1>1. script[r] \in Scripts
  BY DEF TypeInv
<1>2. script[r] # NoFile /\ script[r] # Nothing /\ script[r] # Garbled
  BY DEF NoFile, Nothing, Garbled, Calls
<1>3. script[r] \in Commands
  BY <1>1, <1>2 DEF Scripts
<1> QED
  BY <1>3 DEF Commands

(* A move of run r to another place or to another step of the same call. *)
Moves(r, place, substep) ==
  /\ pc' = [pc EXCEPT ![r] = place] /\ sub' = [sub EXCEPT ![r] = substep]

LEMMA GotoMoves ==
  ASSUME TypeInv, NEW r \in Runs, NEW l, Goto(r, l)
  PROVE  Moves(r, l, "open")
BY DEF Goto, Moves

LEMMA SubstepMoves ==
  ASSUME TypeInv, NEW r \in Runs, NEW l, Substep(r, l)
  PROVE  Moves(r, pc[r], l)
BY DEF Substep, Moves, TypeInv

LEMMA CollectKeeps ==
  ASSUME TypeInv, NEW r \in Runs, NEW v
  PROVE  /\ Collect(r, "symbols", v) /\ v \in Texts \cup {NoFile} => got' \in [Runs -> Results]
         /\ Collect(r, "uuid", v) /\ v \in Texts => got' \in [Runs -> Results]
         /\ Collect(r, "vm", v) /\ v \in Texts => got' \in [Runs -> Results]
<1>1. got \in [Runs -> Results]
  BY DEF TypeInv
<1>2. got[r] \in Results
  BY <1>1
<1>3. CASE Collect(r, "symbols", v) /\ v \in Texts \cup {NoFile}
  BY <1>1, <1>2, <1>3 DEF Collect, Results
<1>4. CASE Collect(r, "uuid", v) /\ v \in Texts
  BY <1>1, <1>2, <1>4 DEF Collect, Results
<1>5. CASE Collect(r, "vm", v) /\ v \in Texts
  BY <1>1, <1>2, <1>5 DEF Collect, Results
<1> QED
  BY <1>3, <1>4, <1>5

(* Where a run goes when its call has returned. *)
LEMMA ReturnedMoves ==
  ASSUME TypeInv, NEW r \in Runs, pc[r] \in Calls, NEW status, NEW out \in Texts,
         Returned(r, status, out)
  PROVE  /\ \E l \in Places \ {"new", "lipo", "ok"} : Moves(r, l, "open")
         /\ operand' \in [Runs -> Paths]
         /\ \A s \in Runs \ {r} : operand'[s] = operand[s]
         /\ got' \in [Runs -> Results]
<1> USE DEF Returned
<1>1. operand \in [Runs -> Paths] /\ got \in [Runs -> Results] /\ Arch(r) \in Archs
  BY OptionsAre DEF TypeInv
<1>2. ASSUME NEW l, Goto(r, l)
      PROVE  Moves(r, l, "open")
  BY <1>2, GotoMoves
<1>3. CASE ~StatusChecked(status)
  BY <1>1, <1>2, <1>3 DEF Places
<1>4. CASE StatusChecked(status) /\ pc[r] = "lipo"
  <2>1. /\ operand' = [operand EXCEPT ![r] = <<"thin", Arch(r)>>]
        /\ ListFunctions(r) /\ UNCHANGED got
    BY <1>4
  <2>2. \E l \in {"objc", "ida", "failed"} : Goto(r, l)
    BY <2>1 DEF ListFunctions
  <2>3. <<"thin", Arch(r)>> \in Paths
    BY <1>1 DEF Paths
  <2> QED
    BY <1>1, <1>2, <2>1, <2>2, <2>3 DEF Places, Calls
<1>5. CASE StatusChecked(status) /\ pc[r] = "ida"
  BY <1>1, <1>2, <1>5 DEF Places, Calls
<1>6. CASE StatusChecked(status) /\ pc[r] = "uuid"
  <2>1. Collect(r, "uuid", out) /\ Goto(r, "vm") /\ UNCHANGED operand
    BY <1>6
  <2> QED
    BY <1>1, <1>2, <2>1, CollectKeeps DEF Places, Calls
<1>7. CASE StatusChecked(status) /\ pc[r] = "objc"
  <2>1. Collect(r, "symbols", out) /\ Parsed(r, out, "openraw") /\ UNCHANGED operand
    BY <1>7
  <2>2. \E l \in {"openraw", "failed"} : Goto(r, l)
    BY <2>1 DEF Parsed
  <2> QED
    BY <1>1, <1>2, <2>1, <2>2, CollectKeeps DEF Places, Calls
<1>8. CASE StatusChecked(status) /\ pc[r] = "vm"
  <2>1. Collect(r, "vm", out) /\ Parsed(r, out, "format") /\ UNCHANGED operand
    BY <1>8
  <2>2. \E l \in {"format", "failed"} : Goto(r, l)
    BY <2>1 DEF Parsed
  <2> QED
    BY <1>1, <1>2, <2>1, <2>2, CollectKeeps DEF Places, Calls
<1> QED
  BY <1>3, <1>4, <1>5, <1>6, <1>7, <1>8 DEF Calls

-----------------------------------------------------------------------------
(* Types.                                                                   *)

(* What every step of a run does: it moves that run alone, to lipo only from *)
(* the start, and leaves what the other runs know to them.                  *)
Advances(r) ==
  /\ UNCHANGED options /\ disturbed' \subseteq Runs
  /\ \E place \in Places \ {"new"}, substep \in Substeps :
       /\ Moves(r, place, substep)
       /\ place \notin Calls => substep = "open"
       /\ place = "lipo" => pc[r] \in {"new", "lipo"} /\ operand' = operand
       /\ substep = "ida" => script'[r].tool = "ida"
  /\ operand' \in [Runs -> Paths]
  /\ \A s \in Runs \ {r} : operand'[s] = operand[s] /\ script'[s] = script[s]
  /\ script' \in [Runs -> Scripts]
  /\ got' \in [Runs -> Results]
  /\ shell' \in Scripts
  /\ thin' \in [Archs -> Slices \cup {NoSlice}]
  /\ raw' \in Texts \cup {NoFile}
  /\ output' \in [Binaries -> SymbolFiles]

LEMMA AdvancesKeepsTypes ==
  ASSUME TypeInv, NEW r \in Runs, Advances(r)
  PROVE  TypeInv' /\ \E l \in Places \ {"new"} : pc' = [pc EXCEPT ![r] = l]
<1>1. PICK place \in Places \ {"new"}, substep \in Substeps :
        /\ pc' = [pc EXCEPT ![r] = place] /\ sub' = [sub EXCEPT ![r] = substep]
        /\ place \notin Calls => substep = "open"
        /\ place = "lipo" => pc[r] \in {"new", "lipo"} /\ operand' = operand
        /\ substep = "ida" => script'[r].tool = "ida"
  BY DEF Advances, Moves
<1>2. pc' \in [Runs -> Places] /\ sub' \in [Runs -> Substeps]
  BY <1>1 DEF TypeInv
<1>3. ASSUME NEW s \in Runs
      PROVE  /\ pc'[s] \notin Calls => sub'[s] = "open"
             /\ pc'[s] \in {"new", "lipo"} => operand'[s] = <<"input", options[s].bin>>
             /\ sub'[s] = "ida" => script'[s].tool = "ida"
  <2>1. CASE s = r
    BY <1>1, <2>1 DEF TypeInv
  <2>2. CASE s # r
    BY <1>1, <2>2 DEF TypeInv, Advances
  <2> QED
    BY <2>1, <2>2
<1> QED
  BY <1>1, <1>2, <1>3 DEF TypeInv, Advances

LEMMA StartAdvances ==
  ASSUME TypeInv, NEW r \in Runs, UNCHANGED options, disturbed' \subseteq Runs, Start(r)
  PROVE  Advances(r)
<1>1. \E l \in {"lipo", "objc", "ida", "failed"} : Goto(r, l)
  BY DEF Start, ListFunctions
<1>2. \E l \in Places \ {"new"} : Moves(r, l, "open")
  BY <1>1, GotoMoves DEF Places, Calls
<1> QED
  BY <1>2 DEF Start, Advances, TypeInv, temp, Substeps

LEMMA ScriptAdvances ==
  ASSUME TypeInv, NEW r \in Runs, UNCHANGED options, disturbed' \subseteq Runs,
         OpenScript(r) \/ WriteScript(r) \/ ReadScript(r)
  PROVE  Advances(r)
<1>1. CASE OpenScript(r)
  <2>1. pc[r] \in Calls /\ Moves(r, pc[r], "write")
    BY <1>1, SubstepMoves DEF OpenScript
  <2>2. UNCHANGED <<operand, script, got, thin, raw, output>> /\ shell' \in Scripts
    BY <1>1 DEF OpenScript, Scripts
  <2> QED
    BY <2>1, <2>2 DEF Advances, TypeInv, Substeps, Places, Calls
<1>2. CASE WriteScript(r)
  <2> DEFINE command == [tool |-> pc[r], path |-> operand[r], arch |-> Arch(r)]
  <2>1. pc[r] \in Calls /\ Moves(r, pc[r], "read")
    BY <1>2, SubstepMoves DEF WriteScript
  <2>2. command \in Commands
    <3>1. operand[r] \in Paths /\ Arch(r) \in Archs
      BY OptionsAre DEF TypeInv
    <3>2. pc[r] = "lipo" => operand[r] = <<"input", options[r].bin>>
      BY DEF TypeInv
    <3>3. options[r].bin \in Binaries
      BY OptionsAre
    <3>4. pc[r] = "lipo" => operand[r] \in {"input"} \X Binaries
      BY <3>2, <3>3
    <3> QED
      BY <2>1, <3>1, <3>4 DEF Commands
  <2>3. UNCHANGED <<operand, script, got, thin, raw, output>>
        /\ shell' \in Overwrite(shell, Nothing, command)
    BY <1>2 DEF WriteScript
  <2>4. shell' \in Scripts
    BY <2>2, <2>3 DEF Scripts, Overwrite
  <2> QED
    BY <2>1, <2>3, <2>4 DEF Advances, TypeInv, Substeps, Places, Calls
<1>3. CASE ReadScript(r)
  <2>1. pc[r] \in Calls /\ Moves(r, pc[r], "tool")
    BY <1>3, SubstepMoves DEF ReadScript
  <2>2. UNCHANGED <<operand, got, temp, output>> /\ script' = [script EXCEPT ![r] = shell]
    BY <1>3 DEF ReadScript
  <2> QED
    BY <2>1, <2>2 DEF Advances, TypeInv, Substeps, Places, Calls, temp
<1> QED
  BY <1>1, <1>2, <1>3

(* A call that returns, whatever its tool has done to the files. *)
LEMMA ReturnAdvances ==
  ASSUME TypeInv, NEW r \in Runs, UNCHANGED <<options, script, shell, output>>,
         disturbed' \subseteq Runs, pc[r] \in Calls,
         NEW status, NEW out \in Texts, Returned(r, status, out),
         thin' \in [Archs -> Slices \cup {NoSlice}], raw' \in Texts \cup {NoFile}
  PROVE  Advances(r)
<1>1. PICK l \in Places \ {"new", "lipo", "ok"} : Moves(r, l, "open")
  BY ReturnedMoves
<1> QED
  BY <1>1, ReturnedMoves DEF Advances, TypeInv, Substeps

LEMMA ToolAdvances ==
  ASSUME TypeInv, NEW r \in Runs, UNCHANGED options, disturbed' \subseteq Runs,
         \/ BrokenScript(r) \/ Lipo(r) \/ ObjcSymbols(r) \/ ExtractUuid(r)
         \/ ExtractVm(r) \/ IdaOpens(r) \/ IdaCloses(r)
  PROVE  Advances(r)
<1> USE TextsAre
<1>1. CASE BrokenScript(r)
  <2>1. pc[r] \in Calls /\ UNCHANGED <<script, temp, output>>
        /\ \E status \in {0, 1} : Returned(r, status, Nothing)
    BY <1>1 DEF BrokenScript, Executes
  <2> QED
    BY <2>1, ReturnAdvances DEF TypeInv, temp
<1>2. CASE Lipo(r)
  <2>1. pc[r] \in Calls /\ script[r].tool = "lipo" /\ UNCHANGED <<script, shell, raw, output>>
        /\ thin' = [thin EXCEPT ![script[r].arch] = <<script[r].path[2], script[r].arch>>]
        /\ Returned(r, 0, Nothing)
    BY <1>2 DEF Lipo, Executes
  <2>2. script[r].path \in {"input"} \X Binaries /\ script[r].arch \in Archs
    BY <2>1, CommandsAre DEF Calls
  <2>3. <<script[r].path[2], script[r].arch>> \in Slices
    BY <2>2 DEF Slices
  <2>4. thin' \in [Archs -> Slices \cup {NoSlice}]
    BY <2>1, <2>2, <2>3 DEF TypeInv
  <2> QED
    BY <2>1, <2>4, ReturnAdvances DEF TypeInv
<1>3. CASE ObjcSymbols(r)
  <2>1. pc[r] \in Calls /\ script[r].tool = "objc" /\ UNCHANGED <<script, temp, output>>
        /\ \/ Returned(r, 0, Nothing)
           \/ IsSlice(Source(r)) /\ Returned(r, 0, Text("objc", Source(r), TRUE))
    BY <1>3 DEF ObjcSymbols, Executes
  <2>2. IsSlice(Source(r)) => Text("objc", Source(r), TRUE) \in Texts
    BY <2>1, CommandsAre, SlicesAre DEF Source, Calls
  <2> QED
    BY <2>1, <2>2, ReturnAdvances DEF TypeInv, temp
<1>4. CASE ExtractUuid(r)
  <2>1. pc[r] \in Calls /\ script[r].tool = "uuid" /\ UNCHANGED <<script, temp, output>>
        /\ \/ Returned(r, 1, Nothing)
           \/ IsSlice(Source(r)) /\ Returned(r, 0, Text("uuid", Source(r), TRUE))
    BY <1>4 DEF ExtractUuid, Executes
  <2>2. IsSlice(Source(r)) => Text("uuid", Source(r), TRUE) \in Texts
    BY <2>1, CommandsAre, SlicesAre DEF Source, Calls
  <2> QED
    BY <2>1, <2>2, ReturnAdvances DEF TypeInv, temp
<1>5. CASE ExtractVm(r)
  <2>1. pc[r] \in Calls /\ script[r].tool = "vm" /\ UNCHANGED <<script, temp, output>>
        /\ \/ Returned(r, 0, Nothing)
           \/ IsSlice(Source(r)) /\ Returned(r, 0, Text("vm", Source(r), TRUE))
    BY <1>5 DEF ExtractVm, Executes
  <2>2. IsSlice(Source(r)) => Text("vm", Source(r), TRUE) \in Texts
    BY <2>1, CommandsAre, SlicesAre DEF Source, Calls
  <2> QED
    BY <2>1, <2>2, ReturnAdvances DEF TypeInv, temp
<1>6. CASE IdaOpens(r)
  <2>1. pc[r] \in Calls /\ script[r].tool = "ida" /\ Moves(r, pc[r], "ida")
        /\ raw' = Nothing /\ UNCHANGED <<operand, script, got, shell, thin, output>>
    BY <1>6, SubstepMoves DEF IdaOpens, Executes
  <2> QED
    BY <2>1 DEF Advances, TypeInv, Substeps, Places, Calls
<1>7. CASE IdaCloses(r)
  <2>1. pc[r] \in Calls /\ script[r].tool = "ida" /\ UNCHANGED <<script, shell, thin, output>>
        /\ \E status : Returned(r, status, Nothing)
        /\ \/ raw' = raw
           \/ IsSlice(Source(r)) /\ raw' \in Overwrite(raw, Nothing, Text("ida", Source(r), TRUE))
    BY <1>7 DEF IdaCloses, TypeInv
  <2>2. IsSlice(Source(r)) => Text("ida", Source(r), TRUE) \in Texts
    BY <2>1, CommandsAre, SlicesAre DEF Source, Calls
  <2>3. raw' \in Texts \cup {NoFile}
    BY <2>1, <2>2 DEF TypeInv, Overwrite
  <2> QED
    BY <2>1, <2>3, ReturnAdvances DEF TypeInv
<1> QED
  BY <1>1, <1>2, <1>3, <1>4, <1>5, <1>6, <1>7

LEMMA WriterAdvances ==
  ASSUME TypeInv, NEW r \in Runs, UNCHANGED options, disturbed' \subseteq Runs,
         \/ OpenRaw(r) \/ WriteRaw(r)
         \/ FormatRead(r) \/ FormatOpen(r) \/ FormatWrite(r)
  PROVE  Advances(r)
<1> USE TextsAre DEF Places, Substeps, Calls
<1>1. CASE OpenRaw(r)
  <2>1. Moves(r, "writeraw", "open")
    BY <1>1, GotoMoves DEF OpenRaw
  <2>2. UNCHANGED <<operand, script, got, shell, thin, output>> /\ raw' \in Texts \cup {NoFile}
    BY <1>1 DEF OpenRaw
  <2> QED
    BY <2>1, <2>2 DEF Advances, TypeInv
<1>2. CASE WriteRaw(r)
  <2>1. Moves(r, "uuid", "open")
    BY <1>2, GotoMoves DEF WriteRaw
  <2>2. got[r].symbols \in Texts \cup {NoFile}
    BY DEF TypeInv, Results
  <2>3. UNCHANGED <<operand, script, got, shell, thin, output>> /\ raw' \in Texts \cup {NoFile}
    BY <1>2, <2>2 DEF WriteRaw, Overwrite
  <2> QED
    BY <2>1, <2>3 DEF Advances, TypeInv
<1>3. CASE FormatRead(r)
  <2>1. \E l \in {"openout", "failed"} : Moves(r, l, "open")
    BY <1>3, GotoMoves DEF FormatRead
  <2>2. got' \in [Runs -> Results]
    BY <1>3, CollectKeeps DEF FormatRead, TypeInv
  <2>3. UNCHANGED <<operand, script, temp, output>>
    BY <1>3 DEF FormatRead
  <2> QED
    BY <2>1, <2>2, <2>3 DEF Advances, TypeInv, temp
<1>4. CASE FormatOpen(r)
  <2>1. Moves(r, "writeout", "open")
    BY <1>4, GotoMoves DEF FormatOpen
  <2>2. UNCHANGED <<operand, script, got, temp>>
        /\ output' = [output EXCEPT ![OutputPath(r)] = Torn]
    BY <1>4 DEF FormatOpen
  <2>3. Torn \in SymbolFiles
    BY DEF SymbolFiles
  <2> QED
    BY <2>1, <2>2, <2>3 DEF Advances, TypeInv, temp
<1>5. CASE FormatWrite(r)
  <2>1. Moves(r, "ok", "open")
    BY <1>5, GotoMoves DEF FormatWrite
  <2>2. UNCHANGED <<operand, script, got, temp>>
        /\ \E text \in {got[r], Garbled} : output' = [output EXCEPT ![OutputPath(r)] = text]
    BY <1>5 DEF FormatWrite, Overwrite
  <2>3. got[r] \in Results
    BY DEF TypeInv
  <2>4. output' \in [Binaries -> SymbolFiles]
    <3>1. PICK text \in {got[r], Garbled} : output' = [output EXCEPT ![OutputPath(r)] = text]
      BY <2>2
    <3>2. text \in SymbolFiles
      BY <2>3 DEF SymbolFiles
    <3>3. output \in [Binaries -> SymbolFiles]
      BY DEF TypeInv
    <3> HIDE DEF Places, Substeps, Calls
    <3> QED
      BY <3>1, <3>2, <3>3
  <2> QED
    BY <2>1, <2>2, <2>4 DEF Advances, TypeInv, temp
<1> QED
  BY <1>1, <1>2, <1>3, <1>4, <1>5

(* The beginning of a list of functions is one, but for its end. *)
LEMMA BeginningsAre ==
  ASSUME TypeInv, NEW r \in Runs
  PROVE  Beginning(got[r].symbols) \in Texts \cup {NoFile}
<1> DEFINE text == got[r].symbols
<1>1. text \in Texts \cup {NoFile}
  BY DEF TypeInv, Results
<1>2. CASE text.tool \in {"objc", "ida"}
  <2>1. text \notin {NoFile, Nothing, Garbled}
    BY <1>2 DEF NoFile, Nothing, Garbled
  <2>2. PICK t \in {"objc", "ida", "uuid", "vm"}, c \in Slices, w \in BOOLEAN :
          text = Text(t, c, w)
    BY <1>1, <2>1 DEF Texts
  <2>3. text.tool = t /\ text.of = c
    BY <2>2 DEF Text
  <2>4. Beginning(text) = Text(t, c, FALSE)
    BY <1>2, <2>3 DEF Beginning
  <2> QED
    BY <2>4, TextsAre
<1>3. CASE text.tool \notin {"objc", "ida"}
  BY <1>1, <1>3 DEF Beginning
<1> QED
  BY <1>2, <1>3

LEMMA FaultAdvances ==
  ASSUME TypeInv, NEW r \in Runs, UNCHANGED options, disturbed' \subseteq Runs, Fault(r)
  PROVE  Advances(r)
<1> USE TextsAre DEF Places, Substeps, Calls
<1>1. ASSUME Goto(r, "failed"), UNCHANGED <<operand, script, got, temp, output>>
      PROVE  Advances(r)
  BY <1>1, GotoMoves DEF Advances, TypeInv, temp, Moves
<1>2. CASE Kill(r)
  BY <1>1, <1>2 DEF Kill
<1>3. CASE FormatFails(r)
  BY <1>1, <1>3 DEF FormatFails
<1>4. CASE ToolFails(r)
  <2>1. pc[r] \in Calls
    BY <1>4 DEF ToolFails, Executes, TypeInv
  <2>2. UNCHANGED <<script, temp, output>>
    BY <1>4 DEF ToolFails
  <2>3. CASE \E status : Returned(r, status, Nothing)
    BY <2>1, <2>2, <2>3, ReturnAdvances DEF TypeInv, temp
  <2>4. CASE /\ Executes(r, "objc") \/ Executes(r, "vm")
             /\ IsSlice(Source(r))
             /\ Returned(r, 0, Text(script[r].tool, Source(r), FALSE))
    <3>1. script[r].tool \in {"objc", "vm"}
      BY <2>4 DEF Executes
    <3>2. Text(script[r].tool, Source(r), FALSE) \in Texts
      BY <2>4, <3>1, CommandsAre, SlicesAre DEF Source
    <3> QED
      BY <2>1, <2>2, <2>4, <3>2, ReturnAdvances DEF TypeInv, temp
  <2> QED
    BY <1>4, <2>3, <2>4 DEF ToolFails
<1>5. CASE IdaCannotOpen(r)
  <2>1. pc[r] \in Calls /\ UNCHANGED <<script, temp, output>> /\ Returned(r, 0, Nothing)
    BY <1>5 DEF IdaCannotOpen, Executes
  <2> QED
    BY <2>1, ReturnAdvances DEF TypeInv, temp
<1>6. CASE FlushFails(r)
  <2>1. Moves(r, "ok", "open")
    BY <1>6, GotoMoves DEF FlushFails
  <2>2. UNCHANGED <<operand, script, got, temp>>
    BY <1>6 DEF FlushFails
  <2>3. PICK text \in {Cut(got[r]), Garbled} : output' = [output EXCEPT ![OutputPath(r)] = text]
    BY <1>6 DEF FlushFails, Overwrite
  <2>4. text \in SymbolFiles
    <3>1. got[r] \in Results
      BY DEF TypeInv
    <3> QED
      BY <3>1 DEF SymbolFiles, Cut
  <2>5. output' \in [Binaries -> SymbolFiles]
    <3>1. output \in [Binaries -> SymbolFiles]
      BY DEF TypeInv
    <3> HIDE DEF Places, Substeps, Calls
    <3> QED
      BY <2>3, <2>4, <3>1
  <2> QED
    BY <2>1, <2>2, <2>5 DEF Advances, TypeInv, temp
<1>7. CASE TmpIsFull(r)
  <2>1. UNCHANGED <<script, shell, thin, output>>
    BY <1>7 DEF TmpIsFull
  <2>2. CASE pc[r] \in Calls /\ Substep(r, "read") /\ UNCHANGED <<operand, got, raw>>
    <3>1. Moves(r, pc[r], "read")
      BY <2>2, SubstepMoves
    <3> QED
      BY <2>1, <2>2, <3>1 DEF Advances, TypeInv
  <2>3. CASE /\ raw' \in {raw} \cup Overwrite(raw, Nothing, Beginning(got[r].symbols))
             /\ \E l \in {"uuid", "failed"} : Goto(r, l)
             /\ UNCHANGED <<operand, got>>
    <3>1. \E l \in {"uuid", "failed"} : Moves(r, l, "open")
      BY <2>3, GotoMoves
    <3>2. raw' \in Texts \cup {NoFile}
      BY <2>3, BeginningsAre DEF TypeInv, Overwrite
    <3> QED
      BY <2>1, <2>3, <3>1, <3>2 DEF Advances, TypeInv
  <2>4. CASE /\ sub[r] = "ida" /\ IsSlice(Source(r))
             /\ raw' \in {raw} \cup Overwrite(raw, Nothing, Text("ida", Source(r), FALSE))
             /\ Returned(r, 0, Nothing)
    <3>1. pc[r] \in Calls /\ script[r].tool = "ida"
      BY <2>4 DEF TypeInv
    <3>2. Text("ida", Source(r), FALSE) \in Texts
      BY <2>4, <3>1, CommandsAre, SlicesAre DEF Source
    <3>3. raw' \in Texts \cup {NoFile}
      BY <2>4, <3>2 DEF TypeInv, Overwrite
    <3> QED
      BY <2>1, <2>4, <3>1, <3>3, ReturnAdvances DEF TypeInv
  <2> QED
    BY <1>7, <2>2, <2>3, <2>4 DEF TmpIsFull
<1> QED
  BY <1>2, <1>3, <1>4, <1>5, <1>6, <1>7 DEF Fault

LEMMA RunAdvances ==
  ASSUME TypeInv, NEW r \in Runs, Proceed(r) \/ Break(r)
  PROVE  Advances(r)
<1>1. UNCHANGED options /\ disturbed' \subseteq Runs
  BY DEF Proceed, Break, TypeInv, Overlapping
<1>2. CASE Step(r)
  BY <1>1, <1>2, StartAdvances, ScriptAdvances, ToolAdvances, WriterAdvances DEF Step
<1>3. CASE Fault(r)
  BY <1>1, <1>3, FaultAdvances
<1> QED
  BY <1>2, <1>3 DEF Proceed, Break

LEMMA InitTypes == Init => TypeInv
<1> SUFFICES ASSUME Init
             PROVE  TypeInv
  OBVIOUS
<1>1. ASSUME NEW r \in Runs
      PROVE  options[r].bin \in Binaries
  BY DEF Init, Options
<1>2. operand \in [Runs -> Paths]
  BY <1>1 DEF Init, Paths
<1>3. got \in [Runs -> Results]
  BY TextsAre DEF Init, Results
<1>4. NoFile \in SymbolFiles
  BY DEF SymbolFiles
<1> QED
  BY <1>2, <1>3, <1>4 DEF Init, TypeInv, Places, Substeps, Calls, Scripts

LEMMA NextTypes == TypeInv /\ [Next]_vars => TypeInv'
<1> SUFFICES ASSUME TypeInv, [Next]_vars
             PROVE  TypeInv'
  OBVIOUS
<1>1. ASSUME NEW r \in Runs, Proceed(r) \/ Break(r)
      PROVE  TypeInv'
  BY <1>1, RunAdvances, AdvancesKeepsTypes
<1>2. CASE UNCHANGED vars
  BY <1>2 DEF vars, temp, TypeInv
<1> QED
  BY <1>1, <1>2 DEF Next, AllEnded

(* main.py:16-19, 39: every file holds something a tool may have written, and *)
(* a run is inside a call only where main.py calls run_bash, whatever other  *)
(* runs do at the same time and whatever fails.                             *)
THEOREM TypeCorrect == Spec => []TypeOK
<1>1. TypeInv => TypeOK
  BY DEF TypeInv, TypeOK, Places, Substeps
<1> QED
  BY <1>1, InitTypes, NextTypes, PTL DEF Spec

-----------------------------------------------------------------------------
(* What a run that is alone knows at each place, when no tool has left out   *)
(* anything (Whole = {TRUE}) or some may have (Whole = BOOLEAN).            *)

SymbolsOf(r, Whole) == {Text(options[r].mode, Slice(r), w) : w \in Whole}
UuidOf(r) == Text("uuid", Slice(r), TRUE)
VmOf(r, Whole) == {Text("vm", Slice(r), w) : w \in Whole}
CommandOf(r) == [tool |-> pc[r], path |-> operand[r], arch |-> Arch(r)]

(* Inside run_bash: nobody but r has written the script since r opened it.   *)
OwnCommand(r) ==
  /\ sub[r] = "write" => shell = Nothing
  /\ sub[r] = "read" => shell = CommandOf(r)
  /\ sub[r] \in {"tool", "ida"} => script[r] = CommandOf(r)
  /\ sub[r] = "ida" => pc[r] = "ida" /\ raw = Nothing

(* binary_path leads to the slice that was asked for, once lipo has returned,*)
(* and there is a tool for it.                                              *)
OwnSlice(r) ==
  /\ pc[r] = "lipo" => Kind[options[r].bin] = "fat"
  /\ pc[r] # "lipo" => Supported(r) /\ Contents(operand[r]) = Slice(r)
  /\ pc[r] \in {"objc", "openraw", "writeraw"} => options[r].mode = "objc"
  /\ pc[r] = "ida" => options[r].mode = "ida"

(* What r has collected and what is in the raw symbol file is of that slice. *)
OwnTexts(r, Whole) ==
  /\ pc[r] \in {"openraw", "writeraw", "openout", "writeout"} =>
       got[r].symbols \in SymbolsOf(r, Whole)
  /\ pc[r] = "writeraw" => raw = Nothing
  /\ pc[r] \in {"uuid", "vm", "format"} => raw \in SymbolsOf(r, Whole)
  /\ pc[r] \in {"vm", "format", "openout", "writeout"} => got[r].uuid = UuidOf(r)
  /\ pc[r] \in {"format", "openout", "writeout"} => got[r].vm \in VmOf(r, Whole)
  /\ pc[r] = "writeout" => output[OutputPath(r)] = Torn

OnTrack(r, Whole) == OwnCommand(r) /\ OwnSlice(r) /\ OwnTexts(r, Whole)

Alone(r) == Overlapping(r) = {}

(* Runs that do not overlap, an IDA that always opens its file, and a /tmp    *)
(* that is never full.                                                      *)
Sequential == MaxActive = 1 /\ "fopen" \notin Faults /\ "tmp" \notin Faults

IInv ==
  /\ TypeInv
  /\ \A r \in Runs \ disturbed : Active(r) => Alone(r) /\ OnTrack(r, {TRUE})
  /\ Sequential => \A r \in Runs : Active(r) => Alone(r) /\ OnTrack(r, BOOLEAN)

(* What a step of r that is on its track leads to: further along it, or to   *)
(* the end that is right for what r was asked.                              *)
KeepsTrack(r, Whole) ==
  /\ Active(r)' => OnTrack(r, Whole)'
  /\ Ended(r)' => IF Supported(r)
                    THEN /\ pc'[r] = "ok"
                         /\ output'[options[r].bin].symbols \in SymbolsOf(r, Whole)
                         /\ output'[options[r].bin].uuid = UuidOf(r)
                         /\ output'[options[r].bin].vm \in VmOf(r, Whole)
                         /\ output'[options[r].bin] \in Results
                    ELSE pc'[r] = "failed" /\ UNCHANGED output

(* What r was asked for does not change. *)
LEMMA SameRequest ==
  ASSUME UNCHANGED options, NEW r \in Runs, NEW Whole
  PROVE  /\ SymbolsOf(r, Whole)' = SymbolsOf(r, Whole) /\ UuidOf(r)' = UuidOf(r)
         /\ VmOf(r, Whole)' = VmOf(r, Whole) /\ Slice(r)' = Slice(r)
         /\ Supported(r)' = Supported(r) /\ Arch(r)' = Arch(r)
         /\ OutputPath(r)' = OutputPath(r)
BY DEF SymbolsOf, UuidOf, VmOf, Slice, SliceOf, Supported, Arch, OutputPath

LEMMA ListFunctionsOnTrack ==
  ASSUME TypeInv, NEW r \in Runs, UNCHANGED options, NEW Whole,
         ListFunctions(r), Contents(operand[r])' = Slice(r),
         Kind[options[r].bin] \in {"fat", Arch(r)}, UNCHANGED output
  PROVE  KeepsTrack(r, Whole)
<1>1. PICK l \in {"objc", "ida", "failed"} :
        /\ pc' = [pc EXCEPT ![r] = l] /\ sub' = [sub EXCEPT ![r] = "open"]
        /\ l = "objc" => options[r].mode = "objc"
        /\ l = "ida" => options[r].mode # "objc" /\ options[r].ida
        /\ l = "failed" => options[r].mode # "objc" /\ ~options[r].ida
  BY DEF ListFunctions, Goto
<1>2. pc'[r] = l /\ sub'[r] = "open" /\ options[r].mode \in {"objc", "ida"}
  BY <1>1, OptionsAre DEF TypeInv
<1>3. CASE l = "failed"
  <2>1. ~Supported(r)
    BY <1>1, <1>3 DEF Supported
  <2> QED
    BY <1>2, <1>3, <2>1 DEF KeepsTrack, Active
<1>4. CASE l # "failed"
  <2>1. Supported(r)
    BY <1>1, <1>4 DEF Supported
  <2>2. OwnSlice(r)'
    BY <1>1, <1>2, <1>4, <2>1, SameRequest DEF OwnSlice
  <2>3. OwnCommand(r)' /\ OwnTexts(r, Whole)'
    BY <1>1, <1>2, <1>4 DEF OwnCommand, OwnTexts
  <2> QED
    BY <1>1, <1>2, <1>4, <2>2, <2>3 DEF KeepsTrack, OnTrack, Ended
<1> QED
  BY <1>3, <1>4

LEMMA StartOnTrack ==
  ASSUME TypeInv, NEW r \in Runs, UNCHANGED options, NEW Whole, Start(r)
  PROVE  KeepsTrack(r, Whole)
<1>1. /\ pc[r] = "new" /\ operand[r] = <<"input", options[r].bin>>
      /\ UNCHANGED <<operand, thin, output>>
  BY DEF Start, TypeInv, temp
<1>2. CASE Kind[options[r].bin] = "fat"
  <2>1. Moves(r, "lipo", "open")
    <3>1. Kind[options[r].bin] # Arch(r)
      BY <1>2, OptionsAre DEF Archs
    <3> QED
      BY <1>2, <3>1, GotoMoves DEF Start
  <2>2. pc'[r] = "lipo" /\ sub'[r] = "open"
    BY <2>1 DEF Moves, TypeInv
  <2> QED
    BY <1>2, <2>2 DEF KeepsTrack, OnTrack, OwnSlice, OwnCommand, OwnTexts, Ended
<1>3. CASE Kind[options[r].bin] = Arch(r)
  <2>1. Kind[options[r].bin] # "fat"
    BY <1>3, OptionsAre DEF Archs
  <2>2. ListFunctions(r)
    BY <1>3, <2>1 DEF Start
  <2>3. Contents(operand[r])' = Slice(r)
    BY <1>1, <1>3 DEF Contents, Slice, SliceOf, Arch
  <2> QED
    BY <1>1, <1>3, <2>2, <2>3, ListFunctionsOnTrack
<1>4. CASE Kind[options[r].bin] \notin {"fat", Arch(r)}
  <2>1. Moves(r, "failed", "open")
    BY <1>4, GotoMoves DEF Start
  <2>2. pc'[r] = "failed" /\ ~Supported(r)
    BY <1>4, <2>1 DEF Moves, TypeInv, Supported
  <2> QED
    BY <1>1, <2>2 DEF KeepsTrack, Active
<1> QED
  BY <1>2, <1>3, <1>4

(* Steps that leave the place, the slice and the texts as they are. *)
LEMMA SameTexts ==
  ASSUME NEW r \in Runs, NEW Whole, OnTrack(r, Whole), pc' = pc,
         UNCHANGED <<options, operand, got, thin, raw, output>>
  PROVE  OwnSlice(r)' /\ OwnTexts(r, Whole)'
<1>1. OwnSlice(r)'
  BY SameRequest DEF OnTrack, OwnSlice, Contents
<1>2. OwnTexts(r, Whole)'
  BY SameRequest DEF OnTrack, OwnTexts
<1> QED
  BY <1>1, <1>2

LEMMA ScriptOnTrack ==
  ASSUME TypeInv, NEW r \in Runs, UNCHANGED options, NEW Whole, OnTrack(r, Whole),
         OpenScript(r) \/ WriteScript(r) \/ ReadScript(r)
  PROVE  KeepsTrack(r, Whole)
<1>1. pc' = pc /\ pc[r] \in Calls /\ UNCHANGED <<operand, got, thin, raw, output>>
  BY DEF OpenScript, WriteScript, ReadScript, Substep, temp
<1>2. OwnSlice(r)' /\ OwnTexts(r, Whole)'
  BY <1>1, SameTexts
<1>3. CommandOf(r)' = CommandOf(r)
  BY <1>1, SameRequest DEF CommandOf
<1>4. OwnCommand(r)'
  <2>1. CASE OpenScript(r)
    <3>1. sub'[r] = "write" /\ shell' = Nothing
      BY <2>1 DEF OpenScript, Substep, TypeInv
    <3> QED
      BY <3>1 DEF OwnCommand
  <2>2. CASE WriteScript(r)
    <3>1. sub[r] = "write" /\ sub'[r] = "read" /\ shell' \in Overwrite(shell, Nothing, CommandOf(r))
      BY <2>2 DEF WriteScript, Substep, TypeInv, CommandOf
    <3>2. shell = Nothing
      BY <3>1 DEF OnTrack, OwnCommand
    <3> QED
      BY <1>3, <3>1, <3>2 DEF OwnCommand, Overwrite
  <2>3. CASE ReadScript(r)
    <3>1. sub[r] = "read" /\ sub'[r] = "tool" /\ script'[r] = shell
      BY <2>3 DEF ReadScript, Substep, TypeInv
    <3>2. shell = CommandOf(r)
      BY <3>1 DEF OnTrack, OwnCommand
    <3> QED
      BY <1>3, <3>1, <3>2 DEF OwnCommand
  <2> QED
    BY <2>1, <2>2, <2>3
<1> QED
  BY <1>1, <1>2, <1>4 DEF KeepsTrack, OnTrack, Ended, Calls

(* A tool that runs is the one r has called, on the path r has given it. *)
LEMMA ToolIsOwn ==
  ASSUME TypeInv, NEW r \in Runs, NEW Whole, OnTrack(r, Whole),
         sub[r] \in {"tool", "ida"}
  PROVE  /\ pc[r] \in Calls /\ script[r].tool = pc[r] /\ script[r].arch = Arch(r)
         /\ pc[r] = "lipo" => script[r].path = <<"input", options[r].bin>>
         /\ pc[r] # "lipo" => Source(r) = Slice(r) /\ IsSlice(Source(r))
                              /\ Source(r)[2] = Arch(r)
<1>1. pc[r] \in Calls
  BY DEF TypeInv
<1>2. script[r].tool = pc[r] /\ script[r].arch = Arch(r) /\ script[r].path = operand[r]
  BY DEF OnTrack, OwnCommand, CommandOf
<1>3. pc[r] = "lipo" => operand[r] = <<"input", options[r].bin>>
  BY DEF TypeInv
<1>4. pc[r] # "lipo" => Source(r) = Slice(r)
  BY <1>2 DEF OnTrack, OwnSlice, Source
<1>5. IsSlice(Slice(r)) /\ Slice(r)[2] = Arch(r)
  BY OptionsAre DEF IsSlice, Slice, SliceOf, Arch, NoSlice
<1> QED
  BY <1>1, <1>2, <1>3, <1>4, <1>5

(* objc-symbols has printed methods of the slice. *)
LEMMA ObjcOnTrack ==
  ASSUME TypeInv, NEW r \in Runs, NEW Whole, OnTrack(r, Whole), pc[r] = "objc",
         NEW out \in SymbolsOf(r, Whole), Returned(r, 0, out),
         UNCHANGED <<options, script, temp, output>>
  PROVE  KeepsTrack(r, Whole)
<1>1. options[r].mode = "objc"
  BY DEF OnTrack, OwnSlice
<1>2. out.tool = "objc"
  BY <1>1 DEF SymbolsOf, Text
<1>3. Collect(r, "symbols", out) /\ Goto(r, "openraw") /\ UNCHANGED operand
  BY <1>2 DEF Returned, StatusChecked, Parsed
<1>4. pc'[r] = "openraw" /\ sub'[r] = "open" /\ got'[r].symbols = out
  BY <1>3 DEF Goto, Collect, TypeInv, Results
<1>5. OwnSlice(r)'
  BY <1>1, <1>3, <1>4, SameRequest DEF OnTrack, OwnSlice, Contents, temp
<1>6. OwnCommand(r)' /\ OwnTexts(r, Whole)'
  BY <1>4, SameRequest DEF OwnCommand, OwnTexts
<1> QED
  BY <1>4, <1>5, <1>6 DEF KeepsTrack, OnTrack, Ended

(* macho-dump has printed the uuid of the slice. *)
LEMMA UuidOnTrack ==
  ASSUME TypeInv, NEW r \in Runs, NEW Whole, OnTrack(r, Whole), pc[r] = "uuid",
         Returned(r, 0, UuidOf(r)), UNCHANGED <<options, script, temp, output>>
  PROVE  KeepsTrack(r, Whole)
<1>1. Collect(r, "uuid", UuidOf(r)) /\ Goto(r, "vm") /\ UNCHANGED operand
  BY DEF Returned, StatusChecked
<1>2. pc'[r] = "vm" /\ sub'[r] = "open" /\ got'[r].uuid = UuidOf(r)
  BY <1>1 DEF Goto, Collect, TypeInv, Results
<1>3. OwnSlice(r)'
  BY <1>1, <1>2, SameRequest DEF OnTrack, OwnSlice, Contents, temp
<1>4. OwnCommand(r)' /\ OwnTexts(r, Whole)'
  BY <1>2, SameRequest DEF OnTrack, OwnCommand, OwnTexts, temp
<1> QED
  BY <1>2, <1>3, <1>4 DEF KeepsTrack, OnTrack, Ended

(* macho-dump has printed addresses of the slice. *)
LEMMA VmOnTrack ==
  ASSUME TypeInv, NEW r \in Runs, NEW Whole, OnTrack(r, Whole), pc[r] = "vm",
         NEW out \in VmOf(r, Whole), Returned(r, 0, out),
         UNCHANGED <<options, script, temp, output>>
  PROVE  KeepsTrack(r, Whole)
<1>1. out.tool = "vm"
  BY DEF VmOf, Text
<1>2. Collect(r, "vm", out) /\ Goto(r, "format") /\ UNCHANGED operand
  BY <1>1 DEF Returned, StatusChecked, Parsed
<1>3. pc'[r] = "format" /\ sub'[r] = "open" /\ got'[r].vm = out
      /\ got'[r].uuid = got[r].uuid
  BY <1>2 DEF Goto, Collect, TypeInv, Results
<1>4. OwnSlice(r)'
  BY <1>2, <1>3, SameRequest DEF OnTrack, OwnSlice, Contents, temp
<1>5. OwnCommand(r)' /\ OwnTexts(r, Whole)'
  BY <1>3, SameRequest DEF OnTrack, OwnCommand, OwnTexts, temp
<1> QED
  BY <1>3, <1>4, <1>5 DEF KeepsTrack, OnTrack, Ended

LEMMA ToolOnTrack ==
  ASSUME TypeInv, NEW r \in Runs, UNCHANGED options, NEW Whole, TRUE \in Whole,
         OnTrack(r, Whole),
         \/ BrokenScript(r) \/ Lipo(r) \/ ObjcSymbols(r) \/ ExtractUuid(r)
         \/ ExtractVm(r) \/ IdaOpens(r) \/ IdaCloses(r)
  PROVE  KeepsTrack(r, Whole)
<1>1. sub[r] \in {"tool", "ida"}
  BY DEF BrokenScript, Lipo, ObjcSymbols, ExtractUuid, ExtractVm, IdaOpens, IdaCloses,
         Executes
<1>2. /\ pc[r] \in Calls /\ script[r].tool = pc[r] /\ script[r].arch = Arch(r)
      /\ pc[r] = "lipo" => script[r].path = <<"input", options[r].bin>>
      /\ pc[r] # "lipo" => Source(r) = Slice(r) /\ IsSlice(Source(r))
                           /\ Source(r)[2] = Arch(r)
  BY <1>1, ToolIsOwn
<1>3. CASE BrokenScript(r)
  BY <1>2, <1>3 DEF BrokenScript, Executes, Calls
<1>4. CASE Lipo(r)
  <2>1. pc[r] = "lipo" /\ UNCHANGED <<script, shell, raw, output>>
        /\ thin' = [thin EXCEPT ![Arch(r)] = <<script[r].path[2], Arch(r)>>]
        /\ Returned(r, 0, Nothing)
    BY <1>2, <1>4 DEF Lipo, Executes
  <2>2. /\ operand' = [operand EXCEPT ![r] = <<"thin", Arch(r)>>]
        /\ ListFunctions(r)
    BY <2>1 DEF Returned, StatusChecked
  <2>3. thin'[Arch(r)] = Slice(r)
    BY <1>2, <2>1, OptionsAre DEF TypeInv, Slice, SliceOf, Arch
  <2>4. Contents(operand[r])' = Slice(r)
    BY <2>2, <2>3 DEF Contents, TypeInv
  <2>5. Kind[options[r].bin] = "fat"
    BY <2>1 DEF OnTrack, OwnSlice
  <2> QED
    BY <2>1, <2>2, <2>4, <2>5, ListFunctionsOnTrack
<1>5. CASE ObjcSymbols(r)
  <2>1. pc[r] = "objc" /\ UNCHANGED <<script, temp, output>>
        /\ Returned(r, 0, Text("objc", Slice(r), TRUE))
    BY <1>2, <1>5 DEF ObjcSymbols, Executes
  <2>2. Text("objc", Slice(r), TRUE) \in SymbolsOf(r, Whole)
    BY <2>1 DEF OnTrack, OwnSlice, SymbolsOf
  <2> QED
    BY <2>1, <2>2, ObjcOnTrack
<1>6. CASE ExtractUuid(r)
  <2>1. pc[r] = "uuid" /\ UNCHANGED <<script, temp, output>> /\ Returned(r, 0, UuidOf(r))
    BY <1>2, <1>6 DEF ExtractUuid, Executes, UuidOf
  <2> QED
    BY <2>1, UuidOnTrack
<1>7. CASE ExtractVm(r)
  <2>1. pc[r] = "vm" /\ UNCHANGED <<script, temp, output>>
        /\ Returned(r, 0, Text("vm", Slice(r), TRUE))
    BY <1>2, <1>7 DEF ExtractVm, Executes
  <2>2. Text("vm", Slice(r), TRUE) \in VmOf(r, Whole)
    BY DEF VmOf
  <2> QED
    BY <2>1, <2>2, VmOnTrack
<1>8. CASE IdaOpens(r)
  <2>1. /\ pc[r] = "ida" /\ pc' = pc /\ sub'[r] = "ida" /\ raw' = Nothing
        /\ UNCHANGED <<operand, script, got, shell, thin, output>>
    BY <1>2, <1>8 DEF IdaOpens, Executes, Substep, TypeInv
  <2>2. OwnCommand(r)'
    BY <1>1, <2>1, SameRequest DEF OnTrack, OwnCommand, CommandOf
  <2>3. OwnSlice(r)' /\ OwnTexts(r, Whole)'
    BY <2>1, SameRequest DEF OnTrack, OwnSlice, OwnTexts, Contents
  <2> QED
    BY <2>1, <2>2, <2>3 DEF KeepsTrack, OnTrack, Ended
<1>9. CASE IdaCloses(r)
  <2>1. /\ pc[r] = "ida" /\ raw = Nothing /\ options[r].mode = "ida"
        /\ UNCHANGED <<script, shell, thin, output>>
    BY <1>9 DEF IdaCloses, OnTrack, OwnCommand, OwnSlice
  <2>2. raw' \in Overwrite(raw, Nothing, Text("ida", Slice(r), TRUE)) /\ Returned(r, 0, Nothing)
    BY <1>2, <1>9, <2>1 DEF IdaCloses
  <2>3. raw' \in SymbolsOf(r, Whole)
    BY <2>1, <2>2 DEF Overwrite, SymbolsOf
  <2>4. pc'[r] = "uuid" /\ sub'[r] = "open" /\ UNCHANGED <<operand, got>>
    BY <2>1, <2>2 DEF Returned, StatusChecked, Goto, TypeInv
  <2>5. OwnSlice(r)'
    BY <2>1, <2>4, SameRequest DEF OnTrack, OwnSlice, Contents
  <2>6. OwnCommand(r)' /\ OwnTexts(r, Whole)'
    BY <2>3, <2>4, SameRequest DEF OnTrack, OwnCommand, OwnTexts
  <2> QED
    BY <2>4, <2>5, <2>6 DEF KeepsTrack, OnTrack, Ended
<1> QED
  BY <1>3, <1>4, <1>5, <1>6, <1>7, <1>8, <1>9

LEMMA WriterOnTrack ==
  ASSUME TypeInv, NEW r \in Runs, UNCHANGED options, NEW Whole, OnTrack(r, Whole),
         \/ OpenRaw(r) \/ WriteRaw(r)
         \/ FormatRead(r) \/ FormatOpen(r) \/ FormatWrite(r)
  PROVE  KeepsTrack(r, Whole)
<1>1. CASE OpenRaw(r)
  <2>1. /\ pc[r] = "openraw" /\ pc'[r] = "writeraw" /\ sub'[r] = "open" /\ raw' = Nothing
        /\ UNCHANGED <<operand, script, got, shell, thin, output>>
    BY <1>1 DEF OpenRaw, Goto, TypeInv
  <2>2. OwnSlice(r)' /\ OwnTexts(r, Whole)' /\ OwnCommand(r)'
    BY <2>1, SameRequest DEF OnTrack, OwnSlice, OwnTexts, OwnCommand, Contents
  <2> QED
    BY <2>1, <2>2 DEF KeepsTrack, OnTrack, Ended
<1>2. CASE WriteRaw(r)
  <2>1. /\ pc[r] = "writeraw" /\ pc'[r] = "uuid" /\ sub'[r] = "open"
        /\ raw' \in Overwrite(raw, Nothing, got[r].symbols)
        /\ UNCHANGED <<operand, script, got, shell, thin, output>>
    BY <1>2 DEF WriteRaw, Goto, TypeInv
  <2>2. raw = Nothing /\ got[r].symbols \in SymbolsOf(r, Whole)
    BY <2>1 DEF OnTrack, OwnTexts
  <2>3. OwnTexts(r, Whole)' /\ OwnCommand(r)'
    BY <2>1, <2>2, SameRequest DEF OwnTexts, OwnCommand, Overwrite
  <2>4. OwnSlice(r)'
    BY <2>1, SameRequest DEF OnTrack, OwnSlice, Contents
  <2> QED
    BY <2>1, <2>3, <2>4 DEF KeepsTrack, OnTrack, Ended
<1>3. CASE FormatRead(r)
  <2>1. /\ pc[r] = "format" /\ Collect(r, "symbols", raw)
        /\ UNCHANGED <<operand, script, temp, output>>
    BY <1>3 DEF FormatRead
  <2>2. /\ raw \in SymbolsOf(r, Whole) /\ got[r].uuid = UuidOf(r)
        /\ got[r].vm \in VmOf(r, Whole)
    BY <2>1 DEF OnTrack, OwnTexts
  <2>3. raw.tool \in {"objc", "ida"} /\ got[r].uuid.tool = "uuid"
    BY <2>2, OptionsAre DEF SymbolsOf, UuidOf, Text
  <2>4. raw \notin {NoFile, Garbled}
    BY <2>3 DEF NoFile, Garbled
  <2>5. pc'[r] = "openout" /\ sub'[r] = "open"
    BY <1>3, <2>3, <2>4 DEF FormatRead, Goto, TypeInv
  <2>6. got'[r].symbols = raw /\ got'[r].uuid = got[r].uuid /\ got'[r].vm = got[r].vm
    BY <2>1 DEF Collect, TypeInv, Results
  <2>7. OwnTexts(r, Whole)' /\ OwnCommand(r)'
    BY <2>2, <2>5, <2>6, SameRequest DEF OwnTexts, OwnCommand
  <2>8. OwnSlice(r)'
    BY <2>1, <2>5, SameRequest DEF OnTrack, OwnSlice, Contents, temp
  <2> QED
    BY <2>5, <2>7, <2>8 DEF KeepsTrack, OnTrack, Ended
<1>4. CASE FormatOpen(r)
  <2>1. /\ pc[r] = "openout" /\ pc'[r] = "writeout" /\ sub'[r] = "open"
        /\ UNCHANGED <<operand, script, got, temp>>
        /\ output' = [output EXCEPT ![OutputPath(r)] = Torn]
    BY <1>4 DEF FormatOpen, Goto, TypeInv
  <2>2. output'[OutputPath(r)] = Torn
    BY <2>1, OptionsAre DEF OutputPath, TypeInv
  <2>3. OwnTexts(r, Whole)' /\ OwnCommand(r)'
    BY <2>1, <2>2, SameRequest DEF OnTrack, OwnTexts, OwnCommand
  <2>4. OwnSlice(r)'
    BY <2>1, SameRequest DEF OnTrack, OwnSlice, Contents, temp
  <2> QED
    BY <2>1, <2>3, <2>4 DEF KeepsTrack, OnTrack, Ended
<1>5. CASE FormatWrite(r)
  <2>1. /\ pc[r] = "writeout" /\ pc'[r] = "ok"
        /\ \E text \in Overwrite(output[OutputPath(r)], Torn, got[r]) :
             output' = [output EXCEPT ![OutputPath(r)] = text]
    BY <1>5 DEF FormatWrite, Goto, TypeInv
  <2>2. output[OutputPath(r)] = Torn
    BY <2>1 DEF OnTrack, OwnTexts
  <2>3. output'[options[r].bin] = got[r]
    BY <2>1, <2>2, OptionsAre DEF OutputPath, Overwrite, TypeInv
  <2>4. got[r] \in Results
    BY DEF TypeInv
  <2>5. Supported(r)
    BY <2>1 DEF OnTrack, OwnSlice
  <2>6. /\ got[r].symbols \in SymbolsOf(r, Whole) /\ got[r].uuid = UuidOf(r)
        /\ got[r].vm \in VmOf(r, Whole)
    BY <2>1 DEF OnTrack, OwnTexts
  <2> QED
    BY <2>1, <2>3, <2>4, <2>5, <2>6 DEF KeepsTrack, Active
<1> QED
  BY <1>1, <1>2, <1>3, <1>4, <1>5

(* Every step of a run that is alone, begins or is on its track. *)
LEMMA StepOnTrack ==
  ASSUME TypeInv, NEW r \in Runs, UNCHANGED options, NEW Whole, TRUE \in Whole,
         Active(r) => OnTrack(r, Whole), Step(r)
  PROVE  KeepsTrack(r, Whole)
<1>1. CASE Start(r)
  BY <1>1, StartOnTrack
<1>2. CASE ~Start(r)
  <2>1. Active(r)
    BY <1>2 DEF Step, Active, OpenScript, WriteScript, ReadScript, BrokenScript, Lipo,
                ObjcSymbols, ExtractUuid, ExtractVm, IdaOpens, IdaCloses, OpenRaw,
                WriteRaw, FormatRead, FormatOpen, FormatWrite, Executes, Calls, TypeInv
  <2> QED
    BY <1>2, <2>1, ScriptOnTrack, ToolOnTrack, WriterOnTrack DEF Step
<1> QED
  BY <1>1, <1>2

(* A fault leaves a run on its track, or makes it fail, unless it is one of  *)
(* those nobody notices: DSYMCreator's flush fails, IDA exits with status 0 *)
(* without having opened its file, /tmp is full.                            *)
LEMMA FaultOnTrack ==
  ASSUME TypeInv, NEW r \in Runs, UNCHANGED options, Active(r) => OnTrack(r, BOOLEAN),
         Fault(r), ~FlushFails(r), "fopen" \notin Faults, "tmp" \notin Faults
  PROVE  /\ Active(r) /\ UNCHANGED output
         /\ pc'[r] = "failed" \/ (Active(r)' /\ OnTrack(r, BOOLEAN)')
<1>1. Active(r)
  BY DEF Fault, Kill, ToolFails, FormatFails, IdaCannotOpen, TmpIsFull, Executes, Active,
         Calls, TypeInv
<1>2. ASSUME Goto(r, "failed")
      PROVE  pc'[r] = "failed"
  BY <1>2 DEF Goto, TypeInv
<1>3. CASE Kill(r) \/ FormatFails(r)
  BY <1>1, <1>2, <1>3 DEF Kill, FormatFails
<1>4. CASE ToolFails(r)
  <2>1. sub[r] \in {"tool", "ida"} /\ UNCHANGED <<script, temp, output>>
    BY <1>4 DEF ToolFails, Executes
  <2>2. pc[r] \in Calls /\ script[r].tool = pc[r]
        /\ (pc[r] # "lipo" => Source(r) = Slice(r))
    BY <1>1, <2>1, ToolIsOwn
  <2>3. CASE Returned(r, 1, Nothing)
    BY <1>1, <1>2, <2>1, <2>3 DEF Returned, StatusChecked
  <2>4. CASE pc[r] \in {"objc", "vm"} /\ Returned(r, 0, Nothing)
    BY <1>1, <1>2, <2>1, <2>4 DEF Returned, StatusChecked, Parsed, Nothing
  <2>5. CASE pc[r] = "objc" /\ Returned(r, 0, Text("objc", Slice(r), FALSE))
    <3>1. Text("objc", Slice(r), FALSE) \in SymbolsOf(r, BOOLEAN)
      BY <1>1, <2>5 DEF OnTrack, OwnSlice, SymbolsOf
    <3>2. KeepsTrack(r, BOOLEAN)
      BY <1>1, <2>1, <2>5, <3>1, ObjcOnTrack
    <3>3. pc'[r] = "openraw"
      BY <2>5 DEF Returned, StatusChecked, Parsed, Text, Goto, TypeInv
    <3> QED
      BY <1>1, <2>1, <3>2, <3>3 DEF KeepsTrack, Active
  <2>6. CASE pc[r] = "vm" /\ Returned(r, 0, Text("vm", Slice(r), FALSE))
    <3>1. Text("vm", Slice(r), FALSE) \in VmOf(r, BOOLEAN)
      BY DEF VmOf
    <3>2. KeepsTrack(r, BOOLEAN)
      BY <1>1, <2>1, <2>6, <3>1, VmOnTrack
    <3>3. pc'[r] = "format"
      BY <2>6 DEF Returned, StatusChecked, Parsed, Text, Goto, TypeInv
    <3> QED
      BY <1>1, <2>1, <3>2, <3>3 DEF KeepsTrack, Active
  <2> QED
    BY <1>4, <2>2, <2>3, <2>4, <2>5, <2>6 DEF ToolFails, Executes
<1> QED
  BY <1>3, <1>4 DEF Fault, IdaCannotOpen, TmpIsFull

(* DSYMCreator's unseen failure leaves the beginning of an image that is     *)
(* made from the slice the run was asked for.                               *)
LEMMA FlushLeavesOwn ==
  ASSUME TypeInv, NEW r \in Runs, OnTrack(r, BOOLEAN), FlushFails(r)
  PROVE  /\ output[options[r].bin] = Torn
         /\ output' = [output EXCEPT ![options[r].bin] = Cut(got[r])]
         /\ Cut(got[r]) \in CutsOf(options[r]) /\ pc'[r] = "ok"
<1>1. pc[r] = "writeout" /\ pc'[r] = "ok" /\ "flush" \in Faults
  BY DEF FlushFails, Goto, TypeInv
<1>2. output[options[r].bin] = Torn
  BY <1>1 DEF OnTrack, OwnTexts, OutputPath
<1>3. output' = [output EXCEPT ![options[r].bin] = Cut(got[r])]
  BY <1>2 DEF FlushFails, OutputPath, Overwrite
<1>4. /\ got[r].symbols \in SymbolsOf(r, BOOLEAN) /\ got[r].uuid = UuidOf(r)
      /\ got[r].vm \in VmOf(r, BOOLEAN) /\ got[r] \in Results
  BY <1>1 DEF OnTrack, OwnTexts, TypeInv
<1>5. got[r] \in ImagesOf(options[r])
  BY <1>4 DEF Results, ImagesOf, SymbolsOf, UuidOf, VmOf, Slice
<1> QED
  BY <1>1, <1>2, <1>3, <1>5 DEF CutsOf

-----------------------------------------------------------------------------
(* The inductive invariant.                                                 *)

LEMMA OthersStay ==
  ASSUME TypeInv, NEW r \in Runs, Proceed(r) \/ Break(r)
  PROVE  /\ pc'[r] # "new" /\ Overlapping(r)' = Overlapping(r)
         /\ \A s \in Runs \ {r} : pc'[s] = pc[s]
<1>1. PICK l \in Places \ {"new"} : pc' = [pc EXCEPT ![r] = l]
  BY RunAdvances, AdvancesKeepsTypes
<1>2. pc'[r] # "new" /\ \A s \in Runs \ {r} : pc'[s] = pc[s]
  BY <1>1 DEF TypeInv
<1> QED
  BY <1>2 DEF Overlapping, Active

(* A run that is not active can only start. *)
LEMMA OthersStart ==
  ASSUME TypeInv, NEW r \in Runs, ~Active(r), Proceed(r) \/ Break(r)
  PROVE  Start(r)
BY DEF Proceed, Break, Step, Fault, Kill, ToolFails, FormatFails, FlushFails, TmpIsFull,
       IdaCannotOpen, Active, OpenScript, WriteScript, ReadScript, BrokenScript, Lipo, ObjcSymbols, ExtractUuid,
       ExtractVm, IdaOpens, IdaCloses, OpenRaw, WriteRaw, FormatRead, FormatOpen,
       FormatWrite, Executes, Calls, TypeInv

(* With one run at a time, a step is always that of the only one. *)
LEMMA SequentialAlone ==
  ASSUME IInv, Sequential, NEW r \in Runs, Proceed(r) \/ Break(r)
  PROVE  Alone(r)
<1>1. CASE Active(r)
  BY <1>1 DEF IInv
<1>2. CASE ~Active(r)
  <2> DEFINE actives == {s \in Runs : Active(s)}
  <2>1. Cardinality(actives) < 1
    BY <1>2, OthersStart DEF IInv, Start, Sequential
  <2>2. IsFiniteSet(actives)
    BY FS_Subset, PipelineAssumption
  <2>3. Cardinality(actives) = 0
    BY <2>1, <2>2, FS_CardinalityType
  <2>4. actives = {}
    BY <2>2, <2>3, FS_EmptySet
  <2> QED
    BY <2>4 DEF Alone, Overlapping
<1> QED
  BY <1>1, <1>2

(* A step of a run that has never been disturbed, before and after. *)
LEMMA UndisturbedStep ==
  ASSUME IInv, NEW r \in Runs, Proceed(r) \/ Break(r), r \notin disturbed'
  PROVE  Alone(r) /\ KeepsTrack(r, {TRUE})
<1>1. Step(r) /\ UNCHANGED options /\ r \notin disturbed
  BY DEF Proceed, Break
<1>2. Alone(r)
  BY <1>1 DEF Proceed, Break, Alone
<1>3. Active(r) => OnTrack(r, {TRUE})
  BY <1>1 DEF IInv
<1> QED
  BY <1>1, <1>2, <1>3, StepOnTrack DEF IInv

(* A step of a run without any overlapping. *)
LEMMA SequentialStep ==
  ASSUME IInv, Sequential, NEW r \in Runs, Proceed(r) \/ Break(r)
  PROVE  \/ Proceed(r) /\ KeepsTrack(r, BOOLEAN)
         \/ /\ Active(r) /\ UNCHANGED output
            /\ pc'[r] = "failed" \/ (Active(r)' /\ OnTrack(r, BOOLEAN)')
         \/ FlushFails(r) /\ OnTrack(r, BOOLEAN)
<1>1. UNCHANGED options /\ (Active(r) => OnTrack(r, BOOLEAN))
  BY DEF Proceed, Break, IInv
<1>2. CASE Proceed(r)
  BY <1>1, <1>2, StepOnTrack DEF Proceed, IInv
<1>3. CASE Break(r) /\ ~FlushFails(r)
  BY <1>1, <1>3, FaultOnTrack DEF Break, IInv, Sequential
<1>4. CASE FlushFails(r)
  BY <1>1, <1>4 DEF FlushFails, Active
<1> QED
  BY <1>2, <1>3, <1>4

LEMMA InitIInv == Init => IInv
BY InitTypes DEF Init, IInv, Active

LEMMA RunKeepsIInv ==
  ASSUME IInv, NEW r \in Runs, Proceed(r) \/ Break(r)
  PROVE  IInv'
<1>1. TypeInv'
  BY RunAdvances, AdvancesKeepsTypes DEF IInv
<1>2. /\ Overlapping(r)' = Overlapping(r)
      /\ \A s \in Runs \ {r} : pc'[s] = pc[s]
  BY OthersStay DEF IInv
<1>3. disturbed \subseteq disturbed' /\ Overlapping(r) \subseteq disturbed'
  BY DEF Proceed, Break
<1>4. ASSUME NEW s \in Runs \ disturbed', Active(s)'
      PROVE  Alone(s)' /\ OnTrack(s, {TRUE})'
  <2>1. CASE s = r
    BY <1>2, <1>4, <2>1, UndisturbedStep DEF KeepsTrack, Alone
  <2>2. CASE s # r
    BY <1>2, <1>3, <1>4, <2>2 DEF Overlapping, Active
  <2> QED
    BY <2>1, <2>2
<1>5. ASSUME Sequential, NEW s \in Runs, Active(s)'
      PROVE  Alone(s)' /\ OnTrack(s, BOOLEAN)'
  <2>1. CASE s = r
    <3>1. Alone(s)'
      BY <1>2, <1>5, <2>1, SequentialAlone DEF Alone
    <3>2. pc'[s] \notin {"failed", "ok"}
      BY <1>5 DEF Active
    <3>3. ~FlushFails(r)
      BY <2>1, <3>2 DEF IInv, TypeInv, FlushFails, Goto
    <3> QED
      BY <1>5, <2>1, <3>1, <3>2, <3>3, SequentialStep DEF KeepsTrack
  <2>2. CASE s # r
    <3>1. s \in Overlapping(r)
      BY <1>2, <1>5, <2>2 DEF Overlapping, Active
    <3> QED
      BY <1>5, <3>1, SequentialAlone DEF Alone
  <2> QED
    BY <2>1, <2>2
<1> QED
  BY <1>1, <1>4, <1>5 DEF IInv, Sequential

LEMMA NextIInv == IInv /\ [Next]_vars => IInv'
<1> SUFFICES ASSUME IInv, [Next]_vars
             PROVE  IInv'
  OBVIOUS
<1>1. CASE UNCHANGED vars
  <2>1. TypeInv'
    BY NextTypes DEF IInv
  <2>2. ASSUME NEW r \in Runs
        PROVE  /\ Active(r)' = Active(r) /\ Alone(r)' = Alone(r)
               /\ \A Whole \in {{TRUE}, BOOLEAN} : OnTrack(r, Whole)' = OnTrack(r, Whole)
    BY <1>1 DEF vars, temp, Active, Alone, Overlapping, OnTrack, OwnCommand, OwnSlice,
                OwnTexts, CommandOf, SymbolsOf, UuidOf, VmOf, Slice, SliceOf, Supported,
                Arch, Contents, OutputPath
  <2>3. disturbed' = disturbed
    BY <1>1 DEF vars
  <2> QED
    BY <2>1, <2>2, <2>3 DEF IInv, Sequential
<1>2. CASE \E r \in Runs : Proceed(r) \/ Break(r)
  BY <1>2, RunKeepsIInv
<1> QED
  BY <1>1, <1>2 DEF Next, AllEnded

THEOREM Inductive == Spec => []IInv
BY InitIInv, NextIInv, PTL DEF Spec

-----------------------------------------------------------------------------
(* What the invariant is for.                                               *)

LEMMA StepMakesOwnImage ==
  ASSUME IInv, Sequential, [Next]_vars,
         NEW r \in Runs, ~Ended(r), pc'[r] = "ok"
  PROVE  output'[options[r].bin] \in ImagesOf(options[r]) \cup CutsOf(options[r])
<1>1. PICK t \in Runs : Proceed(t) \/ Break(t)
  BY DEF Next, AllEnded, Ended, vars
<1>2. t = r
  BY <1>1, OthersStay DEF IInv, Ended
<1>3. CASE KeepsTrack(r, BOOLEAN)
  <2>1. /\ output'[options[r].bin].symbols \in SymbolsOf(r, BOOLEAN)
        /\ output'[options[r].bin].uuid = UuidOf(r)
        /\ output'[options[r].bin].vm \in VmOf(r, BOOLEAN)
        /\ output'[options[r].bin] \in Results
    BY <1>3 DEF KeepsTrack, Ended
  <2> QED
    BY <2>1 DEF Results, ImagesOf, SymbolsOf, UuidOf, VmOf, Slice
<1>4. CASE FlushFails(r) /\ OnTrack(r, BOOLEAN)
  <2>1. /\ output' = [output EXCEPT ![options[r].bin] = Cut(got[r])]
        /\ Cut(got[r]) \in CutsOf(options[r])
    BY <1>4, FlushLeavesOwn DEF IInv
  <2> QED
    BY <2>1, OptionsAre DEF IInv, TypeInv
<1> QED
  BY <1>1, <1>2, <1>3, <1>4, SequentialStep DEF Active

(* main.py:101-129: without overlapping runs, and unless IDA fails to open   *)
(* its file with status 0 or /tmp is full, a run that ends well leaves a    *)
(* symbol file made from its own slice alone, whatever failed and killed    *)
(* runs left in /tmp; when its flush has failed unseen, the beginning of one.*)
THEOREM SuccessIsOwn == ASSUME Sequential PROVE Spec => SuccessIsOwnImage
<1>1. IInv /\ [Next]_vars =>
        [\A r \in Runs : ~Ended(r) /\ pc'[r] = "ok" =>
           output'[options[r].bin] \in ImagesOf(options[r]) \cup CutsOf(options[r])]_vars
  BY StepMakesOwnImage
<1> QED
  BY <1>1, Inductive, PTL DEF Spec, SuccessIsOwnImage

(* main.py:122: without overlapping runs, and unless IDA fails to open its   *)
(* file with status 0 or /tmp is full, the uuid that is formatted is the one *)
(* of the run's binary; with overlapping runs it need not be (the run       *)
(* overlap_uuid), nor when the command of lipo did not get into a full /tmp.*)
THEOREM UuidIsOwn == ASSUME Sequential PROVE Spec => []UuidFromBinary
<1>1. IInv => UuidFromBinary
  <2> SUFFICES ASSUME IInv, NEW r \in Runs, pc[r] \in {"openout", "writeout"}
               PROVE  got[r].uuid = Text("uuid", Slice(r), TRUE)
    BY DEF UuidFromBinary
  <2>1. Active(r)
    BY DEF Active
  <2>2. OwnTexts(r, BOOLEAN)
    BY <2>1 DEF IInv, OnTrack
  <2> QED
    BY <2>2 DEF OwnTexts, UuidOf
<1> QED
  BY <1>1, Inductive, PTL

LEMMA UndisturbedEnd ==
  ASSUME IInv, [Next]_vars, NEW r \in Runs, ~Ended(r), Ended(r)', r \notin disturbed'
  PROVE  IF Supported(r)
           THEN pc'[r] = "ok" /\ output'[options[r].bin] = CompleteImage(r)
           ELSE pc'[r] = "failed" /\ UNCHANGED output
<1>1. PICK t \in Runs : Proceed(t) \/ Break(t)
  BY DEF Next, AllEnded, Ended, vars
<1>2. t = r
  BY <1>1, OthersStay DEF IInv, Ended
<1>3. KeepsTrack(r, {TRUE})
  BY <1>1, <1>2, UndisturbedStep
<1>4. CASE Supported(r)
  <2>1. /\ pc'[r] = "ok"
        /\ output'[options[r].bin].symbols = Text(options[r].mode, Slice(r), TRUE)
        /\ output'[options[r].bin].uuid = Text("uuid", Slice(r), TRUE)
        /\ output'[options[r].bin].vm = Text("vm", Slice(r), TRUE)
        /\ output'[options[r].bin] \in Results
    BY <1>3, <1>4 DEF KeepsTrack, SymbolsOf, UuidOf, VmOf
  <2> QED
    BY <1>4, <2>1 DEF Results, CompleteImage
<1>5. CASE ~Supported(r)
  BY <1>3, <1>5 DEF KeepsTrack
<1> QED
  BY <1>4, <1>5

(* main.py:101-129: a run that meets no fault and overlaps no other succeeds *)
(* with everything in its file, also when other runs overlap among           *)
(* themselves and whatever they have left: no leftover makes it fail.       *)
THEOREM UndisturbedSucceed == Spec => UndisturbedRunSucceeds
<1>1. IInv /\ [Next]_vars =>
        [\A r \in Runs : ~Ended(r) /\ Ended(r)' /\ r \notin disturbed' =>
           IF Supported(r)
             THEN pc'[r] = "ok" /\ output'[options[r].bin] = CompleteImage(r)
             ELSE pc'[r] = "failed" /\ UNCHANGED output]_vars
  BY UndisturbedEnd
<1> QED
  BY <1>1, Inductive, PTL DEF Spec, UndisturbedRunSucceeds

-----------------------------------------------------------------------------
(* Refinement of SymbolJob.                                                 *)

JobStatus == [r \in Runs |-> IF Active(r) THEN "running" ELSE pc[r]]

(* Only the last two steps of a run touch its symbol file. *)
LEMMA OutputIsWritten ==
  ASSUME TypeInv, NEW r \in Runs, Proceed(r) \/ Break(r)
  PROVE  UNCHANGED output \/ FormatOpen(r) \/ FormatWrite(r) \/ FlushFails(r)
BY DEF Proceed, Break, Step, Fault, Start, OpenScript, WriteScript, ReadScript,
       BrokenScript, Lipo, ObjcSymbols, ExtractUuid, ExtractVm, IdaOpens, IdaCloses,
       OpenRaw, WriteRaw, FormatRead, Kill, ToolFails, FormatFails, TmpIsFull,
       IdaCannotOpen, temp

(* The exit status 0 of a run comes from writing its symbol file. *)
LEMMA OnlyWriteSucceeds ==
  ASSUME TypeInv, NEW r \in Runs, Proceed(r) \/ Break(r), pc'[r] = "ok"
  PROVE  FormatWrite(r) \/ FlushFails(r)
<1>1. Active(r)
  <2>1. Start(r) => \E l \in {"lipo", "objc", "ida", "failed"} : Goto(r, l)
    BY DEF Start, ListFunctions
  <2> QED
    BY <2>1, OthersStart DEF Goto, TypeInv
<1>2. ASSUME NEW l, Goto(r, l), l # "ok"
      PROVE  FALSE
  BY <1>2 DEF Goto, TypeInv
<1>3. ASSUME NEW l, Substep(r, l)
      PROVE  FALSE
  BY <1>1, <1>3 DEF Substep, Active
<1>4. ASSUME NEW status, NEW out, pc[r] \in Calls, Returned(r, status, out)
      PROVE  FALSE
  BY <1>2, <1>4 DEF Returned, ListFunctions, Parsed, Calls
<1>5. CASE Step(r)
  BY <1>1, <1>2, <1>3, <1>4, <1>5
     DEF Step, Start, Active, OpenScript, WriteScript, ReadScript, BrokenScript, Lipo,
         ObjcSymbols, ExtractUuid, ExtractVm, IdaOpens, IdaCloses, OpenRaw, WriteRaw,
         FormatRead, FormatOpen, Executes, TypeInv
<1>6. CASE Fault(r)
  <2>1. ~TmpIsFull(r)
    BY <1>2, <1>3, <1>4 DEF TmpIsFull, TypeInv
  <2> QED
    BY <1>2, <1>4, <1>6, <2>1
       DEF Fault, Kill, ToolFails, FormatFails, IdaCannotOpen, Executes, TypeInv
<1> QED
  BY <1>5, <1>6 DEF Proceed, Break

(* The status of one run changes at a time. *)
LEMMA StatusMoves ==
  ASSUME TypeInv, NEW r \in Runs, Proceed(r) \/ Break(r)
  PROVE  /\ Active(r)' => JobStatus' = [JobStatus EXCEPT ![r] = "running"]
         /\ ~Active(r)' => JobStatus' = [JobStatus EXCEPT ![r] = pc'[r]]
         /\ Active(r) => JobStatus[r] = "running"
         /\ ~Active(r) => JobStatus[r] = "new"
         /\ Active(r)' \/ pc'[r] \in {"ok", "failed"}
         /\ Active(r) /\ Active(r)' => JobStatus' = JobStatus
<1>1. /\ pc'[r] # "new"
      /\ \A s \in Runs \ {r} : pc'[s] = pc[s]
  BY OthersStay
<1>2. \A s \in Runs \ {r} : Active(s)' = Active(s)
  BY <1>1 DEF Active
<1>3. JobStatus' = [s \in Runs |-> IF s # r THEN JobStatus[s]
                                   ELSE IF Active(r)' THEN "running" ELSE pc'[r]]
  BY <1>1, <1>2 DEF JobStatus
<1>4. Active(r)' \/ pc'[r] \in {"ok", "failed"}
  BY <1>1 DEF Active
<1>5. ~Active(r) => pc[r] = "new"
  BY OthersStart DEF Start
<1> QED
  BY <1>3, <1>4, <1>5 DEF JobStatus

LEMMA StepMaps ==
  ASSUME IInv, Sequential, NEW r \in Runs, Proceed(r) \/ Break(r)
  PROVE  [Job!Next]_<<options, JobStatus, output>>
<1>1. UNCHANGED options /\ TypeInv /\ options[r].bin \in Binaries
  BY OptionsAre DEF Proceed, Break, IInv
<1>2. CASE FormatWrite(r)
  <2>1. Active(r) /\ pc'[r] = "ok"
    BY <1>1, <1>2 DEF FormatWrite, Goto, Active, TypeInv
  <2>2. output[options[r].bin] = Torn
    BY <1>2, <2>1 DEF IInv, OnTrack, OwnTexts, FormatWrite, OutputPath
  <2>3. output'[options[r].bin] \in ImagesOf(options[r])
    <3>1. OnTrack(r, BOOLEAN)
      BY <2>1 DEF IInv
    <3>2. KeepsTrack(r, BOOLEAN) /\ Ended(r)'
      BY <1>1, <1>2, <2>1, <3>1, WriterOnTrack DEF Ended
    <3>3. /\ output'[options[r].bin].symbols \in SymbolsOf(r, BOOLEAN)
          /\ output'[options[r].bin].uuid = UuidOf(r)
          /\ output'[options[r].bin].vm \in VmOf(r, BOOLEAN)
          /\ output'[options[r].bin] \in Results
      BY <2>1, <3>2 DEF KeepsTrack
    <3> QED
      BY <3>3 DEF Results, ImagesOf, SymbolsOf, UuidOf, VmOf, Slice
  <2>4. output' = [output EXCEPT ![options[r].bin] = output'[options[r].bin]]
    <3>1. PICK text : output' = [output EXCEPT ![options[r].bin] = text]
      BY <1>2 DEF FormatWrite, OutputPath
    <3> QED
      BY <1>1, <3>1 DEF TypeInv
  <2>5. JobStatus[r] = "running" /\ JobStatus' = [JobStatus EXCEPT ![r] = "ok"]
    BY <1>1, <2>1, StatusMoves DEF Active
  <2>6. Job!Publish(r)
    BY <1>1, <2>2, <2>3, <2>4, <2>5 DEF Job!Publish, JobStatus, SymbolFile
  <2> QED
    BY <2>6 DEF Job!Next
<1>3. CASE FormatOpen(r)
  <2>1. Active(r) /\ Active(r)'
    BY <1>1, <1>3 DEF FormatOpen, Goto, Active, TypeInv
  <2>2. output' = [output EXCEPT ![options[r].bin] = Torn]
    BY <1>3 DEF FormatOpen, OutputPath
  <2>3. JobStatus[r] = "running" /\ JobStatus' = JobStatus
    BY <1>1, <2>1, StatusMoves
  <2>4. Job!Truncate(r)
    BY <1>1, <2>2, <2>3 DEF Job!Truncate, JobStatus, SymbolFile
  <2> QED
    BY <2>4 DEF Job!Next
<1>4. CASE FlushFails(r)
  <2>1. Active(r) /\ pc'[r] = "ok"
    BY <1>1, <1>4 DEF FlushFails, Goto, Active, TypeInv
  <2>2. /\ output[options[r].bin] = Torn
        /\ output' = [output EXCEPT ![options[r].bin] = Cut(got[r])]
        /\ Cut(got[r]) \in CutsOf(options[r])
    BY <1>1, <1>4, <2>1, FlushLeavesOwn DEF IInv
  <2>3. JobStatus[r] = "running" /\ JobStatus' = [JobStatus EXCEPT ![r] = "ok"]
    BY <1>1, <2>1, StatusMoves DEF Active
  <2>4. Job!PublishCut(r)
    BY <1>1, <2>2, <2>3 DEF Job!PublishCut, JobStatus, SymbolFile
  <2> QED
    BY <2>4 DEF Job!Next
<1>5. CASE UNCHANGED output
  <2>1. CASE Active(r) /\ Active(r)'
    BY <1>1, <1>5, <2>1, StatusMoves
  <2>2. CASE ~Active(r) /\ Active(r)'
    <3>1. Job!Start(r)
      BY <1>1, <1>5, <2>2, StatusMoves DEF Job!Start, JobStatus
    <3> QED
      BY <3>1 DEF Job!Next
  <2>3. CASE pc'[r] = "failed"
    <3>1. ~Active(r)'
      BY <2>3 DEF Active
    <3>2. Job!Fail(r)
      BY <1>1, <1>5, <2>3, <3>1, StatusMoves DEF Job!Fail, JobStatus
    <3> QED
      BY <3>2 DEF Job!Next
  <2>4. CASE pc'[r] = "ok"
    <3>1. FormatWrite(r) \/ FlushFails(r)
      BY <1>1, <2>4, OnlyWriteSucceeds
    <3> QED
      BY <1>2, <1>4, <3>1
  <2> QED
    BY <1>1, <2>1, <2>2, <2>3, <2>4, StatusMoves
<1> QED
  BY <1>1, <1>2, <1>3, <1>4, <1>5, OutputIsWritten

(* README.md:21, 35: without overlapping runs, and unless IDA fails to open  *)
(* its file with status 0 or /tmp is full, the runs do what SymbolJob says, *)
(* step by step: a symbol file is first unusable and then made from the     *)
(* slice that was asked for, whole or (util.h:84) only the beginning of it, *)
(* in the step that makes the run succeed.                                  *)
THEOREM RunsImplementJob == ASSUME Sequential PROVE Spec => JobSpec
<1>1. Init => Job!Init
  <2> SUFFICES ASSUME Init
               PROVE  Job!Init
    OBVIOUS
  <2>1. JobStatus = [r \in Runs |-> "new"]
    BY DEF JobStatus, Init, Active
  <2> QED
    BY <2>1 DEF Init, Job!Init, JobStatus
<1>2. IInv /\ [Next]_vars => [Job!Next]_<<options, JobStatus, output>>
  <2> SUFFICES ASSUME IInv, [Next]_vars
               PROVE  [Job!Next]_<<options, JobStatus, output>>
    OBVIOUS
  <2>1. CASE \E r \in Runs : Proceed(r) \/ Break(r)
    BY <2>1, StepMaps
  <2>2. CASE UNCHANGED vars
    BY <2>2 DEF vars, JobStatus, Active
  <2> QED
    BY <2>1, <2>2 DEF Next, AllEnded
<1> QED
  BY <1>1, <1>2, Inductive, PTL DEF Spec, JobSpec, Job!Spec, JobStatus
=============================================================================
