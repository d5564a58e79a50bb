------------------------------ MODULE Pipeline ------------------------------
(***************************************************************************)
(* main.py: runs of the script, each a process that calls the tools        *)
(* through run_bash and passes their results on through files of /tmp that *)
(* have the same name in every run.  What a run leaves there, finished,    *)
(* failed or killed, is what the next one finds; runs that overlap write   *)
(* each other's files.                                                     *)
(*                                                                         *)
(* A slice <<b, a>> is binary b for architecture a; tools turn slices into *)
(* texts that remember the slice and whether anything is missing.          *)
(* objc-symbols, lipo, IDA and macho-dump are modelled by what main.py     *)
(* sees of them; Faults says which things may go wrong in the environment. *)
(***************************************************************************)
EXTENDS Integers, FiniteSets

CONSTANTS
  Runs,         \* invocations of main.py
  Binaries,     \* the paths given as --input
  Kind,         \* what is there: "fat", one architecture, or "other"
  Modes,        \* subset of {"objc", "ida"}: without and with --only-objc
  MaxActive,    \* how many runs may overlap
  Faults,       \* subset of FaultKinds
  IdaInstalled  \* subset of BOOLEAN: whether IDA_EXE_PATH may exist

Archs == {"armv7", "arm64"}
FaultKinds == {"kill", "tool", "flush", "fopen", "tmp"}

ASSUME PipelineAssumption ==
  /\ IsFiniteSet(Runs)
  /\ Kind \in [Binaries -> {"fat", "other"} \cup Archs]
  /\ Modes \subseteq {"objc", "ida"}
  /\ MaxActive \in Nat \ {0}
  /\ Faults \subseteq FaultKinds
  /\ IdaInstalled \subseteq BOOLEAN

VARIABLES
  options,    \* the arguments of each run, and whether it finds IDA
  pc,         \* where each run is; during a run_bash, which call it is
  sub,        \* the step of that call
  operand,    \* binary_path
  script,     \* the command the child bash of a run has read
  got,        \* what a run has collected: symbols, uuid, vm
  shell,      \* /tmp/dsym_creator_temp_shell.sh
  thin,       \* /tmp/dsym_creator_binary_<arch>
  raw,        \* /tmp/dsym_creator_raw_symbol.txt
  output,     \* <binary>.symbol, for each binary
  disturbed   \* history: runs that met a fault or overlapped another run

temp == <<shell, thin, raw>>
vars == <<options, pc, sub, operand, script, got, temp, output, disturbed>>

Calls == {"lipo", "objc", "ida", "uuid", "vm"}
NoSlice == <<>>
NoFile == [tool |-> "none"]
Nothing == [tool |-> "nothing"]       \* an empty file, script or output
Garbled == [tool |-> "garbled"]       \* the ends of one text behind another
Torn == [tool |-> "torn"]             \* a symbol file before its last byte
Cut(image) == [tool |-> "cut", of |-> image]      \* the beginning of one
Text(tool, slice, whole) == [tool |-> tool, of |-> slice, whole |-> whole]

(* The arguments, and whether a run that asks for IDA will find it. *)
Options ==
  {o \in [bin : Binaries, arch : Archs, mode : Modes, ida : IdaInstalled \cup {FALSE}] :
     IF o.mode = "objc" THEN ~o.ida ELSE o.ida \in IdaInstalled}
Arch(r) == options[r].arch
SliceOf(o) == <<o.bin, o.arch>>
Slice(r) == SliceOf(options[r])
Active(r) == pc[r] \notin {"new", "ok", "failed"}

(* The contents of a path that is given to a tool. *)
Contents(path) ==
  IF path[1] = "thin" THEN thin[path[2]] ELSE <<path[2], Kind[path[2]]>>

IsSlice(c) == c # NoSlice /\ c[2] \in Archs

(* Writing text from the start of a file that was empty when it was opened: *)
(* what another process wrote in between survives behind a shorter text.    *)
Overwrite(old, empty, text) == IF old = empty THEN {text} ELSE {text, Garbled}

-----------------------------------------------------------------------------

Init ==
  /\ options \in [Runs -> Options]
  /\ pc = [r \in Runs |-> "new"]
  /\ sub = [r \in Runs |-> "open"]
  /\ operand = [r \in Runs |-> <<"input", options[r].bin>>]
  /\ script = [r \in Runs |-> Nothing]
  /\ got = [r \in Runs |-> [symbols |-> Nothing, uuid |-> Nothing, vm |-> Nothing]]
  /\ shell = NoFile
  /\ thin = [a \in Archs |-> NoSlice]
  /\ raw = NoFile
  /\ output = [b \in Binaries |-> NoFile]
  /\ disturbed = {}

(* Mutant of Goto: the next call starts in the middle. *)
GotoKeepingSubstep(r, l) == pc' = [pc EXCEPT ![r] = l] /\ UNCHANGED sub

Goto(r, l) == pc' = [pc EXCEPT ![r] = l] /\ sub' = [sub EXCEPT ![r] = "open"]
Substep(r, l) == sub' = [sub EXCEPT ![r] = l] /\ pc' = pc
Collect(r, field, v) == got' = [got EXCEPT ![r][field] = v]

(* main.py:111-120: which tool lists the functions. *)
ListFunctions(r) ==
  Goto(r, IF options[r].mode = "objc" THEN "objc"
          ELSE IF options[r].ida THEN "ida" ELSE "failed")

(* main.py:47-63: look at the magic number. *)
Start(r) ==
  /\ pc[r] = "new"
  /\ Cardinality({s \in Runs : Active(s)}) < MaxActive
  /\ CASE Kind[options[r].bin] = "fat"   -> Goto(r, "lipo")
       [] Kind[options[r].bin] = Arch(r) -> ListFunctions(r)
       [] OTHER                          -> Goto(r, "failed")
  /\ UNCHANGED <<operand, script, got, temp, output>>

-----------------------------------------------------------------------------
(* run_bash: open the script for writing, write and close it, start a bash  *)
(* that reads it, wait for its output.                                      *)

OpenScript(r) ==
  /\ pc[r] \in Calls /\ sub[r] = "open"
  /\ shell' = Nothing
  /\ Substep(r, "write")
  /\ UNCHANGED <<operand, script, got, thin, raw, output>>

WriteScript(r) ==
  /\ pc[r] \in Calls /\ sub[r] = "write"
  /\ shell' \in Overwrite(shell, Nothing, [tool |-> pc[r], path |-> operand[r],
                                           arch |-> Arch(r)])
  /\ Substep(r, "read")
  /\ UNCHANGED <<operand, script, got, thin, raw, output>>

ReadScript(r) ==
  /\ pc[r] \in Calls /\ sub[r] = "read"
  /\ script' = [script EXCEPT ![r] = shell]
  /\ Substep(r, "tool")
  /\ UNCHANGED <<operand, got, temp, output>>

(* Mutant of StatusChecked: subprocess.Popen(...).communicate()[0]. *)
StatusIgnored(status) == TRUE

(* check_output raises an exception unless the exit status is 0. *)
StatusChecked(status) == status = 0

(* Mutant of Parsed: an unusable text makes the script call the tool again. *)
ParsedOrRetried(r, out, next) == Goto(r, IF out.tool = pc[r] THEN next ELSE pc[r])

(* split() and int() let a text of another shape raise an exception. *)
Parsed(r, out, next) == Goto(r, IF out.tool = pc[r] THEN next ELSE "failed")

(* What a run does with the output of its call (main.py:28-39, 53-54, 68-69, *)
(* 73-74, 79-85).  The output of lipo and of IDA is not looked at, and the   *)
(* uuid is only handed on.                                                   *)
Returned(r, status, out) ==
  CASE ~StatusChecked(status) ->
         Goto(r, "failed") /\ UNCHANGED <<operand, got>>
    [] StatusChecked(status) /\ pc[r] = "lipo" ->
         /\ operand' = [operand EXCEPT ![r] = <<"thin", Arch(r)>>]
         /\ ListFunctions(r) /\ UNCHANGED got
    [] StatusChecked(status) /\ pc[r] = "ida" ->
         Goto(r, "uuid") /\ UNCHANGED <<operand, got>>
    [] StatusChecked(status) /\ pc[r] = "uuid" ->
         Collect(r, "uuid", out) /\ Goto(r, "vm") /\ UNCHANGED operand
    [] StatusChecked(status) /\ pc[r] = "objc" ->
         Collect(r, "symbols", out) /\ Parsed(r, out, "openraw") /\ UNCHANGED operand
    [] StatusChecked(status) /\ pc[r] = "vm" ->
         Collect(r, "vm", out) /\ Parsed(r, out, "format") /\ UNCHANGED operand

(* The command a child runs, and the file it runs on. *)
Executes(r, tool) == pc[r] \in Calls /\ sub[r] = "tool" /\ script[r].tool = tool
Source(r) == Contents(script[r].path)

(* bash finds an empty script: exit status 0, no output.  Or the ends of two *)
(* commands: whatever that is, it prints nothing that can be used.           *)
BrokenScript(r) ==
  /\ \/ Executes(r, "nothing") /\ Returned(r, 0, Nothing)
     \/ Executes(r, "garbled") /\ \E status \in {0, 1} : Returned(r, status, Nothing)
  /\ UNCHANGED <<script, temp, output>>

(* lipo -thin writes the slice, or fails and leaves what was there. *)
Lipo(r) ==
  /\ Executes(r, "lipo")
  /\ thin' = [thin EXCEPT ![script[r].arch] = <<script[r].path[2], script[r].arch>>]
  /\ Returned(r, 0, Nothing)
  /\ UNCHANGED <<script, shell, raw, output>>

(* objc-symbols | sort: the status is sort's. *)
ObjcSymbols(r) ==
  /\ Executes(r, "objc")
  /\ Returned(r, 0, IF IsSlice(Source(r)) /\ Source(r)[2] = script[r].arch
                    THEN Text("objc", Source(r), TRUE) ELSE Nothing)
  /\ UNCHANGED <<script, temp, output>>

(* macho-dump | grep | egrep: no match, no success. *)
ExtractUuid(r) ==
  /\ Executes(r, "uuid")
  /\ IF IsSlice(Source(r)) THEN Returned(r, 0, Text("uuid", Source(r), TRUE))
                           ELSE Returned(r, 1, Nothing)
  /\ UNCHANGED <<script, temp, output>>

(* macho-dump | egrep | egrep | paste: the status is paste's. *)
ExtractVm(r) ==
  /\ Executes(r, "vm")
  /\ Returned(r, 0, IF IsSlice(Source(r)) THEN Text("vm", Source(r), TRUE)
                                          ELSE Nothing)
  /\ UNCHANGED <<script, temp, output>>

(* IDA runs all.idc, which opens the raw symbol file for writing ... *)
IdaOpens(r) ==
  /\ Executes(r, "ida")
  /\ raw' = Nothing
  /\ Substep(r, "ida")
  /\ UNCHANGED <<operand, script, got, shell, thin, output>>

(* ... prints every function to it, closes it and exits. *)
IdaCloses(r) ==
  /\ sub[r] = "ida"
  /\ raw' \in IF IsSlice(Source(r))
                THEN Overwrite(raw, Nothing, Text("ida", Source(r), TRUE)) ELSE {raw}
  /\ Returned(r, IF IsSlice(Source(r)) THEN 0 ELSE 1, Nothing)
  /\ UNCHANGED <<script, shell, thin, output>>

-----------------------------------------------------------------------------
(* main.py:39: open(raw_symbol_path, 'w').write(formated_raw_symbols) *)

(* Mutant of OpenRaw: mode 'a'. *)
OpenRawToAppend(r) ==
  /\ pc[r] = "openraw"
  /\ Goto(r, "writeraw")
  /\ UNCHANGED <<operand, script, got, temp, output>>

OpenRaw(r) ==
  /\ pc[r] = "openraw"
  /\ raw' = Nothing
  /\ Goto(r, "writeraw")
  /\ UNCHANGED <<operand, script, got, shell, thin, output>>

WriteRaw(r) ==
  /\ pc[r] = "writeraw"
  /\ raw' \in Overwrite(raw, Nothing, got[r].symbols)
  /\ Goto(r, "uuid")
  /\ UNCHANGED <<operand, script, got, shell, thin, output>>

(* main.py:87-99: DSYMCreator reads the raw symbols first; it gives up when  *)
(* they are missing or the uuid is not one.  An empty file is no functions,  *)
(* a garbled one may or may not be noticed.                                  *)
FormatRead(r) ==
  /\ pc[r] = "format"
  /\ Collect(r, "symbols", raw)
  /\ \/ /\ raw # NoFile /\ got[r].uuid.tool = "uuid"
        /\ Goto(r, "openout")
     \/ /\ raw \in {NoFile, Garbled} \/ got[r].uuid.tool # "uuid"
        /\ Goto(r, "failed")
  /\ UNCHANGED <<operand, script, temp, output>>

(* Mutant of OutputPath: every run writes the file of one binary. *)
OutputPathFixed(r) == CHOOSE b \in Binaries : TRUE

(* main.py:102-104 *)
OutputPath(r) == options[r].bin

FormatOpen(r) ==
  /\ pc[r] = "openout"
  /\ output' = [output EXCEPT ![OutputPath(r)] = Torn]
  /\ Goto(r, "writeout")
  /\ UNCHANGED <<operand, script, got, temp>>

FormatWrite(r) ==
  /\ pc[r] = "writeout"
  /\ \E text \in Overwrite(output[OutputPath(r)], Torn, got[r]) :
       output' = [output EXCEPT ![OutputPath(r)] = text]
  /\ Goto(r, "ok")
  /\ UNCHANGED <<operand, script, got, temp>>

-----------------------------------------------------------------------------
(* Faults. *)

(* The run is interrupted, with its children. *)
Kill(r) ==
  /\ "kill" \in Faults /\ Active(r)
  /\ Goto(r, "failed")
  /\ UNCHANGED <<operand, script, got, temp, output>>

(* A tool fails: seen where its status counts, hidden behind sort or paste.  *)
ToolFails(r) ==
  /\ "tool" \in Faults
  /\ \/ /\ \/ Executes(r, "lipo") \/ Executes(r, "ida") \/ Executes(r, "uuid")
           \/ sub[r] = "ida"
        /\ Returned(r, 1, Nothing)
     \/ /\ Executes(r, "objc") \/ Executes(r, "vm")
        /\ \/ Returned(r, 0, Nothing)
           \/ /\ IsSlice(Source(r))
              /\ Returned(r, 0, Text(script[r].tool, Source(r), FALSE))
  /\ UNCHANGED <<script, temp, output>>

(* DSYMCreator exits with a code other than 0, before or after it has        *)
(* truncated the output (main.py:96-99).                                     *)
FormatFails(r) ==
  /\ "tool" \in Faults
  /\ pc[r] \in {"format", "openout", "writeout"}
  /\ Goto(r, "failed")
  /\ UNCHANGED <<operand, script, got, temp, output>>

(* util.h:78-84: nobody closes the stream.  When exit() cannot flush it, the *)
(* end of the image is missing and the status is 0 all the same.             *)
FlushFails(r) ==
  /\ "flush" \in Faults
  /\ pc[r] = "writeout"
  /\ \E text \in Overwrite(output[OutputPath(r)], Torn, Cut(got[r])) :
       output' = [output EXCEPT ![OutputPath(r)] = text]
  /\ Goto(r, "ok")
  /\ UNCHANGED <<operand, script, got, temp>>

(* What got into a file before the disk was full. *)
Beginning(text) ==
  IF text.tool \in {"objc", "ida"} THEN Text(text.tool, text.of, FALSE) ELSE text

(* A full /tmp.  main.py:18, 39 and all.idc:13, 14 do not find out whether    *)
(* the last buffer got into the file they have opened: it is flushed when    *)
(* the file is dropped or closed.  A script is never longer than a buffer;   *)
(* of a text that is, main.py:39 may notice the failure.                     *)
TmpIsFull(r) ==
  /\ "tmp" \in Faults
  /\ \/ /\ pc[r] \in Calls /\ sub[r] = "write"
        /\ Substep(r, "read") /\ UNCHANGED <<operand, got, raw>>
     \/ /\ pc[r] = "writeraw"
        /\ raw' \in {raw} \cup Overwrite(raw, Nothing, Beginning(got[r].symbols))
        /\ \E l \in {"uuid", "failed"} : Goto(r, l)
        /\ UNCHANGED <<operand, got>>
     \/ /\ sub[r] = "ida" /\ IsSlice(Source(r))
        /\ raw' \in {raw} \cup Overwrite(raw, Nothing, Text("ida", Source(r), FALSE))
        /\ Returned(r, 0, Nothing)
  /\ UNCHANGED <<script, shell, thin, output>>

(* all.idc:3-4, 13, 18: fopen returns 0, nothing is printed, Exit(0). *)
IdaCannotOpen(r) ==
  /\ "fopen" \in Faults
  /\ Executes(r, "ida")
  /\ Returned(r, 0, Nothing)
  /\ UNCHANGED <<script, temp, output>>

-----------------------------------------------------------------------------

Step(r) ==
  \/ Start(r) \/ OpenScript(r) \/ WriteScript(r) \/ ReadScript(r)
  \/ BrokenScript(r) \/ Lipo(r) \/ ObjcSymbols(r) \/ ExtractUuid(r) \/ ExtractVm(r)
  \/ IdaOpens(r) \/ IdaCloses(r) \/ OpenRaw(r) \/ WriteRaw(r)
  \/ FormatRead(r) \/ FormatOpen(r) \/ FormatWrite(r)

Fault(r) ==
  \/ Kill(r) \/ ToolFails(r) \/ FormatFails(r) \/ FlushFails(r)
  \/ TmpIsFull(r) \/ IdaCannotOpen(r)

Overlapping(r) == {s \in Runs \ {r} : Active(s)}

(* A step of r among other active runs disturbs them and r. *)
Proceed(r) ==
  /\ Step(r)
  /\ disturbed' = disturbed \cup Overlapping(r)
                  \cup (IF Overlapping(r) = {} THEN {} ELSE {r})
  /\ UNCHANGED options

Break(r) ==
  /\ Fault(r)
  /\ disturbed' = disturbed \cup Overlapping(r) \cup {r}
  /\ UNCHANGED options

AllEnded ==
  /\ \A r \in Runs : pc[r] \in {"ok", "failed"}
  /\ UNCHANGED vars

Next == AllEnded \/ \E r \in Runs : Proceed(r) \/ Break(r)

Spec == Init /\ [][Next]_vars

(* The processes of a run are scheduled and the tools end. *)
FairSpec == Spec /\ \A r \in Runs : WF_vars(Proceed(r))

-----------------------------------------------------------------------------

Ended(r) == pc[r] \in {"ok", "failed"}

Slices == Binaries \X Archs
Texts == {Nothing, Garbled} \cup
         {Text(t, c, w) : t \in {"objc", "ida", "uuid", "vm"}, c \in Slices, w \in BOOLEAN}
Results == [symbols : Texts \cup {NoFile}, uuid : Texts, vm : Texts]
SymbolFiles ==
  Results \cup [tool : {"cut"}, of : Results] \cup {NoFile, Torn, Garbled}

(* Files hold texts of the tools, and a run is inside a call only where     *)
(* main.py calls run_bash (main.py:16-19).                                  *)
TypeOK ==
  /\ \A r \in Runs :
       /\ pc[r] \in Calls \cup {"new", "openraw", "writeraw", "format", "openout",
                               "writeout", "ok", "failed"}
       /\ sub[r] \in {"open", "write", "read", "tool", "ida"}
       /\ pc[r] \notin Calls => sub[r] = "open"
       /\ got[r] \in Results
  /\ \A a \in Archs : thin[a] = NoSlice \/ thin[a] \in Slices
  /\ raw \in Texts \cup {NoFile}
  /\ \A b \in Binaries : output[b] \in SymbolFiles
  /\ disturbed \subseteq Runs

(* The slice a run asks for exists and somebody can list its functions. *)
Supported(r) ==
  /\ Kind[options[r].bin] \in {"fat", Arch(r)}
  /\ options[r].mode = "objc" \/ options[r].ida

(* The images that are right for a run: nothing in them is of another slice, *)
(* though objc-symbols and macho-dump may have missed something.             *)
ImagesOf(o) ==
  [symbols : {Text(o.mode, SliceOf(o), w) : w \in BOOLEAN},
   uuid    : {Text("uuid", SliceOf(o), TRUE)},
   vm      : {Text("vm", SliceOf(o), w) : w \in BOOLEAN}]

(* What DSYMCreator may leave of them with status 0, if its flush can fail.  *)
CutsOf(o) == {Cut(image) : image \in IF "flush" \in Faults THEN ImagesOf(o) ELSE {}}

CompleteImage(r) ==
  [symbols |-> Text(options[r].mode, Slice(r), TRUE),
   uuid    |-> Text("uuid", Slice(r), TRUE),
   vm      |-> Text("vm", Slice(r), TRUE)]

(* main.py:101-129: a run that ends well leaves a symbol file made from its *)
(* own slice alone, whatever finished, failed or killed runs left in /tmp.  *)
(* It is whole, but for a flush that failed unseen (util.h:84): then it is  *)
(* the beginning of such a file.                                            *)
SuccessIsOwnImage ==
  [][\A r \in Runs : ~Ended(r) /\ pc'[r] = "ok" =>
       output'[options[r].bin] \in ImagesOf(options[r]) \cup CutsOf(options[r])]_vars

(* main.py:101-129: a run that nothing goes wrong with and that is alone    *)
(* succeeds with everything in its file: no leftover can make it fail, or   *)
(* keep anything out.                                                       *)
UndisturbedRunSucceeds ==
  [][\A r \in Runs : ~Ended(r) /\ Ended(r)' /\ r \notin disturbed' =>
       IF Supported(r)
         THEN pc'[r] = "ok" /\ output'[options[r].bin] = CompleteImage(r)
         ELSE pc'[r] = "failed" /\ UNCHANGED output]_vars

(* README.md:21, 35: the runs, one after the other, do what SymbolJob says. *)
SymbolFile(o) == o.bin
Job == INSTANCE SymbolJob WITH
  Requests <- Options,
  Files    <- Binaries,
  FileOf   <- SymbolFile,
  request  <- options,
  status   <- [r \in Runs |-> IF Active(r) THEN "running" ELSE pc[r]]
JobSpec == Job!Spec

(* main.py:148: every run ends, even among runs that disturb it. *)
EveryRunEnds == \A r \in Runs : <>Ended(r)

(* main.py:122, "extract uuid fram binary file": the uuid DSYMCreator has     *)
(* accepted and writes into the image is the one of the run's binary.       *)
UuidFromBinary ==
  \A r \in Runs : pc[r] \in {"openout", "writeout"} =>
    got[r].uuid = Text("uuid", Slice(r), TRUE)

(* doc/all.md:50: all.idc writes every function of the binary to the given  *)
(* path, so what is formatted in IDA mode is what IDA found in this run.    *)
SymbolsFromBinary ==
  \A r \in Runs : pc[r] \in {"openout", "writeout"} =>
    got[r].symbols = Text("ida", Slice(r), TRUE)
=============================================================================
