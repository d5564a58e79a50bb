---------------------------- MODULE DSYMCreator ----------------------------
(***************************************************************************)
(* The process of the DSYMCreator tool: main and dump_symbol_to_file       *)
(* (main.mm) and util::write (util.h).  It checks its flags, reads the raw *)
(* symbols line by line, builds the image in memory and writes it through  *)
(* a stdio stream that nobody closes, so that exit() flushes its last      *)
(* bytes.  An Exception becomes an exit code; a failed assertion or any    *)
(* other exception (std::stoull throws some) aborts the process.           *)
(*                                                                         *)
(* The image is a number of whole stdio buffers and the rest behind them;  *)
(* MachoDump says what is in it.                                           *)
(***************************************************************************)
EXTENDS Integers, Sequences, FiniteSets

CONSTANTS
  MaxLines,     \* bound on the lines of the raw symbol file
  MaxRoom       \* bound on the free space, in stdio buffers

LineKinds == {"symbol", "blank", "fields", "number"}

ASSUME ToolAssumption == MaxLines \in Nat /\ MaxRoom \in Nat

VARIABLES
  flags,        \* which of the flags are usable
  lines,        \* the raw symbol file: kinds of lines
  pc,           \* the step of the program; "exit" runs exit(), "gone"
  line,         \* the line the loop handles next
  count,        \* symbols.size()
  room,         \* buffers that fit on the disk
  file,         \* the output: Old, or how much of the image it holds
  stream,       \* the rest of the image is in the stdio buffer
  code          \* what waitpid reports: an exit code, or minus a signal

vars == <<flags, lines, pc, line, count, room, file, stream, code>>

Flags == [given : BOOLEAN, vmbase : BOOLEAN, uuid : BOOLEAN,
          readable : BOOLEAN, writable : BOOLEAN]

Old == [whole |-> -1, rest |-> FALSE]

(* Whole buffers of the image of n functions: commands and symbol table,    *)
(* then strings and DWARF sections.  The image that ends exactly where a    *)
(* stdio buffer does is left out: exit() has nothing to flush then.         *)
Whole(n) == 2 + n

Running == 255
Aborted == -6
Killed == -9

(* Mutant of ExitCode: an enumeration that starts at zero. *)
ExitCodeFromZero(e) ==
  CASE e = "kShouldNotOccur" -> 0 [] e = "kParamInvalid" -> 1 [] e = "kWriteFailed" -> 3

(* exception.h:15-22 *)
ExitCode(e) ==
  CASE e = "kShouldNotOccur" -> 1 [] e = "kParamInvalid" -> 2 [] e = "kWriteFailed" -> 4

-----------------------------------------------------------------------------

Init ==
  /\ flags \in Flags
  /\ lines \in UNION {[1 .. k -> LineKinds] : k \in 0 .. MaxLines}
  /\ pc = "flags"
  /\ line = 1 /\ count = 0
  /\ room \in 0 .. MaxRoom
  /\ file = Old
  /\ stream = FALSE
  /\ code = Running

(* Leave main: return 0, or (int)e.code() from its handler. *)
Return(c) == pc' = "exit" /\ code' = c
Throw(e) == Return(ExitCode(e))
Abort == pc' = "gone" /\ code' = Aborted
Continue(l) == pc' = l /\ code' = code

(* main.mm:32-38 *)
CheckFlags ==
  /\ pc = "flags"
  /\ IF flags.given THEN Continue("vmbase") ELSE Throw("kParamInvalid")
  /\ UNCHANGED <<flags, lines, line, count, room, file, stream>>

(* main.mm:86, 89: stoull and stoul *)
ParseVmbase ==
  /\ pc = "vmbase"
  /\ IF flags.vmbase THEN Continue("read") ELSE Abort
  /\ UNCHANGED <<flags, lines, line, count, room, file, stream>>

(* main.mm:50-51 *)
ReadRaw ==
  /\ pc = "read"
  /\ IF flags.readable THEN Continue("lines") ELSE Abort
  /\ UNCHANGED <<flags, lines, line, count, room, file, stream>>

(* Mutant of Accepted: built with NDEBUG, a line without three fields is    *)
(* read all the same.                                                       *)
AcceptedWithoutAssert(kind) == kind # "number"

(* main.mm:57, 59-60: three fields, the first two hexadecimal numbers *)
Accepted(kind) == kind = "symbol"

(* One turn of the loop of read_raw_symbol_data_from_path. *)
ReadLine ==
  /\ pc = "lines" /\ line <= Len(lines)
  /\ CASE lines[line] = "blank"   -> Continue("lines") /\ UNCHANGED count
       [] lines[line] # "blank" /\ Accepted(lines[line]) ->
            Continue("lines") /\ count' = count + 1
       [] OTHER                   -> Abort /\ UNCHANGED count
  /\ line' = line + 1
  /\ UNCHANGED <<flags, lines, room, file, stream>>

(* Mutant of LastLine: the last line is taken for the end of the file. *)
LastLineEarly == line >= Len(lines)

LastLine == line > Len(lines)

(* macho.dump(uuid, symbols, vmbase) *)
Dump ==
  /\ pc = "lines" /\ LastLine
  /\ IF flags.uuid THEN Continue("open") ELSE Abort
  /\ UNCHANGED <<flags, lines, line, count, room, file, stream>>

(* util.h:78-83; when it can be opened the file is truncated. *)
Open ==
  /\ pc = "open"
  /\ IF flags.writable
       THEN Continue("write") /\ file' = [whole |-> 0, rest |-> FALSE]
       ELSE Throw("kShouldNotOccur") /\ UNCHANGED file
  /\ UNCHANGED <<flags, lines, line, count, room, stream>>

(* Mutant of WriteFails: the result of fwrite is not looked at. *)
WriteFailsUnseen == Return(0)

(* util.h:60-62 *)
WriteFails == Throw("kWriteFailed")

(* util.h:55: fwrite hands whole buffers to the system at once. *)
Write ==
  /\ pc = "write" /\ file.whole < Whole(count)
  /\ IF room > 0
       THEN /\ file' = [file EXCEPT !.whole = @ + 1]
            /\ room' = room - 1
            /\ Continue("write")
       ELSE WriteFails /\ UNCHANGED <<file, room>>
  /\ UNCHANGED <<flags, lines, line, count, stream>>

(* ... and keeps the rest.  main.mm:76, 92: success is announced. *)
KeepRest ==
  /\ pc = "write" /\ file.whole = Whole(count)
  /\ stream' = TRUE
  /\ Return(0)
  /\ UNCHANGED <<flags, lines, line, count, room, file>>

(* exit() flushes the stream; nobody sees whether it could. *)
Exit ==
  /\ pc = "exit"
  /\ IF stream /\ room > 0
       THEN file' = [file EXCEPT !.rest = TRUE] /\ room' = room - 1
       ELSE UNCHANGED <<file, room>>
  /\ stream' = FALSE
  /\ pc' = "gone"
  /\ UNCHANGED <<flags, lines, line, count, code>>

(* The process is killed. *)
Kill ==
  /\ pc # "gone"
  /\ pc' = "gone" /\ code' = Killed
  /\ stream' = FALSE
  /\ UNCHANGED <<flags, lines, line, count, room, file>>

Gone == pc = "gone" /\ UNCHANGED vars

Next ==
  \/ CheckFlags \/ ParseVmbase \/ ReadRaw \/ ReadLine \/ Dump
  \/ Open \/ Write \/ KeepRest \/ Exit \/ Kill \/ Gone

Spec == Init /\ [][Next]_vars

-----------------------------------------------------------------------------

(* The loop does not run past the file, no more functions are counted than  *)
(* lines, and the exit codes are the ones main.mm can return.               *)
TypeOK ==
  /\ flags \in Flags /\ lines \in Seq(LineKinds)
  /\ pc \in {"flags", "vmbase", "read", "lines", "open", "write", "exit", "gone"}
  /\ line \in 1 .. Len(lines) + 1 /\ count \in 0 .. line - 1
  /\ room \in 0 .. MaxRoom
  /\ file = Old \/ file \in [whole : 0 .. Whole(count), rest : BOOLEAN]
  /\ stream \in BOOLEAN
  /\ code \in {Running, Aborted, Killed, 0, 1, 2, 4}

(* Everything the program checks is in order. *)
InputAccepted ==
  /\ flags.given /\ flags.vmbase /\ flags.uuid /\ flags.readable /\ flags.writable
  /\ \A k \in DOMAIN lines : lines[k] \in {"blank", "symbol"}

(* main.mm:73-75 before util.h:78: an earlier symbol file is destroyed only *)
(* for an input that has been accepted to its last line.                    *)
OldOutputSurvives == file # Old => InputAccepted

(* main.mm:54-63: no function of an accepted input is missing in the image. *)
EveryLineCounts ==
  pc \in {"open", "write"} =>
    count = Cardinality({k \in DOMAIN lines : lines[k] # "blank"})

(* util.h:51-63, main.mm:80-96: the exit code says what became of the       *)
(* output: all whole buffers of the image, a beginning of it, or the file   *)
(* of before.                                                               *)
ExitCodeTells ==
  pc = "gone" =>
    CASE code = 0        -> file.whole = Whole(count)
      [] code = 4        -> file.whole \in 0 .. Whole(count) - 1 /\ ~file.rest
      [] code = Killed   -> file.rest => file.whole = Whole(count)
      [] OTHER           -> file = Old

(* main.mm:27: "then if no error occurs, a fresh symbol file will be        *)
(* created": an exit code of 0 stands for a complete file.                  *)
SuccessIsComplete ==
  pc = "gone" /\ code = 0 => file = [whole |-> Whole(count), rest |-> TRUE]

-----------------------------------------------------------------------------
(* The inductive invariant that OldOutputSurvives, EveryLineCounts and      *)
(* ExitCodeTells follow from.                                               *)

(* What the steps behind the program have found in order. *)
Checked ==
  /\ pc \in {"vmbase", "read", "lines", "open", "write"} => flags.given
  /\ pc \in {"read", "lines", "open", "write"} => flags.vmbase
  /\ pc \in {"lines", "open", "write"} => flags.readable
  /\ pc \in {"lines", "open", "write"} =>
       \A k \in 1 .. line - 1 : lines[k] \in {"blank", "symbol"}
  /\ pc \in {"open", "write"} => line = Len(lines) + 1 /\ flags.uuid
  /\ pc = "write" => flags.writable

(* The lines before this one that are not blank. *)
FunctionsBefore(l) == {k \in 1 .. l - 1 : lines[k] # "blank"}

(* Every line the loop has handled counts. *)
LinesCounted ==
  /\ pc \in {"flags", "vmbase", "read"} => line = 1 /\ count = 0
  /\ pc \in {"lines", "open", "write"} => count = Cardinality(FunctionsBefore(line))

(* Where the bytes of the image are. *)
BytesTracked ==
  /\ pc \notin {"write", "exit", "gone"} => file = Old
  /\ pc = "write" => file # Old
  /\ pc # "gone" => ~file.rest
  /\ pc \notin {"exit", "gone"} => ~stream /\ code = Running
  /\ pc = "exit" =>
       \/ code = 0 /\ stream /\ file = [whole |-> Whole(count), rest |-> FALSE]
       \/ code = 4 /\ ~stream /\ file.whole \in 0 .. Whole(count) - 1
       \/ code \in {1, 2} /\ ~stream /\ file = Old

IInv ==
  /\ TypeOK
  /\ Checked
  /\ LinesCounted
  /\ BytesTracked
  /\ OldOutputSurvives
  /\ ExitCodeTells
=============================================================================
