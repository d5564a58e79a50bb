---------------------------- MODULE MachoReader ----------------------------
(***************************************************************************)
(* macho-dump.py, the reader whose output main.py greps: it walks over the *)
(* load commands with one file position, leaves the commands for the       *)
(* tables they point to and comes back, and prints as it reads.  An        *)
(* exception (a file that is too short, a wrong size, a second string      *)
(* table) ends the output where it is.                                     *)
(*                                                                         *)
(* Members are called by their names in mach-o/loader.h, vmaddr for the    *)
(* 'vm_addr' of the script.  Of what is printed, `printed' keeps the lines *)
(* with the addresses of segments, uuids and symbol names.                 *)
(***************************************************************************)
EXTENDS LoaderStructs, SequencesExt

CONSTANTS
  Binaries,     \* the files to read
  Content       \* [Binaries -> [cells, length, magic]]; the value of the
                \* cell of a string table is a function from its indices

ReaderAssumption ==
  \A b \in Binaries : Content[b].length \in Nat

VARIABLES
  binary,       \* the file being read
  pc,           \* the function the reader is in; "done", "raised"
  wide,         \* self.is64Bit
  cursor,       \* self.file.tell()
  prev,         \* prev_pos
  strings,      \* self.string_table, or NoTable
  header,       \* numLoadCommands, loadCommandsSize and start in dumpmacho
  command,      \* number, start, cmd and cmdSize in dumpLoadCommand
  left,         \* turns left of the inner loop
  printed,      \* lines of the output, records [key, value]
  misread       \* members read from bytes that are something else

vars == <<binary, pc, wide, cursor, prev, strings, header, command, left,
          printed, misread>>

Magics == {"FEEDFACE", "CEFAEDFE", "FEEDFACF", "CFFAEDFE"}
Magics64 == {"FEEDFACF", "CFFAEDFE"}

NoTable == [i \in {-1} |-> 0]     \* None
NoCommand == [number |-> 0, start |-> 0, cmd |-> 0, cmdsize |-> 0]
NoHeader == [ncmds |-> 0, sizeofcmds |-> 0, start |-> 0]

cells == Content[binary].cells
Length == Content[binary].length

-----------------------------------------------------------------------------
(* What the functions of the script read, in their order.                   *)

HeaderList(is64) ==
  Words(<<"cputype", "cpusubtype", "filetype", "ncmds", "sizeofcmds", "flags">>)
    \o IF is64 THEN Words(<<"reserved">>) ELSE <<>>

CommandList == Words(<<"cmd", "cmdsize">>)

(* Mutant of SegmentList: size before address. *)
SegmentListSwapped(is64) ==
  Name16("segname")
    \o Members(<<"vmsize", "vmaddr", "fileoff", "filesize">>, Long(is64))
    \o Words(<<"maxprot", "initprot", "nsects", "flags">>)

SegmentList(is64) ==
  Name16("segname")
    \o Members(<<"vmaddr", "vmsize", "fileoff", "filesize">>, Long(is64))
    \o Words(<<"maxprot", "initprot", "nsects", "flags">>)

SectionList(is64) ==
  Name16("sectname") \o Name16("segname") \o Members(<<"addr", "size">>, Long(is64))
    \o Words(<<"offset", "align", "reloff", "nreloc", "flags", "reserved1",
               "reserved2">>)
    \o IF is64 THEN Words(<<"reserved3">>) ELSE <<>>

SymtabList == Words(<<"symoff", "nsyms", "stroff", "strsize">>)

DysymtabList ==
  Words(<<"ilocalsym", "nlocalsym", "iextdefsym", "nextdefsym", "iundefsym",
          "nundefsym", "tocoff", "ntoc", "modtaboff", "nmodtab", "extrefsymoff",
          "nextrefsyms", "indirectsymoff", "nindirectsyms", "extreloff",
          "nextrel", "locreloff", "nlocrel">>)

(* dumpNlist32 asks is64Bit for the width of n_value alone. *)
NlistList ==
  Words(<<"n_strx">>) \o Members(<<"n_type", "n_sect">>, 1)
    \o Members(<<"n_desc">>, 2) \o Members(<<"n_value">>, Long(wide))

RelocationList == Words(<<"r_address", "r_info">>)

-----------------------------------------------------------------------------
(* Reading.                                                                 *)

Available(pos, size) == pos + size <= Length
Value(list, name) == ValueAt(cells, cursor, list, name)

(* The members of list that can be read before the file ends. *)
Readable(list) == {k \in DOMAIN list : Available(cursor, OffsetOf(list, k + 1))}
ReadableNames(list) == {list[k].name : k \in Readable(list)}

(* Read list at the position of the file. *)
Reads(list) ==
  misread' = misread \cup
    {list[k].name : k \in {k \in Readable(list) : ~Holds(cells, cursor, list, k)}}

Line(key, value) == [key |-> key, value |-> value]

(* Print those of these members that can be read. *)
Prints(list, names) ==
  printed' = printed \o
    FlattenSeq([k \in DOMAIN names |->
      IF names[k] \in ReadableNames(list) THEN <<Line(names[k], Value(list, names[k]))>>
      ELSE <<>>])

(* Read list and go on at next, or raise "Out of data!" *)
Go(list, next) ==
  /\ pc' = IF Available(cursor, SizeOf(list)) THEN next ELSE "raised"
  /\ cursor' = cursor + SizeOf(list)

-----------------------------------------------------------------------------

(* The states of a reader that has just been started on file b. *)
Start(b) ==
  /\ binary = b
  /\ pc = "header" /\ wide = FALSE
  /\ cursor = 0 /\ prev = 0
  /\ strings = NoTable
  /\ header = NoHeader /\ command = NoCommand
  /\ left = 0
  /\ printed = <<>> /\ misread = {}

Init == \E b \in Binaries : Start(b)

(* dumpmacho up to the loop.  The numbers are read in the byte order of     *)
(* the magic, which is that of the file.                                    *)
DumpHeader ==
  LET is64 == Content[binary].magic \in Magics64
      list == Words(<<"magic">>) \o HeaderList(is64)
  IN /\ pc = "header"
     /\ IF Available(0, 4) /\ Content[binary].magic \in Magics
          THEN /\ Go(list, "command") /\ Reads(list)
               /\ header' = [ncmds      |-> Value(list, "ncmds"),
                             sizeofcmds |-> Value(list, "sizeofcmds"),
                             start      |-> cursor']
               /\ wide' = is64
          ELSE /\ pc' = "raised"
               /\ UNCHANGED <<cursor, misread, header, wide>>
     /\ UNCHANGED <<binary, prev, strings, command, left, printed>>

Function(cmd) ==
  CASE cmd = LC_SEGMENT    -> "segment"
    [] cmd = LC_SYMTAB     -> "symtab"
    [] cmd = LC_DYSYMTAB   -> "dysymtab"
    [] cmd = LC_SEGMENT_64 -> "segment"
    [] cmd = LC_UUID       -> "uuid"
    [] OTHER               -> "unknown"

(* dumpLoadCommand up to the function for the command. *)
DumpLoadCommand ==
  /\ pc = "command" /\ command.number < header.ncmds
  /\ Go(CommandList, Function(Value(CommandList, "cmd"))) /\ Reads(CommandList)
  /\ command' = [number  |-> command.number + 1,
                 start   |-> cursor,
                 cmd     |-> Value(CommandList, "cmd"),
                 cmdsize |-> Value(CommandList, "cmdsize")]
  /\ UNCHANGED <<binary, wide, prev, strings, header, left, printed>>

(* import uuid *)
DumpUuid ==
  LET list == Name16("uuid")
  IN /\ pc = "uuid"
     /\ Go(list, "close") /\ Reads(list) /\ Prints(list, <<"uuid">>)
     /\ UNCHANGED <<binary, wide, prev, strings, header, command, left>>

(* f.read(cmdSize - 8); read(-1) would deliver the rest of the file, which   *)
(* is not the length that was asked for.                                    *)
SkipCommand ==
  LET size == command.cmdsize - 8
  IN /\ pc = "unknown"
     /\ pc' = IF size >= 0 /\ Available(cursor, size) THEN "close" ELSE "raised"
     /\ cursor' = IF size >= 0 THEN cursor + size ELSE Length
     /\ UNCHANGED <<binary, wide, prev, strings, header, command, left, printed,
                    misread>>

(* The width in a segment command is that of the command, not of the file.  *)
Is64Segment == command.cmd = LC_SEGMENT_64

(* dumpSegmentLoadCommand up to its loop. *)
DumpSegment ==
  LET list == SegmentList(Is64Segment)
  IN /\ pc = "segment"
     /\ Go(list, "section") /\ Reads(list)
     /\ Prints(list, <<"vmaddr", "vmsize">>)
     /\ left' = Value(list, "nsects")
     /\ UNCHANGED <<binary, wide, prev, strings, header, command>>

(* Mutant of Resume: the position is not restored. *)
ResumeNever(pos, excursion) == excursion

(* f.seek(prev_pos), after an excursion that ended elsewhere. *)
Resume(pos, excursion) == pos

(* One turn: the section, its relocations, and back. *)
DumpSection ==
  LET list   == SectionList(Is64Segment)
      behind == cursor + SizeOf(list)
      reloff == Value(list, "reloff")
      end    == reloff + Value(list, "nreloc") * SizeOf(RelocationList)
  IN /\ pc = "section" /\ left > 0
     /\ pc' = IF Available(cursor, SizeOf(list))
                 /\ (Value(list, "nreloc") > 0 => Available(end, 0))
                THEN pc ELSE "raised"
     /\ Reads(list)
     /\ prev' = behind
     /\ cursor' = Resume(behind, end)
     /\ left' = left - 1
     /\ UNCHANGED <<binary, wide, strings, header, command, printed>>

(* dumpSymtabCommand up to its loop: the string table is read, printed and  *)
(* registered, and the position is that of the symbols.                     *)
DumpSymtab ==
  LET stroff  == Value(SymtabList, "stroff")
      strsize == Value(SymtabList, "strsize")
      whole   == Available(cursor, SizeOf(SymtabList)) /\ Available(stroff, strsize)
      table   == IF stroff \in DOMAIN cells THEN cells[stroff].value ELSE NoTable
  IN /\ pc = "symtab"
     /\ Reads(SymtabList)
     /\ pc' = IF whole /\ strings = NoTable THEN "symbol" ELSE "raised"
     /\ printed' = IF whole THEN Append(printed, Line("string_data", table)) ELSE printed
     /\ strings' = IF whole /\ strings = NoTable THEN table ELSE strings
     /\ prev' = cursor + SizeOf(SymtabList)
     /\ cursor' = Value(SymtabList, "symoff")
     /\ left' = Value(SymtabList, "nsyms")
     /\ UNCHANGED <<binary, wide, header, command>>

(* dumpNlist32: an index without a string raises. *)
DumpNlist ==
  LET strx == Value(NlistList, "n_strx")
      found == Available(cursor, SizeOf(NlistList)) /\ strx \in DOMAIN strings
  IN /\ pc = "symbol" /\ left > 0
     /\ Reads(NlistList)
     /\ pc' = IF found THEN pc ELSE "raised"
     /\ printed' = IF found THEN Append(printed, Line("string", strings[strx])) ELSE printed
     /\ cursor' = cursor + SizeOf(NlistList)
     /\ left' = left - 1
     /\ UNCHANGED <<binary, wide, prev, strings, header, command>>

(* Behind the loops over sections and symbols; the position after the       *)
(* symbols is restored.                                                     *)
EndLoop ==
  /\ pc \in {"section", "symbol"} /\ left = 0
  /\ pc' = "close"
  /\ cursor' = IF pc = "symbol" THEN Resume(prev, cursor) ELSE cursor
  /\ UNCHANGED <<binary, wide, prev, strings, header, command, left, printed, misread>>

(* dumpDysymtabCommand with the loop over the indirect symbols. *)
DumpDysymtab ==
  LET behind == cursor + SizeOf(DysymtabList)
      end    == Value(DysymtabList, "indirectsymoff")
                  + 4 * Value(DysymtabList, "nindirectsyms")
  IN /\ pc = "dysymtab"
     /\ Reads(DysymtabList)
     /\ pc' = IF Available(cursor, SizeOf(DysymtabList))
                 /\ (Value(DysymtabList, "nindirectsyms") > 0 => Available(end, 0))
                THEN "close" ELSE "raised"
     /\ prev' = behind
     /\ cursor' = Resume(behind, end)
     /\ UNCHANGED <<binary, wide, strings, header, command, left, printed>>

(* The end of dumpLoadCommand. *)
CloseCommand ==
  /\ pc = "close"
  /\ pc' = IF cursor - command.start = command.cmdsize THEN "command" ELSE "raised"
  /\ UNCHANGED <<binary, wide, cursor, prev, strings, header, command, left,
                 printed, misread>>

(* The end of dumpmacho. *)
CloseFile ==
  /\ pc = "command" /\ command.number = header.ncmds
  /\ pc' = IF cursor - header.start = header.sizeofcmds THEN "done" ELSE "raised"
  /\ UNCHANGED <<binary, wide, cursor, prev, strings, header, command, left,
                 printed, misread>>

Read ==
  \/ DumpHeader \/ DumpLoadCommand \/ DumpUuid \/ SkipCommand
  \/ DumpSegment \/ DumpSection \/ DumpSymtab \/ DumpNlist \/ EndLoop
  \/ DumpDysymtab \/ CloseCommand \/ CloseFile
=============================================================================
