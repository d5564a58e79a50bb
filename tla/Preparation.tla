---------------------------- MODULE Preparation ----------------------------
(***************************************************************************)
(* The data of one undisturbed run in only-objc mode, from the binary to   *)
(* what Macho<T>::dump is called with: main.py checks the magic, formats   *)
(* the methods objc-symbols lists (ObjcSymbols), greps the output of       *)
(* macho-dump (MachoReader) for the uuid and for numbers, calculates the   *)
(* base of the DWARF sections from these (AddressRanges), and DSYMCreator  *)
(* parses what it is given.  Pipeline has the processes and the files of   *)
(* such a run, and its other mode; lipo has already been at work.          *)
(*                                                                         *)
(* macho-dump is run twice on the same file and prints the same both       *)
(* times; here it is read once.                                            *)
(***************************************************************************)
EXTENDS MachoBinary, SequencesExt

CONSTANTS
  Names, NameRank, WordDigits, LongDigits,  \* see ObjcSymbols
  Word, LongWord,   \* number of values of a uint32_t, a uint64_t
  Scenarios,        \* records [binary, output, wide]
  Content,          \* the file of each binary
  VmNames,          \* names of symbols that contain vm_addr or vm_size
  Digits            \* the numbers in the name of each symbol

Binaries == {s.binary : s \in Scenarios}

VARIABLES
  phase,        \* where the run is; "done", "failed"
  vmbase,       \* the base DSYMCreator has parsed
  (* ObjcSymbols *)
  wide, lines, opc, next, symbols, parsed,
  (* MachoReader *)
  binary, dpc, is64, cursor, prev, strings, header, command, left, printed, misread,
  (* AddressRanges *)
  numbers, apc, line, dwarf_min_offset

objcVars == <<lines, opc, next, symbols, parsed>>
dumpVars == <<dpc, is64, cursor, prev, strings, header, command, left, printed, misread>>
rangeVars == <<numbers, apc, line, dwarf_min_offset>>
vars == <<phase, vmbase, wide, binary, objcVars, dumpVars, rangeVars>>

Objc == INSTANCE ObjcSymbols WITH
  Outputs <- {s.output : s \in Scenarios}, pc <- opc
Dump == INSTANCE MachoReader WITH pc <- dpc, wide <- is64
Ranges == INSTANCE AddressRanges WITH Found <- {<<>>}, pc <- apc

SymbolNamesOf(b) ==
  UNION {Range(b.items[k].names) : k \in {k \in DOMAIN b.items : b.items[k].kind = "symtab"}}

ASSUME PreparationAssumption ==
  /\ \A s \in Scenarios : s.wide \in BOOLEAN
  /\ \A b \in Binaries : WellFormed(b) /\ Content[b] = FileOf(b)
  /\ \A n \in VmNames \cup UNION {SymbolNamesOf(b) : b \in Binaries} : Digits[n] \in Seq(Nat)
  /\ "" \notin VmNames
  /\ Objc!ObjcAssumption /\ Dump!ReaderAssumption /\ Ranges!RangesAssumption

-----------------------------------------------------------------------------

Init ==
  /\ phase = "check" /\ vmbase = 0
  /\ \E s \in Scenarios : Objc!Begin(s.output, s.wide) /\ Dump!Start(s.binary)
  /\ Ranges!Begin(<<>>)

(* extract_thin_if_binary_is_fat for a file that is not fat.  Fewer than     *)
(* four bytes cannot be unpacked.                                           *)
CheckMagic ==
  LET file == Content[binary]
  IN /\ phase = "check"
     /\ phase' = IF file.length >= 4 /\ file.magic = (IF wide THEN "CFFAEDFE" ELSE "CEFAEDFE")
                   THEN "objc" ELSE "failed"
     /\ UNCHANGED <<vmbase, wide, binary, objcVars, dumpVars, rangeVars>>

(* extract_raw_symbol_from_objc_symbols *)
ExtractSymbols ==
  /\ phase = "objc"
  /\ Objc!Prepare
  /\ phase' = CASE opc' = "raised" -> "failed"
                [] opc' = "parse"  -> "dump"
                [] OTHER           -> phase
  /\ UNCHANGED <<vmbase, binary, dumpVars, rangeVars>>

(* macho-dump.py path 2>/dev/null: neither an exception nor the status is    *)
(* seen behind the pipe, only what has been printed.                        *)
RunMachoDump ==
  /\ phase = "dump"
  /\ Dump!Read
  /\ phase' = IF dpc' \in {"done", "raised"} THEN "uuid" ELSE phase
  /\ UNCHANGED <<vmbase, wide, objcVars, rangeVars>>

LinesWith(key) == {k \in DOMAIN printed : printed[k].key = key}

(* egrep is the last command of its pipeline: without a line it ends with 1, *)
(* and check_output raises.                                                 *)
ExtractUuid ==
  /\ phase = "uuid"
  /\ phase' = IF LinesWith("uuid") # {} THEN "grep" ELSE "failed"
  /\ UNCHANGED <<vmbase, wide, binary, objcVars, dumpVars, rangeVars>>

(* A string table is printed in one line, with \x00 behind every name. *)
StringDataNumbers(table) ==
  FlattenSeq([i \in 1 .. Max(DOMAIN table) + 1 |->
    IF i - 1 \in DOMAIN table
      THEN (IF table[i - 1] = "" THEN <<>> ELSE Digits[table[i - 1]]) \o <<0>>
      ELSE <<>>])

(* egrep "vm_addr|vm_size" | egrep -o "[0-9]+", for one line *)
NumbersOf(l) ==
  CASE l.key \in {"vmaddr", "vmsize"} -> <<l.value>>
    [] l.key = "string" /\ l.value \in VmNames -> Digits[l.value]
    [] l.key = "string_data" /\ Range(l.value) \cap VmNames # {} ->
         StringDataNumbers(l.value)
    [] OTHER -> <<>>

GrepNumbers ==
  /\ phase = "grep"
  /\ numbers' = FlattenSeq([k \in DOMAIN printed |-> NumbersOf(printed[k])])
  /\ phase' = "ranges"
  /\ UNCHANGED <<vmbase, wide, binary, objcVars, dumpVars, apc, line, dwarf_min_offset>>

(* calculate_dwarf_sections_min_file_offset_from_binary *)
CalculateBase ==
  /\ phase = "ranges"
  /\ Ranges!Next
  /\ phase' = CASE apc' = "raised" -> "failed"
                [] apc' = "done"   -> "vmbase"
                [] OTHER           -> phase
  /\ UNCHANGED <<vmbase, wide, binary, objcVars, dumpVars>>

(* --dwarf_section_vmbase hex(...), read back by stoull or stoul. *)
ParseVmbase ==
  /\ phase = "vmbase"
  /\ IF Objc!OutOfRange(dwarf_min_offset)
       THEN phase' = "failed" /\ UNCHANGED vmbase
       ELSE phase' = "parse" /\ vmbase' = Objc!Stoull(dwarf_min_offset)
  /\ UNCHANGED <<wide, binary, objcVars, dumpVars, rangeVars>>

(* read_raw_symbol_data_from_path *)
ParseSymbols ==
  /\ phase = "parse"
  /\ Objc!Parse
  /\ phase' = CASE opc' = "abort" -> "failed"
                [] opc' = "done"  -> "uuid_length"
                [] OTHER          -> phase
  /\ UNCHANGED <<vmbase, binary, dumpVars, rangeVars>>

(* assert(clean_uuid.length() == 32): two uuids are twice as long. *)
CheckUuid ==
  /\ phase = "uuid_length"
  /\ phase' = IF Cardinality(LinesWith("uuid")) = 1 THEN "done" ELSE "failed"
  /\ UNCHANGED <<vmbase, wide, binary, objcVars, dumpVars, rangeVars>>

Ended ==
  /\ phase \in {"done", "failed"}
  /\ UNCHANGED vars

Next ==
  \/ CheckMagic \/ ExtractSymbols \/ RunMachoDump \/ ExtractUuid \/ GrepNumbers
  \/ CalculateBase \/ ParseVmbase \/ ParseSymbols \/ CheckUuid \/ Ended

Spec == Init /\ [][Next]_vars

-----------------------------------------------------------------------------

(* The functions of main.py run one after the other, none of them before    *)
(* the one it takes its input from (main.py:109-126), and the tool parses   *)
(* values of its type T.                                                    *)
TypeOK ==
  /\ phase \in {"check", "objc", "dump", "uuid", "grep", "ranges", "vmbase", "parse",
                "uuid_length", "done", "failed"}
  /\ Objc!TypeOK /\ Ranges!TypeOK
  /\ vmbase \in 0 .. Objc!AddrWord - 1
  /\ phase \in {"uuid", "grep", "ranges", "vmbase", "parse", "uuid_length", "done"} =>
       opc \in {"parse", "abort", "done"} /\ dpc \in {"done", "raised"}
  /\ phase \in {"vmbase", "parse", "uuid_length", "done"} => apc = "done"

(* macho-dump.py:133-199, 234-258 against mach-o/loader.h and nlist.h: in    *)
(* both widths, with tables between commands, and also in a file that was   *)
(* cut or has a wrong count, each member is read where it is.  (The number  *)
(* of bytes to skip of an unknown command has to be taken on trust.)        *)
FieldsAsDeclared == binary.lie # "cmdsize" => misread = {}

(* The lines with one of these keys. *)
Grep(keys) ==
  FlattenSeq([k \in DOMAIN printed |->
    IF printed[k].key \in keys THEN <<printed[k]>> ELSE <<>>])

SegmentLines ==
  FlattenSeq([k \in DOMAIN binary.items |->
    IF k \in SegmentItems(binary)
      THEN <<Dump!Line("vmaddr", binary.items[k].vmaddr),
             Dump!Line("vmsize", binary.items[k].vmsize)>>
      ELSE <<>>])

(* macho-dump.py:156-180, 223-232, 260-274: a complete file is read to its   *)
(* end whatever order its commands are in, and each segment and uuid is     *)
(* reported, although the position is moved away to tables and back.        *)
SoundBinariesAreRead ==
  dpc \in {"done", "raised"} /\ Sound(binary) =>
    /\ dpc = "done"
    /\ Grep({"vmaddr", "vmsize"}) = SegmentLines
    /\ Cardinality(LinesWith("uuid"))
         = Cardinality({k \in DOMAIN binary.items : binary.items[k].kind = "uuid"})

(* AddressRanges: the base is the smallest one above the ranges found.      *)
LeastUpperBase == Ranges!LeastUpperBase

SegmentEnd(k) == binary.items[k].vmaddr + binary.items[k].vmsize

(* main.py:76-85 on a complete file none of whose symbols has a name that   *)
(* contains one of the words: the base is the end of the highest segment,   *)
(* or 0x1000; no other number got in between.                               *)
BaseExact ==
  apc = "done" /\ SymbolNamesOf(binary) \cap VmNames = {} /\ Sound(binary) =>
    LET ends == {Ranges!LowestBase} \cup {SegmentEnd(k) : k \in SegmentItems(binary)}
    IN dwarf_min_offset \in ends /\ \A e \in ends : e <= dwarf_min_offset

Format == [wide |-> wide, nsyms |-> Len(parsed), strsize |-> 4 * Len(parsed),
           vmoff |-> vmbase]
Layout == INSTANCE MachoLayout WITH
  Arguments <- {}, args <- Format, pc <- "plan", plan <- <<>>, step <- 1,
  size <- 0, at <- [p \in {} |-> 0]

(* The order of the commands the linker makes. *)
SegmentsFirst ==
  \A k \in SegmentItems(binary) : \A j \in DOMAIN binary.items :
    binary.items[j].kind \in {"uuid", "symtab"} => k < j

(* main.py:71-85, macho.h:85-98: in the symbol file of a run that succeeds   *)
(* every DWARF section lies above every segment of the binary, if there is  *)
(* room for it below the highest address: also when macho-dump gave up in   *)
(* the middle, when the file was cut, and when names of symbols got between *)
(* the numbers, because without a uuid the run fails, and that comes behind *)
(* the segments.                                                            *)
DwarfAboveSegments ==
  phase = "done" /\ SegmentsFirst =>
    LET plan == Layout!PlanFor(Format)
    IN \A s \in Layout!Sections :
         dwarf_min_offset + Layout!Page + plan.offset[s] <= Objc!AddrWord =>
           \A k \in SegmentItems(binary) : SegmentEnd(k) <= plan.addr[s]

(* ObjcSymbols: an address of an instruction belongs to the function that   *)
(* begins last before it.                                                   *)
EveryAddressAttributed == Objc!EveryAddressAttributed
=============================================================================
