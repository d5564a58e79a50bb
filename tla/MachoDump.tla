----------------------------- MODULE MachoDump -----------------------------
(***************************************************************************)
(* Macho<T>::dump as a whole (macho.h:46-143): the string table, then the  *)
(* symbol table and the debug information that refer to it by offset, then *)
(* the uuid and the layout of the file.  StringTable and MachoLayout do    *)
(* their parts; this module passes their results on, and reads the image   *)
(* back the way a debugger does, from the load commands alone.             *)
(***************************************************************************)
EXTENDS MachoImage

CONSTANTS
  Names, NameLength, NUL,   \* see StringTable
  Word, LongWord,           \* see MachoLayout
  Inputs,       \* lists of symbols, records [name, base, end]
  Vmoffs,       \* values of section_vm_addr_offset
  CleanLengths  \* lengths the uuid can have without its hyphens

VARIABLES
  wide,         \* the template parameter, T is uint64_t
  symbols, vmoff, cleanLength,  \* the arguments
  phase,        \* "strings", "tables", "uuid", "layout"; "abort"
  nlists,       \* symbol_buffer
  dies,         \* the function entries of debug_info_buffer
  (* StringTable *)
  spc, i, needed, offset, buffer, nameToOffset, overran, extent,
  (* MachoLayout *)
  lpc, plan, step, size, at

arguments == <<wide, symbols, vmoff, cleanLength>>
stringVars == <<spc, i, needed, offset, buffer, nameToOffset, overran, extent>>
layoutVars == <<lpc, plan, step, size, at>>
vars == <<arguments, phase, nlists, dies, stringVars, layoutVars>>

NamesOf(list) == [k \in DOMAIN list |-> list[k].name]

Strings == INSTANCE StringTable WITH
  Inputs <- {NamesOf(list) : list \in Inputs},
  names <- NamesOf(symbols), pc <- spc

Layout == INSTANCE MachoLayout WITH
  Arguments <- {a \in [wide : BOOLEAN, nsyms : 0 .. Word - 1, strsize : 0 .. Word - 1,
                       vmoff : 0 .. LongWord - 1] : a.wide \/ a.vmoff < Word},
  args <- [wide |-> wide, nsyms |-> Len(symbols), strsize |-> needed, vmoff |-> vmoff],
  pc <- lpc

ASSUME DumpAssumption ==
  /\ Inputs \subseteq Seq([name : Names, base : 0 .. LongWord - 1,
                           end : 0 .. LongWord - 1])
  /\ Vmoffs \subseteq 0 .. LongWord - 1
  /\ CleanLengths \subseteq Nat
  /\ NameLength \in [Names -> Nat] /\ NUL \notin Names \X Nat
  /\ Word \in Nat /\ Word > Layout!SymbolTableOffset /\ Word % Layout!Page = 0
  /\ LongWord \in Nat /\ LongWord >= Word /\ LongWord % Layout!Page = 0

-----------------------------------------------------------------------------

(* Addresses of which each is a uint32_t. *)
Narrow ==
  /\ vmoff < Word
  /\ \A k \in DOMAIN symbols : symbols[k].base < Word /\ symbols[k].end < Word

Init ==
  /\ wide \in BOOLEAN
  /\ symbols \in Inputs /\ vmoff \in Vmoffs /\ cleanLength \in CleanLengths
  /\ wide \/ Narrow
  /\ phase = "strings"
  /\ nlists = <<>> /\ dies = <<>>
  /\ Strings!Init
  /\ lpc = "plan" /\ plan = Layout!NoPlan /\ step = 1 /\ size = 0
  /\ at = [p \in {} |-> 0]

(* string_table.dump(names) *)
DumpStrings ==
  /\ phase = "strings"
  /\ UNCHANGED <<arguments, nlists, dies, layoutVars>>
  /\ Strings!Measure \/ Strings!Allocate \/ Strings!Copy \/ Strings!Finish
  /\ phase' = CASE spc' \in {"abort", "crashed"} -> "abort"
                [] spc' = "done"                 -> "tables"
                [] OTHER                         -> phase

(* name_to_offset.find(s.name) and the assertion on it. *)
Known(s) == s.name \in DOMAIN nameToOffset

(* Mutant of Nlist: the offset of the record's predecessor. *)
NlistOfPredecessor(k) ==
  [n_strx |-> nameToOffset[symbols[IF k = 1 THEN 1 ELSE k - 1].name],
   n_value |-> symbols[k].base, thumb |-> ~wide]

(* Mutant of Nlist: the offset behind the name. *)
NlistOfNext(k) ==
  [n_strx |-> nameToOffset[symbols[k].name] + NameLength[symbols[k].name] + 1,
   n_value |-> symbols[k].base, thumb |-> ~wide]

(* One record of the symbol table. *)
Nlist(k) ==
  [n_strx |-> nameToOffset[symbols[k].name], n_value |-> symbols[k].base,
   thumb |-> ~wide]

(* One function entry of the debug information. *)
Die(k) ==
  [low_pc |-> symbols[k].base, high_pc |-> symbols[k].end,
   name |-> nameToOffset[symbols[k].name]]

(* symbol_table.dump and debug_info_section.dump, of the same map. *)
DumpTables ==
  /\ phase = "tables"
  /\ IF \A k \in DOMAIN symbols : Known(symbols[k])
       THEN /\ nlists' = [k \in DOMAIN symbols |-> Nlist(k)]
            /\ dies' = [k \in DOMAIN symbols |-> Die(k)]
            /\ phase' = "uuid"
       ELSE phase' = "abort" /\ UNCHANGED <<nlists, dies>>
  /\ UNCHANGED <<arguments, stringVars, layoutVars>>

(* assert(clean_uuid.length() == 32) *)
CheckUuid ==
  /\ phase = "uuid"
  /\ phase' = IF cleanLength = 32 THEN "layout" ELSE "abort"
  /\ UNCHANGED <<arguments, nlists, dies, stringVars, layoutVars>>

(* Commands, headers, and the pieces of the file. *)
LayOut ==
  /\ phase = "layout"
  /\ UNCHANGED <<arguments, nlists, dies, stringVars>>
  /\ Layout!Plan \/ Layout!Emit \/ Layout!Return
  /\ phase' = IF lpc' = "abort" THEN "abort" ELSE phase

Returned ==
  /\ phase = "abort" \/ lpc = "done"
  /\ UNCHANGED vars

Next == DumpStrings \/ DumpTables \/ CheckUuid \/ LayOut \/ Returned

Spec == Init /\ [][Next]_vars

-----------------------------------------------------------------------------
(* The file as a debugger sees it, from its first byte.                     *)

LayoutOfImage ==
  [wide |-> wide, plan |-> plan, at |-> at, nsyms |-> Len(symbols), strsize |-> needed,
   textsize |-> Layout!TextCommandSize, dwarfsize |-> Layout!DwarfCommandSize]

(* The set of the one file that has been written; properties bind it once. *)
Files == IF lpc = "done" THEN {Image(LayoutOfImage, nlists, dies)} ELSE {}

(* The same, if the string table and the image fit 32 bits. *)
FittingFiles == IF Strings!Fits /\ Layout!Fits THEN Files ELSE {}

(* The string at position pos is n, in the copy of the table at this piece. *)
StringAt(pos, piece, n) == Strings!ReadsAs(buffer, pos - at[piece], n)

-----------------------------------------------------------------------------

(* The parts run one after the other, and each leaves its result to the next *)
(* (macho.h:55-142).                                                         *)
TypeOK ==
  /\ Strings!TypeOK
  /\ phase \in {"strings", "tables", "uuid", "layout", "abort"}
  /\ phase \in {"tables", "uuid", "layout"} => spc = "done"
  /\ phase \in {"uuid", "layout"} =>
       /\ Strings!Fits => \A k \in DOMAIN symbols : nlists[k].n_strx \in DOMAIN buffer
       /\ Len(nlists) = Len(symbols) /\ Len(dies) = Len(symbols)
  /\ phase # "layout" /\ phase # "abort" => lpc = "plan" /\ size = 0

(* symbol_table.h:32-42, macho.h:72-76, 114-134: a reader that follows the   *)
(* load commands from the first byte on, with the structures of loader.h    *)
(* and nlist.h in the width of the magic, finds every symbol of the input,  *)
(* with its own name and address and marked as Thumb code in armv7 alone,   *)
(* whichever names are shared or empty, as long as the size of the string   *)
(* table is a uint32_t.                                                     *)
EverySymbolRecovered ==
  Strings!Fits =>
    \A file \in Files :
      /\ SymtabValue(file, "nsyms") = Len(symbols)
      /\ \A k \in DOMAIN symbols :
           /\ SymbolValue(file, k, "n_value") = symbols[k].base
           /\ SymbolValue(file, k, "n_desc") = (IF wide THEN 0 ELSE N_ARM_THUMB_DEF)
           /\ StringAt(SymtabValue(file, "stroff") + SymbolValue(file, k, "n_strx"),
                       "strings", symbols[k].name)

CompileUnit == Entry(DW_TAG_compile_unit, 0, [a \in {DW_AT_language} |-> DW_LANG_ObjC])

(* dwarf_debug_abbrev_section.cpp:20-32, dwarf_debug_info_section.h:33-53,   *)
(* macho.h:88-102: a debugger that takes the sections from their headers    *)
(* and the fields of the entries from the abbreviations sees one unit of    *)
(* Objective-C with exactly the functions of the input, in their order,     *)
(* each with its range and its name in __debug_str, and nothing behind it;  *)
(* abbreviations and entries are written by different functions.  The image *)
(* must be small enough for its positions to be uint32_t values.            *)
EveryFunctionRecovered ==
  \A file \in FittingFiles :
    \A entries \in {UnitEntries(file, SectionNamed(file, "__debug_info"),
                                     SectionNamed(file, "__debug_abbrev"))} :
      /\ Len(entries) = Len(symbols) + 1 /\ entries[1] = CompileUnit
      /\ \A k \in DOMAIN symbols :
           /\ entries[k + 1].tag = DW_TAG_subprogram /\ entries[k + 1].depth = 1
           /\ entries[k + 1].values[DW_AT_low_pc] = symbols[k].base
           /\ entries[k + 1].values[DW_AT_high_pc] = symbols[k].end
           /\ StringAt(SectionNamed(file, "__debug_str").offset
                         + entries[k + 1].values[DW_AT_name], "str", symbols[k].name)

(* dwarf_debug_info_section.h:56, dwarf_dummy_debug_line_section.cpp:20-22:  *)
(* whoever goes from unit to unit by their lengths ends where the header of *)
(* the section says, in __debug_line in spite of the padding that the       *)
(* compiler puts into DwarfDebugLine and that is written with it; of an     *)
(* image whose positions are uint32_t values.                               *)
UnitsFillSections ==
  \A file \in FittingFiles :
    \A sect \in {SectionNamed(file, name) : name \in {"__debug_info", "__debug_line"}} :
      UnitEnd(file, sect) = sect.offset + sect.size

(* mach-o/nlist.h: "all string indexes to non null names must not have a    *)
(* zero string index".                                                      *)
NamedSymbolsHaveIndex ==
  \A file \in Files, k \in DOMAIN symbols :
    NameLength[symbols[k].name] > 0 => SymbolValue(file, k, "n_strx") # 0

-----------------------------------------------------------------------------
(* The inductive invariant that the properties follow from: each part knows *)
(* what it knows alone, and nothing it leaves changes behind it.            *)

TablesDumped ==
  /\ nlists = [k \in DOMAIN symbols |-> Nlist(k)]
  /\ dies = [k \in DOMAIN symbols |-> Die(k)]

IInv ==
  /\ TypeOK
  /\ wide \in BOOLEAN /\ symbols \in Inputs /\ vmoff \in Vmoffs
  /\ wide \/ vmoff < Word
  /\ Strings!IInv
  /\ phase \in {"uuid", "layout"} => TablesDumped
  /\ phase \notin {"layout", "abort"} =>
       plan = Layout!NoPlan /\ step = 1 /\ at = [p \in {} |-> 0]
  /\ phase = "layout" /\ Strings!Fits => Layout!IInv
  /\ lpc = "done" => phase = "layout"
=============================================================================
