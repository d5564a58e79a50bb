--------------------------- MODULE DwarfSections ---------------------------
(***************************************************************************)
(* The contents of __debug_abbrev, __debug_info and __debug_line as        *)
(* DSYMCreator writes them, field by field, and the way a debugger reads   *)
(* them back (dwarf.h; the sources refer to DWARFDebugInfoEntry.cpp of     *)
(* lldb): the abbreviations say which fields an entry has and how wide     *)
(* they are.  A file is a function from positions to cells, as in          *)
(* LoaderStructs; a section is a record [offset, size] of its header.      *)
(***************************************************************************)
EXTENDS LoaderStructs, SequencesExt

DW_TAG_compile_unit == 17
DW_TAG_subprogram == 46
DW_CHILDREN_no == 0
DW_CHILDREN_yes == 1
DW_AT_name == 3
DW_AT_low_pc == 17
DW_AT_high_pc == 18
DW_AT_language == 19
DW_FORM_addr == 1
DW_FORM_data2 == 5
DW_FORM_strp == 14
DW_LANG_ObjC == 16

Field(width, value) == [width |-> width, value |-> value]
Extent(fields, k) == MapThenSumSet(LAMBDA j : fields[j].width, 1 .. k)

(* The cells of a sequence of fields that begins at position pos. *)
FieldCells(fields, pos) ==
  {[at |-> pos + Extent(fields, k - 1), name |-> "field", width |-> fields[k].width,
    value |-> fields[k].value] : k \in DOMAIN fields}

-----------------------------------------------------------------------------

(* Mutant of Subprogram: the end before the beginning. *)
SubprogramSwapped ==
  <<2, DW_TAG_subprogram, DW_CHILDREN_no, DW_AT_high_pc, DW_FORM_addr,
    DW_AT_low_pc, DW_FORM_addr, DW_AT_name, DW_FORM_strp, 0, 0>>

Subprogram ==
  <<2, DW_TAG_subprogram, DW_CHILDREN_no, DW_AT_low_pc, DW_FORM_addr,
    DW_AT_high_pc, DW_FORM_addr, DW_AT_name, DW_FORM_strp, 0, 0>>

(* DwarfDebugAbbrevSection::dump.  No zero follows the last declaration. *)
AbbrevBytes ==
  <<1, DW_TAG_compile_unit, DW_CHILDREN_yes, DW_AT_language, DW_FORM_data2, 0, 0>>
    \o Subprogram
AbbrevFields == [k \in DOMAIN AbbrevBytes |-> Field(1, AbbrevBytes[k])]

(* An entry of DwarfDebugInfoSection<T>::dump, of a record with the values.  *)
EntryFields(wide, die) ==
  <<Field(1, 2), Field(Long(wide), die.low_pc), Field(Long(wide), die.high_pc),
    Field(4, die.name)>>

(* version, abbr_offset, addr_size; compile unit; functions; the zero that   *)
(* ends the children of the compile unit.                                   *)
UnitFields(wide, dies) ==
  <<Field(2, 2), Field(4, 0), Field(1, Long(wide))>>
    \o <<Field(1, 1), Field(2, DW_LANG_ObjC)>>
    \o FlattenSeq([k \in DOMAIN dies |-> EntryFields(wide, dies[k])])
    \o <<Field(1, 0)>>

(* Mutant of UnitLength: the length counts itself. *)
UnitLengthWithItself(fields) == 4 + Extent(fields, Len(fields))

(* buffer.size() - sizeof(uint32_t) *)
UnitLength(fields) == Extent(fields, Len(fields))

InfoFields(wide, dies) ==
  <<Field(4, UnitLength(UnitFields(wide, dies)))>> \o UnitFields(wide, dies)

-----------------------------------------------------------------------------

(* DwarfDebugLine; it is not packed, the compiler aligns every member. *)
DwarfDebugLine ==
  Members(<<"total_length">>, 4) \o Members(<<"version">>, 2)
    \o Members(<<"prologue_length">>, 4)
    \o Members(<<"min_inst_length", "default_is_stmt", "line_base", "line_range",
                 "opcode_base">>, 1)

RoundUp(n, width) == ((n + width - 1) \div width) * width

AlignedOffset ==
  LET f[k \in DOMAIN DwarfDebugLine] ==
        IF k = 1 THEN 0
        ELSE RoundUp(f[k - 1] + DwarfDebugLine[k - 1].width, DwarfDebugLine[k].width)
  IN f

AlignedSize ==
  RoundUp(AlignedOffset[Len(DwarfDebugLine)] + DwarfDebugLine[Len(DwarfDebugLine)].width, 4)

(* Mutant of LineTotalLength: the sum of the members. *)
LineTotalLengthPacked == SizeOf(DwarfDebugLine) - 4

LineTotalLength == AlignedSize - 4

LineValues ==
  [total_length    |-> LineTotalLength, version |-> 2,
   prologue_length |-> LineTotalLength - 2 - 4,
   min_inst_length |-> 1, default_is_stmt |-> 1, line_base |-> 0, line_range |-> 0,
   opcode_base     |-> 1]

LineCells(pos) ==
  {[at |-> pos + AlignedOffset[k], name |-> DwarfDebugLine[k].name,
    width |-> DwarfDebugLine[k].width, value |-> LineValues[DwarfDebugLine[k].name]] :
   k \in DOMAIN DwarfDebugLine}

-----------------------------------------------------------------------------
(* A debugger. *)

Garbage == -1

(* The number of this width at position pos. *)
NumberAt(contents, pos, width) ==
  IF pos \in DOMAIN contents /\ contents[pos].width = width
    THEN contents[pos].value ELSE Garbage

(* The declarations of an abbreviation section: attributes are pairs up to   *)
(* two zeros, declarations go up to a zero code or the end of the section.  *)
Declarations(contents, sect) ==
  LET byte(i) == NumberAt(contents, sect.offset + i, 1)
      attributes[i \in Nat] ==
        IF i >= sect.size \/ (byte(i) = 0 /\ byte(i + 1) = 0) THEN <<>>
        ELSE <<[at |-> byte(i), form |-> byte(i + 1)]>> \o attributes[i + 2]
      declarations[i \in Nat] ==
        IF i >= sect.size \/ byte(i) = 0 THEN {}
        ELSE LET list == attributes[i + 3]
             IN {[code |-> byte(i), tag |-> byte(i + 1), children |-> byte(i + 2),
                  attributes |-> list]} \cup declarations[i + 3 + 2 * Len(list) + 2]
  IN declarations[0]

FormWidth(form, addrSize) ==
  CASE form = DW_FORM_addr -> addrSize [] form = DW_FORM_data2 -> 2
    [] form = DW_FORM_strp -> 4 [] OTHER -> 1

(* The unit at the start of an information section. *)
UnitEnd(contents, sect) == sect.offset + 4 + NumberAt(contents, sect.offset, 4)

Entry(tag, depth, values) == [tag |-> tag, depth |-> depth, values |-> values]
NoValues == [a \in {} |-> 0]

(* Where attribute k of an entry begins, and the values of all of them.      *)
AttributeOffset(list, addrSize, k) ==
  MapThenSumSet(LAMBDA j : FormWidth(list[j].form, addrSize), 1 .. k - 1)

AttributeValues(contents, list, addrSize, pos) ==
  [a \in {list[k].at : k \in DOMAIN list} |->
     LET k == CHOOSE k \in DOMAIN list : list[k].at = a
     IN NumberAt(contents, pos + AttributeOffset(list, addrSize, k),
                 FormWidth(list[k].form, addrSize))]

(* The entries of that unit, each with its depth below the unit.  Reading    *)
(* ends where the unit does; anything that cannot be read, and a list of    *)
(* children that is still open then, is an entry of tag Garbage.            *)
UnitEntries(contents, info, abbrev) ==
  LET declared == Declarations(contents, abbrev)
      addrSize == NumberAt(contents, info.offset + 10, 1)
      end == UnitEnd(contents, info)
      entries[place \in Nat \X Int] ==
        LET pos   == place[1]
            depth == place[2]
            code  == NumberAt(contents, pos, 1)
            d     == CHOOSE d \in declared : d.code = code
        IN IF pos = end /\ depth = 0 THEN <<>>
           ELSE IF pos < end /\ depth > 0 /\ code = 0 THEN entries[<<pos + 1, depth - 1>>]
           ELSE IF pos < end /\ code \in {e.code : e \in declared} THEN
             <<Entry(d.tag, depth, AttributeValues(contents, d.attributes, addrSize, pos + 1))>>
               \o entries[<<pos + 1 + AttributeOffset(d.attributes, addrSize,
                                                     Len(d.attributes) + 1),
                            IF d.children = DW_CHILDREN_yes THEN depth + 1 ELSE depth>>]
           ELSE <<Entry(Garbage, depth, NoValues)>>
  IN entries[<<info.offset + 11, 0>>]
=============================================================================
