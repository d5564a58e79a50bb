----------------------------- MODULE MachoImage -----------------------------
(***************************************************************************)
(* The bytes of the image: which structure is written where, with which    *)
(* values (the constructors of macho_type_wrapper.h and macho.h:71-117),   *)
(* and a reader that knows nothing but mach-o/loader.h and nlist.h and     *)
(* starts at the first byte.                                               *)
(*                                                                         *)
(* A layout l is a record: wide, the fields and positions that MachoLayout *)
(* calls plan and at, the numbers it calls nsyms and strsize, and the      *)
(* sizes of the two segment commands.                                      *)
(***************************************************************************)
EXTENDS DwarfSections

MH_DSYM == 10
N_SECT == 14
N_ARM_THUMB_DEF == 8
ReadExecute == 5            \* VM_PROT_READ | VM_PROT_EXECUTE
TextAddress32 == 16384      \* 0x4000
TextAddress64 == "0x100000000"

(* What a member that no constructor sets is written with. *)
Indeterminate == "indeterminate"

(* Values of a structure whose other members are cleared. *)
Written(struct, values) ==
  [n \in MemberNames(struct) |->
     IF n \in DOMAIN values THEN values[n]
     ELSE IF n \in {"reserved", "reserved3"} THEN Indeterminate ELSE 0]

HeaderCells(l) ==
  Cells(MachHeader(l.wide),
        Written(MachHeader(l.wide),
                [magic |-> IF l.wide THEN "MH_MAGIC_64" ELSE "MH_MAGIC",
                 cputype |-> IF l.wide THEN "CPU_TYPE_ARM64" ELSE "CPU_TYPE_ARM",
                 cpusubtype |-> IF l.wide THEN "CPU_SUBTYPE_ARM64_ALL" ELSE "CPU_SUBTYPE_ARM_V7",
                 filetype |-> MH_DSYM, ncmds |-> 4, sizeofcmds |-> l.plan.sizeofcmds]),
        l.at["mach_header"])

UuidCells(l) ==
  Cells(uuid_command, [cmd |-> LC_UUID, cmdsize |-> 24, uuid |-> "uuid"],
        l.at["uuid_command"])

SymtabCells(l) ==
  Cells(symtab_command,
        [cmd |-> LC_SYMTAB, cmdsize |-> 24, symoff |-> l.plan.symoff, nsyms |-> l.nsyms,
         stroff |-> l.plan.stroff, strsize |-> l.strsize],
        l.at["symtab_command"])

(* internal::SegmentCommand and its variants. *)
SegmentCells(l, piece, values) ==
  LET common == [cmd |-> IF l.wide THEN LC_SEGMENT_64 ELSE LC_SEGMENT,
                 initprot |-> ReadExecute, maxprot |-> ReadExecute]
      set == [n \in DOMAIN common \cup DOMAIN values |->
                IF n \in DOMAIN common THEN common[n] ELSE values[n]]
  IN Cells(SegmentCommand(l.wide), Written(SegmentCommand(l.wide), set), l.at[piece])

TextSegmentCells(l) ==
  SegmentCells(l, "text_segment",
               [segname |-> "__TEXT", nsects |-> 1, cmdsize |-> l.textsize,
                vmaddr |-> IF l.wide THEN TextAddress64 ELSE TextAddress32])

DwarfSegmentCells(l) ==
  SegmentCells(l, "dwarf_segment",
               [segname |-> "__DWARF", nsects |-> 4, cmdsize |-> l.dwarfsize,
                vmaddr |-> l.plan.vmaddr, fileoff |-> l.plan.fileoff,
                filesize |-> l.plan.filesize])

TextSectionCells(l) ==
  Cells(Section(l.wide),
        Written(Section(l.wide), [sectname |-> "__text", segname |-> "__TEXT", align |-> 3]),
        l.at["text_header"])

(* Names of the sections; headers and bytes are different pieces. *)
SectionName ==
  [line |-> "__debug_line", info |-> "__debug_info", abbrev |-> "__debug_abbrev",
   str |-> "__debug_str"]
HeaderPiece ==
  [line |-> "line_header", info |-> "info_header", abbrev |-> "abbrev_header",
   str |-> "str_header"]

(* DwarfCommonSectionHeader *)
SectionHeaderCells(l, s) ==
  Cells(Section(l.wide),
        Written(Section(l.wide),
                [sectname |-> SectionName[s], segname |-> "__DWARF",
                 addr |-> l.plan.addr[s], size |-> l.plan.length[s],
                 offset |-> l.plan.offset[s]]),
        l.at[HeaderPiece[s]])

(* One record of the symbol table, from its index, value and thumb mark. *)
NlistCells(l, nlists, k) ==
  LET struct == NlistOfWidth(l.wide)
  IN Cells(struct,
           [n_strx |-> nlists[k].n_strx, n_type |-> N_SECT, n_sect |-> 1,
            n_desc |-> IF nlists[k].thumb THEN N_ARM_THUMB_DEF ELSE 0,
            n_value |-> nlists[k].n_value],
           l.at["symbols"] + (k - 1) * SizeOf(struct))

(* The whole image, but for the two copies of the string table. *)
Image(l, nlists, dies) ==
  Contents(
    HeaderCells(l) \cup UuidCells(l) \cup SymtabCells(l)
      \cup TextSegmentCells(l) \cup TextSectionCells(l) \cup DwarfSegmentCells(l)
      \cup (UNION {SectionHeaderCells(l, s) : s \in DOMAIN SectionName})
      \cup (UNION {NlistCells(l, nlists, k) : k \in DOMAIN nlists})
      \cup LineCells(l.at["line"])
      \cup FieldCells(InfoFields(l.wide, dies), l.at["info"])
      \cup FieldCells(AbbrevFields, l.at["abbrev"]))

-----------------------------------------------------------------------------
(* The reader. *)

IsWide(contents) == contents[0].value = "MH_MAGIC_64"

CommandCount(contents) ==
  ValueAt(contents, 0, MachHeader(IsWide(contents)), "ncmds")

(* Where each command begins, from the sizes of those before it. *)
CommandAt(contents) ==
  LET at[k \in 1 .. CommandCount(contents)] ==
        IF k = 1 THEN SizeOf(MachHeader(IsWide(contents)))
        ELSE at[k - 1] + ValueAt(contents, at[k - 1], load_command, "cmdsize")
  IN at

(* The commands of this type. *)
CommandsOf(contents, cmd) ==
  LET at == CommandAt(contents)
  IN {at[k] : k \in {k \in DOMAIN at : ValueAt(contents, at[k], load_command, "cmd") = cmd}}

(* A member of LC_SYMTAB. *)
SymtabValue(contents, name) ==
  LET pos == CHOOSE pos \in CommandsOf(contents, LC_SYMTAB) : TRUE
  IN ValueAt(contents, pos, symtab_command, name)

(* Where the section headers begin, those of each segment command. *)
SectionHeaders(contents) ==
  LET wide == IsWide(contents)
      segment == SegmentCommand(wide)
  IN UNION {{pos + SizeOf(segment) + s * SizeOf(Section(wide)) :
               s \in 0 .. ValueAt(contents, pos, segment, "nsects") - 1} :
             pos \in CommandsOf(contents, IF wide THEN LC_SEGMENT_64 ELSE LC_SEGMENT)}

(* The section of this name. *)
SectionNamed(contents, name) ==
  LET struct == Section(IsWide(contents))
      pos == CHOOSE pos \in SectionHeaders(contents) :
               ValueAt(contents, pos, struct, "sectname") = name
  IN [offset |-> ValueAt(contents, pos, struct, "offset"),
      size   |-> ValueAt(contents, pos, struct, "size")]

(* A member of symbol k, counted from 1. *)
SymbolValue(contents, k, name) ==
  LET struct == NlistOfWidth(IsWide(contents))
  IN ValueAt(contents, SymtabValue(contents, "symoff") + (k - 1) * SizeOf(struct), struct, name)
=============================================================================
