--------------------------- MODULE LoaderStructs ---------------------------
(***************************************************************************)
(* The structures of mach-o/loader.h, nlist.h and reloc.h that the program *)
(* writes and macho-dump.py reads, member by member: a structure is the    *)
(* sequence of its members, a file a function from positions to cells.     *)
(* A cell is one member with its value; it can only be read as a whole.    *)
(* None of these structures has padding.                                   *)
(***************************************************************************)
EXTENDS Integers, Sequences, FiniteSetsExt

Member(name, width) == [name |-> name, width |-> width]
Members(names, width) == [k \in DOMAIN names |-> Member(names[k], width)]
Words(names) == Members(names, 4)       \* uint32_t, cpu_type_t, vm_prot_t
Name16(name) == <<Member(name, 16)>>    \* char[16], uint8_t[16]

OffsetOf(struct, k) == MapThenSumSet(LAMBDA j : struct[j].width, 1 .. k - 1)
SizeOf(struct) == OffsetOf(struct, Len(struct) + 1)

-----------------------------------------------------------------------------

mach_header ==
  Words(<<"magic", "cputype", "cpusubtype", "filetype", "ncmds", "sizeofcmds",
          "flags">>)
mach_header_64 == mach_header \o Words(<<"reserved">>)
MachHeader(wide) == IF wide THEN mach_header_64 ELSE mach_header

load_command == Words(<<"cmd", "cmdsize">>)

LC_SEGMENT == 1
LC_SYMTAB == 2
LC_DYSYMTAB == 11
LC_SEGMENT_64 == 25
LC_UUID == 27

(* Width of the members that are uint64_t in the 64-bit variants. *)
Long(wide) == IF wide THEN 8 ELSE 4

SegmentOf(long) ==
  load_command \o Name16("segname")
    \o Members(<<"vmaddr", "vmsize", "fileoff", "filesize">>, long)
    \o Words(<<"maxprot", "initprot", "nsects", "flags">>)
segment_command == SegmentOf(4)
segment_command_64 == SegmentOf(8)
SegmentCommand(wide) == IF wide THEN segment_command_64 ELSE segment_command

SectionOf(long) ==
  Name16("sectname") \o Name16("segname") \o Members(<<"addr", "size">>, long)
    \o Words(<<"offset", "align", "reloff", "nreloc", "flags",
               "reserved1", "reserved2">>)
section == SectionOf(4)
section_64 == SectionOf(8) \o Words(<<"reserved3">>)
Section(wide) == IF wide THEN section_64 ELSE section

symtab_command ==
  load_command \o Words(<<"symoff", "nsyms", "stroff", "strsize">>)

dysymtab_command ==
  load_command
    \o Words(<<"ilocalsym", "nlocalsym", "iextdefsym", "nextdefsym",
               "iundefsym", "nundefsym", "tocoff", "ntoc", "modtaboff",
               "nmodtab", "extrefsymoff", "nextrefsyms", "indirectsymoff",
               "nindirectsyms", "extreloff", "nextrel", "locreloff", "nlocrel">>)

uuid_command == load_command \o Name16("uuid")

NlistOf(long) ==
  Words(<<"n_strx">>) \o Members(<<"n_type", "n_sect">>, 1)
    \o Members(<<"n_desc">>, 2) \o Members(<<"n_value">>, long)
nlist == NlistOf(4)
nlist_64 == NlistOf(8)
NlistOfWidth(wide) == IF wide THEN nlist_64 ELSE nlist

(* The address, and one word of bit fields. *)
relocation_info == Words(<<"r_address", "r_info">>)

-----------------------------------------------------------------------------

(* The cells of a structure at position pos; values is a record. *)
Cells(struct, values, pos) ==
  {[at |-> pos + OffsetOf(struct, k), name |-> struct[k].name,
    width |-> struct[k].width, value |-> values[struct[k].name]] :
   k \in DOMAIN struct}

MemberNames(struct) == {struct[k].name : k \in DOMAIN struct}

(* The values of all members, those that are not given being zero. *)
Filled(struct, values) ==
  [n \in MemberNames(struct) |-> IF n \in DOMAIN values THEN values[n] ELSE 0]

(* The contents of a file made of these cells. *)
Contents(cells) ==
  [p \in {c.at : c \in cells} |-> CHOOSE c \in cells : c.at = p]

(* Member k of a structure can be read at position pos of a file. *)
Holds(contents, pos, struct, k) ==
  LET p == pos + OffsetOf(struct, k)
  IN p \in DOMAIN contents /\ contents[p].name = struct[k].name
                           /\ contents[p].width = struct[k].width

(* The position of the member with this name in a structure. *)
IndexOf(struct, name) == CHOOSE k \in DOMAIN struct : struct[k].name = name

(* What the bytes of this member mean to the reader: the value of the cell,  *)
(* or some other number if a reader looks at bytes of other members.        *)
Misread == 0
ValueAt(contents, pos, struct, name) ==
  LET k == IndexOf(struct, name)
  IN IF Holds(contents, pos, struct, k)
       THEN contents[pos + OffsetOf(struct, k)].value ELSE Misread
=============================================================================
