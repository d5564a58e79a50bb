---------------------------- MODULE MachoLayout ----------------------------
(***************************************************************************)
(* The second half of Macho<T>::dump (macho.h:71-142): the load commands   *)
(* and section headers are filled in from the sizes of the tables, and     *)
(* only then are the pieces appended to one buffer.  Nothing but two       *)
(* assertions ties the announced positions to the positions the bytes get. *)
(*                                                                         *)
(* A piece of the image is a name with a size; its contents are elsewhere  *)
(* (StringTable, MachoDump).  Word stands for 2^32 and LongWord for 2^64.  *)
(* buffer.size() is a 64-bit size_t and does not wrap.                     *)
(***************************************************************************)
EXTENDS Integers, Sequences

CONSTANTS
  Word,         \* number of values of a uint32_t
  LongWord,     \* number of values of a uint64_t
  Arguments     \* what dump can be called with

Page == 4096                  \* kAlignBase
SymbolTableOffset == 4096     \* kSymbolTableOffset

ASSUME LayoutAssumption ==
  /\ Word \in Nat /\ Word > SymbolTableOffset /\ Word % Page = 0
  /\ LongWord \in Nat /\ LongWord >= Word /\ LongWord % Page = 0
  /\ Arguments \subseteq [wide : BOOLEAN, nsyms : 0 .. Word - 1,
                          strsize : 0 .. Word - 1, vmoff : 0 .. LongWord - 1]
  /\ \A a \in Arguments : a.wide \/ a.vmoff < Word

VARIABLES
  args,     \* T is uint64_t (ARM64), symbols.size(),
            \* string_result.buffer.size(), section_vm_addr_offset
  pc,       \* "plan", "emit", "done"; "abort" after a failed assert
  plan,     \* the fields of the commands and headers
  step,     \* position in Emission
  size,     \* buffer.size()
  at        \* where each piece appended so far begins

vars == <<args, pc, plan, step, size, at>>

-----------------------------------------------------------------------------
(* Sizes of the structures of mach-o/loader.h and nlist.h that are written,  *)
(* and of the section contents.                                              *)

Sizeof(narrow, wide) == IF args.wide THEN wide ELSE narrow
AddrWord == Sizeof(Word, LongWord)      \* number of values of a T

MachHeaderSize == Sizeof(28, 32)
CommandSize == 24                       \* LC_UUID and LC_SYMTAB alike
SegmentSize == Sizeof(56, 72)
SectionSize == Sizeof(68, 80)
SymbolsSize(n) == n * Sizeof(12, 16)    \* nlist
LineSize == 20                          \* DwarfDebugLine with its padding
AbbrevSize == 7 + 11

(* Unit header, compile unit entry, one entry per function, final zero. *)
InfoSize(n) == (4 + 2 + 4 + 1) + (1 + 2) + n * (1 + Sizeof(8, 16) + 4) + 1

TextCommandSize == SectionSize + SegmentSize

(* Mutant of DwarfCommandSize: one section forgotten. *)
DwarfCommandSizeOfThree == SegmentSize + 3 * SectionSize

DwarfCommandSize == SegmentSize + 4 * SectionSize

(* The number of bytes a piece adds to the buffer, for arguments a. *)
PieceSize(a, piece) ==
  CASE piece = "mach_header"    -> MachHeaderSize
    [] piece = "uuid_command"   -> CommandSize
    [] piece = "symtab_command" -> CommandSize
    [] piece \in {"text_segment", "dwarf_segment"} -> SegmentSize
    [] piece \in {"text_header", "line_header", "str_header",
                  "abbrev_header", "info_header"}  -> SectionSize
    [] piece = "symbols"        -> SymbolsSize(a.nsyms)
    [] piece \in {"strings", "str"} -> a.strsize
    [] piece = "line"           -> LineSize
    [] piece = "info"           -> InfoSize(a.nsyms)
    [] piece = "abbrev"         -> AbbrevSize

(* The calls of append_to_buffer and resize, in their order. *)
HeaderPieces ==
  <<"mach_header", "uuid_command", "symtab_command", "text_segment",
    "text_header", "dwarf_segment", "line_header", "str_header",
    "abbrev_header", "info_header">>

(* Mutant of SectionPieces: the bytes follow the order of the headers. *)
SectionPiecesInHeaderOrder == <<"line", "str", "abbrev", "info">>

SectionPieces == <<"line", "info", "abbrev", "str">>

Emission == HeaderPieces \o <<"resize_to_symbols", "symbols", "strings",
                              "resize_to_dwarf">> \o SectionPieces

Resizes == {"resize_to_symbols", "resize_to_dwarf"}
Sections == {"line", "info", "abbrev", "str"}

-----------------------------------------------------------------------------
(* Arithmetic on unsigned integers of m values. *)

(* Mutant of U32: 64-bit arithmetic. *)
U32Wide(x) == x

U32(x) == x % Word
Addr(x) == x % AddrWord

AlignTo(a, m) == ((((a - 1) % m) \div Page + 1) * Page) % m

(* uint32_t offset = dwarf_sections_start_offset; offset += ...size() *)
SectionOffsets(start, a) ==
  LET info   == U32(start + LineSize)
      abbrev == U32(info + InfoSize(a.nsyms))
      str    == U32(abbrev + AbbrevSize)
  IN [line |-> start, info |-> info, abbrev |-> abbrev, str |-> str]

(* Mutant of SegmentAddress: the file offset of the segment is forgotten. *)
SegmentAddressOfBase(base, start) == base

SegmentAddress(base, start) == Addr(base + start)

(* Mutant of SectionAddress: the base is forgotten. *)
SectionAddressOfOffset(base, offset) == Addr(offset)

SectionAddress(base, offset) == Addr(base + offset)

(* Every field of the commands and headers that depends on the arguments. *)
PlanFor(a) ==
  LET stroff  == U32(SymbolTableOffset + SymbolsSize(a.nsyms))
      start   == AlignTo(U32(stroff + a.strsize), Word)
      base    == AlignTo(a.vmoff, AddrWord)
      offsets == SectionOffsets(start, a)
  IN [symoff     |-> SymbolTableOffset,
      stroff     |-> stroff,
      fileoff    |-> start,
      filesize   |-> U32(U32(offsets.str + a.strsize) - start),
      vmaddr     |-> SegmentAddress(base, start),
      offset     |-> offsets,
      addr       |-> [s \in Sections |-> SectionAddress(base, offsets[s])],
      length     |-> [s \in Sections |-> U32(PieceSize(a, s))],
      sizeofcmds |-> CommandSize + CommandSize + SegmentSize + SectionSize]

NoPlan == [symoff |-> 0]

-----------------------------------------------------------------------------

Init ==
  /\ args \in Arguments
  /\ pc = "plan"
  /\ plan = NoPlan
  /\ step = 1
  /\ size = 0
  /\ at = [p \in {} |-> 0]

(* macho.h:71-117 *)
Plan ==
  /\ pc = "plan"
  /\ plan' = PlanFor(args)
  /\ pc' = "emit"
  /\ UNCHANGED <<args, step, size, at>>

(* util::append_to_buffer(buffer, piece) *)
Append_(piece) ==
  /\ at' = [p \in DOMAIN at \cup {piece} |-> IF p = piece THEN size ELSE at[p]]
  /\ size' = size + PieceSize(args, piece)
  /\ pc' = pc

(* Mutant of MayResizeTo: no assertion. *)
MayResizeUnchecked(limit) == TRUE

(* assert(buffer.size() <= limit) *)
MayResizeTo(limit) == size <= limit

(* buffer.resize(limit) after its assertion. *)
ResizeTo(limit) ==
  /\ IF MayResizeTo(limit) THEN size' = limit /\ pc' = pc
                           ELSE pc' = "abort" /\ size' = size
  /\ UNCHANGED at

(* macho.h:119-140 *)
Emit ==
  /\ pc = "emit"
  /\ step <= Len(Emission)
  /\ CASE Emission[step] = "resize_to_symbols" -> ResizeTo(SymbolTableOffset)
       [] Emission[step] = "resize_to_dwarf"   -> ResizeTo(plan.fileoff)
       [] OTHER                                -> Append_(Emission[step])
  /\ step' = step + 1
  /\ UNCHANGED <<args, plan>>

(* return buffer *)
Return ==
  /\ pc = "emit"
  /\ step > Len(Emission)
  /\ pc' = "done"
  /\ UNCHANGED <<args, plan, step, size, at>>

Returned ==
  /\ pc \in {"done", "abort"}
  /\ UNCHANGED vars

Next == Plan \/ Emit \/ Return \/ Returned

Spec == Init /\ [][Next]_vars

-----------------------------------------------------------------------------

FieldsInRange ==
  /\ {plan.symoff, plan.stroff, plan.fileoff, plan.filesize, plan.sizeofcmds}
       \subseteq 0 .. Word - 1
  /\ plan.offset \in [Sections -> 0 .. Word - 1]
  /\ plan.length \in [Sections -> 0 .. Word - 1]
  /\ plan.vmaddr \in 0 .. AddrWord - 1
  /\ plan.addr \in [Sections -> 0 .. AddrWord - 1]

(* The announced positions and lengths are uint32_t or T values, and the    *)
(* pieces of the image begin at positions of the buffer (macho.h:71-142).   *)
TypeOK ==
  /\ args \in Arguments
  /\ pc \in {"plan", "emit", "done", "abort"}
  /\ step \in 1 .. Len(Emission) + 1
  /\ size \in Nat
  /\ DOMAIN at \subseteq {Emission[k] : k \in 1 .. Len(Emission)} \ Resizes
  /\ \A p \in DOMAIN at : at[p] \in Nat
  /\ IF pc = "plan" THEN plan = NoPlan ELSE FieldsInRange

(* The image is small enough for its last position to be a uint32_t. *)
Fits == size < Word

(* No address handed out for the image wraps around. *)
AddressesFit == args.vmoff + Page + size <= AddrWord

(* macho.h:131-135: the symbol table and the string table are where         *)
(* LC_SYMTAB says, for every input: when a 32-bit sum has wrapped, one of   *)
(* the two assertions stops the dump.                                       *)
SymtabLocatesTables ==
  pc = "done" => /\ at["symbols"] = plan.symoff
                 /\ at["strings"] = plan.stroff
                 /\ at["strings"] + args.strsize <= plan.fileoff

(* macho.h:86-95 against 137-140: the DWARF sections are appended at the    *)
(* file offsets their headers announced, one after the other, although      *)
(* headers, bytes and offsets are produced in three different orders.       *)
HeadersLocateSections ==
  pc = "done" /\ Fits =>
    \A s \in Sections : /\ at[s] = plan.offset[s]
                        /\ PieceSize(args, s) = plan.length[s]
                        /\ at[s] + plan.length[s] <= size

(* macho.h:97-100: the __DWARF segment maps exactly the bytes of its        *)
(* sections, each at the address of its header.                             *)
SegmentMapsSections ==
  pc = "done" /\ Fits /\ AddressesFit =>
    /\ plan.fileoff + plan.filesize = size
    /\ \A s \in Sections :
         plan.addr[s] - plan.vmaddr = at[s] - plan.fileoff

(* doc/all.md:61 on dwarf_section_vmbase, macho.h:85-94: DWARF data lies    *)
(* above every address of the program, however the base is aligned.         *)
DwarfAboveProgram ==
  pc = "done" /\ Fits /\ AddressesFit =>
    \A s \in Sections : plan.addr[s] >= args.vmoff

(* The commands of the image with their cmdsize fields, in file order. *)
Commands == <<"uuid_command", "symtab_command", "text_segment", "dwarf_segment">>
Cmdsize == [uuid_command   |-> CommandSize,     symtab_command |-> CommandSize,
            text_segment   |-> TextCommandSize, dwarf_segment |-> DwarfCommandSize]
EndOf(command) == at[command] + Cmdsize[command]

(* macho.h:78-82, 97-102, 121-130: a reader that starts behind the header   *)
(* and adds each cmdsize visits the four announced commands, and ends with  *)
(* the last section header and before the symbol table.                     *)
CommandsChain ==
  pc = "done" =>
    /\ at[Commands[1]] = MachHeaderSize
    /\ \A k \in 1 .. 3 : EndOf(Commands[k]) = at[Commands[k + 1]]
    /\ EndOf(Commands[4]) = at["info_header"] + SectionSize
    /\ EndOf(Commands[4]) <= plan.symoff

(* mach-o/loader.h:211-212: the total size of all of the commands is given  *)
(* by the sizeofcmds field of the header.                                   *)
SizeofcmdsCoversCommands ==
  pc = "done" => MachHeaderSize + plan.sizeofcmds = EndOf(Commands[4])

-----------------------------------------------------------------------------
(* The inductive invariant that the properties of the finished image follow *)
(* from: one table of positions for both phases.                            *)

HeadersEnd(sections) ==
  MachHeaderSize + 2 * CommandSize + 2 * SegmentSize + sections * SectionSize

(* buffer.size() before each step of Emission, and at the end. *)
SizeBefore ==
  LET tables == SymbolTableOffset + SymbolsSize(args.nsyms)
      info   == plan.fileoff + LineSize
      abbrev == info + InfoSize(args.nsyms)
      str    == abbrev + AbbrevSize
  IN <<0, MachHeaderSize, MachHeaderSize + CommandSize,
       HeadersEnd(0) - 2 * SegmentSize, HeadersEnd(0) - SegmentSize,
       HeadersEnd(1) - SegmentSize, HeadersEnd(1), HeadersEnd(2), HeadersEnd(3),
       HeadersEnd(4), HeadersEnd(5),
       SymbolTableOffset, tables, tables + args.strsize,
       plan.fileoff, info, abbrev, str, str + args.strsize>>

(* The last element of Emission whose step has been taken is step - 1. *)
Placed ==
  \A k \in 1 .. step - 1 :
    Emission[k] \notin Resizes =>
      Emission[k] \in DOMAIN at /\ at[Emission[k]] = SizeBefore[k]

IInv ==
  /\ TypeOK
  /\ pc = "plan" => step = 1 /\ size = 0
  /\ pc # "plan" => plan = PlanFor(args)
  /\ pc \in {"emit", "done"} =>
       /\ size = SizeBefore[step]
       /\ step > 14 => SizeBefore[14] <= plan.fileoff
  /\ pc = "done" => step = Len(Emission) + 1
  /\ Placed
=============================================================================
