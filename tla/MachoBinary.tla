---------------------------- MODULE MachoBinary ----------------------------
(***************************************************************************)
(* A Mach-O binary as mach-o/loader.h describes it and the linker makes    *)
(* it: the header, the load commands one behind the other, and behind them *)
(* the tables the commands point to, in the order of their commands.       *)
(* A binary is a record of its width, its magic, its load commands, the     *)
(* length it was cut to, if it was, and the field that does not tell the   *)
(* truth, if any.                                                          *)
(***************************************************************************)
EXTENDS LoaderStructs

(* Commands.  A segment has sections with relocations, a symbol table the    *)
(* names of its symbols, a dysymtab indirect symbols, another one some bytes.*)
Segment(addr, size, relocs) ==
  [kind |-> "segment", vmaddr |-> addr, vmsize |-> size, relocs |-> relocs]
Symtab(names) == [kind |-> "symtab", names |-> names]
Dysymtab(n) == [kind |-> "dysymtab", n |-> n]
Uuid(id) == [kind |-> "uuid", id |-> id]
Other(size) == [kind |-> "other", size |-> size]

Item ==
  [kind : {"segment"}, vmaddr : Nat, vmsize : Nat, relocs : Seq(Nat)]
    \cup [kind : {"symtab"}, names : Seq(STRING)]
    \cup [kind : {"dysymtab"}, n : Nat]
    \cup [kind : {"uuid"}, id : STRING]
    \cup [kind : {"other"}, size : Nat]

(* The magics lipo leaves in a file tell its width. *)
WellFormed(b) ==
  /\ b.wide \in BOOLEAN /\ b.cut \in Nat
  /\ b.items \in Seq(Item)
  /\ b.lie \in {"nothing", "sizeofcmds", "cmdsize", "n_strx"}
  /\ b.magic = "CFFAEDFE" => b.wide
  /\ b.magic = "CEFAEDFE" => ~b.wide

SegmentItems(b) == {k \in DOMAIN b.items : b.items[k].kind = "segment"}

Cmd(wide, item) ==
  CASE item.kind = "segment"  -> IF wide THEN LC_SEGMENT_64 ELSE LC_SEGMENT
    [] item.kind = "symtab"   -> LC_SYMTAB
    [] item.kind = "dysymtab" -> LC_DYSYMTAB
    [] item.kind = "uuid"     -> LC_UUID
    [] item.kind = "other"    -> 38         \* LC_FUNCTION_STARTS

Cmdsize(wide, item) ==
  CASE item.kind = "segment"  -> SizeOf(SegmentCommand(wide))
                                   + Len(item.relocs) * SizeOf(Section(wide))
    [] item.kind = "symtab"   -> SizeOf(symtab_command)
    [] item.kind = "dysymtab" -> SizeOf(dysymtab_command)
    [] item.kind = "uuid"     -> SizeOf(uuid_command)
    [] item.kind = "other"    -> SizeOf(load_command) + item.size

(* Item k of the commands begins here; the tables begin behind the last. *)
CommandAt(b, k) ==
  SizeOf(MachHeader(b.wide))
    + MapThenSumSet(LAMBDA j : Cmdsize(b.wide, b.items[j]), 1 .. k - 1)

(* In a string table every name takes four bytes behind an empty name. *)
StringTableSize(names) == 1 + 4 * Len(names)
IndexOfName(k) == 1 + 4 * (k - 1)
StringTable(names) ==
  [i \in {0} \cup {IndexOfName(k) : k \in DOMAIN names} |->
     IF i = 0 THEN "" ELSE names[(i - 1) \div 4 + 1]]

RelocsBefore(item, s) == MapThenSumSet(LAMBDA j : item.relocs[j], 1 .. s - 1)

TableSize(wide, item) ==
  CASE item.kind = "segment"  -> RelocsBefore(item, Len(item.relocs) + 1)
                                   * SizeOf(relocation_info)
    [] item.kind = "symtab"   -> Len(item.names) * SizeOf(NlistOfWidth(wide))
                                   + StringTableSize(item.names)
    [] item.kind = "dysymtab" -> 4 * item.n
    [] OTHER                  -> 0

TableAt(b, k) ==
  CommandAt(b, Len(b.items) + 1)
    + MapThenSumSet(LAMBDA j : TableSize(b.wide, b.items[j]), 1 .. k - 1)

FileSize(b) == TableAt(b, Len(b.items) + 1)

-----------------------------------------------------------------------------

Wrong(b, field) == IF b.lie = field THEN 4 ELSE 0

Header(b) ==
  [magic      |-> IF b.wide THEN "MH_MAGIC_64" ELSE "MH_MAGIC",
   ncmds      |-> Len(b.items),
   sizeofcmds |-> CommandAt(b, Len(b.items) + 1) - SizeOf(MachHeader(b.wide))
                    + Wrong(b, "sizeofcmds")]

CommandHead(b, k) ==
  [cmd |-> Cmd(b.wide, b.items[k]),
   cmdsize |-> Cmdsize(b.wide, b.items[k]) + Wrong(b, "cmdsize")]

SectionCells(b, k, s) ==
  Cells(Section(b.wide),
        Filled(Section(b.wide),
               [nreloc |-> b.items[k].relocs[s],
                reloff |-> TableAt(b, k) + RelocsBefore(b.items[k], s)
                                             * SizeOf(relocation_info)]),
        CommandAt(b, k) + SizeOf(SegmentCommand(b.wide)) + (s - 1) * SizeOf(Section(b.wide)))

SegmentCells(b, k) ==
  LET item == b.items[k]
  IN Cells(SegmentCommand(b.wide),
           Filled(SegmentCommand(b.wide),
                  [vmaddr |-> item.vmaddr, vmsize |-> item.vmsize,
                   nsects |-> Len(item.relocs),
                   cmd |-> CommandHead(b, k).cmd, cmdsize |-> CommandHead(b, k).cmdsize]),
           CommandAt(b, k))
       \cup (UNION {SectionCells(b, k, s) : s \in DOMAIN item.relocs})

SymbolCells(b, k, s) ==
  LET names  == b.items[k].names
      struct == NlistOfWidth(b.wide)
  IN Cells(struct,
           Filled(struct, [n_strx |-> IndexOfName(s) + Wrong(b, "n_strx") * Len(names)]),
           TableAt(b, k) + (s - 1) * SizeOf(struct))

SymtabCells(b, k) ==
  LET names  == b.items[k].names
      struct == NlistOfWidth(b.wide)
      stroff == TableAt(b, k) + Len(names) * SizeOf(struct)
  IN Cells(symtab_command,
           [cmd |-> CommandHead(b, k).cmd, cmdsize |-> CommandHead(b, k).cmdsize,
            symoff |-> TableAt(b, k), nsyms |-> Len(names),
            stroff |-> stroff, strsize |-> StringTableSize(names)],
           CommandAt(b, k))
       \cup {[at |-> stroff, name |-> "strings", width |-> StringTableSize(names),
              value |-> StringTable(names)]}
       \cup (UNION {SymbolCells(b, k, s) : s \in DOMAIN names})

ItemCells(b, k) ==
  LET item == b.items[k]
  IN CASE item.kind = "segment" -> SegmentCells(b, k)
       [] item.kind = "symtab"  -> SymtabCells(b, k)
       [] item.kind = "dysymtab" ->
            Cells(dysymtab_command,
                  Filled(dysymtab_command,
                         [cmd |-> CommandHead(b, k).cmd, cmdsize |-> CommandHead(b, k).cmdsize,
                          indirectsymoff |-> TableAt(b, k), nindirectsyms |-> item.n]),
                  CommandAt(b, k))
       [] item.kind = "uuid" ->
            Cells(uuid_command,
                  [cmd |-> CommandHead(b, k).cmd, cmdsize |-> CommandHead(b, k).cmdsize,
                   uuid |-> item.id],
                  CommandAt(b, k))
       [] item.kind = "other" ->
            Cells(load_command, CommandHead(b, k), CommandAt(b, k))

FileOf(b) ==
  [magic  |-> b.magic,
   length |-> IF b.cut < FileSize(b) THEN b.cut ELSE FileSize(b),
   cells  |-> Contents(Cells(MachHeader(b.wide), Filled(MachHeader(b.wide), Header(b)), 0)
                         \cup (UNION {ItemCells(b, k) : k \in DOMAIN b.items}))]

(* A binary that is complete and says the truth about itself. *)
Sound(b) ==
  /\ b.cut >= FileSize(b) /\ b.lie = "nothing"
  /\ b.magic \in (IF b.wide THEN {"CFFAEDFE", "FEEDFACF"} ELSE {"CEFAEDFE", "FEEDFACE"})
  /\ \A k, j \in DOMAIN b.items :
       b.items[k].kind = "symtab" /\ b.items[j].kind = "symtab" => k = j
=============================================================================
