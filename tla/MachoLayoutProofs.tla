------------------------- MODULE MachoLayoutProofs -------------------------
(***************************************************************************)
(* Proofs about MachoLayout: the commands and headers announce the places  *)
(* of the bytes for images of every size, every width of the words and     *)
(* every base address.                                                     *)
(***************************************************************************)
EXTENDS MachoLayout, TLAPS

-----------------------------------------------------------------------------
(* Remainders.  The prover only knows what division by a number that is a   *)
(* constant of the specification means.                                     *)

(* A multiple of W that lies strictly between -W and W is zero. *)
LEMMA OnlyZeroMultiple ==
  ASSUME NEW W \in Nat \ {0}, NEW k \in Int, -W < W * k, W * k < W
  PROVE  k = 0
<1>1. ASSUME k >= 1 PROVE FALSE
  <2>1. W * k = W + W * (k - 1)
    OBVIOUS
  <2>2. W * (k - 1) >= 0
    BY <1>1
  <2> QED  BY <2>1, <2>2
<1>2. ASSUME k <= -1 PROVE FALSE
  <2>1. W * k = -W + W * (k + 1)
    OBVIOUS
  <2>2. W * (k + 1) <= 0
    BY <1>2
  <2> QED  BY <2>1, <2>2
<1> QED  BY <1>1, <1>2

(* The remainder is determined by its range and its congruence. *)
LEMMA RemainderUnique ==
  ASSUME NEW W \in Nat \ {0}, NEW k \in Int, NEW s \in 0 .. W - 1
  PROVE  (W * k + s) % W = s
<1> DEFINE y == W * k + s
           j == y \div W
           t == y % W
<1>1. y = W * j + t /\ t \in 0 .. W - 1 /\ j \in Int
  OBVIOUS
<1>2. W * (k - j) = t - s
  BY <1>1
<1>3. k - j = 0
  BY <1>1, <1>2, OnlyZeroMultiple
<1> QED  BY <1>1, <1>2, <1>3

(* A number below the modulus is its own remainder. *)
LEMMA RemainderOfSmall ==
  ASSUME NEW W \in Nat \ {0}, NEW x \in 0 .. W - 1
  PROVE  x % W = x
<1>1. x = W * 0 + x
  OBVIOUS
<1> QED  BY <1>1, RemainderUnique

-----------------------------------------------------------------------------
(* The order of the pieces. *)

(* The inverse of Emission. *)
PositionOf(piece) ==
  CASE piece = "mach_header"       -> 1   [] piece = "uuid_command"  -> 2
    [] piece = "symtab_command"    -> 3   [] piece = "text_segment"  -> 4
    [] piece = "text_header"       -> 5   [] piece = "dwarf_segment" -> 6
    [] piece = "line_header"       -> 7   [] piece = "str_header"    -> 8
    [] piece = "abbrev_header"     -> 9   [] piece = "info_header"   -> 10
    [] piece = "resize_to_symbols" -> 11  [] piece = "symbols"       -> 12
    [] piece = "strings"           -> 13  [] piece = "resize_to_dwarf" -> 14
    [] piece = "line"              -> 15  [] piece = "info"          -> 16
    [] piece = "abbrev"            -> 17  [] piece = "str"           -> 18

(* Emission is the concatenation of three lists of 10, 4 and 4 elements. *)
LEMMA EmissionOrder ==
  /\ Len(Emission) = 18
  /\ Emission[1] = "mach_header"        /\ Emission[2] = "uuid_command"
  /\ Emission[3] = "symtab_command"     /\ Emission[4] = "text_segment"
  /\ Emission[5] = "text_header"        /\ Emission[6] = "dwarf_segment"
  /\ Emission[7] = "line_header"        /\ Emission[8] = "str_header"
  /\ Emission[9] = "abbrev_header"      /\ Emission[10] = "info_header"
  /\ Emission[11] = "resize_to_symbols" /\ Emission[12] = "symbols"
  /\ Emission[13] = "strings"           /\ Emission[14] = "resize_to_dwarf"
  /\ Emission[15] = "line"              /\ Emission[16] = "info"
  /\ Emission[17] = "abbrev"            /\ Emission[18] = "str"
<1>1. Len(Emission) = 18
  BY DEF Emission, HeaderPieces, SectionPieces
<1>2. /\ Emission[1] = "mach_header"   /\ Emission[2] = "uuid_command"
      /\ Emission[3] = "symtab_command" /\ Emission[4] = "text_segment"
      /\ Emission[5] = "text_header"
  BY DEF Emission, HeaderPieces, SectionPieces
<1>3. /\ Emission[6] = "dwarf_segment" /\ Emission[7] = "line_header"
      /\ Emission[8] = "str_header"    /\ Emission[9] = "abbrev_header"
      /\ Emission[10] = "info_header"
  BY DEF Emission, HeaderPieces, SectionPieces
<1>4. /\ Emission[11] = "resize_to_symbols" /\ Emission[12] = "symbols"
      /\ Emission[13] = "strings"           /\ Emission[14] = "resize_to_dwarf"
  BY DEF Emission, HeaderPieces, SectionPieces
<1>5. /\ Emission[15] = "line"   /\ Emission[16] = "info"
      /\ Emission[17] = "abbrev" /\ Emission[18] = "str"
  BY DEF Emission, HeaderPieces, SectionPieces
<1> QED  BY <1>1, <1>2, <1>3, <1>4, <1>5

(* No piece is appended twice. *)
LEMMA EmissionInjective ==
  ASSUME NEW j \in 1 .. 18, NEW k \in 1 .. 18, Emission[j] = Emission[k]
  PROVE  j = k
<1>1. \A i \in 1 .. 18 : PositionOf(Emission[i]) = i
  <2> SUFFICES ASSUME NEW i \in 1 .. 18 PROVE PositionOf(Emission[i]) = i
    OBVIOUS
  <2>1. CASE i \in 1 .. 5
    BY <2>1, EmissionOrder DEF PositionOf
  <2>2. CASE i \in 6 .. 10
    BY <2>2, EmissionOrder DEF PositionOf
  <2>3. CASE i \in 11 .. 14
    BY <2>3, EmissionOrder DEF PositionOf
  <2>4. CASE i \in 15 .. 18
    BY <2>4, EmissionOrder DEF PositionOf
  <2> QED  BY <2>1, <2>2, <2>3, <2>4
<1> QED  BY <1>1

(* Two steps resize, the others append. *)
LEMMA ResizesAre ==
  ASSUME NEW k \in 1 .. 18
  PROVE  /\ Emission[k] \in Resizes <=> k \in {11, 14}
         /\ Emission[k] = "resize_to_symbols" <=> k = 11
         /\ Emission[k] = "resize_to_dwarf" <=> k = 14
<1>1. Emission[11] = "resize_to_symbols" /\ Emission[14] = "resize_to_dwarf"
  BY EmissionOrder
<1> QED  BY <1>1, EmissionInjective DEF Resizes

-----------------------------------------------------------------------------
(* The sizes of the pieces. *)

(* PieceSize of each header, for every call. *)
LEMMA SizesOfHeaders ==
  ASSUME NEW a
  PROVE  /\ PieceSize(a, "mach_header") = MachHeaderSize
         /\ PieceSize(a, "uuid_command") = CommandSize
         /\ PieceSize(a, "symtab_command") = CommandSize
         /\ PieceSize(a, "text_segment") = SegmentSize
         /\ PieceSize(a, "dwarf_segment") = SegmentSize
         /\ PieceSize(a, "text_header") = SectionSize
         /\ PieceSize(a, "line_header") = SectionSize
         /\ PieceSize(a, "str_header") = SectionSize
         /\ PieceSize(a, "abbrev_header") = SectionSize
         /\ PieceSize(a, "info_header") = SectionSize
BY DEF PieceSize

(* The same for the contents of the tables and sections. *)
LEMMA SizesOfContents ==
  ASSUME NEW a
  PROVE  /\ PieceSize(a, "symbols") = SymbolsSize(a.nsyms)
         /\ PieceSize(a, "strings") = a.strsize
         /\ PieceSize(a, "line") = LineSize
         /\ PieceSize(a, "info") = InfoSize(a.nsyms)
         /\ PieceSize(a, "abbrev") = AbbrevSize
         /\ PieceSize(a, "str") = a.strsize
BY DEF PieceSize

(* What the assumption says of one call. *)
LEMMA ArgumentsAre ==
  ASSUME args \in Arguments
  PROVE  /\ args.wide \in BOOLEAN /\ args.nsyms \in Nat
         /\ args.strsize \in 0 .. Word - 1
         /\ AddrWord \in Nat /\ AddrWord >= Word /\ AddrWord % Page = 0
         /\ args.vmoff \in 0 .. AddrWord - 1
         /\ Word \in Nat /\ Word > 4096
BY LayoutAssumption DEF AddrWord, Sizeof, SymbolTableOffset

(* Every size is a natural number; the structures have one of two sizes. *)
LEMMA SizesAreNat ==
  ASSUME args \in Arguments
  PROVE  /\ MachHeaderSize \in {28, 32} /\ CommandSize = 24
         /\ SegmentSize \in {56, 72} /\ SectionSize \in {68, 80}
         /\ LineSize = 20 /\ AbbrevSize = 18
         /\ SymbolsSize(args.nsyms) \in Nat /\ InfoSize(args.nsyms) \in Nat
         /\ args.strsize \in Nat
<1>1. args.nsyms \in Nat /\ args.strsize \in Nat /\ args.wide \in BOOLEAN
  BY ArgumentsAre
<1>2. SymbolsSize(args.nsyms) \in Nat
  BY <1>1 DEF SymbolsSize, Sizeof
<1>3. InfoSize(args.nsyms) \in Nat
  BY <1>1 DEF InfoSize, Sizeof
<1> QED
  BY <1>1, <1>2, <1>3 DEF MachHeaderSize, CommandSize, SegmentSize, SectionSize,
     LineSize, AbbrevSize, Sizeof

(* Each piece ends where the next one begins. *)
LEMMA PiecesAdjoin ==
  ASSUME args \in Arguments, plan.fileoff \in Nat, NEW k \in 1 .. 18
  PROVE  /\ SizeBefore[k] \in Nat /\ SizeBefore[k + 1] \in Nat
         /\ k \notin {11, 14} =>
              SizeBefore[k + 1] = SizeBefore[k] + PieceSize(args, Emission[k])
<1> USE SizesAreNat
<1>1. CASE k \in {1, 2, 3}
  BY <1>1, EmissionOrder, SizesOfHeaders DEF SizeBefore, HeadersEnd
<1>2. CASE k \in {4, 5, 6}
  BY <1>2, EmissionOrder, SizesOfHeaders DEF SizeBefore, HeadersEnd
<1>3. CASE k \in {7, 8, 9, 10}
  BY <1>3, EmissionOrder, SizesOfHeaders DEF SizeBefore, HeadersEnd
<1>4. CASE k \in {11, 12, 13, 14}
  BY <1>4, EmissionOrder, SizesOfContents DEF SizeBefore, HeadersEnd, SymbolTableOffset
<1>5. CASE k \in {15, 16, 17, 18}
  BY <1>5, EmissionOrder, SizesOfContents DEF SizeBefore, HeadersEnd
<1> QED  BY <1>1, <1>2, <1>3, <1>4, <1>5

-----------------------------------------------------------------------------
(* The fields of the plan. *)

(* A remainder lies below the modulus. *)
LEMMA Wraps ==
  ASSUME NEW W \in Nat \ {0}, NEW x \in Int
  PROVE  x % W \in 0 .. W - 1
OBVIOUS

(* align_to goes up by less than a page unless it wraps. *)
LEMMA AlignUp ==
  ASSUME NEW m \in Nat \ {0}, m % Page = 0, NEW a \in 0 .. m - 1
  PROVE  /\ AlignTo(a, m) \in 0 .. m - 1
         /\ a + Page <= m => a <= AlignTo(a, m) /\ AlignTo(a, m) < a + Page
<1> DEFINE b == (a - 1) % m
           up == (b \div 4096 + 1) * 4096
<1>1. b \in 0 .. m - 1
  OBVIOUS
<1>2. up \in Nat /\ up % m \in 0 .. m - 1
  <2>1. up \in Nat
    BY <1>1
  <2> HIDE DEF up
  <2> QED  BY <2>1
<1>3. ASSUME a + 4096 <= m PROVE a <= up % m /\ up % m < a + 4096
  <2>1. CASE a = 0
    <3>1. b = m - 1
      <4>1. a - 1 = m * (-1) + (m - 1)
        BY <2>1
      <4> QED  BY <4>1, RemainderUnique
    <3>2. PICK q \in Nat : m = 4096 * q
      BY DEF Page
    <3>3. up = m * 1 + 0
      BY <3>1, <3>2
    <3>4. up % m = 0
      BY <3>3, RemainderUnique
    <3> QED  BY <2>1, <3>4
  <2>2. CASE a > 0
    <3>1. b = a - 1
      BY <2>2, RemainderOfSmall
    <3>2. a <= up /\ up < a + 4096
      BY <2>2, <3>1
    <3>3. up % m = up
      BY <1>2, <1>3, <3>2, RemainderOfSmall
    <3> QED  BY <3>2, <3>3
  <2> QED  BY <2>1, <2>2
<1> QED  BY <1>2, <1>3 DEF AlignTo, Page

(* The equations of PlanFor, one by one. *)
LEMMA PlanIs ==
  ASSUME plan = PlanFor(args)
  PROVE  /\ plan.symoff = 4096
         /\ plan.stroff = U32(4096 + SymbolsSize(args.nsyms))
         /\ plan.fileoff = AlignTo(U32(plan.stroff + args.strsize), Word)
         /\ plan.filesize = U32(U32(plan.offset["str"] + args.strsize) - plan.fileoff)
         /\ plan.vmaddr = Addr(AlignTo(args.vmoff, AddrWord) + plan.fileoff)
         /\ plan.sizeofcmds = CommandSize + CommandSize + SegmentSize + SectionSize
         /\ plan.offset = SectionOffsets(plan.fileoff, args)
         /\ plan.addr = [s \in Sections |->
                            Addr(AlignTo(args.vmoff, AddrWord) + plan.offset[s])]
         /\ plan.length = [s \in Sections |-> U32(PieceSize(args, s))]
BY DEF PlanFor, SymbolTableOffset, SegmentAddress, SectionAddress

(* The section offsets, each the wrapped sum of the one before it. *)
LEMMA OffsetsAre ==
  ASSUME plan = PlanFor(args)
  PROVE  /\ DOMAIN plan.offset = Sections
         /\ plan.offset["line"] = plan.fileoff
         /\ plan.offset["info"] = U32(plan.fileoff + LineSize)
         /\ plan.offset["abbrev"] = U32(plan.offset["info"] + InfoSize(args.nsyms))
         /\ plan.offset["str"] = U32(plan.offset["abbrev"] + AbbrevSize)
<1>1. plan.offset = SectionOffsets(plan.fileoff, args)
  BY PlanIs
<1> QED  BY <1>1 DEF SectionOffsets, Sections

(* The fields fit their widths. *)
LEMMA PlanInRange ==
  args \in Arguments /\ plan = PlanFor(args) => FieldsInRange /\ plan.fileoff \in Nat
<1> SUFFICES ASSUME args \in Arguments, plan = PlanFor(args)
             PROVE  FieldsInRange /\ plan.fileoff \in Nat
  OBVIOUS
<1>1. /\ Word \in Nat \ {0} /\ Word > 4096 /\ Word % Page = 0
      /\ AddrWord \in Nat \ {0} /\ AddrWord % Page = 0
      /\ args.vmoff \in 0 .. AddrWord - 1
  BY ArgumentsAre, LayoutAssumption
<1>2. \A x \in Int : U32(x) \in 0 .. Word - 1 /\ Addr(x) \in 0 .. AddrWord - 1
  <2> SUFFICES ASSUME NEW x \in Int
               PROVE  x % Word \in 0 .. Word - 1 /\ x % AddrWord \in 0 .. AddrWord - 1
    BY DEF U32, Addr
  <2> QED  BY <1>1
<1>3. plan.stroff \in 0 .. Word - 1
  BY <1>2, PlanIs, SizesAreNat
<1>4. plan.fileoff \in 0 .. Word - 1
  <2>1. U32(plan.stroff + args.strsize) \in 0 .. Word - 1
    BY <1>2, <1>3, SizesAreNat
  <2> QED  BY <1>1, <2>1, PlanIs, AlignUp
<1>5. /\ plan.offset["line"] \in 0 .. Word - 1
      /\ plan.offset["info"] \in 0 .. Word - 1
      /\ plan.offset["abbrev"] \in 0 .. Word - 1
      /\ plan.offset["str"] \in 0 .. Word - 1
  BY <1>2, <1>4, OffsetsAre, SizesAreNat
<1>6. plan.offset \in [Sections -> 0 .. Word - 1]
  <2>1. plan.offset = [line   |-> plan.offset["line"],   info |-> plan.offset["info"],
                       abbrev |-> plan.offset["abbrev"], str  |-> plan.offset["str"]]
    BY PlanIs DEF SectionOffsets
  <2> QED  BY <1>5, <2>1 DEF Sections
<1>7. plan.length \in [Sections -> 0 .. Word - 1]
  <2>1. \A s \in Sections : PieceSize(args, s) \in Int
    BY SizesOfContents, SizesAreNat DEF Sections
  <2> QED  BY <1>2, <2>1, PlanIs
<1>8. plan.filesize \in 0 .. Word - 1
  <2>1. U32(plan.offset["str"] + args.strsize) \in Int
    BY <1>2, <1>5, SizesAreNat
  <2>2. U32(plan.offset["str"] + args.strsize) - plan.fileoff \in Int
    BY <1>4, <2>1
  <2> QED  BY <1>2, <2>2, PlanIs
<1>9. plan.sizeofcmds \in 0 .. Word - 1
  BY <1>1, PlanIs, SizesAreNat
<1>10. AlignTo(args.vmoff, AddrWord) \in Int
  BY <1>1, AlignUp
<1>11. plan.vmaddr \in 0 .. AddrWord - 1
  BY <1>2, <1>4, <1>10, PlanIs
<1>12. plan.addr \in [Sections -> 0 .. AddrWord - 1]
  <2>1. \A s \in Sections : AlignTo(args.vmoff, AddrWord) + plan.offset[s] \in Int
    BY <1>6, <1>10
  <2> QED  BY <1>2, <2>1, PlanIs
<1> QED
  BY <1>1, <1>3, <1>4, <1>6, <1>7, <1>8, <1>9, <1>11, <1>12, PlanIs DEF FieldsInRange

-----------------------------------------------------------------------------
(* The inductive invariant. *)

(* A step that leaves the arguments alone leaves their plan alone. *)
LEMMA SamePlan ==
  ASSUME args' = args
  PROVE  PlanFor(args)' = PlanFor(args)
<1>1. \A s \in Sections : PieceSize(args, s)' = PieceSize(args, s)
  BY Zenon DEF PieceSize, SymbolsSize, InfoSize, Sizeof, MachHeaderSize, SegmentSize, SectionSize
<1>2. AddrWord' = AddrWord
  BY DEF AddrWord, Sizeof
<1> QED
  BY <1>1, <1>2 DEF PlanFor, SectionOffsets, SymbolsSize, InfoSize, Sizeof,
     SectionAddress, SegmentAddress, Addr, SegmentSize, SectionSize

(* ... and the table of positions and the ranges of the fields, too. *)
LEMMA SameTables ==
  ASSUME args' = args, plan' = plan
  PROVE  SizeBefore' = SizeBefore /\ FieldsInRange' = FieldsInRange
BY DEF SizeBefore, HeadersEnd, MachHeaderSize, SymbolsSize, InfoSize, Sizeof,
   SegmentSize, SectionSize, FieldsInRange, AddrWord

(* Nothing is planned or placed yet. *)
LEMMA InitIInv == Init => IInv
<1> SUFFICES ASSUME Init PROVE IInv
  OBVIOUS
<1>1. DOMAIN at = {}
  BY DEF Init
<1>2. TypeOK
  BY <1>1, EmissionOrder DEF Init, TypeOK
<1>3. Placed
  BY DEF Init, Placed
<1> QED  BY <1>2, <1>3 DEF Init, IInv

(* The plan is made before the first piece is appended. *)
LEMMA PlanIInv == IInv /\ Plan => IInv'
<1> SUFFICES ASSUME IInv, Plan PROVE IInv'
  OBVIOUS
<1>1. /\ pc = "plan" /\ pc' = "emit" /\ plan' = PlanFor(args)
      /\ step = 1 /\ size = 0 /\ UNCHANGED <<args, step, size, at>>
  BY DEF IInv, Plan
<1>2. args' \in Arguments
  BY <1>1 DEF IInv, TypeOK
<1>3. plan' = PlanFor(args)'
  BY <1>1, SamePlan
<1>4. FieldsInRange'
  <2>1. (args \in Arguments /\ plan = PlanFor(args))'
    BY <1>2, <1>3
  <2> QED  BY <2>1, PlanInRange, PTL
<1>5. TypeOK'
  BY <1>1, <1>2, <1>4 DEF IInv, TypeOK
<1>6. SizeBefore[1]' = 0
  BY DEF SizeBefore
<1>7. Placed'
  BY <1>1 DEF Placed
<1> QED  BY <1>1, <1>3, <1>5, <1>6, <1>7 DEF IInv

(* A piece is appended at its position in the table, or the buffer grows to *)
(* the next position, unless an assertion stops the dump.                   *)
LEMMA EmitIInv == IInv /\ Emit => IInv'
<1> SUFFICES ASSUME IInv, Emit PROVE IInv'
  OBVIOUS
<1>1. /\ pc = "emit" /\ step \in 1 .. 18 /\ step' = step + 1 /\ args' = args /\ plan' = plan
      /\ args \in Arguments /\ plan = PlanFor(args)
  BY EmissionOrder DEF IInv, TypeOK, Emit
<1>2. FieldsInRange /\ plan.fileoff \in Nat
  BY <1>1, PlanInRange
<1>3. size = SizeBefore[step] /\ size \in Nat
  BY <1>1 DEF IInv, TypeOK
<1>4. SizeBefore' = SizeBefore /\ PlanFor(args)' = PlanFor(args) /\ FieldsInRange' = FieldsInRange
  BY <1>1, SamePlan, SameTables
<1>5. CASE step \notin {11, 14}
  <2>1. Append_(Emission[step])
    BY <1>1, <1>5, ResizesAre DEF Emit
  <2>2. /\ pc' = "emit"
        /\ at' = [p \in DOMAIN at \cup {Emission[step]} |->
                    IF p = Emission[step] THEN size ELSE at[p]]
        /\ size' = SizeBefore[step'] /\ size' \in Nat
    BY <1>1, <1>2, <1>3, <1>5, <2>1, PiecesAdjoin DEF Append_
  <2>3. Placed'
    <3> SUFFICES ASSUME NEW k \in 1 .. step, Emission[k] \notin Resizes
                 PROVE  Emission[k] \in DOMAIN at' /\ at'[Emission[k]] = SizeBefore[k]
      BY <1>1, <1>4 DEF Placed
    <3>1. CASE k = step
      BY <1>3, <2>2, <3>1
    <3>2. CASE k # step
      <4>1. Emission[k] # Emission[step]
        BY <1>1, <3>2, EmissionInjective
      <4>2. Emission[k] \in DOMAIN at /\ at[Emission[k]] = SizeBefore[k]
        BY <1>1, <3>2 DEF IInv, Placed
      <4> QED  BY <2>2, <4>1, <4>2
    <3> QED  BY <3>1, <3>2
  <2>4. TypeOK'
    <3>1. Emission[step] \in {Emission[k] : k \in 1 .. Len(Emission)} \ Resizes
      BY <1>1, <1>5, EmissionOrder, ResizesAre
    <3>2. DOMAIN at' = DOMAIN at \cup {Emission[step]}
      BY <2>2
    <3>3. \A p \in DOMAIN at' : at'[p] \in Nat
      BY <1>3, <2>2 DEF IInv, TypeOK
    <3> QED  BY <1>1, <1>2, <1>4, <2>2, <3>1, <3>2, <3>3, EmissionOrder DEF IInv, TypeOK
  <2>5. step' > 14 => SizeBefore[14] <= plan.fileoff
    BY <1>1, <1>5 DEF IInv
  <2> QED  BY <1>1, <1>4, <2>2, <2>3, <2>4, <2>5 DEF IInv
<1>6. CASE step \in {11, 14}
  <2> DEFINE limit == IF step = 11 THEN SymbolTableOffset ELSE plan.fileoff
  <2>1. ResizeTo(limit)
    BY <1>1, <1>6, EmissionOrder DEF Emit
  <2>2. limit \in Nat /\ limit = SizeBefore[step + 1]
    BY <1>2, <1>6 DEF SizeBefore, SymbolTableOffset
  <2>3. /\ at' = at /\ size' \in Nat
        /\ \/ size <= limit /\ size' = limit /\ pc' = "emit"
           \/ pc' = "abort"
    BY <1>1, <1>3, <2>1, <2>2 DEF ResizeTo, MayResizeTo
  <2>4. TypeOK'
    BY <1>1, <1>2, <1>4, <2>3, EmissionOrder DEF IInv, TypeOK
  <2>5. Placed'
    <3> SUFFICES ASSUME NEW k \in 1 .. step, Emission[k] \notin Resizes
                 PROVE  Emission[k] \in DOMAIN at /\ at[Emission[k]] = SizeBefore[k]
      BY <1>1, <1>4, <2>3 DEF Placed
    <3>1. k # step
      BY <1>1, <1>6, ResizesAre
    <3> QED  BY <1>1, <3>1 DEF IInv, Placed
  <2>6. pc' = "emit" => size' = SizeBefore[step']
    BY <1>1, <2>2, <2>3
  <2>7. pc' = "emit" /\ step' > 14 => SizeBefore[14] <= plan.fileoff
    BY <1>1, <1>3, <1>6, <2>3
  <2> QED  BY <1>1, <1>4, <2>3, <2>4, <2>5, <2>6, <2>7 DEF IInv
<1> QED  BY <1>5, <1>6

(* Nothing but pc changes in the other steps. *)
LEMMA ReturnIInv == IInv /\ (Return \/ UNCHANGED vars) => IInv'
<1> SUFFICES ASSUME IInv, Return \/ UNCHANGED vars PROVE IInv'
  OBVIOUS
<1>1. /\ UNCHANGED <<args, plan, step, size, at>>
      /\ \/ pc' = pc
         \/ pc = "emit" /\ step > 18 /\ pc' = "done"
  <2>1. CASE Return
    BY <2>1, EmissionOrder DEF Return
  <2>2. CASE UNCHANGED vars
    BY <2>2 DEF vars
  <2> QED  BY <2>1, <2>2
<1>2. /\ SizeBefore' = SizeBefore /\ PlanFor(args)' = PlanFor(args)
      /\ FieldsInRange' = FieldsInRange
  BY <1>1, SamePlan, SameTables
<1>3. TypeOK'
  BY <1>1, <1>2 DEF IInv, TypeOK
<1>4. Placed'
  BY <1>1, <1>2 DEF IInv, Placed
<1>5. pc' = "done" => step' = Len(Emission) + 1
  BY <1>1, EmissionOrder DEF IInv, TypeOK
<1> QED  BY <1>1, <1>2, <1>3, <1>4, <1>5 DEF IInv

(* For inputs and words of every size, every reachable state satisfies the  *)
(* inductive invariant.                                                     *)
THEOREM Inductive == Spec => []IInv
<1>1. IInv /\ [Next]_vars => IInv'
  BY PlanIInv, EmitIInv, ReturnIInv DEF Next, Returned
<1> QED  BY InitIInv, <1>1, PTL DEF Spec

(* Every announced field fits its width, every piece has one position       *)
(* (macho.h:71-142).                                                        *)
THEOREM TypeCorrect == Spec => []TypeOK
BY Inductive, PTL DEF IInv

-----------------------------------------------------------------------------
(* What the inductive invariant says of the finished image. *)

(* Where the pieces of the finished image are. *)
LEMMA Finished ==
  ASSUME IInv, pc = "done"
  PROVE  /\ args \in Arguments /\ plan = PlanFor(args) /\ plan.fileoff \in Nat
         /\ size = SizeBefore[19] /\ SizeBefore[14] <= plan.fileoff
         /\ \A k \in 1 .. 18 : k \notin {11, 14} => at[Emission[k]] = SizeBefore[k]
<1>1. /\ args \in Arguments /\ plan = PlanFor(args) /\ step = 19
      /\ size = SizeBefore[19] /\ SizeBefore[14] <= plan.fileoff
  BY EmissionOrder DEF IInv, TypeOK
<1>2. \A k \in 1 .. 18 : k \notin {11, 14} => at[Emission[k]] = SizeBefore[k]
  <2> SUFFICES ASSUME NEW k \in 1 .. 18, k \notin {11, 14}
               PROVE  at[Emission[k]] = SizeBefore[k]
    OBVIOUS
  <2>1. Emission[k] \notin Resizes
    BY ResizesAre
  <2>2. Placed /\ k \in 1 .. step - 1
    BY <1>1 DEF IInv
  <2> QED  BY <2>1, <2>2 DEF Placed
<1> QED  BY <1>1, <1>2, PlanInRange

(* macho.h:74-75, 131-137: an assertion has compared the exact sum with the *)
(* announced one, so that no 32-bit sum can have wrapped.                   *)
LEMMA NoWrapBeforeDwarf ==
  ASSUME IInv, pc = "done"
  PROVE  /\ plan.stroff = 4096 + SymbolsSize(args.nsyms)
         /\ plan.stroff + args.strsize <= plan.fileoff
<1>1. SizeBefore[14] = 4096 + SymbolsSize(args.nsyms) + args.strsize
  BY DEF SizeBefore, SymbolTableOffset
<1>2. plan.fileoff < Word /\ Word \in Nat \ {0}
  BY Finished, PlanInRange, LayoutAssumption DEF FieldsInRange, SymbolTableOffset
<1> DEFINE sum == 4096 + SymbolsSize(args.nsyms)
<1>3. sum \in 0 .. Word - 1 /\ sum + args.strsize <= plan.fileoff
  BY <1>1, <1>2, Finished, SizesAreNat
<1>4. sum % Word = sum
  BY <1>2, <1>3, RemainderOfSmall
<1> QED  BY <1>3, <1>4, Finished, PlanIs DEF U32

(* The two assertions have held when dump returns.                          *)
LEMMA SymtabRight == IInv => SymtabLocatesTables
<1> SUFFICES ASSUME IInv, pc = "done"
             PROVE  /\ at["symbols"] = plan.symoff /\ at["strings"] = plan.stroff
                    /\ at["strings"] + args.strsize <= plan.fileoff
  BY DEF SymtabLocatesTables
<1>1. at["symbols"] = SizeBefore[12] /\ at["strings"] = SizeBefore[13]
  BY Finished, EmissionOrder
<1>2. SizeBefore[12] = 4096 /\ SizeBefore[13] = 4096 + SymbolsSize(args.nsyms)
  BY DEF SizeBefore, SymbolTableOffset
<1> QED  BY <1>1, <1>2, Finished, NoWrapBeforeDwarf, PlanIs

(* The symbol table and the string table are where LC_SYMTAB says, also for *)
(* inputs whose 32-bit sums wrap (macho.h:131-135).                         *)
THEOREM SymtabIsRight == Spec => []SymtabLocatesTables
BY Inductive, SymtabRight, PTL

(* macho.h:86-95: as long as the image fits, the announced offsets are the  *)
(* exact sums.                                                              *)
LEMMA ExactOffsets ==
  ASSUME IInv, pc = "done", Fits
  PROVE  /\ \A s \in Sections : at[s] = plan.offset[s]
         /\ plan.offset["line"] = plan.fileoff
         /\ plan.offset["info"] = plan.fileoff + 20
         /\ plan.offset["abbrev"] = plan.fileoff + 20 + InfoSize(args.nsyms)
         /\ plan.offset["str"] = plan.fileoff + 38 + InfoSize(args.nsyms)
         /\ size = plan.fileoff + 38 + InfoSize(args.nsyms) + args.strsize
<1> USE Finished, SizesAreNat, LayoutAssumption
<1>1. /\ at["line"] = SizeBefore[15] /\ at["info"] = SizeBefore[16]
      /\ at["abbrev"] = SizeBefore[17] /\ at["str"] = SizeBefore[18]
  BY EmissionOrder
<1> DEFINE info   == plan.fileoff + 20
           abbrev == info + InfoSize(args.nsyms)
           str    == abbrev + 18
<1>2. /\ SizeBefore[15] = plan.fileoff /\ SizeBefore[16] = info
      /\ SizeBefore[17] = abbrev /\ SizeBefore[18] = str
      /\ size = str + args.strsize
  BY DEF SizeBefore
<1>3. Word \in Nat \ {0}
  BY DEF SymbolTableOffset
<1>4. /\ info \in 0 .. Word - 1 /\ abbrev \in 0 .. Word - 1 /\ str \in 0 .. Word - 1
  BY <1>2, <1>3 DEF Fits
<1>5. info % Word = info /\ abbrev % Word = abbrev /\ str % Word = str
  BY <1>3, <1>4, RemainderOfSmall
<1>6. /\ plan.offset["line"] = plan.fileoff /\ plan.offset["info"] = info
      /\ plan.offset["abbrev"] = abbrev /\ plan.offset["str"] = str
  BY <1>5, OffsetsAre DEF U32
<1>7. \A s \in Sections : at[s] = plan.offset[s]
  BY <1>1, <1>2, <1>6 DEF Sections
<1> QED  BY <1>2, <1>6, <1>7

(* Nothing has wrapped in an image that fits.                                *)
LEMMA HeadersRight == IInv => HeadersLocateSections
<1> SUFFICES ASSUME IInv, pc = "done", Fits, NEW s \in Sections
             PROVE  /\ at[s] = plan.offset[s]
                    /\ PieceSize(args, s) = plan.length[s]
                    /\ at[s] + plan.length[s] <= size
  BY DEF HeadersLocateSections
<1> USE Finished, SizesAreNat, LayoutAssumption
<1>1. PieceSize(args, s) \in Nat /\ plan.offset[s] + PieceSize(args, s) <= size
  BY ExactOffsets, SizesOfContents DEF Sections
<1>2. PieceSize(args, s) \in 0 .. Word - 1
  <2>1. plan.offset[s] \in Nat /\ size \in Nat
    BY ExactOffsets DEF Sections
  <2> QED  BY <1>1, <2>1 DEF Fits, SymbolTableOffset
<1>3. plan.length[s] = PieceSize(args, s)
  <2>1. plan.length[s] = PieceSize(args, s) % Word
    BY PlanIs DEF U32
  <2> QED  BY <1>2, <2>1, RemainderOfSmall DEF SymbolTableOffset
<1> QED  BY <1>1, <1>3, ExactOffsets

(* macho.h:86-95 against 137-140: the headers announce the places of the    *)
(* sections in every image that fits.                                       *)
THEOREM HeadersAreRight == Spec => []HeadersLocateSections
BY Inductive, HeadersRight, PTL

(* macho.h:78-82, 97-102, 121-130: the commands follow one another, and the *)
(* last section header ends before the symbol table, for both layouts.      *)
THEOREM CommandsAreRight == Spec => []CommandsChain
<1>1. IInv => CommandsChain
  <2> SUFFICES ASSUME IInv, pc = "done"
               PROVE  /\ at[Commands[1]] = MachHeaderSize
                      /\ \A k \in 1 .. 3 : EndOf(Commands[k]) = at[Commands[k + 1]]
                      /\ EndOf(Commands[4]) = at["info_header"] + SectionSize
                      /\ EndOf(Commands[4]) <= plan.symoff
    BY DEF CommandsChain
  <2>1. /\ Commands[1] = "uuid_command" /\ Commands[2] = "symtab_command"
        /\ Commands[3] = "text_segment" /\ Commands[4] = "dwarf_segment"
    BY DEF Commands
  <2>2. /\ at["uuid_command"] = SizeBefore[2]  /\ at["symtab_command"] = SizeBefore[3]
        /\ at["text_segment"] = SizeBefore[4]  /\ at["dwarf_segment"] = SizeBefore[6]
        /\ at["info_header"] = SizeBefore[10]
    BY Finished, EmissionOrder
  <2>3. /\ SizeBefore[2] = MachHeaderSize
        /\ SizeBefore[3] = MachHeaderSize + CommandSize
        /\ SizeBefore[4] = MachHeaderSize + 2 * CommandSize
        /\ SizeBefore[6] = MachHeaderSize + 2 * CommandSize + SegmentSize + SectionSize
        /\ SizeBefore[10] = MachHeaderSize + 2 * CommandSize + 2 * SegmentSize
                              + 4 * SectionSize
    BY Finished, SizesAreNat DEF SizeBefore, HeadersEnd
  <2>4. /\ EndOf("uuid_command") = at["uuid_command"] + CommandSize
        /\ EndOf("symtab_command") = at["symtab_command"] + CommandSize
        /\ EndOf("text_segment") = at["text_segment"] + SectionSize + SegmentSize
        /\ EndOf("dwarf_segment") = at["dwarf_segment"] + SegmentSize + 4 * SectionSize
    BY <2>2, <2>3, Finished, SizesAreNat DEF EndOf, Cmdsize, TextCommandSize, DwarfCommandSize
  <2>5. \A k \in 1 .. 3 : EndOf(Commands[k]) = at[Commands[k + 1]]
    BY <2>1, <2>2, <2>3, <2>4, Finished, SizesAreNat
  <2>6. EndOf(Commands[4]) = at["info_header"] + SectionSize
    BY <2>1, <2>2, <2>3, <2>4, Finished, SizesAreNat
  <2>7. EndOf(Commands[4]) <= plan.symoff
    BY <2>2, <2>3, <2>6, Finished, SizesAreNat, PlanIs
  <2> QED  BY <2>1, <2>2, <2>3, <2>5, <2>6, <2>7
<1> QED  BY Inductive, <1>1, PTL

(* macho.h:85, 94-98: no address wraps in an image that fits the address    *)
(* space.                                                                   *)
LEMMA ExactAddresses ==
  ASSUME IInv, pc = "done", Fits, AddressesFit
  PROVE  LET base == AlignTo(args.vmoff, AddrWord) IN
         /\ base \in Nat /\ args.vmoff <= base
         /\ plan.vmaddr = base + plan.fileoff
         /\ \A s \in Sections : plan.addr[s] = base + at[s]
<1> DEFINE base == AlignTo(args.vmoff, AddrWord)
<1>1. AddrWord \in Nat \ {0} /\ AddrWord % Page = 0 /\ args.vmoff \in 0 .. AddrWord - 1
  BY Finished, ArgumentsAre
<1>2. size \in Nat /\ args.vmoff + 4096 + size <= AddrWord
  BY Finished, SizesAreNat, ExactOffsets DEF AddressesFit, Page
<1>3. base \in Nat /\ args.vmoff <= base /\ base < args.vmoff + 4096
  BY <1>1, <1>2, AlignUp DEF Page
<1>4. \A s \in Sections : at[s] \in Nat /\ at[s] <= size
  BY Finished, SizesAreNat, ExactOffsets DEF Sections
<1>5. plan.fileoff \in Nat /\ plan.fileoff <= size
  BY Finished, SizesAreNat, ExactOffsets
<1> HIDE DEF base
<1>6. ASSUME NEW k \in Nat, k <= size PROVE Addr(base + k) = base + k
  <2> DEFINE a == base + k
  <2>1. a \in 0 .. AddrWord - 1
    BY <1>1, <1>2, <1>3, <1>6
  <2> HIDE DEF a
  <2>2. a % AddrWord = a
    BY <1>1, <2>1, RemainderOfSmall
  <2> QED  BY <2>2 DEF a, Addr
<1>7. plan.vmaddr = base + plan.fileoff
  BY <1>5, <1>6, Finished, PlanIs DEF base
<1>8. ASSUME NEW s \in Sections PROVE plan.addr[s] = base + at[s]
  <2>1. plan.addr[s] = Addr(base + at[s])
    BY Finished, PlanIs, ExactOffsets DEF base
  <2> QED  BY <1>4, <1>6, <2>1
<1> QED  BY <1>3, <1>7, <1>8 DEF base

(* macho.h:97-100: the segment maps exactly the bytes of its sections, each *)
(* at the address its header gives.                                         *)
THEOREM SegmentIsRight == Spec => []SegmentMapsSections
<1>1. IInv => SegmentMapsSections
  <2> SUFFICES ASSUME IInv, pc = "done", Fits, AddressesFit
               PROVE  /\ plan.fileoff + plan.filesize = size
                      /\ \A s \in Sections :
                           plan.addr[s] - plan.vmaddr = at[s] - plan.fileoff
    BY DEF SegmentMapsSections
  <2>1. size \in 0 .. Word - 1 /\ size - plan.fileoff \in 0 .. Word - 1
    <3>1. size \in Nat /\ size - plan.fileoff \in 0 .. size
      BY Finished, SizesAreNat, ExactOffsets
    <3> QED  BY <3>1, LayoutAssumption DEF Fits
  <2>2. size % Word = size /\ (size - plan.fileoff) % Word = size - plan.fileoff
    <3> DEFINE rest == size - plan.fileoff
    <3>1. Word \in Nat \ {0} /\ rest \in 0 .. Word - 1
      BY <2>1, LayoutAssumption DEF SymbolTableOffset
    <3> HIDE DEF rest
    <3>2. rest % Word = rest /\ size % Word = size
      BY <2>1, <3>1, RemainderOfSmall
    <3> QED  BY <3>2 DEF rest
  <2>3. plan.filesize = size - plan.fileoff
    <3>1. plan.offset["str"] + args.strsize = size
      BY ExactOffsets, Finished, SizesAreNat
    <3> QED  BY <2>2, <3>1, Finished, PlanIs DEF U32
  <2>4. plan.fileoff + plan.filesize = size
    BY <2>1, <2>3, Finished, SizesAreNat, ExactOffsets
  <2>5. \A s \in Sections : at[s] \in Nat
    BY Finished, SizesAreNat, ExactOffsets DEF Sections
  <2>6. \A s \in Sections : plan.addr[s] - plan.vmaddr = at[s] - plan.fileoff
    BY <2>5, ExactAddresses, Finished
  <2> QED  BY <2>4, <2>6
<1> QED  BY Inductive, <1>1, PTL

(* macho.h:85-94: the DWARF data lies above the program, however the base   *)
(* is aligned.                                                              *)
THEOREM DwarfIsAbove == Spec => []DwarfAboveProgram
<1>1. IInv => DwarfAboveProgram
  <2> SUFFICES ASSUME IInv, pc = "done", Fits, AddressesFit, NEW s \in Sections
               PROVE  plan.addr[s] >= args.vmoff
    BY DEF DwarfAboveProgram
  <2>1. at[s] \in Nat
    BY Finished, SizesAreNat, ExactOffsets DEF Sections
  <2> QED  BY <2>1, ExactAddresses, Finished, ArgumentsAre
<1> QED  BY Inductive, <1>1, PTL
=============================================================================
