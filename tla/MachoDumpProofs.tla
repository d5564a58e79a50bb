-------------------------- MODULE MachoDumpProofs --------------------------
(***************************************************************************)
(* Proofs about MachoDump: for every list of symbols, whatever their names *)
(* and addresses, the image that Macho<T>::dump returns says to a reader   *)
(* what the list says, as long as the image fits the 32-bit positions of   *)
(* the format.                                                             *)
(*                                                                         *)
(* First come lemmas about MachoImage, what a reader of Mach-O and DWARF   *)
(* finds in an image that was laid out as MachoLayout lays it out: the     *)
(* pieces of the image do not touch each other, every member is read as it *)
(* was written, the chain of load commands leads to the symbol table and   *)
(* the sections, and the reader of __debug_info finds one unit with one    *)
(* entry per function.  They hold for any number of symbols and for both   *)
(* widths of the image.                                                    *)
(*                                                                         *)
(* IInv then joins the invariants of StringTable and MachoLayout, whose    *)
(* proofs are instantiated for the values they have inside the program.    *)
(***************************************************************************)
EXTENDS MachoDump, LoaderStructsProofs

-----------------------------------------------------------------------------
(* Tables of four fields per row. *)

(* Sequences of four fields each, one behind the other. *)
Fours(seqs, n) == [p \in 1 .. 4 * n |-> seqs[(p - 1) \div 4 + 1][((p - 1) % 4) + 1]]

(* n structures of four members. *)
AreFours(seqs, n) == \A k \in 1 .. n : Structure(seqs[k]) /\ Len(seqs[k]) = 4

(* Laid one behind the other they are one structure. *)
LEMMA FoursStructure ==
  ASSUME NEW seqs, NEW n \in Nat, AreFours(seqs, n)
  PROVE  /\ Structure(Fours(seqs, n)) /\ Len(Fours(seqs, n)) = 4 * n
         /\ \A k \in 1 .. n, j \in 1 .. 4 : Fours(seqs, n)[4 * (k - 1) + j] = seqs[k][j]
<1> DEFINE a == Fours(seqs, n)
<1>1. a = [p \in 1 .. 4 * n |-> a[p]] /\ 4 * n \in Nat
  BY DEF Fours
<1>2. ASSUME NEW p \in 1 .. 4 * n PROVE a[p].width \in Nat \ {0}
  <2>1. (p - 1) \div 4 + 1 \in 1 .. n /\ ((p - 1) % 4) + 1 \in 1 .. 4
    OBVIOUS
  <2>2. Structure(seqs[(p - 1) \div 4 + 1]) /\ Len(seqs[(p - 1) \div 4 + 1]) = 4
    BY <2>1 DEF AreFours
  <2> QED  BY <2>1, <2>2 DEF Fours, Structure
<1>3. ASSUME NEW k \in 1 .. n, NEW j \in 1 .. 4 PROVE a[4 * (k - 1) + j] = seqs[k][j]
  <2> DEFINE p == 4 * (k - 1) + j
  <2>1. p \in 1 .. 4 * n /\ (p - 1) \div 4 + 1 = k /\ ((p - 1) % 4) + 1 = j
    OBVIOUS
  <2> HIDE DEF p
  <2>2. a[p] = seqs[k][j]
    BY <2>1 DEF Fours
  <2> QED  BY <2>2 DEF p
<1> HIDE DEF a
<1>4. Len(a) = 4 * n
  BY <1>1
<1>5. Structure(a)
  BY <1>1, <1>2, <1>4 DEF Structure
<1> QED  BY <1>3, <1>4, <1>5 DEF a

(* One more of them. *)
LEMMA FoursJoin ==
  ASSUME NEW seqs, NEW n \in Nat, AreFours(seqs, n + 1)
  PROVE  Fours(seqs, n) \o seqs[n + 1] = Fours(seqs, n + 1)
<1> DEFINE a == Fours(seqs, n)
           b == seqs[n + 1]
           c == Fours(seqs, n + 1)
<1>1. /\ AreFours(seqs, n) /\ n + 1 \in Nat
      /\ Structure(a) /\ Len(a) = 4 * n /\ Structure(b) /\ Len(b) = 4
      /\ Structure(c) /\ Len(c) = 4 * n + 4
      /\ \A p \in 1 .. 4 : c[4 * n + p] = b[p]
  <2>1. AreFours(seqs, n) /\ n + 1 \in Nat /\ Structure(b) /\ Len(b) = 4
    BY DEF AreFours
  <2>2. Structure(a) /\ Len(a) = 4 * n
    BY <2>1, FoursStructure
  <2>3. Structure(c) /\ Len(c) = 4 * (n + 1)
        /\ \A k \in 1 .. n + 1, j \in 1 .. 4 : c[4 * (k - 1) + j] = seqs[k][j]
    BY <2>1, FoursStructure
  <2>4. 4 * (n + 1) = 4 * n + 4 /\ (n + 1) - 1 = n /\ n + 1 \in 1 .. n + 1
    OBVIOUS
  <2> HIDE DEF a, c
  <2> QED  BY <2>1, <2>2, <2>3, <2>4
<1>2. \A p \in 1 .. 4 * n : a[p] = c[p]
  BY DEF Fours
<1> HIDE DEF a, b, c
<1>3. /\ Structure(a \o b) /\ Len(a \o b) = 4 * n + 4
      /\ \A p \in 1 .. 4 * n : (a \o b)[p] = a[p]
      /\ \A p \in 1 .. 4 : (a \o b)[4 * n + p] = b[p]
  <2>1. Structure(a) /\ Structure(b)
    BY <1>1
  <2>2. /\ Structure(a \o b) /\ Len(a \o b) = Len(a) + Len(b)
        /\ \A p \in 1 .. Len(a) : (a \o b)[p] = a[p]
        /\ \A p \in 1 .. Len(b) : (a \o b)[Len(a) + p] = b[p]
    BY <2>1, StructureJoin
  <2> QED  BY <1>1, <2>2
<1>4. ASSUME NEW p \in 1 .. 4 * n + 4 PROVE (a \o b)[p] = c[p]
  <2>1. CASE p \in 1 .. 4 * n
    BY <1>2, <1>3, <2>1
  <2>2. CASE p \notin 1 .. 4 * n
    <3>1. PICK q \in 1 .. 4 : 4 * n + q = p
      <4>1. p - 4 * n \in 1 .. 4 /\ 4 * n + (p - 4 * n) = p
        BY <2>2
      <4> QED  BY <4>1
    <3>2. (a \o b)[4 * n + q] = b[q] /\ c[4 * n + q] = b[q]
      <4>1. \A m \in 1 .. 4 : c[4 * n + m] = b[m]
        BY <1>1
      <4>2. \A m \in 1 .. 4 : (a \o b)[4 * n + m] = b[m]
        BY <1>3
      <4> QED  BY <4>1, <4>2
    <3> QED  BY <3>1, <3>2
  <2> QED  BY <2>1, <2>2
<1>5. /\ a \o b = [p \in 1 .. 4 * n + 4 |-> (a \o b)[p]]
      /\ c = [p \in 1 .. 4 * n + 4 |-> c[p]]
  BY <1>1, <1>3 DEF Structure
<1>6. a \o b = c
  BY <1>4, <1>5
<1> QED  BY <1>6 DEF a, b, c

(* FlattenSeq, which is defined by recursion, lays them that way. *)
LEMMA FlattenFours ==
  ASSUME NEW n \in Nat, NEW seqs, seqs = [k \in 1 .. n |-> seqs[k]],
         AreFours(seqs, n)
  PROVE  FlattenSeq(seqs) = Fours(seqs, n)
<1>0. Len(seqs) = n
  OBVIOUS
<1>1. CASE n = 0
  <2>1. Len(seqs) = 0 /\ seqs = [p \in 1 .. 4 * n |-> seqs[(p - 1) \div 4 + 1][((p - 1) % 4) + 1]]
    BY <1>0, <1>1
  <2> QED  BY <2>1 DEF FlattenSeq, Fours
<1>2. CASE n # 0
  <2> DEFINE Flat(f) == f = [idx \in 1 .. n |-> IF idx = 1 THEN seqs[idx] ELSE f[idx - 1] \o seqs[idx]]
             f == [idx \in 1 .. n |-> Fours(seqs, idx)]
             g == CHOOSE h : Flat(h)
  <2>1. \A idx \in 0 .. n - 1 : Fours(seqs, idx) \o seqs[idx + 1] = Fours(seqs, idx + 1)
    <3> SUFFICES ASSUME NEW idx \in 0 .. n - 1
                 PROVE  Fours(seqs, idx) \o seqs[idx + 1] = Fours(seqs, idx + 1)
      OBVIOUS
    <3>1. idx \in Nat /\ AreFours(seqs, idx + 1)
      BY DEF AreFours
    <3> QED  BY <3>1, FoursJoin
  <2>2. seqs[1] = Fours(seqs, 1)
    <3>0. Structure(seqs[1]) /\ Len(seqs[1]) = 4
      BY <1>2 DEF AreFours
    <3>1. seqs[1] = [p \in 1 .. 4 |-> seqs[1][p]]
      BY <3>0 DEF Structure
    <3>2. \A p \in 1 .. 4 : (p - 1) \div 4 + 1 = 1 /\ ((p - 1) % 4) + 1 = p
      OBVIOUS
    <3>3. Fours(seqs, 1) = [p \in 1 .. 4 |-> seqs[1][p]]
      BY <3>2 DEF Fours
    <3> QED  BY <3>1, <3>3
  <2>3. Flat(f)
    <3>1. \A idx \in 1 .. n : Fours(seqs, idx) = IF idx = 1 THEN seqs[idx] ELSE f[idx - 1] \o seqs[idx]
      <4> SUFFICES ASSUME NEW idx \in 1 .. n, idx # 1
                   PROVE  Fours(seqs, idx) = f[idx - 1] \o seqs[idx]
        BY <2>2
      <4>1. idx - 1 \in 0 .. n - 1 /\ (idx - 1) + 1 = idx /\ f[idx - 1] = Fours(seqs, idx - 1)
        OBVIOUS
      <4> HIDE DEF f
      <4> QED  BY <2>1, <4>1
    <3> QED  BY <3>1
  <2>4. Flat(g)
    <3> HIDE DEF Flat, f
    <3> QED  BY <2>3
  <2>5. FlattenSeq(seqs) = g[n]
    BY <1>0, <1>2 DEF FlattenSeq
  <2> DEFINE S == {d \in Nat : d + 1 <= n => g[d + 1] = Fours(seqs, d + 1)}
  <2> HIDE DEF g, f
  <2>6. \A idx \in 1 .. n : g[idx] = IF idx = 1 THEN seqs[idx] ELSE g[idx - 1] \o seqs[idx]
    BY <2>4
  <2> HIDE DEF Flat
  <2>7. 0 \in S
    BY <1>2, <2>2, <2>6
  <2>8. ASSUME NEW d \in S PROVE d + 1 \in S
    <3> SUFFICES ASSUME (d + 1) + 1 <= n PROVE g[(d + 1) + 1] = Fours(seqs, (d + 1) + 1)
      OBVIOUS
    <3>0. (d + 1) + 1 \in 1 .. n /\ (d + 1) + 1 # 1 /\ ((d + 1) + 1) - 1 = d + 1 /\ d + 1 <= n
          /\ d + 1 \in 0 .. n - 1
      OBVIOUS
    <3>1. g[(d + 1) + 1] = g[d + 1] \o seqs[(d + 1) + 1]
      BY <2>6, <3>0
    <3>2. g[d + 1] = Fours(seqs, d + 1)
      BY <3>0
    <3>3. Fours(seqs, d + 1) \o seqs[(d + 1) + 1] = Fours(seqs, (d + 1) + 1)
      BY <2>1, <3>0
    <3> QED  BY <3>1, <3>2, <3>3
  <2>9. n - 1 \in S
    <3> HIDE DEF S
    <3>1. S \in SUBSET Nat
      BY DEF S
    <3> QED  BY <1>2, <2>7, <2>8, <3>1, Induction
  <2>10. (n - 1) + 1 = n
    OBVIOUS
  <2> QED  BY <2>5, <2>9, <2>10
<1> QED  BY <1>1, <1>2

-----------------------------------------------------------------------------
(* The entries of __debug_info. *)

(* The place of each member follows from the one before it. *)
LEMMA NextMember ==
  ASSUME NEW struct, Structure(struct)
  PROVE  /\ OffsetOf(struct, 1) = 0 /\ SizeOf(struct) = OffsetOf(struct, Len(struct) + 1)
         /\ \A k \in 1 .. Len(struct) :
              /\ OffsetOf(struct, k + 1) = OffsetOf(struct, k) + struct[k].width
              /\ OffsetOf(struct, k) \in Nat /\ struct[k].width \in Nat \ {0}
<1>1. \A k \in 1 .. Len(struct) : struct[k].width \in Nat \ {0}
  BY DEF Structure
<1>2. ASSUME NEW k \in 1 .. Len(struct)
      PROVE  OffsetOf(struct, k + 1) = OffsetOf(struct, k) + struct[k].width
  <2>1. k \in Nat \ {0} /\ \A j \in 1 .. k : struct[j].width \in Nat
    BY <1>1 DEF Structure
  <2> QED  BY <2>1, OffsetOfNext
<1>3. \A k \in 1 .. Len(struct) : OffsetOf(struct, k) \in Nat
  BY OffsetsIncrease DEF Structure
<1> QED  BY <1>1, <1>2, <1>3, OffsetOfFirst DEF SizeOf

(* Extent counts a field more than OffsetOf. *)
LEMMA ExtentIsOffset ==
  ASSUME NEW fields, NEW k \in Int
  PROVE  /\ Extent(fields, k) = OffsetOf(fields, k + 1)
         /\ Extent(fields, k - 1) = OffsetOf(fields, k)
<1>1. (k + 1) - 1 = k
  OBVIOUS
<1> QED  BY <1>1 DEF Extent, OffsetOf

(* The width of a function entry. *)
EntrySize(w64) == 5 + 2 * Long(w64)

(* A function entry has a code, two addresses and the offset of its name    *)
(* (dwarf.h).                                                               *)
LEMMA EntryFieldsAre ==
  ASSUME NEW w64 \in BOOLEAN, NEW die
  PROVE  LET e == EntryFields(w64, die)
         IN /\ Structure(e) /\ Len(e) = 4 /\ SizeOf(e) = EntrySize(w64)
            /\ e[1] = Field(1, 2) /\ e[2] = Field(Long(w64), die.low_pc)
            /\ e[3] = Field(Long(w64), die.high_pc) /\ e[4] = Field(4, die.name)
            /\ OffsetOf(e, 1) = 0 /\ OffsetOf(e, 2) = 1
            /\ OffsetOf(e, 3) = 1 + Long(w64) /\ OffsetOf(e, 4) = 1 + 2 * Long(w64)
<1> DEFINE e == EntryFields(w64, die)
<1>1. /\ Len(e) = 4 /\ e[1] = Field(1, 2) /\ e[2] = Field(Long(w64), die.low_pc)
      /\ e[3] = Field(Long(w64), die.high_pc) /\ e[4] = Field(4, die.name)
  BY DEF EntryFields
<1>2. e = [k \in 1 .. 4 |-> e[k]]
  BY DEF EntryFields
<1> HIDE DEF e
<1>l. Long(w64) \in {4, 8}
  BY DEF Long
<1>3. /\ e[1].width = 1 /\ e[2].width = Long(w64) /\ e[3].width = Long(w64) /\ e[4].width = 4
  BY <1>1 DEF Field
<1>4. Structure(e)
  <2>1. \A k \in 1 .. 4 : k = 1 \/ k = 2 \/ k = 3 \/ k = 4
    OBVIOUS
  <2>2. \A k \in 1 .. 4 : e[k].width \in Nat \ {0}
    BY <1>l, <1>3, <2>1
  <2> QED  BY <1>1, <1>2, <2>2 DEF Structure
<1>5. /\ OffsetOf(e, 1) = 0 /\ OffsetOf(e, 1 + 1) = OffsetOf(e, 1) + e[1].width
      /\ OffsetOf(e, 2 + 1) = OffsetOf(e, 2) + e[2].width
      /\ OffsetOf(e, 3 + 1) = OffsetOf(e, 3) + e[3].width
      /\ OffsetOf(e, 4 + 1) = OffsetOf(e, 4) + e[4].width
      /\ SizeOf(e) = OffsetOf(e, 4 + 1)
  <2>1. /\ OffsetOf(e, 1) = 0 /\ SizeOf(e) = OffsetOf(e, Len(e) + 1)
        /\ \A k \in 1 .. Len(e) : OffsetOf(e, k + 1) = OffsetOf(e, k) + e[k].width
    BY <1>4, NextMember
  <2>2. 1 \in 1 .. Len(e) /\ 2 \in 1 .. Len(e) /\ 3 \in 1 .. Len(e) /\ 4 \in 1 .. Len(e)
    BY <1>1
  <2> QED  BY <1>1, <2>1, <2>2
<1>6. /\ OffsetOf(e, 1) = 0 /\ OffsetOf(e, 2) = 1
      /\ OffsetOf(e, 3) = 1 + Long(w64) /\ OffsetOf(e, 4) = 1 + 2 * Long(w64)
      /\ SizeOf(e) = 5 + 2 * Long(w64)
  BY <1>l, <1>3, <1>5
<1> QED  BY <1>1, <1>4, <1>6 DEF e, EntrySize

(* The function entries, one behind the other. *)
Entries(w64, tags) == [k \in DOMAIN tags |-> EntryFields(w64, tags[k])]

(* Concatenated, they are a table of rows of four fields. *)
LEMMA EntriesAre ==
  ASSUME NEW w64 \in BOOLEAN, NEW n, NEW tags, Lists(tags, n, {})
  PROVE  LET seqs == Entries(w64, tags)
             all  == FlattenSeq(seqs)
         IN /\ all = Fours(seqs, n) /\ AreFours(seqs, n)
            /\ \A k \in 1 .. n : seqs[k] = EntryFields(w64, tags[k])
            /\ \A m \in 0 .. n : SizeOf(Fours(seqs, m)) = m * EntrySize(w64)
<1> DEFINE seqs == Entries(w64, tags)
<1>1. seqs = [k \in 1 .. n |-> seqs[k]] /\ \A k \in 1 .. n : seqs[k] = EntryFields(w64, tags[k])
  <2>1. DOMAIN tags = 1 .. n
    BY DEF Lists
  <2> QED  BY <2>1 DEF Entries
<1> HIDE DEF seqs
<1>n. n \in Nat
  BY DEF Lists
<1> USE <1>n
<1>2. AreFours(seqs, n)
  BY <1>1, EntryFieldsAre DEF AreFours
<1>3. FlattenSeq(seqs) = Fours(seqs, n)
  BY <1>n, <1>1, <1>2, FlattenFours
<1> DEFINE S == {m \in Nat : m <= n => SizeOf(Fours(seqs, m)) = m * EntrySize(w64)}
<1>4. 0 \in S
  <2>1. AreFours(seqs, 0) /\ Len(Fours(seqs, 0)) = 4 * 0
    BY FoursStructure DEF AreFours
  <2>2. SizeOf(Fours(seqs, 0)) = 0
    BY <2>1, OffsetOfFirst DEF SizeOf
  <2>3. EntrySize(w64) \in Nat
    BY DEF EntrySize, Long
  <2> QED  BY <2>2, <2>3
<1>5. ASSUME NEW m \in S PROVE m + 1 \in S
  <2> SUFFICES ASSUME m + 1 <= n PROVE SizeOf(Fours(seqs, m + 1)) = (m + 1) * EntrySize(w64)
    OBVIOUS
  <2>1. AreFours(seqs, m) /\ AreFours(seqs, m + 1)
    BY <1>2 DEF AreFours
  <2>2. Fours(seqs, m + 1) = Fours(seqs, m) \o seqs[m + 1]
    BY <2>1, FoursJoin
  <2>3. Structure(Fours(seqs, m)) /\ Structure(seqs[m + 1])
    BY <2>1, FoursStructure DEF AreFours
  <2>4. SizeOf(Fours(seqs, m + 1)) = SizeOf(Fours(seqs, m)) + SizeOf(seqs[m + 1])
    BY <2>2, <2>3, SizeOfJoin
  <2>5. SizeOf(seqs[m + 1]) = EntrySize(w64) /\ EntrySize(w64) \in Nat
    BY <1>1, EntryFieldsAre DEF EntrySize, Long
  <2>6. (m + 1) * EntrySize(w64) = m * EntrySize(w64) + EntrySize(w64)
    BY <2>5
  <2> QED  BY <2>4, <2>5, <2>6
<1>6. S = Nat
  <2> HIDE DEF S
  <2>1. S \in SUBSET Nat
    BY DEF S
  <2> QED  BY <1>4, <1>5, <2>1, Induction
<1>7. \A m \in 0 .. n : SizeOf(Fours(seqs, m)) = m * EntrySize(w64)
  <2> SUFFICES ASSUME NEW m \in 0 .. n PROVE m \in S
    OBVIOUS
  <2> HIDE DEF S
  <2> QED  BY <1>6
<1> QED  BY <1>1, <1>2, <1>3, <1>7 DEF seqs

(* Where entry k begins, and the places of its fields. *)
EntryAt(all, e, base, k, j) ==
  all[4 * (k - 1) + j] = e[j] /\ OffsetOf(all, 4 * (k - 1) + j) = base + OffsetOf(e, j)

(* Field j of entry k. *)
LEMMA EntryPlaces ==
  ASSUME NEW w64 \in BOOLEAN, NEW n, NEW tags, Lists(tags, n, {}),
         NEW k \in 1 .. n, NEW j \in 1 .. 4
  PROVE  EntryAt(FlattenSeq(Entries(w64, tags)), EntryFields(w64, tags[k]),
                 (k - 1) * EntrySize(w64), k, j)
<1> DEFINE seqs == Entries(w64, tags)
           all == FlattenSeq(seqs)
           e == EntryFields(w64, tags[k])
           a == Fours(seqs, k - 1)
           p == 4 * (k - 1)
<1>0. k - 1 \in 0 .. n
  BY DEF Lists
<1>1. /\ all = Fours(seqs, n) /\ AreFours(seqs, n) /\ seqs[k] = e
      /\ SizeOf(a) = (k - 1) * EntrySize(w64)
  BY <1>0, EntriesAre
<1>n. n \in Nat
  BY DEF Lists
<1> USE <1>n
<1>2. k - 1 \in Nat /\ AreFours(seqs, k - 1) /\ AreFours(seqs, (k - 1) + 1) /\ (k - 1) + 1 = k
  BY <1>1 DEF AreFours
<1>3. /\ Structure(a) /\ Len(a) = p /\ Structure(e) /\ Len(e) = 4
      /\ a \o e = Fours(seqs, k) /\ Structure(all) /\ all[p + j] = e[j] /\ p \in Nat
  <2>1. Structure(a) /\ Len(a) = p
    BY <1>2, FoursStructure
  <2>2. Structure(e) /\ Len(e) = 4
    BY EntryFieldsAre
  <2>3. a \o e = Fours(seqs, k)
    <3>1. a \o seqs[(k - 1) + 1] = Fours(seqs, (k - 1) + 1)
      BY <1>2, FoursJoin
    <3> HIDE DEF seqs, a, e
    <3> QED  BY <1>1, <1>2, <3>1
  <2>4. Structure(all) /\ all[p + j] = e[j]
    <3>1. Structure(Fours(seqs, n)) /\ \A idx \in 1 .. 4 : Fours(seqs, n)[4 * (k - 1) + idx] = seqs[k][idx]
      BY <1>1, FoursStructure
    <3> HIDE DEF seqs, all, e
    <3> QED  BY <1>1, <3>1
  <2>5. p \in Nat
    OBVIOUS
  <2> QED  BY <2>1, <2>2, <2>3, <2>4, <2>5
<1> HIDE DEF a, e, p
<1>4. OffsetOf(a \o e, p + j) = SizeOf(a) + OffsetOf(e, j)
  <2>1. \A idx \in 1 .. Len(e) + 1 : OffsetOf(a \o e, Len(a) + idx) = SizeOf(a) + OffsetOf(e, idx)
    <3>1. Structure(a) /\ Structure(e)
      BY <1>3
    <3> QED  BY <3>1, OffsetOfJoin
  <2>2. j \in 1 .. Len(e) + 1
    BY <1>3
  <2> QED  BY <1>3, <2>1, <2>2
<1>5. OffsetOf(all, p + j) = OffsetOf(a \o e, p + j)
  <2> DEFINE b == Fours(seqs, k)
  <2>1. \A idx \in 1 .. 4 * k : all[idx] = b[idx]
    BY <1>1 DEF Fours
  <2>2. Structure(b) /\ Len(b) = 4 * k /\ 4 * k \in Nat
    BY <1>2, FoursStructure
  <2>3. p + j \in 1 .. 4 * k + 1
    BY DEF p
  <2>4. \A idx \in 1 .. 4 * k : b[idx].width \in Nat /\ b[idx].width = all[idx].width
    BY <2>1, <2>2 DEF Structure
  <2> HIDE DEF all, b
  <2>5. OffsetOf(b, p + j) = OffsetOf(all, p + j)
    BY <2>2, <2>3, <2>4, OffsetOfPrefix
  <2> QED  BY <1>3, <2>5 DEF b
<1> QED  BY <1>1, <1>3, <1>4, <1>5 DEF a, e, p, EntryAt

(* A field of this width and value, so far behind the first one. *)
HasField(fields, off, width, value) ==
  \E k \in 1 .. Len(fields) : OffsetOf(fields, k) = off /\ fields[k] = Field(width, value)

(* A field keeps its place in front of others, and moves behind others. *)
LEMMA HasFieldJoin ==
  ASSUME NEW a, NEW b, Structure(a), Structure(b), NEW off, NEW width, NEW value
  PROVE  /\ HasField(a, off, width, value) => HasField(a \o b, off, width, value)
         /\ HasField(b, off, width, value) => HasField(a \o b, SizeOf(a) + off, width, value)
<1> DEFINE c == a \o b
<1>1. /\ Structure(c) /\ Len(c) = Len(a) + Len(b)
      /\ \A k \in 1 .. Len(a) : c[k] = a[k]
      /\ \A k \in 1 .. Len(b) : c[Len(a) + k] = b[k]
  BY StructureJoin
<1>2. /\ \A k \in 1 .. Len(a) + 1 : OffsetOf(c, k) = OffsetOf(a, k)
      /\ \A k \in 1 .. Len(b) + 1 : OffsetOf(c, Len(a) + k) = SizeOf(a) + OffsetOf(b, k)
  BY OffsetOfJoin
<1> HIDE DEF c
<1>3. Len(a) \in Nat /\ Len(b) \in Nat
  BY DEF Structure
<1>4. ASSUME HasField(a, off, width, value) PROVE HasField(c, off, width, value)
  <2>1. PICK k \in 1 .. Len(a) : OffsetOf(a, k) = off /\ a[k] = Field(width, value)
    BY <1>4 DEF HasField
  <2>2. k \in 1 .. Len(c) /\ k \in 1 .. Len(a) + 1
    BY <1>1, <1>3
  <2> QED  BY <1>1, <1>2, <2>1, <2>2 DEF HasField
<1>5. ASSUME HasField(b, off, width, value) PROVE HasField(c, SizeOf(a) + off, width, value)
  <2>1. PICK k \in 1 .. Len(b) : OffsetOf(b, k) = off /\ b[k] = Field(width, value)
    BY <1>5 DEF HasField
  <2>2. Len(a) + k \in 1 .. Len(c) /\ k \in 1 .. Len(b) + 1
    BY <1>1, <1>3
  <2>3. OffsetOf(c, Len(a) + k) = SizeOf(a) + off /\ c[Len(a) + k] = Field(width, value)
    BY <1>1, <1>2, <2>1, <2>2
  <2> QED  BY <2>2, <2>3 DEF HasField
<1> QED  BY <1>4, <1>5 DEF c

(* Five fields, in the two parts the prover can handle. *)
LEMMA ThreeAndTwo ==
  ASSUME NEW x, NEW y, NEW z, NEW u, NEW v
  PROVE  <<x, y, z>> \o <<u, v>> = <<x, y, z, u, v>>
<1> DEFINE T == {x, y, z, u, v}
           c == <<x, y, z>> \o <<u, v>>
<1>1. <<x, y, z>> \in Seq(T) /\ <<u, v>> \in Seq(T)
  OBVIOUS
<1>2. /\ c \in Seq(T) /\ Len(c) = 5 /\ c[1] = x /\ c[2] = y /\ c[3] = z /\ c[4] = u /\ c[5] = v
  BY <1>1
<1> DEFINE t == <<x, y, z, u, v>>
<1>3. Len(t) = 5 /\ t[1] = x /\ t[2] = y /\ t[3] = z /\ t[4] = u /\ t[5] = v
      /\ t = [k \in 1 .. 5 |-> t[k]]
  OBVIOUS
<1> HIDE DEF c, t, T
<1>4. c = [k \in 1 .. 5 |-> c[k]]
  BY <1>2
<1>5. \A k \in 1 .. 5 : c[k] = t[k]
  <2>1. \A k \in 1 .. 5 : k = 1 \/ k = 2 \/ k = 3 \/ k = 4 \/ k = 5
    OBVIOUS
  <2> QED  BY <1>2, <1>3, <2>1
<1>6. c = t
  BY <1>3, <1>4, <1>5
<1> QED  BY <1>6 DEF c, t

(* The fields before and behind the function entries. *)
UnitBegin(w64) ==
  <<Field(2, 2), Field(4, 0), Field(1, Long(w64))>> \o <<Field(1, 1), Field(2, DW_LANG_ObjC)>>

(* Their places behind unit_length. *)
LEMMA UnitBeginIs ==
  ASSUME NEW w64 \in BOOLEAN
  PROVE  LET b == UnitBegin(w64)
         IN /\ Structure(b) /\ SizeOf(b) = 10
            /\ HasField(b, 0, 2, 2) /\ HasField(b, 2, 4, 0) /\ HasField(b, 6, 1, Long(w64))
            /\ HasField(b, 7, 1, 1) /\ HasField(b, 8, 2, DW_LANG_ObjC)
<1> DEFINE b == UnitBegin(w64)
<1>1. b = <<Field(2, 2), Field(4, 0), Field(1, Long(w64)), Field(1, 1), Field(2, DW_LANG_ObjC)>>
  BY ThreeAndTwo DEF UnitBegin
<1> HIDE DEF b
<1>2. /\ Len(b) = 5 /\ b = [k \in 1 .. 5 |-> b[k]]
      /\ b[1] = Field(2, 2) /\ b[2] = Field(4, 0) /\ b[3] = Field(1, Long(w64))
      /\ b[4] = Field(1, 1) /\ b[5] = Field(2, DW_LANG_ObjC)
  BY <1>1
<1>3. /\ b[1].width = 2 /\ b[2].width = 4 /\ b[3].width = 1 /\ b[4].width = 1 /\ b[5].width = 2
  BY <1>2 DEF Field
<1>4. Structure(b)
  <2>1. \A k \in 1 .. 5 : k = 1 \/ k = 2 \/ k = 3 \/ k = 4 \/ k = 5
    OBVIOUS
  <2>2. \A k \in 1 .. 5 : b[k].width \in Nat \ {0}
    BY <1>3, <2>1
  <2> QED  BY <1>2, <2>2 DEF Structure
<1>5. /\ OffsetOf(b, 1) = 0 /\ OffsetOf(b, 1 + 1) = OffsetOf(b, 1) + b[1].width
      /\ OffsetOf(b, 2 + 1) = OffsetOf(b, 2) + b[2].width
      /\ OffsetOf(b, 3 + 1) = OffsetOf(b, 3) + b[3].width
      /\ OffsetOf(b, 4 + 1) = OffsetOf(b, 4) + b[4].width
      /\ OffsetOf(b, 5 + 1) = OffsetOf(b, 5) + b[5].width
      /\ SizeOf(b) = OffsetOf(b, 5 + 1)
  <2>1. /\ OffsetOf(b, 1) = 0 /\ SizeOf(b) = OffsetOf(b, Len(b) + 1)
        /\ \A k \in 1 .. Len(b) : OffsetOf(b, k + 1) = OffsetOf(b, k) + b[k].width
    BY <1>4, NextMember
  <2>2. 1 \in 1 .. Len(b) /\ 2 \in 1 .. Len(b) /\ 3 \in 1 .. Len(b) /\ 4 \in 1 .. Len(b) /\ 5 \in 1 .. Len(b)
    BY <1>2
  <2> QED  BY <1>2, <2>1, <2>2
<1>6. /\ OffsetOf(b, 1) = 0 /\ OffsetOf(b, 2) = 2 /\ OffsetOf(b, 3) = 6
      /\ OffsetOf(b, 4) = 7 /\ OffsetOf(b, 5) = 8 /\ SizeOf(b) = 10
  BY <1>3, <1>5
<1>7. 1 \in 1 .. Len(b) /\ 2 \in 1 .. Len(b) /\ 3 \in 1 .. Len(b) /\ 4 \in 1 .. Len(b) /\ 5 \in 1 .. Len(b)
  BY <1>2
<1>8. HasField(b, 0, 2, 2) /\ HasField(b, 2, 4, 0) /\ HasField(b, 6, 1, Long(w64))
  BY <1>2, <1>6, <1>7 DEF HasField
<1>9. HasField(b, 7, 1, 1) /\ HasField(b, 8, 2, DW_LANG_ObjC)
  BY <1>2, <1>6, <1>7 DEF HasField
<1> QED  BY <1>4, <1>6, <1>8, <1>9 DEF b

(* A structure of one member. *)
LEMMA OneField ==
  ASSUME NEW w \in Nat \ {0}, NEW v
  PROVE  LET s == <<Field(w, v)>>
         IN Structure(s) /\ SizeOf(s) = w /\ HasField(s, 0, w, v)
<1> DEFINE s == <<Field(w, v)>>
<1>1. Len(s) = 1 /\ s[1] = Field(w, v) /\ s = [k \in 1 .. 1 |-> s[k]]
  OBVIOUS
<1>2. s[1].width = w
  BY DEF Field
<1> HIDE DEF s
<1>3. Structure(s)
  <2>1. \A k \in 1 .. 1 : k = 1
    OBVIOUS
  <2>2. \A k \in 1 .. 1 : s[k].width \in Nat \ {0}
    BY <1>2, <2>1
  <2> QED  BY <1>1, <2>2 DEF Structure
<1>4. OffsetOf(s, 1) = 0 /\ OffsetOf(s, 1 + 1) = OffsetOf(s, 1) + s[1].width
      /\ SizeOf(s) = OffsetOf(s, 1 + 1)
  <2>1. /\ OffsetOf(s, 1) = 0 /\ SizeOf(s) = OffsetOf(s, Len(s) + 1)
        /\ \A k \in 1 .. Len(s) : OffsetOf(s, k + 1) = OffsetOf(s, k) + s[k].width
    BY <1>3, NextMember
  <2>2. 1 \in 1 .. Len(s)
    BY <1>1
  <2> QED  BY <1>1, <2>1, <2>2
<1>5. SizeOf(s) = w /\ OffsetOf(s, 1) = 0
  BY <1>2, <1>4
<1>6. HasField(s, 0, w, v)
  BY <1>1, <1>5 DEF HasField
<1> QED  BY <1>3, <1>5, <1>6 DEF s

(* The function entries have their fields where they belong. *)
LEMMA EntriesHave ==
  ASSUME NEW w64 \in BOOLEAN, NEW n, NEW tags, Lists(tags, n, {})
  PROVE  LET all == FlattenSeq(Entries(w64, tags))
         IN /\ Structure(all) /\ SizeOf(all) = n * EntrySize(w64)
            /\ \A k \in 1 .. n :
                 LET p == (k - 1) * EntrySize(w64)
                 IN /\ HasField(all, p, 1, 2)
                    /\ HasField(all, p + 1, Long(w64), tags[k].low_pc)
                    /\ HasField(all, p + 1 + Long(w64), Long(w64), tags[k].high_pc)
                    /\ HasField(all, p + 1 + 2 * Long(w64), 4, tags[k].name)
<1> DEFINE all == FlattenSeq(Entries(w64, tags))
<1>n. n \in Nat
  BY DEF Lists
<1> USE <1>n
<1>1. /\ all = Fours(Entries(w64, tags), n) /\ AreFours(Entries(w64, tags), n)
      /\ SizeOf(Fours(Entries(w64, tags), n)) = n * EntrySize(w64)
  <2>1. n \in 0 .. n
    BY DEF Lists
  <2> QED  BY <2>1, EntriesAre
<1>2. Structure(all) /\ SizeOf(all) = n * EntrySize(w64) /\ Len(all) = 4 * n
  BY <1>n, <1>1, FoursStructure
<1>3. ASSUME NEW k \in 1 .. n, NEW j \in 1 .. 4
      PROVE  /\ all[4 * (k - 1) + j] = EntryFields(w64, tags[k])[j]
             /\ OffsetOf(all, 4 * (k - 1) + j)
                  = (k - 1) * EntrySize(w64) + OffsetOf(EntryFields(w64, tags[k]), j)
             /\ 4 * (k - 1) + j \in 1 .. Len(all)
  <2>1. 4 * (k - 1) + j \in 1 .. Len(all)
    BY <1>n, <1>2
  <2>2. EntryAt(all, EntryFields(w64, tags[k]), (k - 1) * EntrySize(w64), k, j)
    BY EntryPlaces
  <2> QED  BY <2>1, <2>2 DEF EntryAt
<1> HIDE DEF all
<1>4. ASSUME NEW k \in 1 .. n
      PROVE  LET p == (k - 1) * EntrySize(w64)
             IN /\ HasField(all, p, 1, 2)
                /\ HasField(all, p + 1, Long(w64), tags[k].low_pc)
                /\ HasField(all, p + 1 + Long(w64), Long(w64), tags[k].high_pc)
                /\ HasField(all, p + 1 + 2 * Long(w64), 4, tags[k].name)
  <2> DEFINE e == EntryFields(w64, tags[k])
             q == 4 * (k - 1)
             p == (k - 1) * EntrySize(w64)
  <2>1. /\ e[1] = Field(1, 2) /\ e[2] = Field(Long(w64), tags[k].low_pc)
        /\ e[3] = Field(Long(w64), tags[k].high_pc) /\ e[4] = Field(4, tags[k].name)
        /\ OffsetOf(e, 1) = 0 /\ OffsetOf(e, 2) = 1
        /\ OffsetOf(e, 3) = 1 + Long(w64) /\ OffsetOf(e, 4) = 1 + 2 * Long(w64)
    BY EntryFieldsAre
  <2>2. \A j \in 1 .. 4 : all[q + j] = e[j] /\ OffsetOf(all, q + j) = p + OffsetOf(e, j) /\ q + j \in 1 .. Len(all)
    BY <1>3
  <2>3. p \in Int /\ Long(w64) \in Int
    BY <1>n DEF EntrySize, Long
  <2> HIDE DEF e, q, p
  <2>4. 1 \in 1 .. 4 /\ 2 \in 1 .. 4 /\ 3 \in 1 .. 4 /\ 4 \in 1 .. 4
    OBVIOUS
  <2>5. HasField(all, p, 1, 2)
    <3>0. all[q + 1] = e[1] /\ OffsetOf(all, q + 1) = p + OffsetOf(e, 1) /\ q + 1 \in 1 .. Len(all)
      BY <2>2, <2>4
    <3>1. OffsetOf(all, q + 1) = p /\ all[q + 1] = e[1] /\ q + 1 \in 1 .. Len(all)
      BY <2>1, <2>3, <3>0
    <3> QED  BY <2>1, <3>1 DEF HasField
  <2>6. HasField(all, p + 1, Long(w64), tags[k].low_pc)
    <3>0. all[q + 2] = e[2] /\ OffsetOf(all, q + 2) = p + OffsetOf(e, 2) /\ q + 2 \in 1 .. Len(all)
      BY <2>2, <2>4
    <3>1. OffsetOf(all, q + 2) = p + 1 /\ all[q + 2] = e[2] /\ q + 2 \in 1 .. Len(all)
      BY <2>1, <2>3, <3>0
    <3> QED  BY <2>1, <3>1 DEF HasField
  <2>7. HasField(all, p + 1 + Long(w64), Long(w64), tags[k].high_pc)
    <3>0. all[q + 3] = e[3] /\ OffsetOf(all, q + 3) = p + OffsetOf(e, 3) /\ q + 3 \in 1 .. Len(all)
      BY <2>2, <2>4
    <3>1. OffsetOf(all, q + 3) = p + 1 + Long(w64) /\ all[q + 3] = e[3] /\ q + 3 \in 1 .. Len(all)
      BY <2>1, <2>3, <3>0
    <3> QED  BY <2>1, <3>1 DEF HasField
  <2>8. HasField(all, p + 1 + 2 * Long(w64), 4, tags[k].name)
    <3>0. all[q + 4] = e[4] /\ OffsetOf(all, q + 4) = p + OffsetOf(e, 4) /\ q + 4 \in 1 .. Len(all)
      BY <2>2, <2>4
    <3>1. OffsetOf(all, q + 4) = p + 1 + 2 * Long(w64) /\ all[q + 4] = e[4] /\ q + 4 \in 1 .. Len(all)
      BY <2>1, <2>3, <3>0
    <3> QED  BY <2>1, <3>1 DEF HasField
  <2> QED  BY <2>5, <2>6, <2>7, <2>8 DEF p
<1> QED  BY <1>2, <1>4 DEF all

(* Bytes of __debug_info for n functions. *)
InfoLength(w64, n) == 15 + n * EntrySize(w64)

(* What the section has at the positions a reader visits. *)
LEMMA InfoFieldsAre ==
  ASSUME NEW w64 \in BOOLEAN, NEW n, NEW tags, Lists(tags, n, {})
  PROVE  LET f == InfoFields(w64, tags)
         IN /\ Structure(f) /\ SizeOf(f) = InfoLength(w64, n)
            /\ HasField(f, 0, 4, InfoLength(w64, n) - 4)
            /\ HasField(f, 4, 2, 2) /\ HasField(f, 6, 4, 0) /\ HasField(f, 10, 1, Long(w64))
            /\ HasField(f, 11, 1, 1) /\ HasField(f, 12, 2, DW_LANG_ObjC)
            /\ \A k \in 1 .. n :
                 LET p == 14 + (k - 1) * EntrySize(w64)
                 IN /\ HasField(f, p, 1, 2)
                    /\ HasField(f, p + 1, Long(w64), tags[k].low_pc)
                    /\ HasField(f, p + 1 + Long(w64), Long(w64), tags[k].high_pc)
                    /\ HasField(f, p + 1 + 2 * Long(w64), 4, tags[k].name)
            /\ HasField(f, 14 + n * EntrySize(w64), 1, 0)
<1> DEFINE b == UnitBegin(w64)
           all == FlattenSeq(Entries(w64, tags))
           z == <<Field(1, 0)>>
           u == (b \o all) \o z
           h == <<Field(4, UnitLength(u))>>
           N == n * EntrySize(w64)
<1>1. UnitFields(w64, tags) = u /\ InfoFields(w64, tags) = h \o u
  BY DEF InfoFields, UnitFields, UnitBegin, Entries
<1>2. /\ Structure(b) /\ SizeOf(b) = 10
      /\ HasField(b, 0, 2, 2) /\ HasField(b, 2, 4, 0) /\ HasField(b, 6, 1, Long(w64))
      /\ HasField(b, 7, 1, 1) /\ HasField(b, 8, 2, DW_LANG_ObjC)
  BY UnitBeginIs
<1>3. /\ Structure(all) /\ SizeOf(all) = N
      /\ \A k \in 1 .. n :
           LET p == (k - 1) * EntrySize(w64)
           IN /\ HasField(all, p, 1, 2)
              /\ HasField(all, p + 1, Long(w64), tags[k].low_pc)
              /\ HasField(all, p + 1 + Long(w64), Long(w64), tags[k].high_pc)
              /\ HasField(all, p + 1 + 2 * Long(w64), 4, tags[k].name)
  BY EntriesHave
<1>4. Structure(z) /\ SizeOf(z) = 1 /\ HasField(z, 0, 1, 0)
  BY OneField
<1>n. n \in Nat /\ Long(w64) \in {4, 8} /\ EntrySize(w64) \in Nat
  BY DEF Lists, Long, EntrySize
<1>0. N \in Nat
  BY <1>n
<1> HIDE DEF b, all, z, N
<1>5. /\ Structure(b \o all) /\ SizeOf(b \o all) = 10 + N
      /\ \A off, w, v : HasField(b, off, w, v) => HasField(b \o all, off, w, v)
      /\ \A off, w, v : HasField(all, off, w, v) => HasField(b \o all, 10 + off, w, v)
  <2>1. Structure(b) /\ Structure(all)
    BY <1>2, <1>3
  <2>2. /\ \A off, w, v : HasField(b, off, w, v) => HasField(b \o all, off, w, v)
        /\ \A off, w, v : HasField(all, off, w, v) => HasField(b \o all, SizeOf(b) + off, w, v)
    BY <2>1, HasFieldJoin
  <2>3. Structure(b \o all) /\ SizeOf(b \o all) = SizeOf(b) + SizeOf(all)
    BY <2>1, StructureJoin, SizeOfJoin
  <2> QED  BY <1>2, <1>3, <2>2, <2>3
<1>6. /\ Structure(u) /\ SizeOf(u) = 11 + N
      /\ \A off, w, v : HasField(b \o all, off, w, v) => HasField(u, off, w, v)
      /\ \A off, w, v : HasField(z, off, w, v) => HasField(u, (10 + N) + off, w, v)
  <2>1. Structure(b \o all) /\ Structure(z)
    BY <1>4, <1>5
  <2>2. /\ \A off, w, v : HasField(b \o all, off, w, v) => HasField(u, off, w, v)
        /\ \A off, w, v : HasField(z, off, w, v) => HasField(u, SizeOf(b \o all) + off, w, v)
    BY <2>1, HasFieldJoin
  <2>3. Structure(u) /\ SizeOf(u) = SizeOf(b \o all) + SizeOf(z)
    BY <2>1, StructureJoin, SizeOfJoin
  <2> QED  BY <1>0, <1>4, <1>5, <2>2, <2>3
<1> HIDE DEF u
<1>7. UnitLength(u) = 11 + N
  <2>1. Len(u) \in Int
    BY <1>6 DEF Structure
  <2>2. Extent(u, Len(u)) = OffsetOf(u, Len(u) + 1)
    BY <2>1, ExtentIsOffset
  <2> QED  BY <1>6, <2>2 DEF UnitLength, SizeOf
<1>8. Structure(h) /\ SizeOf(h) = 4 /\ HasField(h, 0, 4, 11 + N)
  BY <1>7, OneField
<1> HIDE DEF h
<1>9. /\ Structure(h \o u) /\ SizeOf(h \o u) = 15 + N
      /\ \A off, w, v : HasField(h, off, w, v) => HasField(h \o u, off, w, v)
      /\ \A off, w, v : HasField(u, off, w, v) => HasField(h \o u, 4 + off, w, v)
  <2>1. Structure(h) /\ Structure(u)
    BY <1>6, <1>8
  <2>2. /\ \A off, w, v : HasField(h, off, w, v) => HasField(h \o u, off, w, v)
        /\ \A off, w, v : HasField(u, off, w, v) => HasField(h \o u, SizeOf(h) + off, w, v)
    BY <2>1, HasFieldJoin
  <2>3. Structure(h \o u) /\ SizeOf(h \o u) = SizeOf(h) + SizeOf(u)
    BY <2>1, StructureJoin, SizeOfJoin
  <2> QED  BY <1>0, <1>6, <1>8, <2>2, <2>3
<1> DEFINE f == h \o u
<1> HIDE DEF f
<1>10. /\ \A off, w, v : HasField(b, off, w, v) => HasField(f, 4 + off, w, v)
       /\ \A off, w, v : HasField(all, off, w, v) => HasField(f, 4 + (10 + off), w, v)
       /\ HasField(f, 4 + ((10 + N) + 0), 1, 0) /\ HasField(f, 0, 4, 11 + N)
  BY <1>4, <1>5, <1>6, <1>8, <1>9 DEF f
<1>11. /\ HasField(f, 4, 2, 2) /\ HasField(f, 6, 4, 0) /\ HasField(f, 10, 1, Long(w64))
       /\ HasField(f, 11, 1, 1) /\ HasField(f, 12, 2, DW_LANG_ObjC)
  <2>1. /\ HasField(f, 4 + 0, 2, 2) /\ HasField(f, 4 + 2, 4, 0) /\ HasField(f, 4 + 6, 1, Long(w64))
        /\ HasField(f, 4 + 7, 1, 1) /\ HasField(f, 4 + 8, 2, DW_LANG_ObjC)
    BY <1>2, <1>10
  <2>2. 4 + 0 = 4 /\ 4 + 2 = 6 /\ 4 + 6 = 10 /\ 4 + 7 = 11 /\ 4 + 8 = 12
    OBVIOUS
  <2> QED  BY <2>1, <2>2
<1>12. ASSUME NEW k \in 1 .. n
       PROVE  LET p == 14 + (k - 1) * EntrySize(w64)
              IN /\ HasField(f, p, 1, 2)
                 /\ HasField(f, p + 1, Long(w64), tags[k].low_pc)
                 /\ HasField(f, p + 1 + Long(w64), Long(w64), tags[k].high_pc)
                 /\ HasField(f, p + 1 + 2 * Long(w64), 4, tags[k].name)
  <2> DEFINE q == (k - 1) * EntrySize(w64)
  <2>1. /\ HasField(all, q, 1, 2)
        /\ HasField(all, q + 1, Long(w64), tags[k].low_pc)
        /\ HasField(all, q + 1 + Long(w64), Long(w64), tags[k].high_pc)
        /\ HasField(all, q + 1 + 2 * Long(w64), 4, tags[k].name)
    BY <1>3
  <2>2. q \in Int
    BY <1>n
  <2> HIDE DEF q
  <2>3. /\ HasField(f, 4 + (10 + q), 1, 2)
        /\ HasField(f, 4 + (10 + (q + 1)), Long(w64), tags[k].low_pc)
        /\ HasField(f, 4 + (10 + (q + 1 + Long(w64))), Long(w64), tags[k].high_pc)
        /\ HasField(f, 4 + (10 + (q + 1 + 2 * Long(w64))), 4, tags[k].name)
    BY <1>10, <2>1
  <2>4. /\ 4 + (10 + q) = 14 + q /\ 4 + (10 + (q + 1)) = (14 + q) + 1
        /\ 4 + (10 + (q + 1 + Long(w64))) = (14 + q) + 1 + Long(w64)
        /\ 4 + (10 + (q + 1 + 2 * Long(w64))) = (14 + q) + 1 + 2 * Long(w64)
    BY <1>n, <2>2
  <2> QED  BY <2>3, <2>4 DEF q
<1>13. /\ InfoLength(w64, n) = 15 + N /\ InfoLength(w64, n) - 4 = 11 + N
       /\ 4 + ((10 + N) + 0) = 14 + N
  BY <1>0 DEF InfoLength, N
<1>14. /\ HasField(f, 0, 4, InfoLength(w64, n) - 4)
       /\ HasField(f, 14 + N, 1, 0)
  BY <1>10, <1>13
<1>15. Structure(f) /\ SizeOf(f) = InfoLength(w64, n)
  BY <1>9, <1>13 DEF f
<1>16. InfoFields(w64, tags) = f
  BY <1>1 DEF f, u
<1> QED  BY <1>11, <1>12, <1>14, <1>15, <1>16 DEF N

-----------------------------------------------------------------------------
(* The sections as cells of a file. *)

(* The cells of a list of fields do not touch each other. *)
LEMMA FieldsApart ==
  ASSUME NEW fields, Structure(fields), NEW pos \in Int
  PROVE  Apart(FieldCells(fields, pos), pos, pos + SizeOf(fields))
<1> DEFINE cell == [k \in DOMAIN fields |->
                      [at |-> pos + Extent(fields, k - 1), name |-> "field",
                       width |-> fields[k].width, value |-> fields[k].value]]
<1>1. FieldCells(fields, pos) = {cell[k] : k \in DOMAIN fields}
  BY DEF FieldCells
<1>2. \A k \in 1 .. Len(fields) : cell[k].at = pos + OffsetOf(fields, k)
  <2>1. \A k \in 1 .. Len(fields) : cell[k].at = pos + Extent(fields, k - 1)
    BY DEF Structure
  <2>2. \A k \in 1 .. Len(fields) : Extent(fields, k - 1) = OffsetOf(fields, k)
    BY ExtentIsOffset
  <2> HIDE DEF cell
  <2> QED  BY <2>1, <2>2
<1> HIDE DEF cell
<1> QED  BY <1>1, <1>2, MembersApart

(* What is written into a field is read from it. *)
LEMMA FieldIsRead ==
  ASSUME NEW fields, Structure(fields), NEW pos \in Int,
         NEW cells, NEW lo, NEW hi, Apart(cells, lo, hi), FieldCells(fields, pos) \subseteq cells,
         NEW off, NEW width, NEW value, HasField(fields, off, width, value)
  PROVE  NumberAt(Contents(cells), pos + off, width) = value
<1>1. PICK k \in 1 .. Len(fields) : OffsetOf(fields, k) = off /\ fields[k] = Field(width, value)
  BY DEF HasField
<1> DEFINE c == [at |-> pos + Extent(fields, k - 1), name |-> "field",
                 width |-> fields[k].width, value |-> fields[k].value]
<1>2. c \in cells
  BY DEF FieldCells, Structure
<1>3. c.at = pos + off /\ c.width = width /\ c.value = value
  <2>1. Extent(fields, k - 1) = OffsetOf(fields, k)
    BY ExtentIsOffset
  <2> QED  BY <1>1, <2>1 DEF Field
<1> HIDE DEF c
<1>4. c.at \in DOMAIN Contents(cells) /\ Contents(cells)[c.at] = c
  BY <1>2, ContentsHold
<1> QED  BY <1>3, <1>4 DEF NumberAt

-----------------------------------------------------------------------------

(* The first declaration. *)
UnitDeclaration == <<1, DW_TAG_compile_unit, DW_CHILDREN_yes, DW_AT_language, DW_FORM_data2, 0, 0>>

(* The bytes of both declarations. *)
LEMMA AbbrevBytesAre ==
  /\ Len(AbbrevBytes) = 18 /\ AbbrevBytes = [k \in 1 .. 18 |-> AbbrevBytes[k]]
  /\ AbbrevBytes[1] = 1 /\ AbbrevBytes[2] = 17 /\ AbbrevBytes[3] = 1
  /\ AbbrevBytes[4] = 19 /\ AbbrevBytes[5] = 5 /\ AbbrevBytes[6] = 0 /\ AbbrevBytes[7] = 0
  /\ AbbrevBytes[8] = 2 /\ AbbrevBytes[9] = 46 /\ AbbrevBytes[10] = 0
  /\ AbbrevBytes[11] = 17 /\ AbbrevBytes[12] = 1 /\ AbbrevBytes[13] = 18 /\ AbbrevBytes[14] = 1
  /\ AbbrevBytes[15] = 3 /\ AbbrevBytes[16] = 14 /\ AbbrevBytes[17] = 0 /\ AbbrevBytes[18] = 0
<1> DEFINE a == UnitDeclaration
           b == Subprogram
<1>1. /\ a \in Seq(Nat) /\ Len(a) = 7
      /\ a[1] = 1 /\ a[2] = 17 /\ a[3] = 1 /\ a[4] = 19 /\ a[5] = 5 /\ a[6] = 0 /\ a[7] = 0
  BY DEF UnitDeclaration, DW_TAG_compile_unit, DW_CHILDREN_yes, DW_AT_language, DW_FORM_data2
<1>2. b \in Seq(Nat) /\ Len(b) = 11
  BY DEF Subprogram, DW_TAG_subprogram, DW_CHILDREN_no, DW_AT_low_pc, DW_AT_high_pc, DW_AT_name,
         DW_FORM_addr, DW_FORM_strp
<1>3. /\ b[1] = 2 /\ b[2] = 46 /\ b[3] = 0 /\ b[4] = 17 /\ b[5] = 1 /\ b[6] = 18
      /\ b[7] = 1 /\ b[8] = 3 /\ b[9] = 14 /\ b[10] = 0 /\ b[11] = 0
  BY DEF Subprogram, DW_TAG_subprogram, DW_CHILDREN_no, DW_AT_low_pc, DW_AT_high_pc, DW_AT_name,
         DW_FORM_addr, DW_FORM_strp
<1>4. AbbrevBytes = a \o b
  BY DEF AbbrevBytes, UnitDeclaration
<1> HIDE DEF a, b
<1> DEFINE c == a \o b
<1>5. /\ c \in Seq(Nat) /\ Len(c) = 18
      /\ \A k \in 1 .. 7 : c[k] = a[k]
      /\ \A k \in 1 .. 11 : c[7 + k] = b[k]
  <2>1. a \in Seq(Nat) /\ b \in Seq(Nat)
    BY <1>1, <1>2
  <2>2. /\ c \in Seq(Nat) /\ Len(c) = Len(a) + Len(b)
        /\ \A k \in 1 .. Len(a) : c[k] = a[k]
        /\ \A k \in Len(a) + 1 .. Len(a) + Len(b) : c[k] = b[k - Len(a)]
    BY <2>1
  <2> HIDE DEF c
  <2>3. ASSUME NEW k \in 8 .. 18 PROVE c[k] = b[k - 7]
    <3>1. k \in Len(a) + 1 .. Len(a) + Len(b) /\ k - Len(a) = k - 7
      BY <1>1, <1>2
    <3>2. c[k] = b[k - Len(a)]
      BY <2>2, <3>1
    <3> QED  BY <3>1, <3>2
  <2>4. \A k \in 1 .. 11 : 7 + k \in 8 .. 18 /\ (7 + k) - 7 = k
    OBVIOUS
  <2>5. \A k \in 1 .. 11 : c[7 + k] = b[k]
    BY <2>3, <2>4
  <2> QED  BY <1>1, <1>2, <2>2, <2>5
<1> HIDE DEF c
<1>6. c = [k \in 1 .. 18 |-> c[k]]
  BY <1>5
<1>7. c[1] = 1 /\ c[2] = 17 /\ c[3] = 1 /\ c[4] = 19 /\ c[5] = 5 /\ c[6] = 0 /\ c[7] = 0
  BY <1>1, <1>5
<1>8. /\ c[8] = 2 /\ c[9] = 46 /\ c[10] = 0 /\ c[11] = 17 /\ c[12] = 1 /\ c[13] = 18
      /\ c[14] = 1 /\ c[15] = 3 /\ c[16] = 14 /\ c[17] = 0 /\ c[18] = 0
  <2>1. /\ c[7 + 1] = b[1] /\ c[7 + 2] = b[2] /\ c[7 + 3] = b[3] /\ c[7 + 4] = b[4]
        /\ c[7 + 5] = b[5] /\ c[7 + 6] = b[6]
    BY <1>5
  <2>2. /\ c[7 + 7] = b[7] /\ c[7 + 8] = b[8] /\ c[7 + 9] = b[9] /\ c[7 + 10] = b[10]
        /\ c[7 + 11] = b[11]
    BY <1>5
  <2> QED  BY <1>3, <2>1, <2>2
<1>9. AbbrevBytes = c
  BY <1>4 DEF c
<1> QED  BY <1>5, <1>6, <1>7, <1>8, <1>9

(* Byte k of __debug_abbrev. *)
LEMMA AbbrevFieldsAre ==
  /\ Structure(AbbrevFields) /\ SizeOf(AbbrevFields) = 18
  /\ \A k \in 0 .. 17 : HasField(AbbrevFields, k, 1, AbbrevBytes[k + 1])
<1> DEFINE s == AbbrevFields
<1>1. s = [k \in 1 .. 18 |-> Field(1, AbbrevBytes[k])]
  <2>1. DOMAIN AbbrevBytes = 1 .. 18
    BY AbbrevBytesAre
  <2> QED  BY <2>1 DEF AbbrevFields
<1> HIDE DEF s
<1>2. Len(s) = 18 /\ \A k \in 1 .. 18 : s[k] = Field(1, AbbrevBytes[k]) /\ s[k].width = 1
  BY <1>1 DEF Field
<1>3. s = [k \in 1 .. Len(s) |-> s[k]]
  BY <1>1, <1>2
<1>4. Structure(s)
  BY <1>2, <1>3 DEF Structure
<1>5. \A k \in 1 .. 18 + 1 : OffsetOf(s, k) = (k - 1) * 1
  <2>1. 1 \in Nat /\ \A k \in 1 .. Len(s) : s[k].width = 1
    BY <1>2
  <2>2. \A k \in 1 .. Len(s) + 1 : OffsetOf(s, k) = (k - 1) * 1
    BY <1>4, <2>1, SizeOfEqual
  <2> QED  BY <1>2, <2>2
<1>6. SizeOf(s) = 18
  BY <1>2, <1>5 DEF SizeOf
<1>7. ASSUME NEW k \in 0 .. 17 PROVE HasField(s, k, 1, AbbrevBytes[k + 1])
  <2>1. k + 1 \in 1 .. Len(s) /\ OffsetOf(s, k + 1) = k /\ s[k + 1] = Field(1, AbbrevBytes[k + 1])
    BY <1>2, <1>5
  <2> QED  BY <2>1 DEF HasField
<1> QED  BY <1>4, <1>6, <1>7 DEF s

-----------------------------------------------------------------------------
(* __debug_line. *)

(* The members of DwarfDebugLine in the words of the compiler: their widths  *)
(* and where they are put.                                                  *)
LEMMA DebugLineIs ==
  /\ Structure(DwarfDebugLine) /\ Len(DwarfDebugLine) = 8
  /\ DwarfDebugLine[1] = Member("total_length", 4)
  /\ DwarfDebugLine[2] = Member("version", 2)
  /\ DwarfDebugLine[3] = Member("prologue_length", 4)
  /\ \A k \in 4 .. 8 : DwarfDebugLine[k].width = 1
<1> DEFINE a == Members(<<"total_length">>, 4)
           b == Members(<<"version">>, 2)
           c == Members(<<"prologue_length">>, 4)
           list == <<"min_inst_length", "default_is_stmt", "line_base", "line_range", "opcode_base">>
           d == Members(list, 1)
<1>1. DwarfDebugLine = ((a \o b) \o c) \o d
  BY DEF DwarfDebugLine
<1>2. Structure(a) /\ Len(a) = 1 /\ a[1] = Member("total_length", 4)
  <2> DEFINE list1 == <<"total_length">>
  <2>1. Lists(list1, 1, {}) /\ list1[1] = "total_length" /\ 4 \in Nat \ {0}
    BY DEF Lists
  <2> HIDE DEF list1
  <2>2. Structure(a) /\ Len(a) = 1 /\ \A k \in 1 .. 1 : a[k] = Member(list1[k], 4)
    BY <2>1, MembersAre DEF list1
  <2> QED  BY <2>1, <2>2
<1>3. Structure(b) /\ Len(b) = 1 /\ b[1] = Member("version", 2)
  <2> DEFINE list1 == <<"version">>
  <2>1. Lists(list1, 1, {}) /\ list1[1] = "version" /\ 2 \in Nat \ {0}
    BY DEF Lists
  <2> HIDE DEF list1
  <2>2. Structure(b) /\ Len(b) = 1 /\ \A k \in 1 .. 1 : b[k] = Member(list1[k], 2)
    BY <2>1, MembersAre DEF list1
  <2> QED  BY <2>1, <2>2
<1>4. Structure(c) /\ Len(c) = 1 /\ c[1] = Member("prologue_length", 4)
  <2> DEFINE list1 == <<"prologue_length">>
  <2>1. Lists(list1, 1, {}) /\ list1[1] = "prologue_length" /\ 4 \in Nat \ {0}
    BY DEF Lists
  <2> HIDE DEF list1
  <2>2. Structure(c) /\ Len(c) = 1 /\ \A k \in 1 .. 1 : c[k] = Member(list1[k], 4)
    BY <2>1, MembersAre DEF list1
  <2> QED  BY <2>1, <2>2
<1>5. Structure(d) /\ Len(d) = 5 /\ \A k \in 1 .. 5 : d[k].width = 1
  <2>1. Lists(list, 5, {})
    BY DEF Lists
  <2> HIDE DEF list
  <2>2. Structure(d) /\ Len(d) = 5 /\ \A k \in 1 .. 5 : d[k] = Member(list[k], 1)
    <3>1. 1 \in Nat \ {0}
      OBVIOUS
    <3> QED  BY <2>1, <3>1, MembersAre
  <2> QED  BY <2>2 DEF Member
<1> HIDE DEF a, b, c, d
<1> DEFINE e == a \o b
           f == e \o c
           g == f \o d
<1>6. Structure(e) /\ Len(e) = 2 /\ e[1] = a[1] /\ e[1 + 1] = b[1]
  <2>1. /\ Structure(e) /\ Len(e) = Len(a) + Len(b)
        /\ \A k \in 1 .. Len(a) : e[k] = a[k]
        /\ \A k \in 1 .. Len(b) : e[Len(a) + k] = b[k]
    BY <1>2, <1>3, StructureJoin
  <2> HIDE DEF e
  <2> QED  BY <1>2, <1>3, <2>1
<1> HIDE DEF e
<1>7. Structure(f) /\ Len(f) = 3 /\ f[1] = e[1] /\ f[2] = e[2] /\ f[2 + 1] = c[1]
  <2>1. /\ Structure(f) /\ Len(f) = Len(e) + Len(c)
        /\ \A k \in 1 .. Len(e) : f[k] = e[k]
        /\ \A k \in 1 .. Len(c) : f[Len(e) + k] = c[k]
    <3>1. Structure(e) /\ Structure(c)
      BY <1>4, <1>6
    <3> QED  BY <3>1, StructureJoin
  <2> HIDE DEF f
  <2> QED  BY <1>4, <1>6, <2>1
<1> HIDE DEF f
<1>8. /\ Structure(g) /\ Len(g) = 8 /\ g[1] = f[1] /\ g[2] = f[2] /\ g[3] = f[3]
      /\ \A k \in 1 .. 5 : g[3 + k] = d[k]
  <2>1. /\ Structure(g) /\ Len(g) = Len(f) + Len(d)
        /\ \A k \in 1 .. Len(f) : g[k] = f[k]
        /\ \A k \in 1 .. Len(d) : g[Len(f) + k] = d[k]
    <3>1. Structure(f) /\ Structure(d)
      BY <1>5, <1>7
    <3> QED  BY <3>1, StructureJoin
  <2> HIDE DEF g
  <2> QED  BY <1>5, <1>7, <2>1
<1> HIDE DEF g
<1>9. \A k \in 4 .. 8 : g[k].width = 1
  <2> SUFFICES ASSUME NEW k \in 4 .. 8 PROVE g[k].width = 1
    OBVIOUS
  <2>1. k - 3 \in 1 .. 5 /\ 3 + (k - 3) = k
    OBVIOUS
  <2> QED  BY <1>5, <1>8, <2>1
<1>10. DwarfDebugLine = g
  BY <1>1 DEF g, f, e
<1> QED  BY <1>2, <1>3, <1>4, <1>6, <1>7, <1>8, <1>9, <1>10

(* The places of the eight members. *)
LineOffsets == <<0, 4, 8, 12, 13, 14, 15, 16>>

(* prologue_length stands at 8 and not at 6: DwarfDebugLine is not packed. *)
LEMMA AlignedOffsetIs ==
  /\ \A k \in 1 .. 8 : AlignedOffset[k] = LineOffsets[k]
  /\ AlignedSize = 20 /\ LineTotalLength = 16
<1> DEFINE w(k) == DwarfDebugLine[k].width
           Follow(f, k) == IF k = 1 THEN 0 ELSE RoundUp(f[k - 1] + w(k - 1), w(k))
           Is(f) == f = [k \in DOMAIN DwarfDebugLine |-> Follow(f, k)]
           g == [k \in 1 .. 8 |-> LineOffsets[k]]
           h == CHOOSE f : Is(f)
<1>1. /\ w(1) = 4 /\ w(2) = 2 /\ w(3) = 4 /\ w(4) = 1 /\ w(5) = 1 /\ w(6) = 1 /\ w(7) = 1 /\ w(8) = 1
      /\ DOMAIN DwarfDebugLine = 1 .. 8 /\ Len(DwarfDebugLine) = 8
  BY DebugLineIs DEF Member, Structure
<1>2. AlignedOffset = h
  BY DEF AlignedOffset
<1> HIDE DEF w
<1>3. \A k \in 1 .. 8 : k = 1 \/ k = 2 \/ k = 3 \/ k = 4 \/ k = 5 \/ k = 6 \/ k = 7 \/ k = 8
  OBVIOUS
<1>4. /\ g[1] = 0 /\ g[2] = 4 /\ g[3] = 8 /\ g[4] = 12
      /\ g[5] = 13 /\ g[6] = 14 /\ g[7] = 15 /\ g[8] = 16
  BY DEF LineOffsets
<1>5. /\ RoundUp(0 + 4, 2) = 4 /\ RoundUp(4 + 2, 4) = 8 /\ RoundUp(8 + 4, 1) = 12
      /\ RoundUp(12 + 1, 1) = 13 /\ RoundUp(13 + 1, 1) = 14 /\ RoundUp(14 + 1, 1) = 15
      /\ RoundUp(15 + 1, 1) = 16 /\ RoundUp(16 + 1, 4) = 20
  BY DEF RoundUp
<1>6. ASSUME NEW f, f[1] = 0, f[2] = 4, f[3] = 8, f[4] = 12, f[5] = 13, f[6] = 14, f[7] = 15
      PROVE  /\ Follow(f, 1) = 0 /\ Follow(f, 2) = 4 /\ Follow(f, 3) = 8 /\ Follow(f, 4) = 12
             /\ Follow(f, 5) = 13 /\ Follow(f, 6) = 14 /\ Follow(f, 7) = 15 /\ Follow(f, 8) = 16
  <2>1. /\ 2 - 1 = 1 /\ 3 - 1 = 2 /\ 4 - 1 = 3 /\ 5 - 1 = 4 /\ 6 - 1 = 5 /\ 7 - 1 = 6 /\ 8 - 1 = 7
    OBVIOUS
  <2> QED  BY <1>1, <1>5, <1>6, <2>1
<1>7. \A k \in 1 .. 8 : g[k] = Follow(g, k)
  <2> HIDE DEF Follow, g
  <2> QED  BY <1>3, <1>4, <1>6
<1>8. Is(g)
  <2> HIDE DEF Follow
  <2> QED  BY <1>1, <1>7
<1>9. Is(h)
  <2> HIDE DEF Is, g
  <2> QED  BY <1>8
<1> HIDE DEF h
<1>10. \A k \in 1 .. 8 : h[k] = Follow(h, k)
  <2> HIDE DEF Follow
  <2> QED  BY <1>1, <1>9
<1>11. /\ h[1] = 0 /\ h[2] = 4 /\ h[3] = 8 /\ h[4] = 12
       /\ h[5] = 13 /\ h[6] = 14 /\ h[7] = 15 /\ h[8] = 16
  <2>1. /\ h[1] = 0 /\ h[2] = RoundUp(h[2 - 1] + w(2 - 1), w(2)) /\ h[3] = RoundUp(h[3 - 1] + w(3 - 1), w(3))
        /\ h[4] = RoundUp(h[4 - 1] + w(4 - 1), w(4)) /\ h[5] = RoundUp(h[5 - 1] + w(5 - 1), w(5))
        /\ h[6] = RoundUp(h[6 - 1] + w(6 - 1), w(6)) /\ h[7] = RoundUp(h[7 - 1] + w(7 - 1), w(7))
        /\ h[8] = RoundUp(h[8 - 1] + w(8 - 1), w(8))
    BY <1>10
  <2>2. /\ 2 - 1 = 1 /\ 3 - 1 = 2 /\ 4 - 1 = 3 /\ 5 - 1 = 4 /\ 6 - 1 = 5 /\ 7 - 1 = 6 /\ 8 - 1 = 7
    OBVIOUS
  <2> QED  BY <1>1, <1>5, <2>1, <2>2
<1>12. \A k \in 1 .. 8 : h[k] = g[k]
  <2> HIDE DEF g
  <2> QED  BY <1>3, <1>4, <1>11
<1>13. AlignedSize = 20
  BY <1>1, <1>2, <1>5, <1>11 DEF AlignedSize, w
<1> QED  BY <1>2, <1>12, <1>13 DEF LineTotalLength

(* The contents of __debug_line are 20 bytes, with their length in front. *)
LEMMA LineCellsAre ==
  ASSUME NEW pos \in Int
  PROVE  /\ Apart(LineCells(pos), pos, pos + 20)
         /\ \E c \in LineCells(pos) : c.at = pos /\ c.width = 4 /\ c.value = 16
<1> DEFINE cell(k) == [at |-> pos + AlignedOffset[k], name |-> DwarfDebugLine[k].name,
                       width |-> DwarfDebugLine[k].width, value |-> LineValues[DwarfDebugLine[k].name]]
<1>1. DOMAIN DwarfDebugLine = 1 .. 8
  BY DebugLineIs DEF Structure
<1>2. LineCells(pos) = {cell(k) : k \in 1 .. 8}
  BY <1>1 DEF LineCells
<1>3. \A k \in 1 .. 8 : cell(k).at = pos + LineOffsets[k]
  BY AlignedOffsetIs
<1>4. /\ \A j, k \in 1 .. 8 : j # k => LineOffsets[j] # LineOffsets[k]
      /\ \A k \in 1 .. 8 : LineOffsets[k] \in 0 .. 16
  <2>1. /\ LineOffsets[1] = 0 /\ LineOffsets[2] = 4 /\ LineOffsets[3] = 8 /\ LineOffsets[4] = 12
        /\ LineOffsets[5] = 13 /\ LineOffsets[6] = 14 /\ LineOffsets[7] = 15 /\ LineOffsets[8] = 16
    BY DEF LineOffsets
  <2>2. \A k \in 1 .. 8 : k = 1 \/ k = 2 \/ k = 3 \/ k = 4 \/ k = 5 \/ k = 6 \/ k = 7 \/ k = 8
    OBVIOUS
  <2> QED  BY <2>1, <2>2
<1>5. cell(1).at = pos /\ cell(1).width = 4 /\ cell(1).value = 16 /\ 1 \in 1 .. 8
  <2>1. cell(1).at = pos
    BY <1>3 DEF LineOffsets
  <2>2. DwarfDebugLine[1].width = 4 /\ DwarfDebugLine[1].name = "total_length"
    BY DebugLineIs DEF Member
  <2>3. LineValues["total_length"] = 16
    BY AlignedOffsetIs DEF LineValues
  <2> QED  BY <2>1, <2>2, <2>3
<1> HIDE DEF cell
<1>6. Apart({cell(k) : k \in 1 .. 8}, pos, pos + 20)
  <2>1. ASSUME NEW k \in 1 .. 8
        PROVE  cell(k).at \in Int /\ pos <= cell(k).at /\ cell(k).at < pos + 20
    BY <1>3, <1>4
  <2>2. ASSUME NEW j \in 1 .. 8, NEW k \in 1 .. 8, cell(j).at = cell(k).at PROVE j = k
    <3>1. LineOffsets[j] \in Int /\ LineOffsets[k] \in Int
      BY <1>4
    <3>2. cell(j).at = pos + LineOffsets[j] /\ cell(k).at = pos + LineOffsets[k]
      BY <1>3
    <3>3. LineOffsets[j] = LineOffsets[k]
      <4> DEFINE x == LineOffsets[j]
                 y == LineOffsets[k]
      <4>1. x \in Int /\ y \in Int /\ pos + x = pos + y
        BY <2>2, <3>1, <3>2
      <4> HIDE DEF x, y
      <4>2. x = y
        BY <4>1
      <4> QED  BY <4>2 DEF x, y
    <3> QED  BY <1>4, <3>3
  <2> QED  BY <2>1, <2>2 DEF Apart
<1> QED  BY <1>2, <1>5, <1>6

-----------------------------------------------------------------------------
(* The image: where its pieces lie, and that they do not touch each other. *)
(* The pieces of a layout lie as MachoLayout puts them: commands and headers *)
(* side by side, the tables behind them, the sections behind the tables.    *)
HeadersLaid(l) ==
  LET H == HeaderSizeOf(l.wide)
      C == SegmentSizeOf(l.wide)
      S == SectionSizeOf(l.wide)
  IN /\ l.wide \in BOOLEAN
     /\ l.at["mach_header"] = 0 /\ l.at["uuid_command"] = H
     /\ l.at["symtab_command"] = H + 24 /\ l.at["text_segment"] = H + 48
     /\ l.at["text_header"] = H + 48 + C /\ l.at["dwarf_segment"] = H + 48 + C + S
     /\ l.at["line_header"] = H + 48 + 2 * C + S /\ l.at["str_header"] = H + 48 + 2 * C + 2 * S
     /\ l.at["abbrev_header"] = H + 48 + 2 * C + 3 * S
     /\ l.at["info_header"] = H + 48 + 2 * C + 4 * S
     /\ l.textsize = S + C /\ l.dwarfsize = C + 4 * S

(* The symbol table begins at the page behind the headers; the sections     *)
(* follow.                                                                  *)
TablesLaid(l) ==
  /\ l.nsyms \in Nat /\ l.plan.symoff = 4096 /\ l.at["symbols"] = 4096
  /\ l.at["line"] \in Nat /\ 4096 + l.nsyms * NlistSizeOf(l.wide) <= l.at["line"]
  /\ l.at["info"] = l.at["line"] + 20
  /\ l.at["abbrev"] = l.at["info"] + InfoLength(l.wide, l.nsyms)

(* The whole layout. *)
Laid(l) == HeadersLaid(l) /\ TablesLaid(l)

-----------------------------------------------------------------------------

(* The cells of Image. *)
TopCells(l) ==
  HeaderCells(l) \cup UuidCells(l) \cup SymtabCells(l)
    \cup TextSegmentCells(l) \cup TextSectionCells(l) \cup DwarfSegmentCells(l)

(* The headers of the four DWARF sections. *)
SectionHeadersCells(l) == UNION {SectionHeaderCells(l, s) : s \in DOMAIN SectionName}

(* The records of the symbol table. *)
SymbolsCells(l, records) == UNION {NlistCells(l, records, k) : k \in DOMAIN records}

(* Every cell the image has, apart from its strings. *)
ImageCells(l, records, tags) ==
  TopCells(l) \cup SectionHeadersCells(l) \cup SymbolsCells(l, records)
    \cup LineCells(l.at["line"])
    \cup FieldCells(InfoFields(l.wide, tags), l.at["info"])
    \cup FieldCells(AbbrevFields, l.at["abbrev"])

(* Image is the file that holds these cells. *)
LEMMA ImageIs ==
  ASSUME NEW l, NEW records, NEW tags
  PROVE  Image(l, records, tags) = Contents(ImageCells(l, records, tags))
BY DEF Image, ImageCells, TopCells, SectionHeadersCells, SymbolsCells


(* The commands in front of the DWARF section headers do not touch each     *)
(* other.                                                                   *)
LEMMA TopApart ==
  ASSUME NEW l, HeadersLaid(l)
  PROVE  Apart(TopCells(l), 0, l.at["line_header"])
<1> DEFINE H == HeaderSizeOf(l.wide)
           C == SegmentSizeOf(l.wide)
           S == SectionSizeOf(l.wide)
<1>1. H \in {28, 32} /\ C \in {56, 72} /\ S \in {68, 80} /\ l.wide \in BOOLEAN
  BY DEF HeadersLaid, HeaderSizeOf, SegmentSizeOf, SectionSizeOf
<1>2. /\ l.at["mach_header"] = 0 /\ l.at["uuid_command"] = H
      /\ l.at["symtab_command"] = H + 24 /\ l.at["text_segment"] = H + 48
      /\ l.at["text_header"] = H + 48 + C /\ l.at["dwarf_segment"] = H + 48 + C + S
      /\ l.at["line_header"] = H + 48 + 2 * C + S
  BY DEF HeadersLaid
<1>3. /\ Apart(HeaderCells(l), l.at["mach_header"], l.at["mach_header"] + H)
      /\ Apart(UuidCells(l), l.at["uuid_command"], l.at["uuid_command"] + 24)
      /\ Apart(SymtabCells(l), l.at["symtab_command"], l.at["symtab_command"] + 24)
      /\ Apart(TextSegmentCells(l), l.at["text_segment"], l.at["text_segment"] + C)
      /\ Apart(TextSectionCells(l), l.at["text_header"], l.at["text_header"] + S)
      /\ Apart(DwarfSegmentCells(l), l.at["dwarf_segment"], l.at["dwarf_segment"] + C)
  <2>0. /\ l.at["mach_header"] \in Int /\ l.at["uuid_command"] \in Int
        /\ l.at["symtab_command"] \in Int /\ l.at["text_segment"] \in Int
        /\ l.at["text_header"] \in Int /\ l.at["dwarf_segment"] \in Int
    BY <1>1, <1>2
  <2>1. Apart(HeaderCells(l), l.at["mach_header"], l.at["mach_header"] + H)
    BY <1>1, <2>0, StructuresAre, CellsOfSize DEF HeaderCells
  <2>2. Apart(UuidCells(l), l.at["uuid_command"], l.at["uuid_command"] + 24)
    BY <1>1, <2>0, StructuresAre, CellsOfSize DEF UuidCells
  <2>3. Apart(SymtabCells(l), l.at["symtab_command"], l.at["symtab_command"] + 24)
    BY <1>1, <2>0, StructuresAre, CellsOfSize DEF SymtabCells
  <2>4. Apart(TextSegmentCells(l), l.at["text_segment"], l.at["text_segment"] + C)
    BY <1>1, <2>0, StructuresAre, CellsOfSize DEF TextSegmentCells, SegmentCells
  <2>5. Apart(TextSectionCells(l), l.at["text_header"], l.at["text_header"] + S)
    BY <1>1, <2>0, StructuresAre, CellsOfSize DEF TextSectionCells
  <2>6. Apart(DwarfSegmentCells(l), l.at["dwarf_segment"], l.at["dwarf_segment"] + C)
    BY <1>1, <2>0, StructuresAre, CellsOfSize DEF DwarfSegmentCells, SegmentCells
  <2> QED  BY <2>1, <2>2, <2>3, <2>4, <2>5, <2>6
<1> HIDE DEF H, C, S
<1>4. /\ Apart(HeaderCells(l), 0, H) /\ Apart(UuidCells(l), H, H + 24)
      /\ Apart(SymtabCells(l), H + 24, H + 48) /\ Apart(TextSegmentCells(l), H + 48, H + 48 + C)
      /\ Apart(TextSectionCells(l), H + 48 + C, H + 48 + C + S)
      /\ Apart(DwarfSegmentCells(l), H + 48 + C + S, H + 48 + 2 * C + S)
  <2>1. /\ 0 + H = H /\ (H + 24) + 24 = H + 48 /\ (H + 48 + C + S) + C = H + 48 + 2 * C + S
    BY <1>1
  <2> QED  BY <1>2, <1>3, <2>1
<1> DEFINE A == HeaderCells(l) \cup UuidCells(l)
           B == A \cup SymtabCells(l)
           D == B \cup TextSegmentCells(l)
           E == D \cup TextSectionCells(l)
           F == E \cup DwarfSegmentCells(l)
<1>5. Apart(A, 0, H + 24)
  BY <1>1, <1>4, ApartJoin
<1> HIDE DEF A
<1>6. Apart(B, 0, H + 48)
  BY <1>1, <1>4, <1>5, ApartJoin
<1> HIDE DEF B
<1>7. Apart(D, 0, H + 48 + C)
  BY <1>1, <1>4, <1>6, ApartJoin
<1> HIDE DEF D
<1>8. Apart(E, 0, H + 48 + C + S)
  BY <1>1, <1>4, <1>7, ApartJoin
<1> HIDE DEF E
<1>9. Apart(F, 0, H + 48 + 2 * C + S)
  BY <1>1, <1>4, <1>8, ApartJoin
<1> QED  BY <1>2, <1>9 DEF TopCells, F, E, D, B, A

(* Nor do the headers of the DWARF sections. *)
LEMMA SectionHeadersApart ==
  ASSUME NEW l, HeadersLaid(l)
  PROVE  Apart(SectionHeadersCells(l), l.at["line_header"],
               l.at["line_header"] + 4 * SectionSizeOf(l.wide))
<1> DEFINE P == l.at["line_header"]
           S == SectionSizeOf(l.wide)
           cells(s) == SectionHeaderCells(l, s)
<1>1. S \in {68, 80} /\ l.wide \in BOOLEAN /\ P \in Nat
  BY DEF HeadersLaid, HeaderSizeOf, SegmentSizeOf, SectionSizeOf
<1>2. /\ l.at[HeaderPiece["line"]] = P /\ l.at[HeaderPiece["str"]] = P + S
      /\ l.at[HeaderPiece["abbrev"]] = P + 2 * S /\ l.at[HeaderPiece["info"]] = P + 3 * S
  <2>1. /\ HeaderPiece["line"] = "line_header" /\ HeaderPiece["str"] = "str_header"
        /\ HeaderPiece["abbrev"] = "abbrev_header" /\ HeaderPiece["info"] = "info_header"
    BY DEF HeaderPiece
  <2> QED  BY <2>1 DEF HeadersLaid, HeaderSizeOf, SegmentSizeOf, SectionSizeOf
<1>3. DOMAIN SectionName = {"line", "str", "abbrev", "info"}
  BY DEF SectionName
<1> HIDE DEF P, S
<1>4. /\ Apart(cells("line"), P, P + S) /\ Apart(cells("str"), P + S, P + 2 * S)
      /\ Apart(cells("abbrev"), P + 2 * S, P + 3 * S) /\ Apart(cells("info"), P + 3 * S, P + 4 * S)
  <2>1. Structure(Section(l.wide)) /\ SizeOf(Section(l.wide)) = S
    BY <1>1, StructuresAre DEF S
  <2>2. ASSUME NEW s, l.at[HeaderPiece[s]] \in Int
        PROVE  Apart(cells(s), l.at[HeaderPiece[s]], l.at[HeaderPiece[s]] + S)
    BY <2>1, <2>2, CellsOfSize DEF SectionHeaderCells
  <2> HIDE DEF cells
  <2>3. /\ P \in Int /\ P + S \in Int /\ P + 2 * S \in Int /\ P + 3 * S \in Int
        /\ (P + S) + S = P + 2 * S /\ (P + 2 * S) + S = P + 3 * S /\ (P + 3 * S) + S = P + 4 * S
    BY <1>1
  <2>4. Apart(cells("line"), P, P + S)
    BY <1>2, <2>2, <2>3
  <2>5. Apart(cells("str"), P + S, P + 2 * S)
    BY <1>2, <2>2, <2>3
  <2>6. Apart(cells("abbrev"), P + 2 * S, P + 3 * S)
    BY <1>2, <2>2, <2>3
  <2>7. Apart(cells("info"), P + 3 * S, P + 4 * S)
    BY <1>2, <2>2, <2>3
  <2> QED  BY <2>4, <2>5, <2>6, <2>7
<1>5. SectionHeadersCells(l) = ((cells("line") \cup cells("str")) \cup cells("abbrev")) \cup cells("info")
  <2> DEFINE all == UNION {cells(s) : s \in {"line", "str", "abbrev", "info"}}
  <2>1. SectionHeadersCells(l) = all
    BY <1>3 DEF SectionHeadersCells
  <2> HIDE DEF cells
  <2>2. all = ((cells("line") \cup cells("str")) \cup cells("abbrev")) \cup cells("info")
    OBVIOUS
  <2> QED  BY <2>1, <2>2
<1> HIDE DEF cells
<1> DEFINE A == cells("line") \cup cells("str")
           B == A \cup cells("abbrev")
<1>6. Apart(A, P, P + 2 * S)
  BY <1>1, <1>4, ApartJoin
<1> HIDE DEF A
<1>7. Apart(B, P, P + 3 * S)
  BY <1>1, <1>4, <1>6, ApartJoin
<1> HIDE DEF B
<1>8. Apart(B \cup cells("info"), P, P + 4 * S)
  BY <1>1, <1>4, <1>7, ApartJoin
<1> QED  BY <1>5, <1>8 DEF A, B, P, S

(* Nor do the records of the symbol table. *)
LEMMA SymbolsApart ==
  ASSUME NEW l, HeadersLaid(l), TablesLaid(l), NEW records, Lists(records, l.nsyms, {})
  PROVE  Apart(SymbolsCells(l, records), 4096, 4096 + l.nsyms * NlistSizeOf(l.wide))
<1> DEFINE n == l.nsyms
           N == NlistSizeOf(l.wide)
           row == [k \in 1 .. n |-> NlistCells(l, records, k)]
<1>1. n \in Nat /\ DOMAIN records = 1 .. n /\ N \in {12, 16} /\ l.wide \in BOOLEAN /\ l.at["symbols"] = 4096
  BY DEF Lists, NlistSizeOf, HeadersLaid, TablesLaid
<1>2. Structure(NlistOfWidth(l.wide)) /\ SizeOf(NlistOfWidth(l.wide)) = N
  BY <1>1, StructuresAre
<1> HIDE DEF n, N
<1>3. ASSUME NEW k \in 1 .. n
      PROVE  Apart(row[k], 4096 + (k - 1) * N, 4096 + k * N)
  <2>1. 4096 + (k - 1) * N \in Int /\ (4096 + (k - 1) * N) + N = 4096 + k * N
    BY <1>1
  <2>2. Apart(row[k], 4096 + (k - 1) * N, (4096 + (k - 1) * N) + N)
    BY <1>1, <1>2, <2>1, CellsOfSize DEF NlistCells
  <2> QED  BY <2>1, <2>2
<1>4. SymbolsCells(l, records) = AllRows(row, n)
  BY <1>1 DEF SymbolsCells, AllRows
<1> HIDE DEF row
<1>5. n \in Nat /\ N \in Nat /\ 4096 \in Int
  BY <1>1
<1>6. Apart(AllRows(row, n), 4096, 4096 + n * N)
  <2>1. Rows(row, n, N, 4096)
    BY <1>3 DEF Rows
  <2> QED  BY <1>5, <2>1, RowsApart
<1> QED  BY <1>4, <1>6 DEF n, N

(* No two cells of the image overlap or share a position. *)
LEMMA ImageApart ==
  ASSUME NEW l, Laid(l), NEW records, NEW tags,
         Lists(records, l.nsyms, {}), Lists(tags, l.nsyms, {})
  PROVE  Apart(ImageCells(l, records, tags), 0, l.at["abbrev"] + 18)
<1> DEFINE P == l.at["line_header"]
           S == SectionSizeOf(l.wide)
           T == 4096 + l.nsyms * NlistSizeOf(l.wide)
           L == l.at["line"]
           I == l.at["info"]
           A == l.at["abbrev"]
           m == InfoLength(l.wide, l.nsyms)
           a == TopCells(l)
           b == SectionHeadersCells(l)
           c == SymbolsCells(l, records)
           d == LineCells(L)
           e == FieldCells(InfoFields(l.wide, tags), I)
           f == FieldCells(AbbrevFields, A)
<1>1. /\ P \in Nat /\ P + 4 * S <= 4096 /\ S \in Nat /\ l.wide \in BOOLEAN
  BY DEF Laid, HeadersLaid, HeaderSizeOf, SegmentSizeOf, SectionSizeOf
<1>2. l.nsyms \in Nat /\ m \in Nat /\ T \in Nat
  BY DEF Laid, TablesLaid, InfoLength, EntrySize, Long, NlistSizeOf
<1>3. L \in Nat /\ T <= L /\ I = L + 20 /\ A = I + m
  BY DEF Laid, TablesLaid
<1>4. Apart(a, 0, P)
  BY TopApart DEF Laid
<1>5. Apart(b, P, P + 4 * S)
  BY SectionHeadersApart DEF Laid
<1>6. Apart(c, 4096, T)
  BY SymbolsApart DEF Laid
<1>7. Apart(d, L, L + 20)
  BY <1>3, LineCellsAre
<1>8. Apart(e, I, I + m)
  <2>1. Structure(InfoFields(l.wide, tags)) /\ SizeOf(InfoFields(l.wide, tags)) = m
    BY <1>1, InfoFieldsAre
  <2>2. I \in Int
    BY <1>3
  <2> HIDE DEF m, I
  <2> QED  BY <2>1, <2>2, FieldsApart
<1>9. Apart(f, A, A + 18)
  <2>1. A \in Int
    BY <1>2, <1>3
  <2> HIDE DEF A
  <2> QED  BY <2>1, AbbrevFieldsAre, FieldsApart
<1>10. ImageCells(l, records, tags) = ((((a \cup b) \cup c) \cup d) \cup e) \cup f
  BY DEF ImageCells
<1> HIDE DEF P, S, T, L, I, A, m, a, b, c, d, e, f
<1> DEFINE x1 == a \cup b
           x2 == x1 \cup c
           x3 == x2 \cup d
           x4 == x3 \cup e
<1>11. Apart(x1, 0, P + 4 * S)
  BY <1>1, <1>4, <1>5, ApartJoin
<1> HIDE DEF x1
<1>12. Apart(x2, 0, T)
  BY <1>1, <1>6, <1>11, ApartJoin
<1> HIDE DEF x2
<1>13. Apart(x3, 0, L + 20)
  BY <1>3, <1>7, <1>12, ApartJoin
<1> HIDE DEF x3
<1>14. Apart(x4, 0, I + m)
  <2>1. L + 20 <= I
    BY <1>3
  <2> QED  BY <1>8, <1>13, <2>1, ApartJoin
<1> HIDE DEF x4
<1>15. Apart(x4 \cup f, 0, A + 18)
  <2>1. I + m <= A
    BY <1>2, <1>3
  <2> QED  BY <1>9, <1>14, <2>1, ApartJoin
<1> QED  BY <1>10, <1>15 DEF x1, x2, x3, x4, A

-----------------------------------------------------------------------------
(* The reader: the header and the commands of the image. *)

(* A file that holds these pieces and whatever else does not touch them. *)
ImageOf(l, records, tags) == Contents(ImageCells(l, records, tags))

(* The assumptions of all lemmas about the reader. *)
Readable(l, records, tags) ==
  Laid(l) /\ Lists(records, l.nsyms, {}) /\ Lists(tags, l.nsyms, {})

(* The pieces of the image are in it. *)
LEMMA CellsInside ==
  ASSUME NEW l, NEW records, NEW tags
  PROVE  LET cells == ImageCells(l, records, tags)
         IN /\ HeaderCells(l) \subseteq cells /\ UuidCells(l) \subseteq cells
            /\ SymtabCells(l) \subseteq cells /\ TextSegmentCells(l) \subseteq cells
            /\ TextSectionCells(l) \subseteq cells /\ DwarfSegmentCells(l) \subseteq cells
            /\ \A s \in DOMAIN SectionName : SectionHeaderCells(l, s) \subseteq cells
            /\ \A k \in DOMAIN records : NlistCells(l, records, k) \subseteq cells
            /\ LineCells(l.at["line"]) \subseteq cells
            /\ FieldCells(InfoFields(l.wide, tags), l.at["info"]) \subseteq cells
            /\ FieldCells(AbbrevFields, l.at["abbrev"]) \subseteq cells
<1> DEFINE top == TopCells(l)
           heads == SectionHeadersCells(l)
           syms == SymbolsCells(l, records)
           line == LineCells(l.at["line"])
           info == FieldCells(InfoFields(l.wide, tags), l.at["info"])
           abbrev == FieldCells(AbbrevFields, l.at["abbrev"])
<1>1. ImageCells(l, records, tags) = top \cup heads \cup syms \cup line \cup info \cup abbrev
  BY DEF ImageCells
<1>2. /\ HeaderCells(l) \subseteq top /\ UuidCells(l) \subseteq top
      /\ SymtabCells(l) \subseteq top /\ TextSegmentCells(l) \subseteq top
      /\ TextSectionCells(l) \subseteq top /\ DwarfSegmentCells(l) \subseteq top
  BY DEF TopCells
<1>3. \A s \in DOMAIN SectionName : SectionHeaderCells(l, s) \subseteq heads
  BY DEF SectionHeadersCells
<1>4. \A k \in DOMAIN records : NlistCells(l, records, k) \subseteq syms
  BY DEF SymbolsCells
<1> HIDE DEF top, heads, syms, line, info, abbrev
<1> QED  BY <1>1, <1>2, <1>3, <1>4 DEF line, info, abbrev

(* A structure somewhere in the image is read there. *)
LEMMA StructureIsRead ==
  ASSUME NEW l, NEW records, NEW tags, Readable(l, records, tags),
         NEW struct, Structure(struct), NEW values, NEW pos \in Int,
         Cells(struct, values, pos) \subseteq ImageCells(l, records, tags),
         NEW name \in MemberNames(struct)
  PROVE  ValueAt(ImageOf(l, records, tags), pos, struct, name) = values[name]
<1>1. Apart(ImageCells(l, records, tags), 0, l.at["abbrev"] + 18)
  BY ImageApart DEF Readable
<1> QED  BY <1>1, MemberIsRead DEF ImageOf

(* So are the first two members of a load command. *)
LEMMA CommandIsRead ==
  ASSUME NEW l, NEW records, NEW tags, Readable(l, records, tags),
         NEW struct, Structure(struct), NEW values, NEW pos \in Int,
         Cells(struct, values, pos) \subseteq ImageCells(l, records, tags),
         Prefix(load_command, struct)
  PROVE  /\ ValueAt(ImageOf(l, records, tags), pos, load_command, "cmd") = values["cmd"]
         /\ ValueAt(ImageOf(l, records, tags), pos, load_command, "cmdsize") = values["cmdsize"]
<1>1. Apart(ImageCells(l, records, tags), 0, l.at["abbrev"] + 18)
  BY ImageApart DEF Readable
<1>2. Structure(load_command) /\ "cmd" \in MemberNames(load_command) /\ "cmdsize" \in MemberNames(load_command)
  BY LoadCommandDeclared DEF Declares
<1> QED  BY <1>1, <1>2, PrefixIsRead DEF ImageOf

(* The values a segment command is written with. *)
LEMMA SegmentWritten ==
  ASSUME NEW l, HeadersLaid(l), NEW piece, NEW values,
         {"cmdsize", "segname", "nsects"} \subseteq DOMAIN values
  PROVE  \E w : /\ SegmentCells(l, piece, values) = Cells(SegmentCommand(l.wide), w, l.at[piece])
                /\ w["cmd"] = IF l.wide THEN LC_SEGMENT_64 ELSE LC_SEGMENT
                /\ w["cmdsize"] = values["cmdsize"] /\ w["segname"] = values["segname"]
                /\ w["nsects"] = values["nsects"]
<1> DEFINE common == [cmd |-> IF l.wide THEN LC_SEGMENT_64 ELSE LC_SEGMENT,
                      initprot |-> ReadExecute, maxprot |-> ReadExecute]
           set == [n \in DOMAIN common \cup DOMAIN values |->
                     IF n \in DOMAIN common THEN common[n] ELSE values[n]]
           w == Written(SegmentCommand(l.wide), set)
<1>1. SegmentCells(l, piece, values) = Cells(SegmentCommand(l.wide), w, l.at[piece])
  BY DEF SegmentCells
<1>2. SegmentNames \subseteq MemberNames(SegmentCommand(l.wide))
  BY SegmentDeclared DEF Declares, HeadersLaid
<1>3. /\ DOMAIN common = {"cmd", "initprot", "maxprot"}
      /\ common["cmd"] = IF l.wide THEN LC_SEGMENT_64 ELSE LC_SEGMENT
  OBVIOUS
<1> HIDE DEF common
<1>4. /\ set["cmd"] = common["cmd"] /\ set["cmdsize"] = values["cmdsize"]
      /\ set["segname"] = values["segname"] /\ set["nsects"] = values["nsects"]
      /\ SegmentNames \subseteq DOMAIN set
  BY <1>3 DEF SegmentNames
<1> HIDE DEF set
<1>5. \A n \in SegmentNames : w[n] = set[n]
  BY <1>2, <1>4 DEF Written
<1> HIDE DEF w
<1>6. /\ w["cmd"] = set["cmd"] /\ w["cmdsize"] = set["cmdsize"]
      /\ w["segname"] = set["segname"] /\ w["nsects"] = set["nsects"]
  BY <1>5 DEF SegmentNames
<1> QED  BY <1>1, <1>3, <1>4, <1>6

(* The magic is the first member. *)
LEMMA MagicIsFirst ==
  ASSUME NEW w \in BOOLEAN
  PROVE  1 \in DOMAIN MachHeader(w) /\ MachHeader(w)[1].name = "magic"
<1> DEFINE list == <<"magic", "cputype", "cpusubtype", "filetype", "ncmds", "sizeofcmds", "flags">>
           more == <<"reserved">>
<1>1. Lists(list, 7, {}) /\ list[1] = "magic"
  BY DEF Lists
<1>2. Lists(more, 1, {})
  BY DEF Lists
<1>3. mach_header = Members(list, 4) /\ mach_header_64 = mach_header \o Members(more, 4)
  BY DEF mach_header, mach_header_64, Words
<1>4. 4 \in Nat \ {0}
  OBVIOUS
<1> HIDE DEF list, more
<1>5. Structure(mach_header) /\ Len(mach_header) = 7 /\ mach_header[1] = Member("magic", 4)
  <2>1. \A k \in 1 .. 7 : Members(list, 4)[k] = Member(list[k], 4)
    BY <1>1, <1>4, MembersAre
  <2>2. Structure(Members(list, 4)) /\ Len(Members(list, 4)) = 7
    BY <1>1, <1>4, MembersAre
  <2> QED  BY <1>1, <1>3, <2>1, <2>2
<1>6. Structure(Members(more, 4))
  BY <1>2, <1>4, MembersAre
<1>7. Structure(mach_header_64) /\ mach_header_64[1] = mach_header[1] /\ Len(mach_header_64) # 0
  <2>1. /\ Structure(mach_header \o Members(more, 4))
        /\ Len(mach_header \o Members(more, 4)) = Len(mach_header) + Len(Members(more, 4))
        /\ \A k \in 1 .. Len(mach_header) : (mach_header \o Members(more, 4))[k] = mach_header[k]
    <3> DEFINE u == mach_header
               v == Members(more, 4)
    <3>1. Structure(u) /\ Structure(v)
      BY <1>5, <1>6
    <3> HIDE DEF u, v
    <3>2. /\ Structure(u \o v) /\ Len(u \o v) = Len(u) + Len(v)
          /\ \A k \in 1 .. Len(u) : (u \o v)[k] = u[k]
      BY <3>1, StructureJoin
    <3> QED  BY <3>2 DEF u, v
  <2>2. 1 \in 1 .. Len(mach_header) /\ Len(Members(more, 4)) \in Nat
    BY <1>5, <1>6 DEF Structure
  <2> QED  BY <1>3, <1>5, <2>1, <2>2
<1>8. 1 \in DOMAIN mach_header /\ 1 \in DOMAIN mach_header_64
  BY <1>5, <1>7 DEF Structure
<1>9. Member("magic", 4).name = "magic"
  BY DEF Member
<1>10. MachHeader(w) = mach_header \/ MachHeader(w) = mach_header_64
  BY DEF MachHeader
<1>11. mach_header[1].name = "magic" /\ mach_header_64[1].name = "magic"
  BY <1>5, <1>7, <1>9
<1> QED  BY <1>8, <1>10, <1>11

(* The reader finds the width of the image and the number of its commands. *)
LEMMA HeaderIsRead ==
  ASSUME NEW l, NEW records, NEW tags, Readable(l, records, tags)
  PROVE  LET file == ImageOf(l, records, tags)
         IN IsWide(file) = l.wide /\ CommandCount(file) = 4
<1> DEFINE struct == MachHeader(l.wide)
           given == [magic |-> IF l.wide THEN "MH_MAGIC_64" ELSE "MH_MAGIC",
                     cputype |-> IF l.wide THEN "CPU_TYPE_ARM64" ELSE "CPU_TYPE_ARM",
                     cpusubtype |-> IF l.wide THEN "CPU_SUBTYPE_ARM64_ALL" ELSE "CPU_SUBTYPE_ARM_V7",
                     filetype |-> MH_DSYM, ncmds |-> 4, sizeofcmds |-> l.plan.sizeofcmds]
           values == Written(struct, given)
           cells == ImageCells(l, records, tags)
           file == ImageOf(l, records, tags)
<1>1. l.wide \in BOOLEAN /\ l.at["mach_header"] = 0
  BY DEF Readable, Laid, HeadersLaid
<1>2. HeaderCells(l) = Cells(struct, values, 0) /\ Cells(struct, values, 0) \subseteq cells
  <2>1. HeaderCells(l) = Cells(struct, values, l.at["mach_header"])
    BY DEF HeaderCells
  <2>2. HeaderCells(l) \subseteq cells
    BY CellsInside
  <2> HIDE DEF struct, values, cells
  <2> QED  BY <1>1, <2>1, <2>2
<1>3. {"magic", "ncmds"} \subseteq MemberNames(struct) /\ Structure(struct)
  BY <1>1, MachHeaderDeclared DEF Declares
<1>4. /\ values["magic"] = (IF l.wide THEN "MH_MAGIC_64" ELSE "MH_MAGIC")
      /\ values["ncmds"] = 4
  <2>1. /\ "magic" \in DOMAIN given /\ "ncmds" \in DOMAIN given /\ given["ncmds"] = 4
        /\ given["magic"] = (IF l.wide THEN "MH_MAGIC_64" ELSE "MH_MAGIC")
    OBVIOUS
  <2> HIDE DEF given, struct
  <2> QED  BY <1>3, <2>1 DEF Written
<1> HIDE DEF values, given
<1>5. file[0].value = values["magic"]
  <2> DEFINE c == [at |-> 0 + OffsetOf(struct, 1), name |-> struct[1].name,
                   width |-> struct[1].width, value |-> values[struct[1].name]]
  <2>1. 1 \in DOMAIN struct /\ struct[1].name = "magic"
    BY <1>1, MagicIsFirst
  <2>2. c \in Cells(struct, values, 0)
    BY <2>1 DEF Cells
  <2>3. c.at = 0 /\ c.value = values["magic"]
    BY <2>1, OffsetOfFirst
  <2> HIDE DEF c, cells
  <2>4. Apart(cells, 0, l.at["abbrev"] + 18)
    BY ImageApart DEF Readable, cells
  <2>5. Contents(cells)[c.at] = c
    BY <1>2, <2>2, <2>4, ContentsHold
  <2> QED  BY <2>3, <2>5 DEF ImageOf, cells
<1>6. IsWide(file) = l.wide
  <2>1. "MH_MAGIC" # "MH_MAGIC_64"
    OBVIOUS
  <2>2. IsWide(file) = (file[0].value = "MH_MAGIC_64")
    BY DEF IsWide
  <2>3. CASE l.wide = TRUE
    BY <1>4, <1>5, <2>1, <2>2, <2>3
  <2>4. CASE l.wide = FALSE
    BY <1>4, <1>5, <2>1, <2>2, <2>4
  <2> QED  BY <1>1, <2>3, <2>4
<1>7. ValueAt(file, 0, struct, "ncmds") = 4
  <2>1. "ncmds" \in MemberNames(struct) /\ 0 \in Int
    BY <1>3
  <2> HIDE DEF struct, cells, file
  <2>2. ValueAt(ImageOf(l, records, tags), 0, struct, "ncmds") = values["ncmds"]
    BY <1>2, <1>3, <2>1, StructureIsRead DEF cells
  <2> QED  BY <1>4, <2>2 DEF file
<1>8. CommandCount(file) = 4
  BY <1>6, <1>7 DEF CommandCount
<1> QED  BY <1>6, <1>8

(* The members of the commands that the reader needs. *)
LEMMA SymtabIsRead ==
  ASSUME NEW l, NEW records, NEW tags, Readable(l, records, tags)
  PROVE  LET file == ImageOf(l, records, tags)
             pos  == l.at["symtab_command"]
         IN /\ ValueAt(file, pos, load_command, "cmd") = LC_SYMTAB
            /\ ValueAt(file, pos, load_command, "cmdsize") = 24
            /\ ValueAt(file, pos, symtab_command, "symoff") = 4096
            /\ ValueAt(file, pos, symtab_command, "nsyms") = l.nsyms
            /\ ValueAt(file, pos, symtab_command, "stroff") = l.plan.stroff
<1> DEFINE given == [cmd |-> LC_SYMTAB, cmdsize |-> 24, symoff |-> l.plan.symoff, nsyms |-> l.nsyms,
                     stroff |-> l.plan.stroff, strsize |-> l.strsize]
           pos == l.at["symtab_command"]
           cells == ImageCells(l, records, tags)
<1>1. Cells(symtab_command, given, pos) \subseteq cells
  <2>1. SymtabCells(l) = Cells(symtab_command, given, pos)
    BY DEF SymtabCells
  <2>2. SymtabCells(l) \subseteq cells
    BY CellsInside
  <2> QED  BY <2>1, <2>2
<1>2. /\ given["cmd"] = LC_SYMTAB /\ given["cmdsize"] = 24 /\ given["symoff"] = l.plan.symoff
      /\ given["nsyms"] = l.nsyms /\ given["stroff"] = l.plan.stroff
  OBVIOUS
<1>3. pos \in Int /\ l.plan.symoff = 4096
  BY DEF Readable, Laid, HeadersLaid, TablesLaid, HeaderSizeOf
<1>4. /\ Structure(symtab_command) /\ Prefix(load_command, symtab_command)
      /\ {"symoff", "nsyms", "stroff"} \subseteq MemberNames(symtab_command)
  BY SymtabDeclared DEF Declares
<1> HIDE DEF given, pos, cells
<1>5. /\ ValueAt(ImageOf(l, records, tags), pos, load_command, "cmd") = given["cmd"]
      /\ ValueAt(ImageOf(l, records, tags), pos, load_command, "cmdsize") = given["cmdsize"]
  BY <1>1, <1>3, <1>4, CommandIsRead DEF cells
<1>6. ASSUME NEW name \in {"symoff", "nsyms", "stroff"}
      PROVE  ValueAt(ImageOf(l, records, tags), pos, symtab_command, name) = given[name]
  <2>1. name \in MemberNames(symtab_command)
    BY <1>4
  <2> QED  BY <1>1, <1>3, <1>4, <2>1, StructureIsRead DEF cells
<1> QED  BY <1>2, <1>3, <1>5, <1>6 DEF pos

(* LC_UUID is read as the first command. *)
LEMMA UuidIsRead ==
  ASSUME NEW l, NEW records, NEW tags, Readable(l, records, tags)
  PROVE  LET file == ImageOf(l, records, tags)
             pos  == l.at["uuid_command"]
         IN /\ ValueAt(file, pos, load_command, "cmd") = LC_UUID
            /\ ValueAt(file, pos, load_command, "cmdsize") = 24
<1> DEFINE given == [cmd |-> LC_UUID, cmdsize |-> 24, uuid |-> "uuid"]
           pos == l.at["uuid_command"]
           cells == ImageCells(l, records, tags)
<1>1. Cells(uuid_command, given, pos) \subseteq cells
  <2>1. UuidCells(l) = Cells(uuid_command, given, pos)
    BY DEF UuidCells
  <2>2. UuidCells(l) \subseteq cells
    BY CellsInside
  <2> QED  BY <2>1, <2>2
<1>2. given["cmd"] = LC_UUID /\ given["cmdsize"] = 24
  OBVIOUS
<1>3. pos \in Int
  BY DEF Readable, Laid, HeadersLaid, HeaderSizeOf
<1>4. Structure(uuid_command) /\ Prefix(load_command, uuid_command)
  BY UuidDeclared DEF Declares
<1> HIDE DEF given, pos, cells
<1>5. /\ ValueAt(ImageOf(l, records, tags), pos, load_command, "cmd") = given["cmd"]
      /\ ValueAt(ImageOf(l, records, tags), pos, load_command, "cmdsize") = given["cmdsize"]
  BY <1>1, <1>3, <1>4, CommandIsRead DEF cells
<1> QED  BY <1>2, <1>5 DEF pos

(* Both segment commands are read as they were filled in. *)
LEMMA SegmentIsRead ==
  ASSUME NEW l, NEW records, NEW tags, Readable(l, records, tags), NEW piece,
         l.at[piece] \in Int, NEW given, {"cmdsize", "segname", "nsects"} \subseteq DOMAIN given,
         SegmentCells(l, piece, given) \subseteq ImageCells(l, records, tags)
  PROVE  LET file == ImageOf(l, records, tags)
             pos  == l.at[piece]
         IN /\ ValueAt(file, pos, load_command, "cmd") = IF l.wide THEN LC_SEGMENT_64 ELSE LC_SEGMENT
            /\ ValueAt(file, pos, load_command, "cmdsize") = given["cmdsize"]
            /\ ValueAt(file, pos, SegmentCommand(l.wide), "nsects") = given["nsects"]
<1> DEFINE struct == SegmentCommand(l.wide)
           pos == l.at[piece]
<1>1. HeadersLaid(l) /\ l.wide \in BOOLEAN
  BY DEF Readable, Laid, HeadersLaid
<1>2. PICK w : /\ SegmentCells(l, piece, given) = Cells(struct, w, pos)
               /\ w["cmd"] = IF l.wide THEN LC_SEGMENT_64 ELSE LC_SEGMENT
               /\ w["cmdsize"] = given["cmdsize"] /\ w["nsects"] = given["nsects"]
  BY <1>1, SegmentWritten
<1>3. /\ Structure(struct) /\ Prefix(load_command, struct) /\ "nsects" \in MemberNames(struct)
  BY <1>1, SegmentDeclared DEF Declares, SegmentNames
<1>4. pos \in Int /\ Cells(struct, w, pos) \subseteq ImageCells(l, records, tags)
  BY <1>2
<1> HIDE DEF struct, pos
<1>5. /\ ValueAt(ImageOf(l, records, tags), pos, load_command, "cmd") = w["cmd"]
      /\ ValueAt(ImageOf(l, records, tags), pos, load_command, "cmdsize") = w["cmdsize"]
  BY <1>3, <1>4, CommandIsRead
<1>6. ValueAt(ImageOf(l, records, tags), pos, struct, "nsects") = w["nsects"]
  BY <1>3, <1>4, StructureIsRead
<1> QED  BY <1>2, <1>5, <1>6 DEF pos, struct

(* __TEXT announces one section and __DWARF four. *)
LEMMA SegmentsAreRead ==
  ASSUME NEW l, NEW records, NEW tags, Readable(l, records, tags)
  PROVE  LET file == ImageOf(l, records, tags)
             text  == l.at["text_segment"]
             dwarf == l.at["dwarf_segment"]
             cmd   == IF l.wide THEN LC_SEGMENT_64 ELSE LC_SEGMENT
         IN /\ ValueAt(file, text, load_command, "cmd") = cmd
            /\ ValueAt(file, text, load_command, "cmdsize") = l.textsize
            /\ ValueAt(file, text, SegmentCommand(l.wide), "nsects") = 1
            /\ ValueAt(file, dwarf, load_command, "cmd") = cmd
            /\ ValueAt(file, dwarf, load_command, "cmdsize") = l.dwarfsize
            /\ ValueAt(file, dwarf, SegmentCommand(l.wide), "nsects") = 4
<1> DEFINE textGiven == [segname |-> "__TEXT", nsects |-> 1, cmdsize |-> l.textsize,
                         vmaddr |-> IF l.wide THEN TextAddress64 ELSE TextAddress32]
           dwarfGiven == [segname |-> "__DWARF", nsects |-> 4, cmdsize |-> l.dwarfsize,
                          vmaddr |-> l.plan.vmaddr, fileoff |-> l.plan.fileoff,
                          filesize |-> l.plan.filesize]
           names == {"cmdsize", "segname", "nsects"}
<1>1. /\ names \subseteq DOMAIN textGiven /\ textGiven["cmdsize"] = l.textsize /\ textGiven["nsects"] = 1
      /\ names \subseteq DOMAIN dwarfGiven /\ dwarfGiven["cmdsize"] = l.dwarfsize /\ dwarfGiven["nsects"] = 4
  OBVIOUS
<1>2. /\ TextSegmentCells(l) = SegmentCells(l, "text_segment", textGiven)
      /\ DwarfSegmentCells(l) = SegmentCells(l, "dwarf_segment", dwarfGiven)
  BY DEF TextSegmentCells, DwarfSegmentCells
<1>3. /\ TextSegmentCells(l) \subseteq ImageCells(l, records, tags)
      /\ DwarfSegmentCells(l) \subseteq ImageCells(l, records, tags)
  BY CellsInside
<1>4. l.at["text_segment"] \in Int /\ l.at["dwarf_segment"] \in Int
  BY DEF Readable, Laid, HeadersLaid, HeaderSizeOf, SegmentSizeOf, SectionSizeOf
<1> HIDE DEF textGiven, dwarfGiven
<1>5. /\ ValueAt(ImageOf(l, records, tags), l.at["text_segment"], load_command, "cmd") = IF l.wide THEN LC_SEGMENT_64 ELSE LC_SEGMENT
      /\ ValueAt(ImageOf(l, records, tags), l.at["text_segment"], load_command, "cmdsize") = textGiven["cmdsize"]
      /\ ValueAt(ImageOf(l, records, tags), l.at["text_segment"], SegmentCommand(l.wide), "nsects") = textGiven["nsects"]
  BY <1>1, <1>2, <1>3, <1>4, SegmentIsRead
<1>6. /\ ValueAt(ImageOf(l, records, tags), l.at["dwarf_segment"], load_command, "cmd") = IF l.wide THEN LC_SEGMENT_64 ELSE LC_SEGMENT
      /\ ValueAt(ImageOf(l, records, tags), l.at["dwarf_segment"], load_command, "cmdsize") = dwarfGiven["cmdsize"]
      /\ ValueAt(ImageOf(l, records, tags), l.at["dwarf_segment"], SegmentCommand(l.wide), "nsects") = dwarfGiven["nsects"]
  BY <1>1, <1>2, <1>3, <1>4, SegmentIsRead
<1> QED  BY <1>1, <1>5, <1>6

-----------------------------------------------------------------------------
(* The reader: the chain of commands and the symbol table. *)

(* A reader that adds up the sizes of the commands visits these four. *)
LEMMA CommandsAreAt ==
  ASSUME NEW l, NEW records, NEW tags, Readable(l, records, tags)
  PROVE  LET where == CommandAt(ImageOf(l, records, tags))
         IN /\ DOMAIN where = 1 .. 4
            /\ where[1] = l.at["uuid_command"] /\ where[2] = l.at["symtab_command"]
            /\ where[3] = l.at["text_segment"] /\ where[4] = l.at["dwarf_segment"]
<1> DEFINE file == ImageOf(l, records, tags)
           first == SizeOf(MachHeader(IsWide(file)))
           Size(pos) == ValueAt(file, pos, load_command, "cmdsize")
           Follow(f, k) == IF k = 1 THEN first ELSE f[k - 1] + Size(f[k - 1])
           Is(f) == f = [k \in 1 .. CommandCount(file) |-> Follow(f, k)]
           h == CHOOSE f : Is(f)
           uuid == l.at["uuid_command"]
           symtab == l.at["symtab_command"]
           text == l.at["text_segment"]
           dwarf == l.at["dwarf_segment"]
           g == [k \in 1 .. 4 |-> IF k = 1 THEN uuid ELSE IF k = 2 THEN symtab
                                  ELSE IF k = 3 THEN text ELSE dwarf]
<1>1. CommandAt(file) = h
  BY DEF CommandAt
<1>2. CommandCount(file) = 4
  BY HeaderIsRead
<1>3. first = uuid
  <2>1. IsWide(file) = l.wide /\ l.wide \in BOOLEAN /\ uuid = HeaderSizeOf(l.wide)
    BY HeaderIsRead DEF Readable, Laid, HeadersLaid
  <2> HIDE DEF file
  <2> QED  BY <2>1, StructuresAre
<1>4. Size(uuid) = 24 /\ Size(symtab) = 24 /\ Size(text) = l.textsize
  BY UuidIsRead, SymtabIsRead, SegmentsAreRead
<1>5. uuid + 24 = symtab /\ symtab + 24 = text /\ text + l.textsize = dwarf
  <2> DEFINE H == HeaderSizeOf(l.wide)
             C == SegmentSizeOf(l.wide)
             S == SectionSizeOf(l.wide)
  <2>1. H \in Nat /\ C \in Nat /\ S \in Nat
    BY DEF HeaderSizeOf, SegmentSizeOf, SectionSizeOf
  <2>2. uuid = H /\ symtab = H + 24 /\ text = H + 48 /\ dwarf = H + 48 + C + S /\ l.textsize = S + C
    BY DEF Readable, Laid, HeadersLaid
  <2> HIDE DEF H, C, S
  <2> QED  BY <2>1, <2>2
<1> HIDE DEF file, uuid, symtab, text, dwarf, first, Size
<1>6. \A k \in 1 .. 4 : k = 1 \/ k = 2 \/ k = 3 \/ k = 4
  OBVIOUS
<1>7. 2 - 1 = 1 /\ 3 - 1 = 2 /\ 4 - 1 = 3 /\ 2 # 1 /\ 3 # 1 /\ 4 # 1
  OBVIOUS
<1>8. g[1] = uuid /\ g[2] = symtab /\ g[3] = text /\ g[4] = dwarf
  OBVIOUS
<1>9. \A k \in 1 .. 4 : g[k] = Follow(g, k)
  <2> HIDE DEF g
  <2>1. g[1] = Follow(g, 1)
    BY <1>3, <1>8
  <2>2. g[2] = Follow(g, 2)
    BY <1>4, <1>5, <1>7, <1>8
  <2>3. g[3] = Follow(g, 3)
    BY <1>4, <1>5, <1>7, <1>8
  <2>4. g[4] = Follow(g, 4)
    BY <1>4, <1>5, <1>7, <1>8
  <2> HIDE DEF Follow
  <2> SUFFICES ASSUME NEW k \in 1 .. 4
               PROVE  g[k] = Follow(g, k)
    OBVIOUS
  <2>5. CASE k = 1
    BY <2>1, <2>5
  <2>6. CASE k = 2
    BY <2>2, <2>6
  <2>7. CASE k = 3
    BY <2>3, <2>7
  <2>8. CASE k = 4
    BY <2>4, <2>8
  <2> QED  BY <1>6, <2>5, <2>6, <2>7, <2>8
<1>10. Is(g)
  <2>1. g = [k \in 1 .. 4 |-> g[k]]
    OBVIOUS
  <2> HIDE DEF Follow, g
  <2>2. [k \in 1 .. 4 |-> g[k]] = [k \in 1 .. 4 |-> Follow(g, k)]
    BY <1>9
  <2>3. CommandCount(file) = 4
    BY <1>2
  <2> QED  BY <2>1, <2>2, <2>3
<1>11. Is(h)
  <2> HIDE DEF Is, g
  <2> QED  BY <1>10
<1> HIDE DEF h
<1>12. DOMAIN h = 1 .. 4 /\ \A k \in 1 .. 4 : h[k] = Follow(h, k)
  <2> HIDE DEF Follow
  <2> QED  BY <1>2, <1>11
<1>13. h[1] = uuid
  BY <1>3, <1>12
<1>14. h[2] = symtab
  BY <1>4, <1>5, <1>7, <1>12, <1>13
<1>15. h[3] = text
  BY <1>4, <1>5, <1>7, <1>12, <1>14
<1>16. h[4] = dwarf
  BY <1>4, <1>5, <1>7, <1>12, <1>15
<1> QED  BY <1>1, <1>12, <1>13, <1>14, <1>15, <1>16 DEF file, uuid, symtab, text, dwarf

(* It finds one symbol table and two segments. *)
LEMMA CommandsAre ==
  ASSUME NEW l, NEW records, NEW tags, Readable(l, records, tags)
  PROVE  LET file == ImageOf(l, records, tags)
         IN /\ CommandsOf(file, LC_SYMTAB) = {l.at["symtab_command"]}
            /\ CommandsOf(file, IF l.wide THEN LC_SEGMENT_64 ELSE LC_SEGMENT)
                 = {l.at["text_segment"], l.at["dwarf_segment"]}
<1> DEFINE file == ImageOf(l, records, tags)
           where == CommandAt(file)
           Type(pos) == ValueAt(file, pos, load_command, "cmd")
           segment == IF l.wide THEN LC_SEGMENT_64 ELSE LC_SEGMENT
<1>1. /\ DOMAIN where = 1 .. 4
      /\ where[1] = l.at["uuid_command"] /\ where[2] = l.at["symtab_command"]
      /\ where[3] = l.at["text_segment"] /\ where[4] = l.at["dwarf_segment"]
  BY CommandsAreAt
<1>2. /\ Type(l.at["uuid_command"]) = LC_UUID /\ Type(l.at["symtab_command"]) = LC_SYMTAB
      /\ Type(l.at["text_segment"]) = segment /\ Type(l.at["dwarf_segment"]) = segment
  BY UuidIsRead, SymtabIsRead, SegmentsAreRead
<1>3. LC_UUID # LC_SYMTAB /\ LC_UUID # segment /\ LC_SYMTAB # segment
  BY DEF LC_UUID, LC_SYMTAB, LC_SEGMENT, LC_SEGMENT_64
<1>4. \A cmd : CommandsOf(file, cmd) = {where[k] : k \in {k \in DOMAIN where : Type(where[k]) = cmd}}
  BY DEF CommandsOf
<1> HIDE DEF where, Type, segment
<1>5. \A k \in 1 .. 4 : k = 1 \/ k = 2 \/ k = 3 \/ k = 4
  OBVIOUS
<1>6. {k \in DOMAIN where : Type(where[k]) = LC_SYMTAB} = {2}
  BY <1>1, <1>2, <1>3, <1>5
<1>7. {k \in DOMAIN where : Type(where[k]) = segment} = {3, 4}
  BY <1>1, <1>2, <1>3, <1>5
<1>8. {where[k] : k \in {2}} = {where[2]} /\ {where[k] : k \in {3, 4}} = {where[3], where[4]}
  OBVIOUS
<1>9. CommandsOf(file, LC_SYMTAB) = {where[2]} /\ CommandsOf(file, segment) = {where[3], where[4]}
  BY <1>4, <1>6, <1>7, <1>8
<1> QED  BY <1>1, <1>9 DEF segment

(* The members of LC_SYMTAB that the reader asks for. *)
LEMMA SymtabIs ==
  ASSUME NEW l, NEW records, NEW tags, Readable(l, records, tags)
  PROVE  LET file == ImageOf(l, records, tags)
         IN /\ SymtabValue(file, "symoff") = 4096
            /\ SymtabValue(file, "nsyms") = l.nsyms
            /\ SymtabValue(file, "stroff") = l.plan.stroff
<1> DEFINE file == ImageOf(l, records, tags)
           pos == CHOOSE pos \in CommandsOf(file, LC_SYMTAB) : TRUE
<1>1. pos = l.at["symtab_command"]
  <2>1. CommandsOf(file, LC_SYMTAB) = {l.at["symtab_command"]}
    BY CommandsAre
  <2> HIDE DEF file
  <2> QED  BY <2>1
<1>2. \A name : SymtabValue(file, name) = ValueAt(file, pos, symtab_command, name)
  BY DEF SymtabValue
<1> HIDE DEF pos
<1> QED  BY <1>1, <1>2, SymtabIsRead

(* What is written into a record of the symbol table is read from it. *)
LEMMA SymbolIs ==
  ASSUME NEW l, NEW records, NEW tags, Readable(l, records, tags), NEW k \in 1 .. l.nsyms
  PROVE  LET file == ImageOf(l, records, tags)
         IN /\ SymbolValue(file, k, "n_strx") = records[k].n_strx
            /\ SymbolValue(file, k, "n_value") = records[k].n_value
            /\ SymbolValue(file, k, "n_desc") = IF records[k].thumb THEN N_ARM_THUMB_DEF ELSE 0
<1> DEFINE file == ImageOf(l, records, tags)
           struct == NlistOfWidth(l.wide)
           given == [n_strx |-> records[k].n_strx, n_type |-> N_SECT, n_sect |-> 1,
                     n_desc |-> IF records[k].thumb THEN N_ARM_THUMB_DEF ELSE 0,
                     n_value |-> records[k].n_value]
           pos == 4096 + (k - 1) * SizeOf(struct)
<1>1. l.wide \in BOOLEAN /\ l.at["symbols"] = 4096 /\ l.nsyms \in Nat
  BY DEF Readable, Laid, HeadersLaid, TablesLaid
<1>2. /\ Structure(struct) /\ SizeOf(struct) = NlistSizeOf(l.wide)
      /\ {"n_strx", "n_desc", "n_value"} \subseteq MemberNames(struct)
  BY <1>1, NlistDeclared DEF Declares, NlistSizeOf
<1>3. pos \in Int
  BY <1>1, <1>2 DEF NlistSizeOf
<1>4. /\ given["n_strx"] = records[k].n_strx /\ given["n_value"] = records[k].n_value
      /\ given["n_desc"] = IF records[k].thumb THEN N_ARM_THUMB_DEF ELSE 0
  OBVIOUS
<1>5. Cells(struct, given, pos) \subseteq ImageCells(l, records, tags)
  <2>1. NlistCells(l, records, k) = Cells(struct, given, pos)
    BY <1>1 DEF NlistCells
  <2>2. Len(records) = l.nsyms /\ records = [j \in 1 .. l.nsyms |-> records[j]]
    BY DEF Readable, Lists
  <2>3. k \in DOMAIN records
    BY <2>2
  <2>4. NlistCells(l, records, k) \subseteq ImageCells(l, records, tags)
    BY <2>3, CellsInside
  <2> QED  BY <2>1, <2>4
<1>6. IsWide(file) = l.wide /\ SymtabValue(file, "symoff") = 4096
  BY HeaderIsRead, SymtabIs
<1>7. \A name : SymbolValue(file, k, name) = ValueAt(file, pos, struct, name)
  BY <1>6 DEF SymbolValue
<1> HIDE DEF given, struct, pos
<1>8. ASSUME NEW name \in {"n_strx", "n_desc", "n_value"}
      PROVE  ValueAt(file, pos, struct, name) = given[name]
  <2>1. name \in MemberNames(struct)
    BY <1>2
  <2>2. ValueAt(ImageOf(l, records, tags), pos, struct, name) = given[name]
    BY <1>2, <1>3, <1>5, <2>1, StructureIsRead
  <2> QED  BY <2>2
<1> HIDE DEF file
<1> QED  BY <1>4, <1>7, <1>8 DEF file

-----------------------------------------------------------------------------
(* The reader: the sections. *)

(* The DWARF sections. *)
Parts == {"line", "info", "abbrev", "str"}

(* Their names and the pieces that are their headers. *)
LEMMA PartsAre ==
  /\ DOMAIN SectionName = Parts /\ DOMAIN HeaderPiece = Parts
  /\ SectionName["line"] = "__debug_line" /\ SectionName["info"] = "__debug_info"
  /\ SectionName["abbrev"] = "__debug_abbrev" /\ SectionName["str"] = "__debug_str"
  /\ HeaderPiece["line"] = "line_header" /\ HeaderPiece["info"] = "info_header"
  /\ HeaderPiece["abbrev"] = "abbrev_header" /\ HeaderPiece["str"] = "str_header"
BY DEF Parts, SectionName, HeaderPiece

(* The members of a section header that the reader needs, in the text       *)
(* segment and in the DWARF segment.                                        *)
LEMMA TextHeaderIsRead ==
  ASSUME NEW l, NEW records, NEW tags, Readable(l, records, tags)
  PROVE  ValueAt(ImageOf(l, records, tags), l.at["text_header"], Section(l.wide), "sectname") = "__text"
<1> DEFINE struct == Section(l.wide)
           given == [sectname |-> "__text", segname |-> "__TEXT", align |-> 3]
           values == Written(struct, given)
           pos == l.at["text_header"]
<1>1. l.wide \in BOOLEAN /\ pos \in Int
  BY DEF Readable, Laid, HeadersLaid, HeaderSizeOf, SegmentSizeOf
<1>2. Structure(struct) /\ "sectname" \in MemberNames(struct)
  BY <1>1, SectionDeclared DEF Declares
<1>3. values["sectname"] = "__text"
  <2>1. "sectname" \in DOMAIN given /\ given["sectname"] = "__text"
    OBVIOUS
  <2> HIDE DEF given, struct
  <2> QED  BY <1>2, <2>1 DEF Written
<1>4. Cells(struct, values, pos) \subseteq ImageCells(l, records, tags)
  <2>1. TextSectionCells(l) = Cells(struct, values, pos)
    BY DEF TextSectionCells
  <2>2. TextSectionCells(l) \subseteq ImageCells(l, records, tags)
    BY CellsInside
  <2> QED  BY <2>1, <2>2
<1> HIDE DEF struct, values, pos
<1>5. ValueAt(ImageOf(l, records, tags), pos, struct, "sectname") = values["sectname"]
  BY <1>1, <1>2, <1>4, StructureIsRead
<1> QED  BY <1>3, <1>5 DEF pos, struct

(* Likewise for a DWARF section: its offset and its size. *)
LEMMA PartHeaderIsRead ==
  ASSUME NEW l, NEW records, NEW tags, Readable(l, records, tags), NEW s \in Parts
  PROVE  LET file == ImageOf(l, records, tags)
             pos == l.at[HeaderPiece[s]]
         IN /\ ValueAt(file, pos, Section(l.wide), "sectname") = SectionName[s]
            /\ ValueAt(file, pos, Section(l.wide), "offset") = l.plan.offset[s]
            /\ ValueAt(file, pos, Section(l.wide), "size") = l.plan.length[s]
<1> DEFINE struct == Section(l.wide)
           given == [sectname |-> SectionName[s], segname |-> "__DWARF",
                     addr |-> l.plan.addr[s], size |-> l.plan.length[s],
                     offset |-> l.plan.offset[s]]
           values == Written(struct, given)
           pos == l.at[HeaderPiece[s]]
           names == {"sectname", "size", "offset"}
<1>1. l.wide \in BOOLEAN /\ pos \in Int
  <2>1. l.wide \in BOOLEAN
    BY DEF Readable, Laid, HeadersLaid
  <2>2. /\ l.at["line_header"] \in Int /\ l.at["info_header"] \in Int
        /\ l.at["abbrev_header"] \in Int /\ l.at["str_header"] \in Int
    BY DEF Readable, Laid, HeadersLaid, HeaderSizeOf, SegmentSizeOf, SectionSizeOf
  <2> QED  BY <2>1, <2>2, PartsAre DEF Parts
<1>2. Structure(struct) /\ names \subseteq MemberNames(struct)
  BY <1>1, SectionDeclared DEF Declares
<1>3. /\ values["sectname"] = SectionName[s] /\ values["offset"] = l.plan.offset[s]
      /\ values["size"] = l.plan.length[s]
  <2>1. /\ names \subseteq DOMAIN given /\ given["sectname"] = SectionName[s]
        /\ given["offset"] = l.plan.offset[s] /\ given["size"] = l.plan.length[s]
    OBVIOUS
  <2> HIDE DEF given, struct
  <2>2. \A n \in names : values[n] = given[n]
    BY <1>2, <2>1 DEF Written
  <2> QED  BY <2>1, <2>2
<1>4. Cells(struct, values, pos) \subseteq ImageCells(l, records, tags)
  <2>1. SectionHeaderCells(l, s) = Cells(struct, values, pos)
    BY DEF SectionHeaderCells
  <2>2. SectionHeaderCells(l, s) \subseteq ImageCells(l, records, tags)
    BY CellsInside, PartsAre
  <2> QED  BY <2>1, <2>2
<1> HIDE DEF struct, values, pos
<1>5. ASSUME NEW n \in names
      PROVE  ValueAt(ImageOf(l, records, tags), pos, struct, n) = values[n]
  BY <1>1, <1>2, <1>4, StructureIsRead
<1> QED  BY <1>3, <1>5 DEF pos, struct

(* The reader finds five section headers. *)
LEMMA SectionHeadersAre ==
  ASSUME NEW l, NEW records, NEW tags, Readable(l, records, tags)
  PROVE  SectionHeaders(ImageOf(l, records, tags))
           = {l.at["text_header"], l.at["line_header"], l.at["str_header"],
              l.at["abbrev_header"], l.at["info_header"]}
<1> DEFINE file == ImageOf(l, records, tags)
           H == HeaderSizeOf(l.wide)
           C == SegmentSizeOf(l.wide)
           S == SectionSizeOf(l.wide)
           text == l.at["text_segment"]
           dwarf == l.at["dwarf_segment"]
           Count(pos) == ValueAt(file, pos, SegmentCommand(l.wide), "nsects")
           Headers(pos) == {pos + C + s * S : s \in 0 .. Count(pos) - 1}
<1>1. l.wide \in BOOLEAN /\ H \in Nat /\ C \in Nat /\ S \in Nat
  BY DEF Readable, Laid, HeadersLaid, HeaderSizeOf, SegmentSizeOf, SectionSizeOf
<1>2. /\ text = H + 48 /\ dwarf = H + 48 + C + S
      /\ l.at["text_header"] = H + 48 + C /\ l.at["line_header"] = H + 48 + 2 * C + S
      /\ l.at["str_header"] = H + 48 + 2 * C + 2 * S
      /\ l.at["abbrev_header"] = H + 48 + 2 * C + 3 * S
      /\ l.at["info_header"] = H + 48 + 2 * C + 4 * S
  BY DEF Readable, Laid, HeadersLaid
<1>3. SectionHeaders(file) = UNION {Headers(pos) : pos \in {text, dwarf}}
  <2>1. IsWide(file) = l.wide
    BY HeaderIsRead
  <2>2. CommandsOf(file, IF l.wide THEN LC_SEGMENT_64 ELSE LC_SEGMENT) = {text, dwarf}
    BY CommandsAre
  <2>3. SizeOf(SegmentCommand(l.wide)) = C /\ SizeOf(Section(l.wide)) = S
    BY <1>1, StructuresAre
  <2> HIDE DEF file, C, S, text, dwarf
  <2> QED  BY <2>1, <2>2, <2>3 DEF SectionHeaders
<1>4. Count(text) = 1 /\ Count(dwarf) = 4
  BY SegmentsAreRead
<1> HIDE DEF Count, H, C, S, text, dwarf, file
<1>5. Headers(text) = {text + C + 0 * S}
  <2>1. 0 .. Count(text) - 1 = {0}
    BY <1>4
  <2> QED  BY <2>1
<1>6. Headers(dwarf) = {dwarf + C + 0 * S, dwarf + C + 1 * S, dwarf + C + 2 * S, dwarf + C + 3 * S}
  <2>1. 0 .. Count(dwarf) - 1 = {0, 1, 2, 3}
    BY <1>4
  <2> QED  BY <2>1
<1>7. /\ text + C + 0 * S = l.at["text_header"] /\ dwarf + C + 0 * S = l.at["line_header"]
      /\ dwarf + C + 1 * S = l.at["str_header"] /\ dwarf + C + 2 * S = l.at["abbrev_header"]
      /\ dwarf + C + 3 * S = l.at["info_header"]
  BY <1>1, <1>2
<1> HIDE DEF Headers
<1>8. UNION {Headers(pos) : pos \in {text, dwarf}} = Headers(text) \cup Headers(dwarf)
  OBVIOUS
<1> QED  BY <1>3, <1>5, <1>6, <1>7, <1>8 DEF file

(* A section header leads the reader to the section it announces. *)
LEMMA SectionIs ==
  ASSUME NEW l, NEW records, NEW tags, Readable(l, records, tags), NEW s \in Parts
  PROVE  SectionNamed(ImageOf(l, records, tags), SectionName[s])
           = [offset |-> l.plan.offset[s], size |-> l.plan.length[s]]
<1> DEFINE file == ImageOf(l, records, tags)
           headers == SectionHeaders(file)
           Name(pos) == ValueAt(file, pos, Section(l.wide), "sectname")
           name == SectionName[s]
           pos == CHOOSE pos \in headers : Name(pos) = name
           here == l.at[HeaderPiece[s]]
<1>1. headers = {l.at["text_header"], l.at["line_header"], l.at["str_header"],
                 l.at["abbrev_header"], l.at["info_header"]}
  BY SectionHeadersAre
<1>2. /\ Name(l.at["text_header"]) = "__text" /\ Name(l.at["line_header"]) = "__debug_line"
      /\ Name(l.at["info_header"]) = "__debug_info" /\ Name(l.at["abbrev_header"]) = "__debug_abbrev"
      /\ Name(l.at["str_header"]) = "__debug_str"
  <2>1. \A t \in Parts : Name(l.at[HeaderPiece[t]]) = SectionName[t]
    BY PartHeaderIsRead
  <2>2. Name(l.at["text_header"]) = "__text"
    BY TextHeaderIsRead
  <2> HIDE DEF Name
  <2> QED  BY <2>1, <2>2, PartsAre DEF Parts
<1>3. IsWide(file) = l.wide
  BY HeaderIsRead
<1>4. SectionNamed(file, name) = [offset |-> ValueAt(file, pos, Section(l.wide), "offset"),
                                  size   |-> ValueAt(file, pos, Section(l.wide), "size")]
  BY <1>3 DEF SectionNamed
<1>5. /\ ValueAt(file, here, Section(l.wide), "offset") = l.plan.offset[s]
      /\ ValueAt(file, here, Section(l.wide), "size") = l.plan.length[s]
  BY PartHeaderIsRead
<1> HIDE DEF Name, headers
<1>6. /\ name \in {"__debug_line", "__debug_info", "__debug_abbrev", "__debug_str"}
      /\ here \in headers /\ Name(here) = name
      /\ \A p \in headers : Name(p) = name => p = here
  BY <1>1, <1>2, PartsAre DEF Parts
<1> HIDE DEF here, name
<1>7. pos = here
  BY <1>6
<1> HIDE DEF pos
<1> QED  BY <1>4, <1>5, <1>7 DEF name, file

-----------------------------------------------------------------------------

(* The number in a field of a section. *)
LEMMA InfoIsRead ==
  ASSUME NEW l, NEW records, NEW tags, Readable(l, records, tags), NEW off, NEW width, NEW value,
         HasField(InfoFields(l.wide, tags), off, width, value)
  PROVE  NumberAt(ImageOf(l, records, tags), l.at["info"] + off, width) = value
<1> DEFINE fields == InfoFields(l.wide, tags)
<1>1. l.wide \in BOOLEAN /\ Lists(tags, l.nsyms, {}) /\ l.at["info"] \in Int
  BY DEF Readable, Laid, HeadersLaid, TablesLaid
<1>2. Structure(fields)
  BY <1>1, InfoFieldsAre
<1>3. Apart(ImageCells(l, records, tags), 0, l.at["abbrev"] + 18)
  BY ImageApart DEF Readable
<1>4. FieldCells(fields, l.at["info"]) \subseteq ImageCells(l, records, tags)
  BY CellsInside
<1> HIDE DEF fields
<1>5. HasField(fields, off, width, value)
  BY DEF fields
<1> QED  BY <1>1, <1>2, <1>3, <1>4, <1>5, FieldIsRead DEF ImageOf

(* A byte of __debug_abbrev. *)
LEMMA AbbrevIsRead ==
  ASSUME NEW l, NEW records, NEW tags, Readable(l, records, tags), NEW k \in 0 .. 17
  PROVE  NumberAt(ImageOf(l, records, tags), l.at["abbrev"] + k, 1) = AbbrevBytes[k + 1]
<1>1. l.at["abbrev"] \in Int
  <2>1. InfoLength(l.wide, l.nsyms) \in Int /\ l.at["info"] \in Int
    BY DEF Readable, Laid, HeadersLaid, TablesLaid, InfoLength, EntrySize, Long
  <2> QED  BY <2>1 DEF Readable, Laid, TablesLaid
<1>2. Structure(AbbrevFields) /\ HasField(AbbrevFields, k, 1, AbbrevBytes[k + 1])
  BY AbbrevFieldsAre
<1>3. Apart(ImageCells(l, records, tags), 0, l.at["abbrev"] + 18)
  BY ImageApart DEF Readable
<1>4. FieldCells(AbbrevFields, l.at["abbrev"]) \subseteq ImageCells(l, records, tags)
  BY CellsInside
<1> QED  BY <1>1, <1>2, <1>3, <1>4, FieldIsRead DEF ImageOf

(* The headers announce the places and the sizes of the sections. *)
Announced(l) ==
  /\ l.plan.offset["line"] = l.at["line"] /\ l.plan.offset["info"] = l.at["info"]
  /\ l.plan.offset["abbrev"] = l.at["abbrev"] /\ l.plan.offset["str"] = l.at["str"]
  /\ l.plan.length["line"] = 20 /\ l.plan.length["info"] = InfoLength(l.wide, l.nsyms)
  /\ l.plan.length["abbrev"] = 18

(* Units end where their sections do. *)
LEMMA UnitsEnd ==
  ASSUME NEW l, NEW records, NEW tags, Readable(l, records, tags), Announced(l)
  PROVE  LET file == ImageOf(l, records, tags)
         IN \A sect \in {SectionNamed(file, name) : name \in {"__debug_info", "__debug_line"}} :
              UnitEnd(file, sect) = sect.offset + sect.size
<1> DEFINE file == ImageOf(l, records, tags)
           line == SectionNamed(file, "__debug_line")
           info == SectionNamed(file, "__debug_info")
           n == InfoLength(l.wide, l.nsyms)
<1>1. line = [offset |-> l.at["line"], size |-> 20]
  BY SectionIs, PartsAre DEF Announced, Parts
<1>2. info = [offset |-> l.at["info"], size |-> n]
  BY SectionIs, PartsAre DEF Announced, Parts
<1>3. l.at["line"] \in Int /\ l.at["info"] \in Int /\ n \in Int
  BY DEF Readable, Laid, HeadersLaid, TablesLaid, InfoLength, EntrySize, Long
<1>4. NumberAt(file, l.at["line"], 4) = 16
  <2>1. PICK c \in LineCells(l.at["line"]) : c.at = l.at["line"] /\ c.width = 4 /\ c.value = 16
    BY <1>3, LineCellsAre
  <2>2. Apart(ImageCells(l, records, tags), 0, l.at["abbrev"] + 18)
    BY ImageApart DEF Readable
  <2>3. c \in ImageCells(l, records, tags)
    BY <2>1, CellsInside
  <2>4. c.at \in DOMAIN Contents(ImageCells(l, records, tags)) /\ Contents(ImageCells(l, records, tags))[c.at] = c
    BY <2>2, <2>3, ContentsHold
  <2> QED  BY <2>1, <2>4 DEF NumberAt, ImageOf
<1>5. NumberAt(file, l.at["info"] + 0, 4) = n - 4
  <2>1. HasField(InfoFields(l.wide, tags), 0, 4, n - 4)
    BY InfoFieldsAre DEF Readable, Laid, HeadersLaid
  <2> QED  BY <2>1, InfoIsRead
<1>6. l.at["info"] + 0 = l.at["info"]
  BY <1>3
<1> HIDE DEF file, line, info, n
<1>7. UnitEnd(file, line) = line.offset + line.size
  BY <1>1, <1>3, <1>4 DEF UnitEnd
<1>8. UnitEnd(file, info) = info.offset + info.size
  BY <1>2, <1>3, <1>5, <1>6 DEF UnitEnd
<1>9. {SectionNamed(file, name) : name \in {"__debug_info", "__debug_line"}} = {info, line}
  BY DEF info, line
<1> QED  BY <1>7, <1>8, <1>9 DEF file

-----------------------------------------------------------------------------
(* The reader: recursion over a section.  CHOOSE names the recursive        *)
(* functions; that they exist follows from a rank that every step lowers.   *)

(* A definition of a function from its value at an argument of lower rank.  *)
Descends(D, V, Stop, base, next, stage, rank, m) ==
  /\ m \in Nat
  /\ \A idx \in D : rank[idx] \in 0 .. m /\ base[idx] \in V
  /\ \A idx \in D \ Stop : next[idx] \in D /\ rank[next[idx]] < rank[idx]
  /\ \A idx \in D, v \in V : stage[<<idx, v>>] \in V

(* There is such a function; the readers of the sections are of this form.  *)
LEMMA RecursionExists ==
  ASSUME NEW D, NEW V, NEW Stop, NEW base, NEW next, NEW stage, NEW rank, NEW m,
         Descends(D, V, Stop, base, next, stage, rank, m)
  PROVE  \E f \in [D -> V] : \A idx \in D : f[idx] = IF idx \in Stop THEN base[idx] ELSE stage[<<idx, f[next[idx]]>>]
<1> USE DEF Descends
<1> DEFINE Val(f, idx) == IF idx \in Stop THEN base[idx] ELSE stage[<<idx, f[next[idx]]>>]
           S == {d \in Nat : \E f \in [D -> V] : \A idx \in D : rank[idx] < d => f[idx] = Val(f, idx)}
<1>1. 0 \in S
  <2>1. [idx \in D |-> base[idx]] \in [D -> V] /\ \A idx \in D : ~(rank[idx] < 0)
    OBVIOUS
  <2> QED  BY <2>1
<1>2. ASSUME NEW d \in S PROVE d + 1 \in S
  <2>1. PICK f \in [D -> V] : \A idx \in D : rank[idx] < d => f[idx] = Val(f, idx)
    OBVIOUS
  <2> DEFINE g == [idx \in D |-> Val(f, idx)]
  <2>2. g \in [D -> V]
    <3>1. ASSUME NEW idx \in D PROVE Val(f, idx) \in V
      OBVIOUS
    <3> HIDE DEF Val
    <3> QED  BY <3>1
  <2>3. ASSUME NEW idx \in D, rank[idx] < d + 1 PROVE g[idx] = Val(g, idx)
    <3>1. CASE idx \in Stop
      BY <3>1
    <3>2. CASE idx \notin Stop
      <4>1. next[idx] \in D /\ rank[next[idx]] < d
        BY <2>3, <3>2
      <4>2. g[next[idx]] = f[next[idx]]
        <5> HIDE DEF Val
        <5> QED  BY <2>1, <4>1
      <4> QED  BY <3>2, <4>2
    <3> QED  BY <3>1, <3>2
  <2> HIDE DEF Val, g
  <2> QED  BY <2>2, <2>3
<1>3. S = Nat
  <2> HIDE DEF S
  <2>1. S \in SUBSET Nat
    BY DEF S
  <2> QED  BY <1>1, <1>2, <2>1, Induction
<1>4. m + 1 \in S
  <2> HIDE DEF S
  <2> QED  BY <1>3
<1>5. PICK f \in [D -> V] : \A idx \in D : rank[idx] < m + 1 => f[idx] = Val(f, idx)
  BY <1>4
<1>6. \A idx \in D : rank[idx] < m + 1
  OBVIOUS
<1> HIDE DEF Val
<1>7. \A idx \in D : f[idx] = Val(f, idx)
  BY <1>5, <1>6
<1> QED  BY <1>7 DEF Val

-----------------------------------------------------------------------------
(* The abbreviations. *)

(* A byte of a section. *)
Byte(contents, sect, idx) == NumberAt(contents, sect.offset + idx, 1)

(* f reads the attribute list that begins at i. *)
IsAttributes(f, contents, sect) ==
  f = [idx \in Nat |->
         IF idx >= sect.size \/ (Byte(contents, sect, idx) = 0 /\ Byte(contents, sect, idx + 1) = 0) THEN <<>>
         ELSE <<[at |-> Byte(contents, sect, idx), form |-> Byte(contents, sect, idx + 1)]>> \o f[idx + 2]]

(* The reader of attribute lists. *)
Attributes(contents, sect) == CHOOSE f : IsAttributes(f, contents, sect)

(* f reads the declarations from i to the end of the section. *)
IsDeclarations(f, contents, sect) ==
  f = [idx \in Nat |->
         IF idx >= sect.size \/ Byte(contents, sect, idx) = 0 THEN {}
         ELSE LET list == Attributes(contents, sect)[idx + 3]
              IN {[code |-> Byte(contents, sect, idx), tag |-> Byte(contents, sect, idx + 1),
                   children |-> Byte(contents, sect, idx + 2), attributes |-> list]}
                   \cup f[idx + 3 + 2 * Len(list) + 2]]

(* Declarations is the reader at the first byte. *)
LEMMA DeclarationsIs ==
  ASSUME NEW contents, NEW sect
  PROVE  Declarations(contents, sect) = (CHOOSE f : IsDeclarations(f, contents, sect))[0]
BY DEF Declarations, IsDeclarations, Attributes, IsAttributes, Byte

(* Distance to the end of the section. *)
LEMMA AttributesExist ==
  ASSUME NEW contents, NEW sect, sect.size \in Nat
  PROVE  /\ IsAttributes(Attributes(contents, sect), contents, sect)
         /\ \A idx \in Nat : Len(Attributes(contents, sect)[idx]) \in Nat
<1> DEFINE n == sect.size
           HeadOf(idx) == [at |-> Byte(contents, sect, idx), form |-> Byte(contents, sect, idx + 1)]
           S == {HeadOf(idx) : idx \in Nat}
           V == Seq(S)
           Stop == {idx \in Nat : idx >= n \/ (Byte(contents, sect, idx) = 0 /\ Byte(contents, sect, idx + 1) = 0)}
           base == [idx \in Nat |-> <<>>]
           next == [idx \in Nat |-> idx + 2]
           stage == [x \in Nat \X V |-> <<HeadOf(x[1])>> \o x[2]]
           rank == [idx \in Nat |-> IF idx >= n THEN 0 ELSE n - idx]
<1>0. n \in Nat
  OBVIOUS
<1>1. \A idx \in Nat : idx \notin Stop => ~(idx >= n)
  OBVIOUS
<1> HIDE DEF n
<1>2. \A idx \in Nat : rank[idx] \in 0 .. n /\ base[idx] \in V
  BY <1>0
<1>3. \A idx \in Nat \ Stop : next[idx] \in Nat /\ rank[next[idx]] < rank[idx]
  <2> HIDE DEF Stop
  <2> QED  BY <1>0, <1>1
<1>4. ASSUME NEW idx \in Nat, NEW v \in V
      PROVE  stage[<<idx, v>>] = <<HeadOf(idx)>> \o v /\ stage[<<idx, v>>] \in V
  <2>1. HeadOf(idx) \in S
    OBVIOUS
  <2> HIDE DEF S, HeadOf
  <2>2. stage[<<idx, v>>] = <<HeadOf(idx)>> \o v
    OBVIOUS
  <2>3. <<HeadOf(idx)>> \o v \in V
    BY <2>1
  <2> QED  BY <2>2, <2>3
<1> HIDE DEF stage, rank, V
<1>5. PICK f \in [Nat -> V] :
        \A idx \in Nat : f[idx] = IF idx \in Stop THEN base[idx] ELSE stage[<<idx, f[next[idx]]>>]
  <2> HIDE DEF Stop, base, next
  <2>1. \A idx \in Nat, v \in V : stage[<<idx, v>>] \in V
    BY <1>4
  <2>2. Descends(Nat, V, Stop, base, next, stage, rank, n)
    BY <1>0, <1>2, <1>3, <2>1 DEF Descends
  <2> QED  BY <2>2, RecursionExists
<1>6. \A idx \in Nat : f[idx] = IF idx \in Stop THEN <<>> ELSE <<HeadOf(idx)>> \o f[idx + 2]
  <2> SUFFICES ASSUME NEW idx \in Nat PROVE f[idx] = IF idx \in Stop THEN <<>> ELSE <<HeadOf(idx)>> \o f[idx + 2]
    OBVIOUS
  <2>1. f[idx + 2] \in V /\ base[idx] = <<>> /\ next[idx] = idx + 2
    OBVIOUS
  <2>2. stage[<<idx, f[idx + 2]>>] = <<HeadOf(idx)>> \o f[idx + 2]
    BY <1>4, <2>1
  <2>3. f[idx] = IF idx \in Stop THEN base[idx] ELSE stage[<<idx, f[next[idx]]>>]
    BY <1>5
  <2> HIDE DEF HeadOf, Stop, base, next
  <2> QED  BY <2>1, <2>2, <2>3
<1>7. IsAttributes(f, contents, sect)
  <2>1. f = [idx \in Nat |-> f[idx]]
    OBVIOUS
  <2> QED  BY <1>6, <2>1 DEF IsAttributes, n
<1> DEFINE h == Attributes(contents, sect)
<1>8. IsAttributes(h, contents, sect)
  BY <1>7 DEF Attributes
<1> HIDE DEF h
<1>9. \A idx \in Nat : h[idx] = IF idx \in Stop THEN <<>> ELSE <<HeadOf(idx)>> \o h[idx + 2]
  BY <1>8 DEF IsAttributes, n
<1>10. \A idx \in Nat : h[idx] = f[idx]
  <2> DEFINE D == {d \in Nat : \A idx \in Nat : rank[idx] < d => h[idx] = f[idx]}
  <2>1. 0 \in D
    BY <1>2
  <2>2. ASSUME NEW d \in D PROVE d + 1 \in D
    <3> SUFFICES ASSUME NEW idx \in Nat, rank[idx] < d + 1 PROVE h[idx] = f[idx]
      OBVIOUS
    <3>1. CASE idx \in Stop
      <4> HIDE DEF HeadOf, Stop
      <4> QED  BY <1>6, <1>9, <3>1
    <3>2. CASE idx \notin Stop
      <4>1. rank[idx + 2] < rank[idx] /\ rank[idx] \in Nat /\ rank[idx + 2] \in Nat
        <5>1. next[idx] = idx + 2 /\ idx + 2 \in Nat
          OBVIOUS
        <5>2. rank[next[idx]] < rank[idx]
          BY <1>3, <3>2
        <5> HIDE DEF next
        <5> QED  BY <1>2, <5>1, <5>2
      <4>2. rank[idx + 2] < d
        BY <4>1
      <4>3. h[idx + 2] = f[idx + 2]
        BY <4>2
      <4> HIDE DEF HeadOf, Stop
      <4> QED  BY <1>6, <1>9, <3>2, <4>3
    <3> QED  BY <3>1, <3>2
  <2>3. D = Nat
    <3> HIDE DEF D
    <3>1. D \in SUBSET Nat
      BY DEF D
    <3> QED  BY <2>1, <2>2, <3>1, Induction
  <2>4. \A idx \in Nat : rank[idx] + 1 \in D /\ rank[idx] < rank[idx] + 1
    <3> HIDE DEF D
    <3> QED  BY <1>2, <2>3
  <2> QED  BY <2>4
<1>11. \A idx \in Nat : Len(f[idx]) \in Nat
  BY DEF V
<1> QED  BY <1>8, <1>10, <1>11 DEF h

(* An attribute and its form. *)
Attribute(where, form) == [at |-> where, form |-> form]

(* What the abbreviations say. *)
UnitAttributes == <<Attribute(DW_AT_language, DW_FORM_data2)>>

(* Of DW_TAG_subprogram (dwarf.h). *)
FunctionAttributes ==
  <<Attribute(DW_AT_low_pc, DW_FORM_addr), Attribute(DW_AT_high_pc, DW_FORM_addr),
    Attribute(DW_AT_name, DW_FORM_strp)>>

(* The first declaration, as a reader sees it. *)
UnitAbbreviation ==
  [code |-> 1, tag |-> DW_TAG_compile_unit, children |-> DW_CHILDREN_yes, attributes |-> UnitAttributes]

(* The second one. *)
FunctionAbbreviation ==
  [code |-> 2, tag |-> DW_TAG_subprogram, children |-> DW_CHILDREN_no, attributes |-> FunctionAttributes]

(* The attributes of both declarations, from their first bytes. *)
LEMMA AttributesAre ==
  ASSUME NEW contents, NEW sect, sect.size = 18,
         \A k \in 0 .. 17 : Byte(contents, sect, k) = AbbrevBytes[k + 1]
  PROVE  /\ Attributes(contents, sect)[3] = UnitAttributes
         /\ Attributes(contents, sect)[10] = FunctionAttributes
<1> DEFINE h == Attributes(contents, sect)
           b(k) == Byte(contents, sect, k)
<1>1. /\ b(3) = 19 /\ b(4) = 5 /\ b(5) = 0 /\ b(6) = 0
      /\ b(10) = 17 /\ b(11) = 1 /\ b(12) = 18 /\ b(13) = 1 /\ b(14) = 3 /\ b(15) = 14
      /\ b(16) = 0 /\ b(17) = 0
  <2>1. /\ b(3) = AbbrevBytes[4] /\ b(4) = AbbrevBytes[5] /\ b(5) = AbbrevBytes[6] /\ b(6) = AbbrevBytes[7]
        /\ b(10) = AbbrevBytes[11] /\ b(11) = AbbrevBytes[12] /\ b(12) = AbbrevBytes[13]
        /\ b(13) = AbbrevBytes[14] /\ b(14) = AbbrevBytes[15] /\ b(15) = AbbrevBytes[16]
        /\ b(16) = AbbrevBytes[17] /\ b(17) = AbbrevBytes[18]
    <3>1. \A k \in 0 .. 17 : b(k) = AbbrevBytes[k + 1]
      OBVIOUS
    <3> HIDE DEF b
    <3> QED  BY <3>1
  <2> QED  BY <2>1, AbbrevBytesAre
<1>2. \A idx \in Nat :
        h[idx] = IF idx >= 18 \/ (b(idx) = 0 /\ b(idx + 1) = 0) THEN <<>>
               ELSE <<Attribute(b(idx), b(idx + 1))>> \o h[idx + 2]
  <2>1. IsAttributes(h, contents, sect)
    BY AttributesExist
  <2> HIDE DEF h
  <2> QED  BY <2>1 DEF IsAttributes, Attribute
<1> HIDE DEF h, b
<1>3. h[5] = <<>>
  <2>1. 5 \in Nat /\ 5 + 1 = 6
    OBVIOUS
  <2> QED  BY <1>1, <1>2, <2>1
<1>4. h[3] = <<Attribute(19, 5)>> \o <<>>
  <2>1. 3 \in Nat /\ 3 + 1 = 4 /\ 3 + 2 = 5 /\ ~(3 >= 18) /\ 19 # 0
    OBVIOUS
  <2> QED  BY <1>1, <1>2, <1>3, <2>1
<1>5. h[16] = <<>>
  <2>1. 16 \in Nat /\ 16 + 1 = 17
    OBVIOUS
  <2> QED  BY <1>1, <1>2, <2>1
<1>6. h[14] = <<Attribute(3, 14)>> \o <<>>
  <2>1. 14 \in Nat /\ 14 + 1 = 15 /\ 14 + 2 = 16 /\ ~(14 >= 18) /\ 3 # 0
    OBVIOUS
  <2> QED  BY <1>1, <1>2, <1>5, <2>1
<1>7. h[12] = <<Attribute(18, 1)>> \o h[14]
  <2>1. 12 \in Nat /\ 12 + 1 = 13 /\ 12 + 2 = 14 /\ ~(12 >= 18) /\ 18 # 0
    OBVIOUS
  <2> QED  BY <1>1, <1>2, <2>1
<1>8. h[10] = <<Attribute(17, 1)>> \o h[12]
  <2>1. 10 \in Nat /\ 10 + 1 = 11 /\ 10 + 2 = 12 /\ ~(10 >= 18) /\ 17 # 0
    OBVIOUS
  <2> QED  BY <1>1, <1>2, <2>1
<1>9. ASSUME NEW x, NEW y, NEW z
      PROVE  /\ <<x>> \o <<>> = <<x>>
             /\ <<x>> \o (<<y>> \o (<<z>> \o <<>>)) = <<x, y, z>>
  <2> DEFINE S == {x, y, z}
             a1 == <<x>>
             b1 == <<y>>
             c1 == <<z>>
             c2 == c1 \o <<>>
             b2 == b1 \o c2
             a2 == a1 \o b2
             a0 == a1 \o <<>>
  <2>1. /\ a1 \in Seq(S) /\ b1 \in Seq(S) /\ c1 \in Seq(S) /\ Len(a1) = 1 /\ Len(b1) = 1 /\ Len(c1) = 1
        /\ a1[1] = x /\ b1[1] = y /\ c1[1] = z /\ <<>> \in Seq(S) /\ Len(<<>>) = 0
    OBVIOUS
  <2> HIDE DEF S, a1, b1, c1
  <2>2. c2 \in Seq(S) /\ Len(c2) = 1 /\ c2[1] = z
    BY <2>1
  <2>3. a0 \in Seq(S) /\ Len(a0) = 1 /\ a0[1] = x
    BY <2>1
  <2> HIDE DEF c2, a0
  <2>j. ASSUME NEW u \in Seq(S), NEW v \in Seq(S)
        PROVE  /\ u \o v \in Seq(S) /\ Len(u \o v) = Len(u) + Len(v)
               /\ \A k \in 1 .. Len(u) : (u \o v)[k] = u[k]
               /\ \A k \in 1 .. Len(v) : (u \o v)[Len(u) + k] = v[k]
    OBVIOUS
  <2>4. b2 \in Seq(S) /\ Len(b2) = 2 /\ b2[1] = y /\ b2[2] = z
    <3>1. /\ b2 \in Seq(S) /\ Len(b2) = Len(b1) + Len(c2)
          /\ \A k \in 1 .. Len(b1) : b2[k] = b1[k]
          /\ \A k \in 1 .. Len(c2) : b2[Len(b1) + k] = c2[k]
      BY <2>1, <2>2, <2>j
    <3> HIDE DEF b2
    <3>2. 1 \in 1 .. Len(b1) /\ 1 \in 1 .. Len(c2) /\ Len(b1) + 1 = 2
      BY <2>1, <2>2
    <3>3. b2[1] = b1[1] /\ b2[Len(b1) + 1] = c2[1]
      BY <3>1, <3>2
    <3> QED  BY <2>1, <2>2, <3>1, <3>2, <3>3
  <2> HIDE DEF b2
  <2>5. a2 \in Seq(S) /\ Len(a2) = 3 /\ a2[1] = x /\ a2[2] = y /\ a2[3] = z
    <3>1. /\ a2 \in Seq(S) /\ Len(a2) = Len(a1) + Len(b2)
          /\ \A k \in 1 .. Len(a1) : a2[k] = a1[k]
          /\ \A k \in 1 .. Len(b2) : a2[Len(a1) + k] = b2[k]
      BY ZenonT(60), <2>1, <2>4, <2>j
    <3> HIDE DEF a2
    <3>2. 1 \in 1 .. Len(a1) /\ 1 \in 1 .. Len(b2) /\ 2 \in 1 .. Len(b2) /\ Len(a1) + 1 = 2 /\ Len(a1) + 2 = 3
      BY <2>1, <2>4
    <3>3. a2[1] = a1[1] /\ a2[Len(a1) + 1] = b2[1] /\ a2[Len(a1) + 2] = b2[2]
      BY <3>1, <3>2
    <3>4. Len(a2) = 3
      BY <2>1, <2>4, <3>1
    <3>5. a2[1] = x /\ a2[2] = y /\ a2[3] = z
      BY <2>1, <2>4, <3>2, <3>3
    <3> QED  BY <3>1, <3>4, <3>5
  <2> HIDE DEF a2
  <2>6. a0 = <<x>>
    BY <2>3
  <2>7. a2 = <<x, y, z>>
    BY <2>5
  <2> QED  BY <2>6, <2>7 DEF a0, a1, a2, b2, b1, c2, c1
<1>10. h[3] = UnitAttributes
  BY <1>4, <1>9 DEF UnitAttributes, DW_AT_language, DW_FORM_data2
<1>11. h[10] = FunctionAttributes
  BY <1>6, <1>7, <1>8, <1>9 DEF FunctionAttributes, DW_AT_low_pc, DW_AT_high_pc, DW_AT_name,
     DW_FORM_addr, DW_FORM_strp
<1> QED  BY <1>10, <1>11 DEF h

(* The declarations of a section exist. *)
LEMMA DeclarationsExist ==
  ASSUME NEW contents, NEW sect, sect.size \in Nat
  PROVE  \E f : IsDeclarations(f, contents, sect)
<1> DEFINE n == sect.size
           List(idx) == Attributes(contents, sect)[idx + 3]
           One(idx) == [code |-> Byte(contents, sect, idx), tag |-> Byte(contents, sect, idx + 1),
                      children |-> Byte(contents, sect, idx + 2), attributes |-> List(idx)]
           V == SUBSET {One(idx) : idx \in Nat}
           Stop == {idx \in Nat : idx >= n \/ Byte(contents, sect, idx) = 0}
           base == [idx \in Nat |-> {}]
           next == [idx \in Nat |-> idx + 3 + 2 * Len(List(idx)) + 2]
           stage == [x \in Nat \X V |-> {One(x[1])} \cup x[2]]
           rank == [idx \in Nat |-> IF idx >= n THEN 0 ELSE n - idx]
<1>0. n \in Nat /\ \A idx \in Nat : Len(List(idx)) \in Nat
  BY AttributesExist
<1>1. \A idx \in Nat : idx \notin Stop => ~(idx >= n)
  OBVIOUS
<1> HIDE DEF n, List
<1>2. \A idx \in Nat : rank[idx] \in 0 .. n /\ base[idx] \in V
  <2>1. \A idx \in Nat : base[idx] \in V
    OBVIOUS
  <2>2. \A idx \in Nat : rank[idx] \in 0 .. n
    BY <1>0
  <2> QED  BY <2>1, <2>2
<1>3. ASSUME NEW idx \in Nat
      PROVE  next[idx] = idx + 3 + 2 * Len(List(idx)) + 2 /\ next[idx] \in Nat /\ idx < next[idx]
  <2> DEFINE k == Len(List(idx))
  <2>1. k \in Nat /\ next[idx] = idx + 3 + 2 * k + 2
    BY <1>0
  <2> HIDE DEF k, next
  <2>2. next[idx] \in Nat /\ idx < next[idx]
    BY <2>1
  <2> QED  BY <2>1, <2>2 DEF k
<1>4. \A idx \in Nat \ Stop : next[idx] \in Nat /\ rank[next[idx]] < rank[idx]
  <2> SUFFICES ASSUME NEW idx \in Nat \ Stop PROVE next[idx] \in Nat /\ rank[next[idx]] < rank[idx]
    OBVIOUS
  <2>1. ~(idx >= n) /\ idx \in Nat
    BY <1>1
  <2> DEFINE k == next[idx]
  <2>2. k \in Nat /\ idx < k
    BY <1>3, <2>1
  <2>3. n \in Nat
    BY <1>0
  <2> HIDE DEF k, Stop
  <2>4. rank[k] < rank[idx]
    BY <2>1, <2>2, <2>3
  <2> QED  BY <2>2, <2>4 DEF k
<1>5. ASSUME NEW idx \in Nat, NEW v \in V
      PROVE  stage[<<idx, v>>] = {One(idx)} \cup v /\ stage[<<idx, v>>] \in V
  <2>1. One(idx) \in {One(j) : j \in Nat}
    OBVIOUS
  <2> HIDE DEF One
  <2> QED  BY <2>1
<1> HIDE DEF stage, rank, V, next
<1>6. PICK f \in [Nat -> V] :
        \A idx \in Nat : f[idx] = IF idx \in Stop THEN base[idx] ELSE stage[<<idx, f[next[idx]]>>]
  <2> HIDE DEF Stop, base
  <2>1. \A idx \in Nat, v \in V : stage[<<idx, v>>] \in V
    BY <1>5
  <2>2. Descends(Nat, V, Stop, base, next, stage, rank, n)
    BY <1>0, <1>2, <1>4, <2>1 DEF Descends
  <2> QED  BY <2>2, RecursionExists
<1>7. \A idx \in Nat : f[idx] = IF idx \in Stop THEN {} ELSE {One(idx)} \cup f[next[idx]]
  <2> SUFFICES ASSUME NEW idx \in Nat PROVE f[idx] = IF idx \in Stop THEN {} ELSE {One(idx)} \cup f[next[idx]]
    OBVIOUS
  <2>1. f[next[idx]] \in V /\ base[idx] = {}
    BY <1>3
  <2>2. stage[<<idx, f[next[idx]]>>] = {One(idx)} \cup f[next[idx]]
    BY <1>5, <2>1
  <2>3. f[idx] = IF idx \in Stop THEN base[idx] ELSE stage[<<idx, f[next[idx]]>>]
    BY <1>6
  <2> HIDE DEF One, Stop, base
  <2> QED  BY <2>1, <2>2, <2>3
<1>8. IsDeclarations(f, contents, sect)
  <2>1. f = [idx \in Nat |-> f[idx]]
    OBVIOUS
  <2>2. \A idx \in Nat : f[idx] = IF idx \in Stop THEN {} ELSE {One(idx)} \cup f[idx + 3 + 2 * Len(List(idx)) + 2]
    BY <1>3, <1>7
  <2>3. f = [idx \in Nat |-> IF idx \in Stop THEN {} ELSE {One(idx)} \cup f[idx + 3 + 2 * Len(List(idx)) + 2]]
    <3> HIDE DEF Stop, One
    <3> QED  BY <2>1, <2>2
  <2> QED  BY <2>3 DEF IsDeclarations, n, List
<1> QED  BY <1>8

(* A reader of __debug_abbrev finds two declarations. *)
LEMMA AbbreviationsAre ==
  ASSUME NEW contents, NEW sect, sect.size = 18,
         \A k \in 0 .. 17 : Byte(contents, sect, k) = AbbrevBytes[k + 1]
  PROVE  Declarations(contents, sect) = {UnitAbbreviation, FunctionAbbreviation}
<1> DEFINE h == CHOOSE f : IsDeclarations(f, contents, sect)
           b(k) == Byte(contents, sect, k)
           list(idx) == Attributes(contents, sect)[idx]
           One(idx) == [code |-> b(idx), tag |-> b(idx + 1), children |-> b(idx + 2), attributes |-> list(idx + 3)]
<1>1. /\ b(0) = 1 /\ b(1) = 17 /\ b(2) = 1 /\ b(7) = 2 /\ b(8) = 46 /\ b(9) = 0
  <2>1. /\ b(0) = AbbrevBytes[1] /\ b(1) = AbbrevBytes[2] /\ b(2) = AbbrevBytes[3]
        /\ b(7) = AbbrevBytes[8] /\ b(8) = AbbrevBytes[9] /\ b(9) = AbbrevBytes[10]
    <3>1. \A k \in 0 .. 17 : b(k) = AbbrevBytes[k + 1]
      OBVIOUS
    <3> HIDE DEF b
    <3> QED  BY <3>1
  <2> QED  BY <2>1, AbbrevBytesAre
<1>2. list(3) = UnitAttributes /\ list(10) = FunctionAttributes
  BY AttributesAre
<1>3. \A idx \in Nat : h[idx] = IF idx >= 18 \/ b(idx) = 0 THEN {}
                            ELSE {One(idx)} \cup h[idx + 3 + 2 * Len(list(idx + 3)) + 2]
  <2>1. sect.size \in Nat
    OBVIOUS
  <2>2. \E f : IsDeclarations(f, contents, sect)
    BY <2>1, DeclarationsExist
  <2>3. IsDeclarations(h, contents, sect)
    BY <2>2
  <2> HIDE DEF h
  <2> QED  BY <2>3 DEF IsDeclarations
<1>4. Declarations(contents, sect) = h[0]
  BY DeclarationsIs
<1> HIDE DEF h, b, list
<1>5. Len(list(3)) = 1 /\ Len(list(10)) = 3
  BY <1>2 DEF UnitAttributes, FunctionAttributes
<1>6. One(0) = UnitAbbreviation
  <2>1. 0 + 1 = 1 /\ 0 + 2 = 2 /\ 0 + 3 = 3
    OBVIOUS
  <2> QED  BY <1>1, <1>2, <2>1 DEF UnitAbbreviation, DW_TAG_compile_unit, DW_CHILDREN_yes
<1>7. One(7) = FunctionAbbreviation
  <2>1. 7 + 1 = 8 /\ 7 + 2 = 9 /\ 7 + 3 = 10
    OBVIOUS
  <2> QED  BY <1>1, <1>2, <2>1 DEF FunctionAbbreviation, DW_TAG_subprogram, DW_CHILDREN_no
<1> HIDE DEF One
<1> DEFINE Rest(idx) == h[idx + 3 + 2 * Len(list(idx + 3)) + 2]
<1>8. h[18] = {}
  <2>1. h[18] = IF 18 >= 18 \/ b(18) = 0 THEN {} ELSE {One(18)} \cup Rest(18)
    BY <1>3
  <2> HIDE DEF Rest
  <2> QED  BY <2>1
<1>9. h[7] = {One(7)} \cup h[18]
  <2>1. h[7] = IF 7 >= 18 \/ b(7) = 0 THEN {} ELSE {One(7)} \cup Rest(7)
    BY <1>3
  <2>2. 7 + 3 = 10 /\ 10 + 2 * 3 + 2 = 18
    OBVIOUS
  <2>3. Rest(7) = h[18]
    BY <1>5, <2>2
  <2>4. ~(7 >= 18) /\ b(7) # 0
    BY <1>1
  <2> HIDE DEF Rest
  <2> QED  BY <2>1, <2>3, <2>4
<1>10. h[0] = {One(0)} \cup h[7]
  <2>1. h[0] = IF 0 >= 18 \/ b(0) = 0 THEN {} ELSE {One(0)} \cup Rest(0)
    BY <1>3
  <2>2. 0 + 3 = 3 /\ 3 + 2 * 1 + 2 = 7
    OBVIOUS
  <2>3. Rest(0) = h[7]
    BY <1>5, <2>2
  <2>4. ~(0 >= 18) /\ b(0) # 0
    BY <1>1
  <2> HIDE DEF Rest
  <2> QED  BY <2>1, <2>3, <2>4
<1> QED  BY <1>4, <1>6, <1>7, <1>8, <1>9, <1>10

-----------------------------------------------------------------------------
(* The reader: the attributes of an entry. *)

(* The offset of an attribute is the sum of the widths before it. *)
LEMMA BeforeIsTotal ==
  ASSUME NEW list, NEW a, NEW k \in Nat
  PROVE  AttributeOffset(list, a, k) = Total(1 .. k - 1, [j \in 1 .. k - 1 |-> FormWidth(list[j].form, a)])
BY DEF AttributeOffset, MapThenSumSet, MapThenFoldSet, Total, SumsUp

(* The first attribute. *)
LEMMA BeforeFirst ==
  ASSUME NEW list, NEW a
  PROVE  AttributeOffset(list, a, 1) = 0
<1>1. 1 .. 1 - 1 = {}
  OBVIOUS
<1> QED  BY <1>1, BeforeIsTotal, TotalOfNone

(* The next attribute. *)
LEMMA BeforeNext ==
  ASSUME NEW list, NEW a \in Nat, NEW k \in Nat \ {0}
  PROVE  /\ AttributeOffset(list, a, k + 1) = AttributeOffset(list, a, k) + FormWidth(list[k].form, a)
         /\ AttributeOffset(list, a, k) \in Int
<1> DEFINE w(n) == [j \in 1 .. n |-> FormWidth(list[j].form, a)]
           m == k - 1
<1>0. \A j : FormWidth(list[j].form, a) \in Int
  BY DEF FormWidth
<1>1. /\ m \in Nat /\ m + 1 = k /\ (k + 1) - 1 = m + 1
      /\ \A j \in 1 .. m + 1 : w(m + 1)[j] = FormWidth(list[j].form, a) /\ w(m + 1)[j] \in Int
      /\ \A j \in 1 .. m : w(m)[j] = w(m + 1)[j]
  BY <1>0
<1>2. /\ AttributeOffset(list, a, k + 1) = Total(1 .. (k + 1) - 1, w((k + 1) - 1))
      /\ AttributeOffset(list, a, k) = Total(1 .. m, w(m))
  BY BeforeIsTotal
<1> HIDE DEF w, m
<1>3. /\ Total(1 .. m + 1, w(m + 1)) = Total(1 .. m, w(m)) + w(m + 1)[m + 1]
      /\ Total(1 .. m, w(m)) \in Int
  BY <1>1, TotalOfOneMore
<1>4. m + 1 \in 1 .. m + 1
  BY <1>1
<1> QED  BY <1>1, <1>2, <1>3, <1>4

(* Where the attributes of both declarations lie in an entry. *)
LEMMA FormsAre ==
  ASSUME NEW a \in Nat
  PROVE  /\ AttributeOffset(UnitAttributes, a, 1) = 0 /\ AttributeOffset(UnitAttributes, a, 2) = 2
         /\ AttributeOffset(FunctionAttributes, a, 1) = 0 /\ AttributeOffset(FunctionAttributes, a, 2) = a
         /\ AttributeOffset(FunctionAttributes, a, 3) = 2 * a /\ AttributeOffset(FunctionAttributes, a, 4) = 2 * a + 4
<1>1. /\ FormWidth(UnitAttributes[1].form, a) = 2
      /\ FormWidth(FunctionAttributes[1].form, a) = a /\ FormWidth(FunctionAttributes[2].form, a) = a
      /\ FormWidth(FunctionAttributes[3].form, a) = 4
  BY DEF UnitAttributes, FunctionAttributes, Attribute, FormWidth, DW_FORM_addr, DW_FORM_data2, DW_FORM_strp
<1>2. AttributeOffset(UnitAttributes, a, 1) = 0 /\ AttributeOffset(FunctionAttributes, a, 1) = 0
  BY BeforeFirst
<1> DEFINE u(k) == AttributeOffset(UnitAttributes, a, k)
           f(k) == AttributeOffset(FunctionAttributes, a, k)
<1>3. u(1 + 1) = u(1) + 2
  BY <1>1, BeforeNext
<1>4. f(1 + 1) = f(1) + a /\ f(2 + 1) = f(2) + a /\ f(3 + 1) = f(3) + 4
  BY <1>1, BeforeNext
<1>5. 1 + 1 = 2 /\ 2 + 1 = 3 /\ 3 + 1 = 4
  OBVIOUS
<1> HIDE DEF u, f
<1>6. u(1) = 0 /\ f(1) = 0
  BY <1>2 DEF u, f
<1>7. u(2) = 2 /\ f(2) = a
  BY <1>3, <1>4, <1>5, <1>6
<1>8. f(3) = 2 * a
  BY <1>4, <1>5, <1>7
<1>9. f(4) = 2 * a + 4
  BY <1>4, <1>5, <1>8
<1> QED  BY <1>6, <1>7, <1>8, <1>9 DEF u, f

(* What an entry of each declaration holds. *)
LEMMA ValuesAre ==
  ASSUME NEW contents, NEW a \in Nat, NEW pos \in Int
  PROVE  /\ AttributeValues(contents, UnitAttributes, a, pos) = [x \in {DW_AT_language} |-> NumberAt(contents, pos, 2)]
         /\ AttributeValues(contents, FunctionAttributes, a, pos)[DW_AT_low_pc] = NumberAt(contents, pos, a)
         /\ AttributeValues(contents, FunctionAttributes, a, pos)[DW_AT_high_pc] = NumberAt(contents, pos + a, a)
         /\ AttributeValues(contents, FunctionAttributes, a, pos)[DW_AT_name] = NumberAt(contents, pos + 2 * a, 4)
<1> DEFINE Of(list, k) == NumberAt(contents, pos + AttributeOffset(list, a, k), FormWidth(list[k].form, a))
<1>1. /\ DOMAIN UnitAttributes = {1} /\ UnitAttributes[1].at = 19 /\ UnitAttributes[1].form = 5
      /\ DOMAIN FunctionAttributes = {1, 2, 3}
      /\ FunctionAttributes[1].at = 17 /\ FunctionAttributes[2].at = 18 /\ FunctionAttributes[3].at = 3
      /\ FunctionAttributes[1].form = 1 /\ FunctionAttributes[2].form = 1 /\ FunctionAttributes[3].form = 14
  <2>1. DOMAIN UnitAttributes = 1 .. 1 /\ DOMAIN FunctionAttributes = 1 .. 3
    BY DEF UnitAttributes, FunctionAttributes
  <2>2. 1 .. 1 = {1} /\ 1 .. 3 = {1, 2, 3}
    OBVIOUS
  <2> QED  BY <2>1, <2>2 DEF UnitAttributes, FunctionAttributes, Attribute, DW_AT_language, DW_AT_low_pc,
      DW_AT_high_pc, DW_AT_name, DW_FORM_addr, DW_FORM_data2, DW_FORM_strp
<1>2. FormWidth(5, a) = 2 /\ FormWidth(1, a) = a /\ FormWidth(14, a) = 4
  BY DEF FormWidth, DW_FORM_addr, DW_FORM_data2, DW_FORM_strp
<1>3. pos + 0 = pos
  OBVIOUS
<1>4. /\ Of(UnitAttributes, 1) = NumberAt(contents, pos, 2)
      /\ Of(FunctionAttributes, 1) = NumberAt(contents, pos, a)
      /\ Of(FunctionAttributes, 2) = NumberAt(contents, pos + a, a)
      /\ Of(FunctionAttributes, 3) = NumberAt(contents, pos + 2 * a, 4)
  BY <1>1, <1>2, <1>3, FormsAre
<1>5. \A list : AttributeValues(contents, list, a, pos) =
        [x \in {list[k].at : k \in DOMAIN list} |-> Of(list, CHOOSE k \in DOMAIN list : list[k].at = x)]
  BY DEF AttributeValues
<1> HIDE DEF Of
<1> DEFINE Pick(list, x) == CHOOSE k \in DOMAIN list : list[k].at = x
<1>6. Pick(UnitAttributes, 19) = 1
  BY <1>1
<1>7. Pick(FunctionAttributes, 17) = 1
  BY <1>1
<1>8. Pick(FunctionAttributes, 18) = 2
  BY <1>1
<1>9. Pick(FunctionAttributes, 3) = 3
  BY <1>1
<1>10. \A list : AttributeValues(contents, list, a, pos) =
         [x \in {list[k].at : k \in DOMAIN list} |-> Of(list, Pick(list, x))]
  BY <1>5
<1> HIDE DEF Pick
<1>11. {UnitAttributes[k].at : k \in DOMAIN UnitAttributes} = {19}
  BY <1>1
<1>12. {17, 18, 3} \subseteq {FunctionAttributes[k].at : k \in DOMAIN FunctionAttributes}
  BY <1>1
<1>13. AttributeValues(contents, UnitAttributes, a, pos) = [x \in {19} |-> NumberAt(contents, pos, 2)]
  <2> DEFINE d == {UnitAttributes[k].at : k \in DOMAIN UnitAttributes}
             n == NumberAt(contents, pos, 2)
  <2>1. AttributeValues(contents, UnitAttributes, a, pos) = [x \in d |-> Of(UnitAttributes, Pick(UnitAttributes, x))]
    BY <1>10
  <2>2. d = {19} /\ Of(UnitAttributes, 1) = n
    BY <1>4, <1>11
  <2> HIDE DEF d, n
  <2>3. \A x \in d : Of(UnitAttributes, Pick(UnitAttributes, x)) = n
    BY <1>6, <2>2
  <2>4. [x \in d |-> Of(UnitAttributes, Pick(UnitAttributes, x))] = [x \in {19} |-> n]
    BY <2>2, <2>3
  <2> QED  BY <2>1, <2>4 DEF n
<1>14. ASSUME NEW x \in {17, 18, 3}
       PROVE  AttributeValues(contents, FunctionAttributes, a, pos)[x] = Of(FunctionAttributes, Pick(FunctionAttributes, x))
  <2> DEFINE list == FunctionAttributes
             d == {list[k].at : k \in DOMAIN list}
  <2>1. AttributeValues(contents, list, a, pos) = [y \in d |-> Of(list, Pick(list, y))]
    BY <1>10
  <2>2. x \in d
    BY <1>12
  <2> HIDE DEF Of, Pick, d
  <2> QED  BY <2>1, <2>2
<1>15. DW_AT_language = 19 /\ DW_AT_low_pc = 17 /\ DW_AT_high_pc = 18 /\ DW_AT_name = 3
  BY DEF DW_AT_language, DW_AT_low_pc, DW_AT_high_pc, DW_AT_name
<1> HIDE DEF Of
<1>16. AttributeValues(contents, FunctionAttributes, a, pos)[17] = NumberAt(contents, pos, a)
  BY <1>4, <1>7, <1>14
<1>17. AttributeValues(contents, FunctionAttributes, a, pos)[18] = NumberAt(contents, pos + a, a)
  BY <1>4, <1>8, <1>14
<1>18. AttributeValues(contents, FunctionAttributes, a, pos)[3] = NumberAt(contents, pos + 2 * a, 4)
  BY <1>4, <1>9, <1>14
<1> QED  BY <1>13, <1>15, <1>16, <1>17, <1>18

-----------------------------------------------------------------------------
(* The reader: one entry of __debug_info after the other. *)

(* One step of the reader of __debug_info. *)
Reads(f, contents, declared, a, end, place) ==
  LET pos   == place[1]
      depth == place[2]
      code  == NumberAt(contents, pos, 1)
      d     == CHOOSE d \in declared : d.code = code
  IN IF pos = end /\ depth = 0 THEN <<>>
     ELSE IF pos < end /\ depth > 0 /\ code = 0 THEN f[<<pos + 1, depth - 1>>]
     ELSE IF pos < end /\ code \in {e.code : e \in declared} THEN
       <<Entry(d.tag, depth, AttributeValues(contents, d.attributes, a, pos + 1))>>
         \o f[<<pos + 1 + AttributeOffset(d.attributes, a, Len(d.attributes) + 1),
                IF d.children = DW_CHILDREN_yes THEN depth + 1 ELSE depth>>]
     ELSE <<Entry(Garbage, depth, NoValues)>>

(* f reads the entries from every position and depth. *)
IsEntries(f, contents, declared, a, end) ==
  f = [place \in Nat \X Int |-> Reads(f, contents, declared, a, end, place)]

(* UnitEntries is the reader behind the header of the unit, at depth 0. *)
LEMMA UnitEntriesIs ==
  ASSUME NEW contents, NEW info, NEW abbrev
  PROVE  UnitEntries(contents, info, abbrev)
           = (CHOOSE f : IsEntries(f, contents, Declarations(contents, abbrev),
                                   NumberAt(contents, info.offset + 10, 1), UnitEnd(contents, info)))
               [<<info.offset + 11, 0>>]
BY DEF UnitEntries, IsEntries, Reads

(* The same for the two declarations of the program. *)
UnitEntry(contents, a, pos, depth) ==
  Entry(DW_TAG_compile_unit, depth, AttributeValues(contents, UnitAttributes, a, pos + 1))

(* The entry of a function. *)
FunctionEntry(contents, a, pos, depth) ==
  Entry(DW_TAG_subprogram, depth, AttributeValues(contents, FunctionAttributes, a, pos + 1))

(* r is what the reader makes of this position, one case per line. *)
ReadsAs(r, f, contents, a, end, pos, depth) ==
  LET code == NumberAt(contents, pos, 1)
  IN /\ pos = end /\ depth = 0 => r = <<>>
     /\ pos < end /\ depth > 0 /\ code = 0 => r = f[<<pos + 1, depth - 1>>]
     /\ pos < end /\ code = 1 =>
          r = <<UnitEntry(contents, a, pos, depth)>> \o f[<<pos + 3, depth + 1>>]
     /\ pos < end /\ code = 2 =>
          r = <<FunctionEntry(contents, a, pos, depth)>> \o f[<<pos + 5 + 2 * a, depth>>]
     /\ ~(pos = end /\ depth = 0) /\ ~(pos < end /\ depth > 0 /\ code = 0)
        /\ ~(pos < end /\ code \in {1, 2}) => r = <<Entry(Garbage, depth, NoValues)>>

(* With the two declarations of the program every step is one of these. *)
LEMMA ReadsIs ==
  ASSUME NEW f, NEW contents, NEW a \in Nat, NEW end \in Int, NEW pos \in Nat, NEW depth \in Int
  PROVE  ReadsAs(Reads(f, contents, {UnitAbbreviation, FunctionAbbreviation}, a, end, <<pos, depth>>),
                 f, contents, a, end, pos, depth)
<1> DEFINE declared == {UnitAbbreviation, FunctionAbbreviation}
           code == NumberAt(contents, pos, 1)
           d == CHOOSE d \in declared : d.code = code
           r == Reads(f, contents, declared, a, end, <<pos, depth>>)
           more == <<Entry(d.tag, depth, AttributeValues(contents, d.attributes, a, pos + 1))>>
                     \o f[<<pos + 1 + AttributeOffset(d.attributes, a, Len(d.attributes) + 1),
                            IF d.children = DW_CHILDREN_yes THEN depth + 1 ELSE depth>>]
<1>1. {e.code : e \in declared} = {1, 2}
  BY DEF UnitAbbreviation, FunctionAbbreviation
<1>2. r = IF pos = end /\ depth = 0 THEN <<>>
          ELSE IF pos < end /\ depth > 0 /\ code = 0 THEN f[<<pos + 1, depth - 1>>]
          ELSE IF pos < end /\ code \in {1, 2} THEN more
          ELSE <<Entry(Garbage, depth, NoValues)>>
  <2>1. <<pos, depth>>[1] = pos /\ <<pos, depth>>[2] = depth
    OBVIOUS
  <2> DEFINE Step(p, q) ==
               IF p = end /\ q = 0 THEN <<>>
               ELSE IF p < end /\ q > 0 /\ NumberAt(contents, p, 1) = 0 THEN f[<<p + 1, q - 1>>]
               ELSE IF p < end /\ NumberAt(contents, p, 1) \in {e.code : e \in declared} THEN
                 LET x == CHOOSE x \in declared : x.code = NumberAt(contents, p, 1)
                 IN <<Entry(x.tag, q, AttributeValues(contents, x.attributes, a, p + 1))>>
                      \o f[<<p + 1 + AttributeOffset(x.attributes, a, Len(x.attributes) + 1),
                             IF x.children = DW_CHILDREN_yes THEN q + 1 ELSE q>>]
               ELSE <<Entry(Garbage, q, NoValues)>>
  <2>2. r = Step(<<pos, depth>>[1], <<pos, depth>>[2])
    BY Zenon DEF Reads
  <2>3. Step(<<pos, depth>>[1], <<pos, depth>>[2]) = Step(pos, depth)
    <3> HIDE DEF Step
    <3> QED  BY <2>1
  <2>4. Step(pos, depth) = IF pos = end /\ depth = 0 THEN <<>>
          ELSE IF pos < end /\ depth > 0 /\ code = 0 THEN f[<<pos + 1, depth - 1>>]
          ELSE IF pos < end /\ code \in {e.code : e \in declared} THEN more
          ELSE <<Entry(Garbage, depth, NoValues)>>
    BY Zenon
  <2> HIDE DEF Step
  <2> HIDE DEF r, more, declared, code
  <2> QED  BY <1>1, <2>2, <2>3, <2>4
<1>3. code = 1 => d = UnitAbbreviation
  <2>1. UnitAbbreviation.code = 1 /\ FunctionAbbreviation.code = 2
    BY DEF UnitAbbreviation, FunctionAbbreviation
  <2> HIDE DEF code
  <2> QED  BY <2>1
<1>4. code = 2 => d = FunctionAbbreviation
  <2>1. UnitAbbreviation.code = 1 /\ FunctionAbbreviation.code = 2
    BY DEF UnitAbbreviation, FunctionAbbreviation
  <2> HIDE DEF code
  <2> QED  BY <2>1
<1>5. code = 1 => more = <<UnitEntry(contents, a, pos, depth)>> \o f[<<pos + 3, depth + 1>>]
  <2> SUFFICES ASSUME code = 1
               PROVE  more = <<UnitEntry(contents, a, pos, depth)>> \o f[<<pos + 3, depth + 1>>]
    OBVIOUS
  <2>1. /\ d.tag = DW_TAG_compile_unit /\ d.attributes = UnitAttributes /\ d.children = DW_CHILDREN_yes
    <3>1. d = UnitAbbreviation
      BY <1>3
    <3> HIDE DEF d
    <3> QED  BY <3>1 DEF UnitAbbreviation
  <2>2. Len(UnitAttributes) + 1 = 2
    BY DEF UnitAttributes
  <2>3. pos + 1 + AttributeOffset(d.attributes, a, Len(d.attributes) + 1) = pos + 3
    <3>1. AttributeOffset(d.attributes, a, Len(d.attributes) + 1) = 2
      BY <2>1, <2>2, FormsAre
    <3> QED  BY <3>1
  <2> HIDE DEF d, code
  <2> QED  BY <2>1, <2>3 DEF UnitEntry
<1>6. code = 2 => more = <<FunctionEntry(contents, a, pos, depth)>> \o f[<<pos + 5 + 2 * a, depth>>]
  <2> SUFFICES ASSUME code = 2
               PROVE  more = <<FunctionEntry(contents, a, pos, depth)>> \o f[<<pos + 5 + 2 * a, depth>>]
    OBVIOUS
  <2>1. /\ d.tag = DW_TAG_subprogram /\ d.attributes = FunctionAttributes /\ d.children = DW_CHILDREN_no
        /\ DW_CHILDREN_no # DW_CHILDREN_yes
    <3>1. d = FunctionAbbreviation
      BY <1>4
    <3> HIDE DEF d
    <3> QED  BY <3>1 DEF FunctionAbbreviation, DW_CHILDREN_no, DW_CHILDREN_yes
  <2>2. Len(FunctionAttributes) + 1 = 4
    BY DEF FunctionAttributes
  <2>3. pos + 1 + AttributeOffset(d.attributes, a, Len(d.attributes) + 1) = pos + 5 + 2 * a
    <3>1. AttributeOffset(d.attributes, a, Len(d.attributes) + 1) = 2 * a + 4
      BY <2>1, <2>2, FormsAre
    <3> QED  BY <3>1
  <2> HIDE DEF d, code
  <2>4. (IF d.children = DW_CHILDREN_yes THEN depth + 1 ELSE depth) = depth
    BY <2>1
  <2>5. Entry(d.tag, depth, AttributeValues(contents, d.attributes, a, pos + 1)) = FunctionEntry(contents, a, pos, depth)
    BY <2>1 DEF FunctionEntry
  <2>6. f[<<pos + 1 + AttributeOffset(d.attributes, a, Len(d.attributes) + 1),
           IF d.children = DW_CHILDREN_yes THEN depth + 1 ELSE depth>>] = f[<<pos + 5 + 2 * a, depth>>]
    BY <2>3, <2>4
  <2> DEFINE one == Entry(d.tag, depth, AttributeValues(contents, d.attributes, a, pos + 1))
             other == f[<<pos + 1 + AttributeOffset(d.attributes, a, Len(d.attributes) + 1),
                          IF d.children = DW_CHILDREN_yes THEN depth + 1 ELSE depth>>]
  <2>7. more = <<one>> \o other
    OBVIOUS
  <2>8. one = FunctionEntry(contents, a, pos, depth) /\ other = f[<<pos + 5 + 2 * a, depth>>]
    BY <2>5, <2>6
  <2> HIDE DEF one, other, more
  <2> QED  BY <2>7, <2>8
<1> HIDE DEF r, more, code
<1>7. pos = end => ~(pos < end)
  OBVIOUS
<1> DEFINE atEnd == pos = end /\ depth = 0
           zero == pos < end /\ depth > 0 /\ code = 0
           entry == pos < end /\ code \in {1, 2}
           bad == <<Entry(Garbage, depth, NoValues)>>
           rest == f[<<pos + 1, depth - 1>>]
<1>8. ~(atEnd /\ zero) /\ ~(atEnd /\ entry) /\ ~(zero /\ entry)
  BY <1>7
<1>9. r = IF atEnd THEN <<>> ELSE IF zero THEN rest ELSE IF entry THEN more ELSE bad
  BY <1>2
<1> HIDE DEF atEnd, zero, entry, bad, rest
<1>10. /\ atEnd => r = <<>>
       /\ zero => r = rest
       /\ entry => r = more
       /\ ~atEnd /\ ~zero /\ ~entry => r = bad
  BY <1>8, <1>9
<1>11. (pos < end /\ code = 1 => entry) /\ (pos < end /\ code = 2 => entry)
  BY DEF entry
<1> QED  BY <1>5, <1>6, <1>10, <1>11 DEF atEnd, zero, entry, bad, rest, r, code, ReadsAs

(* The declarations of the program. *)
TwoDeclarations == {UnitAbbreviation, FunctionAbbreviation}

(* The reader of __debug_info exists: it never goes back. *)
LEMMA EntriesExist ==
  ASSUME NEW contents, NEW a \in Nat, NEW end \in Nat
  PROVE  \E f : IsEntries(f, contents, TwoDeclarations, a, end)
<1> DEFINE D == Nat \X Int
           Code(p) == NumberAt(contents, p[1], 1)
           AtEnd(p) == p[1] = end /\ p[2] = 0
           Zero(p) == p[1] < end /\ p[2] > 0 /\ Code(p) = 0
           Unit(p) == p[1] < end /\ Code(p) = 1
           Fun(p) == p[1] < end /\ Code(p) = 2
           Bad(p) == <<Entry(Garbage, p[2], NoValues)>>
           E(p) == IF Unit(p) THEN UnitEntry(contents, a, p[1], p[2]) ELSE FunctionEntry(contents, a, p[1], p[2])
           S == {E(p) : p \in D} \cup {Entry(Garbage, p[2], NoValues) : p \in D}
           V == Seq(S)
           Stop == {p \in D : ~Zero(p) /\ ~Unit(p) /\ ~Fun(p)}
           base == [p \in D |-> IF AtEnd(p) THEN <<>> ELSE Bad(p)]
           next == [p \in D |-> IF Zero(p) THEN <<p[1] + 1, p[2] - 1>>
                                ELSE IF Unit(p) THEN <<p[1] + 3, p[2] + 1>>
                                ELSE <<p[1] + 5 + 2 * a, p[2]>>]
           stage == [x \in D \X V |-> IF Zero(x[1]) THEN x[2] ELSE <<E(x[1])>> \o x[2]]
           rank == [p \in D |-> IF p[1] < end THEN end - p[1] ELSE 0]
<1>1. \A p \in D : p[1] \in Nat /\ p[2] \in Int
  OBVIOUS
<1>2. \A p \in D \ Stop : p[1] < end
  OBVIOUS
<1>3. \A p \in D : rank[p] \in 0 .. end /\ base[p] \in V
  <2>1. ASSUME NEW p \in D PROVE base[p] \in V
    <3>1. Entry(Garbage, p[2], NoValues) \in S
      OBVIOUS
    <3>2. <<>> \in V /\ Bad(p) \in V
      <4> HIDE DEF S
      <4> QED  BY <3>1
    <3>3. base[p] = <<>> \/ base[p] = Bad(p)
      <4> HIDE DEF Bad, AtEnd
      <4> QED  OBVIOUS
    <3> HIDE DEF base, V, Bad
    <3> QED  BY <3>2, <3>3
  <2>2. \A p \in D : rank[p] \in 0 .. end
    BY <1>1
  <2> QED  BY <2>1, <2>2
<1>4. ASSUME NEW p \in D PROVE next[p] \in D /\ p[1] < next[p][1]
  <2> HIDE DEF Unit, Fun, AtEnd, E, S
  <2>1. CASE Zero(p)
    BY <1>1, <2>1
  <2>2. CASE ~Zero(p)
    <3> HIDE DEF Zero
    <3>1. next[p] = <<p[1] + 3, p[2] + 1>> \/ next[p] = <<p[1] + 5 + 2 * a, p[2]>>
      BY <2>2
    <3> HIDE DEF next
    <3> QED  BY <1>1, <3>1
  <2> QED  BY <2>1, <2>2
<1>5. \A p \in D \ Stop : next[p] \in D /\ rank[next[p]] < rank[p]
  <2> SUFFICES ASSUME NEW p \in D \ Stop PROVE rank[next[p]] < rank[p]
    BY <1>4
  <2>1. p[1] < end /\ p \in D
    BY <1>2
  <2> DEFINE q == next[p]
  <2>2. q \in D /\ p[1] < q[1]
    BY <1>4, <2>1
  <2> HIDE DEF q, Stop
  <2>3. p[1] \in Nat /\ q[1] \in Nat
    BY <1>1, <2>1, <2>2
  <2>4. rank[q] < rank[p]
    BY <2>1, <2>2, <2>3
  <2> QED  BY <2>4 DEF q
<1>6. ASSUME NEW p \in D, NEW v \in V
      PROVE  stage[<<p, v>>] = (IF Zero(p) THEN v ELSE <<E(p)>> \o v) /\ stage[<<p, v>>] \in V
  <2>1. E(p) \in S
    <3> HIDE DEF E
    <3> QED  OBVIOUS
  <2> HIDE DEF S, E, Zero, D
  <2>2. stage[<<p, v>>] = IF Zero(p) THEN v ELSE <<E(p)>> \o v
    OBVIOUS
  <2>3. <<E(p)>> \o v \in V
    BY <2>1
  <2> QED  BY <2>2, <2>3
<1> HIDE DEF stage, rank, V, next
<1>7. PICK f \in [D -> V] :
        \A p \in D : f[p] = IF p \in Stop THEN base[p] ELSE stage[<<p, f[next[p]]>>]
  <2> HIDE DEF Stop, base, D
  <2>1. \A p \in D, v \in V : stage[<<p, v>>] \in V
    BY <1>6
  <2>2. end \in Nat
    OBVIOUS
  <2>3. Descends(D, V, Stop, base, next, stage, rank, end)
    BY <1>3, <1>5, <2>1, <2>2 DEF Descends
  <2> QED  BY <2>3, RecursionExists
<1>8. ASSUME NEW p \in D PROVE f[p] = Reads(f, contents, TwoDeclarations, a, end, p)
  <2> DEFINE pos == p[1]
             depth == p[2]
             code == NumberAt(contents, pos, 1)
             r == Reads(f, contents, TwoDeclarations, a, end, p)
  <2>1. pos \in Nat /\ depth \in Int /\ p = <<pos, depth>>
    BY <1>1
  <2> HIDE DEF pos, depth
  <2>2. ReadsAs(r, f, contents, a, end, pos, depth)
    <3>1. end \in Int
      OBVIOUS
    <3>2. ReadsAs(Reads(f, contents, {UnitAbbreviation, FunctionAbbreviation}, a, end, <<pos, depth>>),
                  f, contents, a, end, pos, depth)
      BY <2>1, <3>1, ReadsIs
    <3> QED  BY <2>1, <3>2 DEF TwoDeclarations
  <2> HIDE DEF r
  <2>3. f[next[p]] \in V
    BY <1>4
  <2>4. f[p] = IF p \in Stop THEN base[p] ELSE (IF Zero(p) THEN f[next[p]] ELSE <<E(p)>> \o f[next[p]])
    <3>1. stage[<<p, f[next[p]]>>] = IF Zero(p) THEN f[next[p]] ELSE <<E(p)>> \o f[next[p]]
      BY <1>6, <2>3
    <3>2. f[p] = IF p \in Stop THEN base[p] ELSE stage[<<p, f[next[p]]>>]
      BY <1>7
    <3> HIDE DEF Stop, base, E, Zero
    <3> QED  BY <3>1, <3>2
  <2>5. next[p] = IF Zero(p) THEN <<pos + 1, depth - 1>>
                  ELSE IF Unit(p) THEN <<pos + 3, depth + 1>> ELSE <<pos + 5 + 2 * a, depth>>
    <3> HIDE DEF Zero, Unit
    <3> QED  BY DEF next, pos, depth
  <2>6. /\ AtEnd(p) <=> pos = end /\ depth = 0
        /\ Zero(p) <=> pos < end /\ depth > 0 /\ code = 0
        /\ Unit(p) <=> pos < end /\ code = 1
        /\ Fun(p) <=> pos < end /\ code = 2
    BY DEF pos, depth
  <2>7. /\ base[p] = IF AtEnd(p) THEN <<>> ELSE <<Entry(Garbage, depth, NoValues)>>
        /\ E(p) = IF Unit(p) THEN UnitEntry(contents, a, pos, depth) ELSE FunctionEntry(contents, a, pos, depth)
    <3> HIDE DEF AtEnd, Unit
    <3> QED  BY DEF pos, depth
  <2>8. p \in Stop <=> ~Zero(p) /\ ~Unit(p) /\ ~Fun(p)
    <3> HIDE DEF Zero, Unit, Fun
    <3> QED  OBVIOUS
  <2> HIDE DEF AtEnd, Zero, Unit, Fun, base, E, Stop, code, D
  <2>9. CASE Zero(p)
    BY <2>2, <2>4, <2>5, <2>6, <2>8, <2>9 DEF r, ReadsAs, code
  <2>10. CASE Unit(p)
    <3>1. ~Zero(p)
      BY <2>6, <2>10
    <3> QED  BY <2>2, <2>4, <2>5, <2>6, <2>7, <2>8, <2>10, <3>1 DEF r, ReadsAs, code
  <2>11. CASE Fun(p)
    <3>1. ~Zero(p) /\ ~Unit(p)
      BY <2>6, <2>11
    <3> QED  BY <2>2, <2>4, <2>5, <2>6, <2>7, <2>8, <2>11, <3>1 DEF r, ReadsAs, code
  <2>12. CASE ~Zero(p) /\ ~Unit(p) /\ ~Fun(p)
    <3>1. f[p] = base[p]
      BY <2>4, <2>8, <2>12
    <3>2. CASE AtEnd(p)
      BY <2>2, <2>6, <2>7, <3>1, <3>2 DEF r, ReadsAs, code
    <3>3. CASE ~AtEnd(p)
      <4>1. ~(pos < end /\ code \in {1, 2})
        BY <2>6, <2>12
      <4>2. r = <<Entry(Garbage, depth, NoValues)>>
        BY <2>2, <2>6, <2>12, <3>3, <4>1 DEF r, ReadsAs, code
      <4> QED  BY <2>7, <3>1, <3>3, <4>2 DEF r, ReadsAs, code
    <3> QED  BY <3>2, <3>3
  <2> QED  BY <2>9, <2>10, <2>11, <2>12
<1>9. IsEntries(f, contents, TwoDeclarations, a, end)
  <2>1. f = [p \in D |-> f[p]]
    OBVIOUS
  <2>2. f = [p \in D |-> Reads(f, contents, TwoDeclarations, a, end, p)]
    BY <1>8, <2>1
  <2> QED  BY <2>2 DEF IsEntries
<1> QED  BY <1>9

(* A sequence that is given by a rule, with one more element in front.      *)
LEMMA OneInFront ==
  ASSUME NEW m \in Nat, NEW x, NEW g, NEW h,
         \A j \in 1 .. m : h[j + 1] = g[j], h[1] = x
  PROVE  <<x>> \o [j \in 1 .. m |-> g[j]] = [j \in 1 .. m + 1 |-> h[j]]
<1> DEFINE S == {h[j] : j \in 1 .. m + 1}
           a == <<x>>
           b == [j \in 1 .. m |-> g[j]]
           c == a \o b
<1>1. a \in Seq(S) /\ Len(a) = 1 /\ a[1] = x
  <2>1. 1 \in 1 .. m + 1
    OBVIOUS
  <2>2. x \in S
    BY <2>1
  <2> HIDE DEF S
  <2> QED  BY <2>2
<1>2. b \in Seq(S) /\ Len(b) = m /\ \A j \in 1 .. m : b[j] = g[j]
  <2>1. \A j \in 1 .. m : g[j] \in S
    <3> SUFFICES ASSUME NEW j \in 1 .. m PROVE g[j] \in S
      OBVIOUS
    <3>1. j + 1 \in 1 .. m + 1 /\ g[j] = h[j + 1]
      OBVIOUS
    <3> QED  BY <3>1
  <2> HIDE DEF S
  <2> QED  BY <2>1
<1> HIDE DEF S, a, b
<1>j. ASSUME NEW u \in Seq(S), NEW v \in Seq(S)
      PROVE  /\ u \o v \in Seq(S) /\ Len(u \o v) = Len(u) + Len(v)
             /\ \A k \in 1 .. Len(u) : (u \o v)[k] = u[k]
             /\ \A k \in 1 .. Len(v) : (u \o v)[Len(u) + k] = v[k]
  OBVIOUS
<1>3. /\ c \in Seq(S) /\ Len(c) = 1 + m /\ c[1] = x
      /\ \A j \in 1 .. m : c[1 + j] = g[j]
  <2>1. /\ c \in Seq(S) /\ Len(c) = Len(a) + Len(b)
        /\ \A k \in 1 .. Len(a) : c[k] = a[k]
        /\ \A k \in 1 .. Len(b) : c[Len(a) + k] = b[k]
    BY <1>1, <1>2, <1>j
  <2> HIDE DEF c
  <2> QED  BY <1>1, <1>2, <2>1
<1> HIDE DEF c
<1>4. \A j \in 1 .. m + 1 : c[j] = h[j]
  <2> SUFFICES ASSUME NEW j \in 1 .. m + 1 PROVE c[j] = h[j]
    OBVIOUS
  <2>1. CASE j = 1
    BY <1>3, <2>1
  <2>2. CASE j # 1
    <3>1. j - 1 \in 1 .. m /\ 1 + (j - 1) = j /\ (j - 1) + 1 = j
      BY <2>2
    <3>2. c[1 + (j - 1)] = g[j - 1] /\ h[(j - 1) + 1] = g[j - 1]
      BY <1>3, <3>1
    <3> QED  BY <3>1, <3>2
  <2> QED  BY <2>1, <2>2
<1>5. c = [j \in 1 .. m + 1 |-> c[j]]
  <2>1. Len(c) = m + 1 /\ c \in Seq(S)
    BY <1>3
  <2> QED  BY <2>1
<1> QED  BY <1>4, <1>5 DEF a, b, c

-----------------------------------------------------------------------------
(* What the reader finds in the image. *)

(* Where the entry behind m functions begins. *)
EntryPlace(l, m) == l.at["info"] + (14 + m * EntrySize(l.wide))

(* Entry k, as the reader reports it. *)
EntryOf(l, file, k) == FunctionEntry(file, Long(l.wide), EntryPlace(l, k - 1), 1)

(* The entries follow one another and end before the last byte of the       *)
(* section.                                                                 *)
LEMMA PlacesAre ==
  ASSUME NEW l, Laid(l)
  PROVE  /\ EntryPlace(l, 0) = l.at["info"] + 14
         /\ \A m \in 0 .. l.nsyms :
              /\ EntryPlace(l, m) \in Nat
              /\ EntryPlace(l, m) < l.at["info"] + InfoLength(l.wide, l.nsyms)
              /\ EntryPlace(l, m + 1) = EntryPlace(l, m) + 5 + 2 * Long(l.wide)
         /\ EntryPlace(l, l.nsyms) + 1 = l.at["info"] + InfoLength(l.wide, l.nsyms)
<1> DEFINE E == EntrySize(l.wide)
           B == l.at["info"]
           n == l.nsyms
<1>1. E \in Nat /\ E = 5 + 2 * Long(l.wide) /\ Long(l.wide) \in Nat
  BY DEF EntrySize, Long
<1>2. B \in Nat /\ n \in Nat
  BY DEF Laid, TablesLaid
<1>3. InfoLength(l.wide, l.nsyms) = 15 + n * E /\ \A m : EntryPlace(l, m) = B + (14 + m * E)
  BY DEF InfoLength, EntryPlace
<1> HIDE DEF E, B, n
<1>4. ASSUME NEW m \in 0 .. n
      PROVE  /\ EntryPlace(l, m) \in Nat /\ EntryPlace(l, m) < B + (15 + n * E)
             /\ EntryPlace(l, m + 1) = EntryPlace(l, m) + E
  <2>1. m * E \in Nat /\ m * E <= n * E /\ n * E \in Nat
    BY <1>1, <1>2, ProductGrows
  <2>2. (m + 1) * E = m * E + E
    BY <1>1
  <2> DEFINE x == m * E
             y == n * E
             z == (m + 1) * E
  <2>3. x \in Nat /\ x <= y /\ y \in Nat /\ z = x + E
    BY <2>1, <2>2
  <2>4. EntryPlace(l, m) = B + (14 + x) /\ EntryPlace(l, m + 1) = B + (14 + z)
    BY <1>3
  <2> HIDE DEF x, y, z
  <2>5. EntryPlace(l, m) \in Nat /\ EntryPlace(l, m) < B + (15 + y) /\ EntryPlace(l, m + 1) = EntryPlace(l, m) + E
    BY <1>1, <1>2, <2>3, <2>4
  <2> QED  BY <2>5 DEF y
<1>5. EntryPlace(l, 0) = B + 14
  BY <1>1, <1>2, <1>3
<1>6. EntryPlace(l, n) + 1 = B + (15 + n * E)
  <2> DEFINE y == n * E
  <2>1. y \in Int /\ EntryPlace(l, n) = B + (14 + y)
    BY <1>1, <1>2, <1>3
  <2> HIDE DEF y
  <2>2. EntryPlace(l, n) + 1 = B + (15 + y)
    BY <1>2, <2>1
  <2> QED  BY <2>2 DEF y
<1>7. \A m \in 0 .. n : EntryPlace(l, m) + E = EntryPlace(l, m) + 5 + 2 * Long(l.wide)
  BY <1>1, <1>4
<1> QED  BY <1>3, <1>4, <1>5, <1>6, <1>7 DEF B, n

(* The codes of the entries, in the file. *)
LEMMA CodesAre ==
  ASSUME NEW l, NEW records, NEW tags, Readable(l, records, tags)
  PROVE  LET file == ImageOf(l, records, tags)
         IN /\ NumberAt(file, l.at["info"] + 10, 1) = Long(l.wide)
            /\ NumberAt(file, l.at["info"] + 11, 1) = 1
            /\ NumberAt(file, l.at["info"] + 12, 2) = DW_LANG_ObjC
            /\ \A k \in 1 .. l.nsyms : NumberAt(file, EntryPlace(l, k - 1), 1) = 2
            /\ NumberAt(file, EntryPlace(l, l.nsyms), 1) = 0
<1> DEFINE f == InfoFields(l.wide, tags)
           n == l.nsyms
<1>1. /\ HasField(f, 10, 1, Long(l.wide)) /\ HasField(f, 11, 1, 1) /\ HasField(f, 12, 2, DW_LANG_ObjC)
      /\ \A k \in 1 .. n : HasField(f, 14 + (k - 1) * EntrySize(l.wide), 1, 2)
      /\ HasField(f, 14 + n * EntrySize(l.wide), 1, 0)
  BY InfoFieldsAre DEF Readable, Laid, HeadersLaid
<1> HIDE DEF n
<1>2. ASSUME NEW k \in 1 .. n PROVE NumberAt(ImageOf(l, records, tags), EntryPlace(l, k - 1), 1) = 2
  <2>1. HasField(f, 14 + (k - 1) * EntrySize(l.wide), 1, 2)
    BY <1>1
  <2> QED  BY <2>1, InfoIsRead DEF EntryPlace
<1>3. NumberAt(ImageOf(l, records, tags), EntryPlace(l, n), 1) = 0
  BY <1>1, InfoIsRead DEF EntryPlace
<1>4. NumberAt(ImageOf(l, records, tags), l.at["info"] + 10, 1) = Long(l.wide)
  BY <1>1, InfoIsRead
<1>5. NumberAt(ImageOf(l, records, tags), l.at["info"] + 11, 1) = 1
  BY <1>1, InfoIsRead
<1>6. NumberAt(ImageOf(l, records, tags), l.at["info"] + 12, 2) = DW_LANG_ObjC
  <2>1. HasField(f, 12, 2, DW_LANG_ObjC)
    BY <1>1
  <2> HIDE DEF f
  <2> DEFINE v == DW_LANG_ObjC
  <2>2. HasField(InfoFields(l.wide, tags), 12, 2, v)
    BY <2>1 DEF f
  <2> HIDE DEF v
  <2>3. NumberAt(ImageOf(l, records, tags), l.at["info"] + 12, 2) = v
    BY <2>2, InfoIsRead
  <2> QED  BY <2>3 DEF v
<1> QED  BY <1>2, <1>3, <1>4, <1>5, <1>6 DEF n

(* The functions behind the first n - d of them, and the end of the unit.   *)
LEMMA FunctionsRead ==
  ASSUME NEW l, NEW records, NEW tags, Readable(l, records, tags), NEW f,
         IsEntries(f, ImageOf(l, records, tags), TwoDeclarations, Long(l.wide),
                   l.at["info"] + InfoLength(l.wide, l.nsyms))
  PROVE  f[<<EntryPlace(l, 0), 1>>] = [j \in 1 .. l.nsyms |-> EntryOf(l, ImageOf(l, records, tags), j)]
<1> DEFINE file == ImageOf(l, records, tags)
           a == Long(l.wide)
           n == l.nsyms
           end == l.at["info"] + InfoLength(l.wide, n)
           P(m) == EntryPlace(l, m)
           Fn(k) == EntryOf(l, file, k)
           D == {d \in Nat : d <= n => f[<<P(n - d), 1>>] = [j \in 1 .. d |-> Fn(n - d + j)]}
<1>1. Laid(l) /\ n \in Nat /\ l.wide \in BOOLEAN
  BY DEF Readable, Laid, HeadersLaid, TablesLaid
<1>2. /\ \A m \in 0 .. n : P(m) \in Nat /\ P(m) < end /\ P(m + 1) = P(m) + 5 + 2 * a
      /\ P(n) + 1 = end
  BY <1>1, PlacesAre
<1>3. a \in Nat /\ end \in Int
  <2>1. n \in 0 .. n
    BY <1>1
  <2>2. P(n) \in Nat
    BY <1>2, <2>1
  <2> HIDE DEF P
  <2>3. end \in Int
    BY <1>2, <2>2
  <2> QED  BY <2>3 DEF Long
<1>4. /\ \A k \in 1 .. n : NumberAt(file, P(k - 1), 1) = 2
      /\ NumberAt(file, P(n), 1) = 0
  BY CodesAre
<1> HIDE DEF file, a, n, end, P
<1>5. ASSUME NEW pos \in Nat, NEW depth \in Int
      PROVE  ReadsAs(f[<<pos, depth>>], f, file, a, end, pos, depth)
  <2>1. <<pos, depth>> \in Nat \X Int
    OBVIOUS
  <2>2. f[<<pos, depth>>] = Reads(f, file, TwoDeclarations, a, end, <<pos, depth>>)
    <3>1. f = [place \in Nat \X Int |-> Reads(f, file, TwoDeclarations, a, end, place)]
      BY DEF IsEntries, file, a, end, n
    <3> QED  BY <2>1, <3>1
  <2>3. ReadsAs(Reads(f, file, {UnitAbbreviation, FunctionAbbreviation}, a, end, <<pos, depth>>),
                f, file, a, end, pos, depth)
    BY <1>3, ReadsIs
  <2> QED  BY <2>2, <2>3 DEF TwoDeclarations
<1>6. 0 \in D
  <2>1. P(n) \in Nat /\ n \in 0 .. n /\ n - 0 = n /\ P(n) < end /\ P(n) + 1 = end
    BY <1>1, <1>2
  <2>2. f[<<P(n), 1>>] = f[<<P(n) + 1, 1 - 1>>]
    <3> DEFINE p == P(n)
    <3>1. p \in Nat /\ p < end /\ NumberAt(file, p, 1) = 0 /\ 1 \in Int /\ 1 > 0
      BY <1>4, <2>1
    <3> HIDE DEF p
    <3>2. ReadsAs(f[<<p, 1>>], f, file, a, end, p, 1)
      BY <1>5, <3>1
    <3>3. f[<<p, 1>>] = f[<<p + 1, 1 - 1>>]
      BY <3>1, <3>2 DEF ReadsAs
    <3> QED  BY <3>3 DEF p
  <2>3. end \in Nat /\ f[<<end, 0>>] = <<>>
    <3>1. end \in Nat /\ 0 \in Int
      BY <2>1
    <3>2. ReadsAs(f[<<end, 0>>], f, file, a, end, end, 0)
      BY <1>5, <3>1
    <3> QED  BY <3>1, <3>2 DEF ReadsAs
  <2>4. 1 - 1 = 0 /\ [j \in 1 .. 0 |-> Fn(n - 0 + j)] = <<>>
    OBVIOUS
  <2>5. f[<<P(n), 1>>] = <<>>
    BY <2>1, <2>2, <2>3, <2>4
  <2> HIDE DEF Fn
  <2> QED  BY <2>1, <2>4, <2>5
<1>7. ASSUME NEW d \in D PROVE d + 1 \in D
  <2> SUFFICES ASSUME d + 1 <= n
               PROVE  f[<<P(n - (d + 1)), 1>>] = [j \in 1 .. d + 1 |-> Fn(n - (d + 1) + j)]
    OBVIOUS
  <2> DEFINE m == n - (d + 1)
             p == P(m)
  <2>1. d \in Nat /\ m \in 0 .. n /\ m + 1 \in 1 .. n /\ (m + 1) - 1 = m /\ n - d = m + 1 /\ d <= n
    BY <1>1
  <2>2. f[<<P(m + 1), 1>>] = [j \in 1 .. d |-> Fn(m + 1 + j)]
    BY <2>1
  <2>3. p \in Nat /\ p < end /\ P(m + 1) = p + 5 + 2 * a /\ NumberAt(file, p, 1) = 2
    <3>1. NumberAt(file, P((m + 1) - 1), 1) = 2
      BY <1>4, <2>1
    <3> QED  BY <1>2, <2>1, <3>1
  <2>4. FunctionEntry(file, a, p, 1) = Fn(m + 1)
    BY <2>1 DEF EntryOf, a, P
  <2> HIDE DEF m, p, Fn
  <2>5. f[<<p, 1>>] = <<FunctionEntry(file, a, p, 1)>> \o f[<<p + 5 + 2 * a, 1>>]
    <3>1. ReadsAs(f[<<p, 1>>], f, file, a, end, p, 1)
      BY <1>5, <2>3
    <3> QED  BY <2>3, <3>1 DEF ReadsAs
  <2>6. f[<<p, 1>>] = <<Fn(m + 1)>> \o [j \in 1 .. d |-> Fn(m + 1 + j)]
    BY <2>2, <2>3, <2>4, <2>5
  <2>7. <<Fn(m + 1)>> \o [j \in 1 .. d |-> Fn(m + 1 + j)] = [j \in 1 .. d + 1 |-> Fn(m + j)]
    <3> DEFINE g == [j \in 1 .. d |-> Fn(m + 1 + j)]
               h == [j \in 1 .. d + 1 |-> Fn(m + j)]
               x == Fn(m + 1)
    <3>1. \A j \in 1 .. d : h[j + 1] = g[j]
      <4> SUFFICES ASSUME NEW j \in 1 .. d PROVE h[j + 1] = g[j]
        OBVIOUS
      <4>1. j + 1 \in 1 .. d + 1 /\ m + (j + 1) = m + 1 + j
        BY <2>1
      <4> QED  BY <4>1
    <3>2. h[1] = x
      <4>1. 1 \in 1 .. d + 1
        BY <2>1
      <4> QED  BY <4>1
    <3>3. g = [j \in 1 .. d |-> g[j]] /\ h = [j \in 1 .. d + 1 |-> h[j]]
      OBVIOUS
    <3> HIDE DEF g, h, x
    <3>4. <<x>> \o [j \in 1 .. d |-> g[j]] = [j \in 1 .. d + 1 |-> h[j]]
      BY <2>1, <3>1, <3>2, OneInFront
    <3>5. <<x>> \o g = h
      BY <3>3, <3>4
    <3> QED  BY <3>5 DEF g, h, x
  <2> QED  BY <2>6, <2>7 DEF p, m
<1>8. D = Nat
  <2> HIDE DEF D
  <2>1. D \in SUBSET Nat
    BY DEF D
  <2> QED  BY <1>6, <1>7, <2>1, Induction
<1>9. n \in D
  <2> HIDE DEF D
  <2> QED  BY <1>1, <1>8
<1>10. f[<<P(n - n), 1>>] = [j \in 1 .. n |-> Fn(n - n + j)]
  <2> HIDE DEF Fn
  <2> QED  BY <1>1, <1>9
<1>11. n - n = 0 /\ \A j \in 1 .. n : 0 + j = j
  BY <1>1
<1>12. f[<<P(0), 1>>] = [j \in 1 .. n |-> Fn(j)]
  <2> HIDE DEF Fn
  <2> QED  BY <1>10, <1>11
<1> QED  BY <1>12 DEF P, n, file

(* What an entry of the reader says of function k. *)
SaysFunction(e, die) ==
  /\ e.tag = DW_TAG_subprogram /\ e.depth = 1
  /\ e.values[DW_AT_low_pc] = die.low_pc /\ e.values[DW_AT_high_pc] = die.high_pc
  /\ e.values[DW_AT_name] = die.name

(* It says what EntryFields wrote for function k. *)
LEMMA FunctionIs ==
  ASSUME NEW l, NEW records, NEW tags, Readable(l, records, tags), NEW k \in 1 .. l.nsyms
  PROVE  SaysFunction(EntryOf(l, ImageOf(l, records, tags), k), tags[k])
<1> DEFINE f == InfoFields(l.wide, tags)
           file == ImageOf(l, records, tags)
           a == Long(l.wide)
           B == l.at["info"]
           q == 14 + (k - 1) * EntrySize(l.wide)
           p == EntryPlace(l, k - 1)
           v == AttributeValues(file, FunctionAttributes, a, p + 1)
<1>1. a \in Nat /\ B \in Int /\ q \in Int /\ p = B + q
  BY DEF Long, Readable, Laid, TablesLaid, EntrySize, EntryPlace
<1>2. /\ HasField(f, q + 1, a, tags[k].low_pc) /\ HasField(f, q + 1 + a, a, tags[k].high_pc)
      /\ HasField(f, q + 1 + 2 * a, 4, tags[k].name)
  BY InfoFieldsAre DEF Readable, Laid, HeadersLaid
<1> HIDE DEF q, p
<1>3. NumberAt(file, B + (q + 1), a) = tags[k].low_pc
  BY <1>2, InfoIsRead
<1>4. NumberAt(file, B + (q + 1 + a), a) = tags[k].high_pc
  BY <1>2, InfoIsRead
<1>5. NumberAt(file, B + (q + 1 + 2 * a), 4) = tags[k].name
  BY <1>2, InfoIsRead
<1> HIDE DEF f, file, a, B
<1>6. /\ B + (q + 1) = p + 1 /\ B + (q + 1 + a) = (p + 1) + a
      /\ B + (q + 1 + 2 * a) = (p + 1) + 2 * a /\ p + 1 \in Int
  BY <1>1
<1>7. /\ NumberAt(file, p + 1, a) = tags[k].low_pc /\ NumberAt(file, (p + 1) + a, a) = tags[k].high_pc
      /\ NumberAt(file, (p + 1) + 2 * a, 4) = tags[k].name
  BY <1>3, <1>4, <1>5, <1>6
<1>8. /\ v[DW_AT_low_pc] = NumberAt(file, p + 1, a) /\ v[DW_AT_high_pc] = NumberAt(file, (p + 1) + a, a)
      /\ v[DW_AT_name] = NumberAt(file, (p + 1) + 2 * a, 4)
  BY <1>1, <1>6, ValuesAre
<1>9. EntryOf(l, file, k) = Entry(DW_TAG_subprogram, 1, v)
  BY DEF EntryOf, FunctionEntry, a, p, file
<1> HIDE DEF v
<1>10. SaysFunction(Entry(DW_TAG_subprogram, 1, v), tags[k])
  BY <1>7, <1>8 DEF SaysFunction, Entry
<1> QED  BY <1>9, <1>10 DEF file

(* The compile unit. *)
TheUnit == Entry(DW_TAG_compile_unit, 0, [x \in {DW_AT_language} |-> DW_LANG_ObjC])

(* The unit is read as an entry of depth 0 with a language. *)
LEMMA UnitIs ==
  ASSUME NEW l, NEW records, NEW tags, Readable(l, records, tags)
  PROVE  UnitEntry(ImageOf(l, records, tags), Long(l.wide), l.at["info"] + 11, 0)
           = TheUnit
<1> DEFINE file == ImageOf(l, records, tags)
           p == l.at["info"] + 11
           v == DW_LANG_ObjC
<1>1. l.at["info"] \in Int /\ Long(l.wide) \in Nat
  BY DEF Long, Readable, Laid, TablesLaid
<1>2. p + 1 = l.at["info"] + 12 /\ p + 1 \in Int
  BY <1>1
<1>3. NumberAt(file, l.at["info"] + 12, 2) = v
  BY CodesAre
<1> HIDE DEF p, file, v
<1>4. AttributeValues(file, UnitAttributes, Long(l.wide), p + 1) = [x \in {DW_AT_language} |-> NumberAt(file, p + 1, 2)]
  BY <1>1, <1>2, ValuesAre
<1>5. AttributeValues(file, UnitAttributes, Long(l.wide), p + 1) = [x \in {DW_AT_language} |-> v]
  BY <1>2, <1>3, <1>4
<1>6. UnitEntry(file, Long(l.wide), p, 0) = Entry(DW_TAG_compile_unit, 0, [x \in {DW_AT_language} |-> v])
  BY <1>5 DEF UnitEntry
<1> QED  BY <1>6 DEF file, p, v, TheUnit

(* The reader sees the compile unit, then the functions, and nothing else. *)
FunctionEntries(l, file) == [j \in 1 .. l.nsyms |-> EntryOf(l, file, j)]

(* The unit and its functions. *)
AllEntries(l, file) == <<TheUnit>> \o FunctionEntries(l, file)

(* What a reader of the file makes of __debug_info and __debug_abbrev. *)
EntriesIn(file) ==
  UnitEntries(file, SectionNamed(file, "__debug_info"), SectionNamed(file, "__debug_abbrev"))

(* A reader sees the compile unit, then the functions, and nothing else. *)
LEMMA EntriesAreRead ==
  ASSUME NEW l, NEW records, NEW tags, Readable(l, records, tags), Announced(l)
  PROVE  EntriesIn(ImageOf(l, records, tags)) = AllEntries(l, ImageOf(l, records, tags))
<1> DEFINE file == ImageOf(l, records, tags)
           info == SectionNamed(file, "__debug_info")
           abbrev == SectionNamed(file, "__debug_abbrev")
           a == Long(l.wide)
           n == l.nsyms
           B == l.at["info"]
           end == B + InfoLength(l.wide, l.nsyms)
           h == CHOOSE f : IsEntries(f, file, TwoDeclarations, a, end)
<1>1. info = [offset |-> B, size |-> InfoLength(l.wide, l.nsyms)]
  BY SectionIs, PartsAre DEF Announced, Parts
<1>2. abbrev = [offset |-> l.at["abbrev"], size |-> 18]
  BY SectionIs, PartsAre DEF Announced, Parts
<1>3. Laid(l) /\ B \in Nat /\ a \in Nat /\ InfoLength(l.wide, l.nsyms) \in Nat /\ end \in Nat
  BY DEF Readable, Laid, HeadersLaid, TablesLaid, InfoLength, EntrySize, Long
<1>4. UnitEnd(file, info) = end
  <2>1. info \in {SectionNamed(file, name) : name \in {"__debug_info", "__debug_line"}}
    OBVIOUS
  <2>2. UnitEnd(file, info) = info.offset + info.size
    BY <2>1, UnitsEnd
  <2> HIDE DEF info, file
  <2> QED  BY <1>1, <2>2
<1>5. Declarations(file, abbrev) = TwoDeclarations
  <2>1. abbrev.size = 18 /\ abbrev.offset = l.at["abbrev"]
    <3> HIDE DEF abbrev
    <3> QED  BY <1>2
  <2>2. ASSUME NEW k \in 0 .. 17 PROVE Byte(file, abbrev, k) = AbbrevBytes[k + 1]
    <3>1. NumberAt(file, l.at["abbrev"] + k, 1) = AbbrevBytes[k + 1]
      BY AbbrevIsRead
    <3> HIDE DEF abbrev, file
    <3> QED  BY <2>1, <3>1 DEF Byte
  <2> HIDE DEF abbrev, file
  <2>3. Declarations(file, abbrev) = {UnitAbbreviation, FunctionAbbreviation}
    BY <2>1, <2>2, AbbreviationsAre
  <2> QED  BY <2>3 DEF TwoDeclarations
<1>6. NumberAt(file, B + 10, 1) = a /\ NumberAt(file, B + 11, 1) = 1
  BY CodesAre
<1>7. UnitEntries(file, info, abbrev) = h[<<B + 11, 0>>]
  <2>1. info.offset = B
    <3> HIDE DEF info
    <3> QED  BY <1>1
  <2> HIDE DEF info, abbrev, file, a, B, end
  <2>2. UnitEntries(file, info, abbrev)
          = (CHOOSE f : IsEntries(f, file, Declarations(file, abbrev),
                                  NumberAt(file, info.offset + 10, 1), UnitEnd(file, info)))
              [<<info.offset + 11, 0>>]
    BY UnitEntriesIs
  <2> QED  BY <1>4, <1>5, <1>6, <2>1, <2>2
<1>8. IsEntries(h, file, TwoDeclarations, a, end)
  <2> HIDE DEF file, a, end
  <2> QED  BY <1>3, EntriesExist
<1>9. h[<<EntryPlace(l, 0), 1>>] = FunctionEntries(l, file)
  <2> HIDE DEF h
  <2> QED  BY <1>8, FunctionsRead DEF FunctionEntries
<1>10. EntryPlace(l, 0) = B + 14 /\ B + 14 <= end
  <2>1. EntryPlace(l, 0) = B + 14
    BY <1>3, PlacesAre
  <2>2. 0 \in 0 .. l.nsyms
    BY <1>3 DEF Laid, TablesLaid
  <2>3. EntryPlace(l, 0) < B + InfoLength(l.wide, l.nsyms)
    BY <1>3, <2>2, PlacesAre
  <2> HIDE DEF B
  <2> QED  BY <1>3, <2>1, <2>3
<1> HIDE DEF h, end, a, file
<1>11. h[<<B + 11, 0>>] = <<UnitEntry(file, a, B + 11, 0)>> \o h[<<B + 14, 1>>]
  <2> DEFINE p == B + 11
  <2>1. p \in Nat /\ p < end /\ p + 3 = B + 14 /\ 0 \in Int /\ 0 + 1 = 1 /\ NumberAt(file, p, 1) = 1
    BY <1>3, <1>6, <1>10
  <2> HIDE DEF p, B
  <2>2. <<p, 0>> \in Nat \X Int
    BY <2>1
  <2>3. h[<<p, 0>>] = Reads(h, file, TwoDeclarations, a, end, <<p, 0>>)
    <3>1. h = [place \in Nat \X Int |-> Reads(h, file, TwoDeclarations, a, end, place)]
      BY <1>8 DEF IsEntries
    <3> QED  BY <2>2, <3>1
  <2>4. ReadsAs(Reads(h, file, {UnitAbbreviation, FunctionAbbreviation}, a, end, <<p, 0>>),
                h, file, a, end, p, 0)
    BY <1>3, <2>1, ReadsIs
  <2>5. ReadsAs(h[<<p, 0>>], h, file, a, end, p, 0)
    BY <2>3, <2>4 DEF TwoDeclarations
  <2>6. h[<<p, 0>>] = <<UnitEntry(file, a, p, 0)>> \o h[<<p + 3, 0 + 1>>]
    BY <2>1, <2>5 DEF ReadsAs
  <2>7. h[<<p, 0>>] = <<UnitEntry(file, a, p, 0)>> \o h[<<B + 14, 1>>]
    BY <2>1, <2>6
  <2> QED  BY <2>7 DEF p
<1>12. UnitEntry(file, a, B + 11, 0) = TheUnit
  BY UnitIs DEF file, a
<1>13. h[<<B + 11, 0>>] = <<TheUnit>> \o FunctionEntries(l, file)
  <2> HIDE DEF n, B
  <2> QED  BY <1>9, <1>10, <1>11, <1>12
<1>14. UnitEntries(file, info, abbrev) = AllEntries(l, file)
  <2> HIDE DEF info, abbrev, n, B
  <2> QED  BY <1>7, <1>13 DEF AllEntries
<1>15. EntriesIn(file) = AllEntries(l, file)
  BY <1>14 DEF EntriesIn
<1> HIDE DEF info, abbrev
<1> QED  BY <1>15 DEF file

(* Every function is read back with the addresses and the name it was       *)
(* given.                                                                   *)
LEMMA FunctionsAreRecovered ==
  ASSUME NEW l, NEW records, NEW tags, Readable(l, records, tags), Announced(l)
  PROVE  LET file == ImageOf(l, records, tags)
             entries == EntriesIn(file)
         IN /\ Len(entries) = l.nsyms + 1
            /\ entries[1] = TheUnit
            /\ \A k \in 1 .. l.nsyms : SaysFunction(entries[k + 1], tags[k])
<1> DEFINE file == ImageOf(l, records, tags)
           n == l.nsyms
           E(k) == EntryOf(l, file, k)
           entries == EntriesIn(file)
<1>1. entries = <<TheUnit>> \o FunctionEntries(l, file)
  <2>1. entries = AllEntries(l, file)
    BY EntriesAreRead
  <2> HIDE DEF entries
  <2> QED  BY <2>1 DEF AllEntries
<1>0. FunctionEntries(l, file) = [j \in 1 .. n |-> E(j)]
  BY DEF FunctionEntries
<1>2. n \in Nat
  BY DEF Readable, Laid, TablesLaid
<1>3. \A k \in 1 .. n : SaysFunction(E(k), tags[k])
  BY FunctionIs
<1> HIDE DEF entries, n, E
<1> DEFINE g == [j \in 1 .. n |-> E(j)]
           h == [j \in 1 .. n + 1 |-> IF j = 1 THEN TheUnit ELSE E(j - 1)]
<1>4. h[1] = TheUnit /\ \A j \in 1 .. n : h[j + 1] = E(j) /\ g[j] = E(j)
  <2>1. 1 \in 1 .. n + 1
    BY <1>2
  <2>2. ASSUME NEW j \in 1 .. n PROVE h[j + 1] = E(j)
    <3>1. j + 1 \in 1 .. n + 1 /\ j + 1 # 1 /\ (j + 1) - 1 = j
      BY <1>2
    <3> QED  BY <3>1
  <2> QED  BY <2>1, <2>2
<1>5. g = [j \in 1 .. n |-> g[j]] /\ h = [j \in 1 .. n + 1 |-> h[j]] /\ Len(h) = n + 1
  <2>1. n + 1 \in Nat
    BY <1>2
  <2> QED  BY <2>1
<1>6. entries = <<TheUnit>> \o g
  BY <1>0, <1>1
<1> HIDE DEF g, h
<1>7. <<TheUnit>> \o [j \in 1 .. n |-> g[j]] = [j \in 1 .. n + 1 |-> h[j]]
  <2>1. \A j \in 1 .. n : h[j + 1] = g[j]
    BY <1>4
  <2> QED  BY <1>2, <1>4, <2>1, OneInFront
<1>8. entries = h
  BY <1>5, <1>6, <1>7
<1>9. /\ Len(entries) = n + 1 /\ entries[1] = TheUnit
      /\ \A k \in 1 .. n : SaysFunction(entries[k + 1], tags[k])
  BY <1>3, <1>4, <1>5, <1>8
<1> QED  BY <1>9 DEF n, entries

-----------------------------------------------------------------------------
(* The proofs about StringTable, for the names of the symbols. *)
StringsP == INSTANCE StringTableProofs WITH
  Inputs <- {NamesOf(list) : list \in Inputs},
  names <- NamesOf(symbols), pc <- spc

(* The proofs about MachoLayout, for every image of fewer than Word         *)
(* symbols.                                                                 *)
LayoutP == INSTANCE MachoLayoutProofs WITH
  Arguments <- {a \in [wide : BOOLEAN, nsyms : 0 .. Word - 1, strsize : 0 .. Word - 1,
                       vmoff : 0 .. LongWord - 1] : a.wide \/ a.vmoff < Word},
  args <- [wide |-> wide, nsyms |-> Len(symbols), strsize |-> needed, vmoff |-> vmoff],
  pc <- lpc

-----------------------------------------------------------------------------
(* The parts, and what their proofs assume. *)

(* The string table is made from the names of the symbols. *)
LEMMA NamesAre ==
  ASSUME NEW list \in Inputs
  PROVE  NamesOf(list) \in Seq(Names) /\ Len(NamesOf(list)) = Len(list)
<1> DEFINE R == [name : Names, base : 0 .. LongWord - 1, end : 0 .. LongWord - 1]
<1>1. list \in Seq(R)
  BY DumpAssumption
<1>2. /\ DOMAIN list = 1 .. Len(list) /\ Len(list) \in Nat
      /\ \A k \in 1 .. Len(list) : list[k].name \in Names
  <2>1. \A r \in R : r.name \in Names
    OBVIOUS
  <2> HIDE DEF R
  <2> QED  BY <1>1, <2>1
<1>3. NamesOf(list) = [k \in 1 .. Len(list) |-> list[k].name]
  BY <1>2 DEF NamesOf
<1> DEFINE n == Len(list)
           N(k) == list[k].name
<1> HIDE DEF n, N
<1>4. [k \in 1 .. n |-> N(k)] \in Seq(Names) /\ Len([k \in 1 .. n |-> N(k)]) = n
  BY <1>2 DEF n, N
<1> QED  BY <1>3, <1>4 DEF n, N

(* What DumpAssumption says implies what the proofs about StringTable       *)
(* assume,                                                                  *)
LEMMA StringsAssumed == StringsP!NamesAssumption
<1>1. {NamesOf(list) : list \in Inputs} \subseteq Seq(Names)
  BY NamesAre
<1>2. Word \in Nat \ {0}
  BY DumpAssumption DEF Layout!SymbolTableOffset
<1>3. NameLength \in [Names -> Nat] /\ NUL \notin Names \X Nat
  BY DumpAssumption
<1> QED  BY <1>1, <1>2, <1>3, Zenon DEF StringsP!NamesAssumption

(* and what the proofs about MachoLayout assume. *)
LEMMA LayoutAssumed == LayoutP!LayoutAssumption
<1> DEFINE R == [wide : BOOLEAN, nsyms : 0 .. Word - 1, strsize : 0 .. Word - 1,
                 vmoff : 0 .. LongWord - 1]
           A == {a \in R : a.wide \/ a.vmoff < Word}
<1>1. A \subseteq R /\ \A a \in A : a.wide \/ a.vmoff < Word
  <2> HIDE DEF R
  <2> QED  OBVIOUS
<1>2. /\ Word \in Nat /\ LongWord \in Nat /\ LongWord >= Word
      /\ Word > 4096 /\ Word % 4096 = 0 /\ LongWord % 4096 = 0
  BY DumpAssumption DEF Layout!Page, Layout!SymbolTableOffset
<1> QED  BY <1>1, <1>2 DEF LayoutP!LayoutAssumption, LayoutP!Page, LayoutP!SymbolTableOffset

(* Strings and StringsP are instances of one module: the same invariant, *)
LEMMA SameStrings ==
  /\ Strings!IInv <=> StringsP!IInv
  /\ Strings!TypeOK <=> StringsP!TypeOK
BY DEF Strings!IInv, StringsP!IInv, Strings!TypeOK, StringsP!TypeOK,
  Strings!Cells, StringsP!Cells, Strings!ExtentsAdjoin, StringsP!ExtentsAdjoin,
  Strings!CountersExact, StringsP!CountersExact, Strings!AssertHolds, StringsP!AssertHolds,
  Strings!NoOverrun, StringsP!NoOverrun, Strings!CopiedSoFar, StringsP!CopiedSoFar,
  Strings!MapExact, StringsP!MapExact, Strings!Fits, StringsP!Fits, Strings!ReadsAs, StringsP!ReadsAs,
  Strings!Wrap, StringsP!Wrap

(* and the same steps. *)
LEMMA SameStringSteps ==
  /\ Strings!Init => StringsP!Init
  /\ Strings!Measure => StringsP!Measure
  /\ Strings!Allocate => StringsP!Allocate
  /\ Strings!Copy => StringsP!Copy
  /\ Strings!Finish => StringsP!Finish
BY DEF Strings!Init, StringsP!Init, Strings!Measure, StringsP!Measure, Strings!Grow, StringsP!Grow,
  Strings!Wrap, StringsP!Wrap, Strings!Allocate, StringsP!Allocate, Strings!Zeros, StringsP!Zeros,
  Strings!Copy, StringsP!Copy, Strings!Put, StringsP!Put, Strings!CopyName, StringsP!CopyName,
  Strings!Advance, StringsP!Advance, Strings!Finish, StringsP!Finish

(* Likewise Layout and LayoutP: the pieces of the image and their sizes, *)
LEMMA SamePieces ==
  /\ Layout!Emission = LayoutP!Emission
  /\ \A a, p : Layout!PieceSize(a, p) = LayoutP!PieceSize(a, p)
  /\ Layout!Resizes = LayoutP!Resizes /\ Layout!NoPlan = LayoutP!NoPlan
<1>1. \A a, p : Layout!PieceSize(a, p) = LayoutP!PieceSize(a, p)
  BY Zenon DEF Layout!PieceSize, LayoutP!PieceSize, Layout!MachHeaderSize, LayoutP!MachHeaderSize,
  Layout!SegmentSize, LayoutP!SegmentSize, Layout!SectionSize, LayoutP!SectionSize,
  Layout!SymbolsSize, LayoutP!SymbolsSize, Layout!InfoSize, LayoutP!InfoSize,
  Layout!Sizeof, LayoutP!Sizeof, Layout!CommandSize, LayoutP!CommandSize,
  Layout!LineSize, LayoutP!LineSize, Layout!AbbrevSize, LayoutP!AbbrevSize
<1>2. Layout!Emission = LayoutP!Emission
  BY DEF Layout!Emission, LayoutP!Emission, Layout!HeaderPieces, LayoutP!HeaderPieces,
  Layout!SectionPieces, LayoutP!SectionPieces
<1> QED  BY <1>1, <1>2 DEF Layout!Resizes, LayoutP!Resizes, Layout!NoPlan, LayoutP!NoPlan,
  Layout!SymbolTableOffset, LayoutP!SymbolTableOffset

(* the plan that Init of MachoLayout computes, *)
LEMMA SamePlans == \A a : Layout!PlanFor(a) = LayoutP!PlanFor(a)
<1> SUFFICES ASSUME NEW a PROVE Layout!PlanFor(a) = LayoutP!PlanFor(a)
  OBVIOUS
<1>1. \A p : Layout!PieceSize(a, p) = LayoutP!PieceSize(a, p)
  BY SamePieces
<1>2. /\ Layout!AddrWord = LayoutP!AddrWord /\ Layout!SymbolTableOffset = LayoutP!SymbolTableOffset
      /\ Layout!SymbolsSize(a.nsyms) = LayoutP!SymbolsSize(a.nsyms)
      /\ Layout!InfoSize(a.nsyms) = LayoutP!InfoSize(a.nsyms)
      /\ Layout!Sections = LayoutP!Sections /\ Layout!CommandSize = LayoutP!CommandSize
      /\ Layout!SegmentSize = LayoutP!SegmentSize /\ Layout!SectionSize = LayoutP!SectionSize
      /\ Layout!LineSize = LayoutP!LineSize /\ Layout!AbbrevSize = LayoutP!AbbrevSize
  BY DEF Layout!AddrWord, LayoutP!AddrWord, Layout!SymbolTableOffset, LayoutP!SymbolTableOffset,
    Layout!SymbolsSize, LayoutP!SymbolsSize, Layout!InfoSize, LayoutP!InfoSize, Layout!Sizeof, LayoutP!Sizeof,
    Layout!Sections, LayoutP!Sections, Layout!CommandSize, LayoutP!CommandSize,
    Layout!SegmentSize, LayoutP!SegmentSize, Layout!SectionSize, LayoutP!SectionSize,
    Layout!LineSize, LayoutP!LineSize, Layout!AbbrevSize, LayoutP!AbbrevSize
<1>3. \A x : Layout!U32(x) = LayoutP!U32(x) /\ Layout!Addr(x) = LayoutP!Addr(x)
  BY <1>2 DEF Layout!U32, LayoutP!U32, Layout!Addr, LayoutP!Addr
<1>4. \A x, m : Layout!AlignTo(x, m) = LayoutP!AlignTo(x, m)
  BY DEF Layout!AlignTo, LayoutP!AlignTo, Layout!Page, LayoutP!Page
<1>5. \A x : Layout!SectionOffsets(x, a) = LayoutP!SectionOffsets(x, a)
  BY <1>2, <1>3 DEF Layout!SectionOffsets, LayoutP!SectionOffsets
<1>6. \A x, y : /\ Layout!SectionAddress(x, y) = LayoutP!SectionAddress(x, y)
                /\ Layout!SegmentAddress(x, y) = LayoutP!SegmentAddress(x, y)
  BY <1>3 DEF Layout!SectionAddress, LayoutP!SectionAddress, Layout!SegmentAddress, LayoutP!SegmentAddress
<1> QED  BY <1>1, <1>2, <1>3, <1>4, <1>5, <1>6 DEF Layout!PlanFor, LayoutP!PlanFor

(* the sizes before each piece, *)
LEMMA SameTables == Layout!SizeBefore = LayoutP!SizeBefore
<1>1. /\ Layout!MachHeaderSize = LayoutP!MachHeaderSize /\ Layout!CommandSize = LayoutP!CommandSize
      /\ Layout!SegmentSize = LayoutP!SegmentSize /\ Layout!SectionSize = LayoutP!SectionSize
      /\ Layout!LineSize = LayoutP!LineSize /\ Layout!AbbrevSize = LayoutP!AbbrevSize
      /\ Layout!SymbolTableOffset = LayoutP!SymbolTableOffset
  BY DEF Layout!MachHeaderSize, LayoutP!MachHeaderSize, Layout!CommandSize, LayoutP!CommandSize,
    Layout!SegmentSize, LayoutP!SegmentSize, Layout!SectionSize, LayoutP!SectionSize,
    Layout!LineSize, LayoutP!LineSize, Layout!AbbrevSize, LayoutP!AbbrevSize, Layout!Sizeof, LayoutP!Sizeof,
    Layout!SymbolTableOffset, LayoutP!SymbolTableOffset
<1>2. \A n : Layout!SymbolsSize(n) = LayoutP!SymbolsSize(n) /\ Layout!InfoSize(n) = LayoutP!InfoSize(n)
  BY DEF Layout!SymbolsSize, LayoutP!SymbolsSize, Layout!InfoSize, LayoutP!InfoSize, Layout!Sizeof, LayoutP!Sizeof
<1>3. \A k : Layout!HeadersEnd(k) = LayoutP!HeadersEnd(k)
  BY <1>1 DEF Layout!HeadersEnd, LayoutP!HeadersEnd
<1> QED  BY <1>1, <1>2, <1>3 DEF Layout!SizeBefore, LayoutP!SizeBefore

(* the invariant, *)
LEMMA SameLayout == Layout!IInv <=> LayoutP!IInv
<1>1. Layout!TypeOK <=> LayoutP!TypeOK
  <2>1. Layout!FieldsInRange <=> LayoutP!FieldsInRange
    BY DEF Layout!FieldsInRange, LayoutP!FieldsInRange,
  Layout!AddrWord, LayoutP!AddrWord, Layout!Sizeof, LayoutP!Sizeof, Layout!Sections, LayoutP!Sections
  <2> QED  BY <2>1, SamePieces DEF Layout!TypeOK, LayoutP!TypeOK
<1>2. Layout!Placed <=> LayoutP!Placed
  BY SamePieces, SameTables DEF Layout!Placed, LayoutP!Placed
<1>3. \A a : Layout!PlanFor(a) = LayoutP!PlanFor(a)
  BY SamePlans
<1> QED  BY <1>1, <1>2, <1>3, SameTables, SamePieces DEF Layout!IInv, LayoutP!IInv

(* the steps, *)
LEMMA SameLayoutSteps ==
  /\ Layout!Plan => LayoutP!Plan
  /\ Layout!Emit => LayoutP!Emit
  /\ Layout!Return => LayoutP!Return
<1>1. Layout!Plan => LayoutP!Plan
  BY SamePlans DEF Layout!Plan, LayoutP!Plan
<1>2. Layout!Emit => LayoutP!Emit
  BY SamePieces DEF Layout!Emit, LayoutP!Emit, Layout!ResizeTo, LayoutP!ResizeTo, Layout!MayResizeTo, LayoutP!MayResizeTo,
     Layout!Append_, LayoutP!Append_, Layout!SymbolTableOffset, LayoutP!SymbolTableOffset
<1>3. Layout!Return => LayoutP!Return
  BY SamePieces DEF Layout!Return, LayoutP!Return
<1> QED  BY <1>1, <1>2, <1>3

(* and the invariant of the next state. *)
LEMMA SameLayoutNext == Layout!IInv' <=> LayoutP!IInv'
BY SameLayout, PTL

(* The invariant of StringTable in the next state. *)
LEMMA SameStringsNext == Strings!IInv' <=> StringsP!IInv'
BY SameStrings, PTL

(* The operators its properties are stated with. *)
LEMMA SameFits == /\ Strings!Fits <=> StringsP!Fits
                  /\ \A b, o, n : Strings!ReadsAs(b, o, n) <=> StringsP!ReadsAs(b, o, n)
BY DEF Strings!Fits, StringsP!Fits, Strings!ReadsAs, StringsP!ReadsAs

-----------------------------------------------------------------------------
(* What the parts know in the terms of the whole. *)

(* Symbols and names are sequences of one length. *)
LEMMA SymbolsAre ==
  ASSUME symbols \in Inputs
  PROVE  /\ Len(symbols) \in Nat /\ DOMAIN symbols = 1 .. Len(symbols)
         /\ Len(NamesOf(symbols)) = Len(symbols)
         /\ \A k \in DOMAIN symbols : /\ NamesOf(symbols)[k] = symbols[k].name
                                      /\ symbols[k].name \in Names /\ NameLength[symbols[k].name] \in Nat
<1> DEFINE R == [name : Names, base : 0 .. LongWord - 1, end : 0 .. LongWord - 1]
<1>1. symbols \in Seq(R)
  BY DumpAssumption
<1>2. \A r \in R : r.name \in Names
  OBVIOUS
<1> HIDE DEF R
<1>3. /\ Len(symbols) \in Nat /\ DOMAIN symbols = 1 .. Len(symbols)
      /\ \A k \in DOMAIN symbols : symbols[k] \in R
  BY <1>1
<1>4. \A k \in DOMAIN symbols : symbols[k].name \in Names
  BY <1>2, <1>3
<1>5. \A k \in DOMAIN symbols : NameLength[symbols[k].name] \in Nat
  BY <1>4, DumpAssumption
<1>6. \A k \in DOMAIN symbols : NamesOf(symbols)[k] = symbols[k].name
  BY DEF NamesOf
<1> QED  BY <1>3, <1>4, <1>5, <1>6, NamesAre

(* A table that fits gives every symbol the offset of its name. *)
LEMMA OffsetsGiven ==
  ASSUME Strings!IInv, symbols \in Inputs, spc = "done", Strings!Fits, NEW k \in DOMAIN symbols
  PROVE  /\ symbols[k].name \in DOMAIN nameToOffset
         /\ Strings!ReadsAs(buffer, nameToOffset[symbols[k].name], symbols[k].name)
         /\ nameToOffset[symbols[k].name] \in DOMAIN buffer
         /\ nameToOffset[symbols[k].name] \in Nat
<1> DEFINE n == symbols[k].name
           o == nameToOffset[n]
<1>1. StringsP!EveryNameFound
  BY StringsAssumed, SameStrings, StringsP!NamesFound
<1>2. /\ NamesOf(symbols)[k] = n /\ k \in 1 .. Len(NamesOf(symbols)) /\ NameLength[n] \in Nat
  BY SymbolsAre
<1>3. n \in DOMAIN nameToOffset /\ Strings!ReadsAs(buffer, o, n)
  BY <1>1, <1>2, SameFits DEF StringsP!EveryNameFound
<1>4. o \in 0 .. Word - 1 /\ needed \in Int /\ DOMAIN buffer = 0 .. needed - 1
  BY <1>3 DEF Strings!IInv, Strings!TypeOK
<1>5. o + NameLength[n] \in DOMAIN buffer
  BY <1>3 DEF Strings!ReadsAs
<1> HIDE DEF n, o
<1>6. o \in DOMAIN buffer /\ o \in Nat
  <2>1. Word \in Nat
    BY DumpAssumption
  <2> QED  BY <1>2, <1>4, <1>5, <2>1
<1> QED  BY <1>3, <1>6 DEF n, o

(* ... and there are fewer symbols than the table has bytes. *)
LEMMA FewSymbols ==
  ASSUME Strings!IInv, symbols \in Inputs, spc = "done", Strings!Fits
  PROVE  Len(symbols) \in 0 .. Word - 1
<1> DEFINE n == Len(symbols)
           D == {k \in Nat : k <= n => extent[k + 1] >= k}
<1>1. n \in Nat /\ Len(NamesOf(symbols)) = n
  BY SymbolsAre
<1>2. /\ Len(extent) = n + 1
      /\ \A k \in 1 .. n : NameLength[NamesOf(symbols)[k]] \in Nat
      /\ \A k \in 1 .. n + 1 : extent[k] \in Nat
      /\ \A k \in 1 .. n : extent[k + 1] = extent[k] + NameLength[NamesOf(symbols)[k]] + 1
  <2> HIDE DEF n
  <2>1. StringsP!IInv
    BY SameStrings
  <2>2. /\ Len(extent) = IF spc = "measure" THEN i ELSE Len(NamesOf(symbols)) + 1
        /\ \A k \in 1 .. Len(NamesOf(symbols)) : NameLength[NamesOf(symbols)[k]] \in Nat
        /\ \A k \in 1 .. Len(extent) : extent[k] \in Nat
        /\ \A k \in 1 .. Len(extent) - 1 :
             extent[k + 1] = extent[k] + NameLength[NamesOf(symbols)[k]] + 1
    BY <2>1, StringsAssumed, StringsP!Positions
  <2>3. Len(extent) = n + 1 /\ (n + 1) - 1 = n
    BY <1>1, <2>2
  <2> QED  BY <1>1, <2>2, <2>3
<1> HIDE DEF n
<1>3. 0 \in D
  <2>1. 1 \in 1 .. n + 1
    BY <1>1
  <2>2. extent[1] \in Nat
    BY <1>2, <2>1
  <2> QED  BY <2>2
<1>4. ASSUME NEW k \in D PROVE k + 1 \in D
  <2> SUFFICES ASSUME k + 1 <= n PROVE extent[(k + 1) + 1] >= k + 1
    OBVIOUS
  <2>1. k \in Nat /\ k + 1 \in 1 .. n /\ extent[k + 1] >= k
    BY <1>1
  <2> DEFINE x == extent[k + 1]
             y == NameLength[NamesOf(symbols)[k + 1]]
  <2>2. extent[(k + 1) + 1] = x + y + 1 /\ y \in Nat
    BY <1>2, <2>1
  <2>3. k + 1 \in 1 .. n + 1
    BY <1>1, <2>1
  <2>4. x \in Nat /\ x >= k
    BY <1>2, <2>1, <2>3
  <2> HIDE DEF x, y
  <2> QED  BY <2>1, <2>2, <2>4
<1>5. n \in D
  <2> HIDE DEF D
  <2>1. D \in SUBSET Nat
    BY DEF D
  <2>2. D = Nat
    BY <1>3, <1>4, <2>1, Induction
  <2> QED  BY <1>1, <2>2
<1>6. extent[n + 1] < Word
  BY <1>2 DEF Strings!Fits
<1>7. n + 1 \in 1 .. n + 1
  BY <1>1
<1>8. extent[n + 1] \in Nat /\ extent[n + 1] >= n
  BY <1>2, <1>5, <1>7, <1>1
<1>9. Word \in Nat
  BY DumpAssumption
<1> QED  BY <1>1, <1>6, <1>8, <1>9 DEF n

-----------------------------------------------------------------------------
(* Every step preserves IInv. *)

(* Nothing is dumped yet. *)
LEMMA InitIInv == Init => IInv
<1> SUFFICES ASSUME Init PROVE IInv
  OBVIOUS
<1>1. Strings!IInv
  <2>1. StringsP!Init
    BY SameStringSteps DEF Init
  <2> QED  BY <2>1, StringsAssumed, SameStrings, StringsP!InitIInv
<1>2. TypeOK
  BY <1>1 DEF Strings!IInv, Init, TypeOK
<1> QED  BY <1>1, <1>2 DEF Init, IInv, Narrow

(* string_table.dump preserves what StringTable knows of it. *)
LEMMA DumpStringsIInv == IInv /\ DumpStrings => IInv'
<1> SUFFICES ASSUME IInv, DumpStrings PROVE IInv'
  OBVIOUS
<1>1. /\ phase = "strings" /\ UNCHANGED <<wide, symbols, vmoff, nlists, dies, lpc, plan, step, size, at>>
      /\ phase' = CASE spc' \in {"abort", "crashed"} -> "abort"
                    [] spc' = "done"                 -> "tables"
                    [] OTHER                         -> phase
  BY DEF DumpStrings, arguments, layoutVars
<1>2. /\ phase' \in {"strings", "tables", "abort"} /\ (phase' = "tables" => spc' = "done")
  BY <1>1
<1>3. Strings!IInv'
  <2>1. StringsP!IInv
    BY SameStrings DEF IInv
  <2>2. StringsP!Measure \/ StringsP!Allocate \/ StringsP!Copy \/ StringsP!Finish
    BY SameStringSteps DEF DumpStrings
  <2>3. StringsP!IInv'
    BY <2>1, <2>2, StringsAssumed, StringsP!MeasureIInv, StringsP!AllocateIInv, StringsP!CopyIInv, StringsP!FinishIInv
  <2> QED  BY <2>3, SameStringsNext
<1>4. lpc = "plan" /\ size = 0 /\ plan = Layout!NoPlan /\ step = 1 /\ at = [p \in {} |-> 0]
  BY <1>1 DEF IInv, TypeOK
<1>5. TypeOK'
  BY <1>1, <1>2, <1>3, <1>4 DEF TypeOK, Strings!IInv
<1>6. Layout!NoPlan' = Layout!NoPlan
  BY DEF Layout!NoPlan
<1> QED  BY <1>1, <1>2, <1>3, <1>4, <1>5, <1>6 DEF IInv

(* Whoever leaves the string table and its argument alone keeps its part.  *)
LEMMA StringsStay ==
  ASSUME IInv, UNCHANGED symbols, UNCHANGED stringVars
  PROVE  Strings!IInv' /\ (Strings!Fits' <=> Strings!Fits)
<1>1. UNCHANGED <<symbols, spc, i, needed, offset, buffer, nameToOffset, overran, extent>>
  BY DEF stringVars
<1>2. UNCHANGED StringsP!vars
  BY <1>1 DEF StringsP!vars, NamesOf
<1>3. StringsP!IInv
  BY SameStrings DEF IInv
<1>4. StringsP!IInv'
  BY <1>2, <1>3, StringsAssumed, StringsP!StutterIInv
<1> QED  BY <1>1, <1>4, SameStringsNext DEF Strings!Fits

(* symbol_table.dump and dwarf_debug_info_section.dump look every name up   *)
(* in the map (symbol_table.h:34-36, dwarf_debug_info_section.h:48-50): a   *)
(* table that fits has it.                                                  *)
LEMMA DumpTablesIInv == IInv /\ DumpTables => IInv'
<1> SUFFICES ASSUME IInv, DumpTables PROVE IInv'
  OBVIOUS
<1>1. /\ phase = "tables" /\ UNCHANGED <<wide, symbols, vmoff, lpc, plan, step, size, at>>
      /\ UNCHANGED <<spc, i, needed, offset, buffer, nameToOffset, overran, extent>>
      /\ UNCHANGED stringVars
  BY DEF DumpTables, arguments, layoutVars, stringVars
<1>2. Strings!IInv' /\ (Strings!Fits' <=> Strings!Fits)
  BY <1>1, StringsStay
<1>3. /\ lpc = "plan" /\ size = 0 /\ plan = Layout!NoPlan /\ step = 1 /\ at = [p \in {} |-> 0]
      /\ spc = "done" /\ Layout!NoPlan' = Layout!NoPlan /\ symbols \in Inputs
  BY <1>1 DEF IInv, TypeOK, Layout!NoPlan
<1>4. CASE phase' = "abort"
  <2>1. TypeOK'
    BY <1>1, <1>2, <1>3, <1>4 DEF TypeOK, Strings!IInv
  <2> QED  BY <1>1, <1>2, <1>3, <1>4, <2>1 DEF IInv
<1>5. CASE phase' # "abort"
  <2>1. /\ phase' = "uuid" /\ nlists' = [k \in DOMAIN symbols |-> Nlist(k)]
        /\ dies' = [k \in DOMAIN symbols |-> Die(k)]
    BY <1>5 DEF DumpTables
  <2>2. TablesDumped'
    BY <1>1, <2>1 DEF TablesDumped, Nlist, Die
  <2>3. Len(nlists') = Len(symbols') /\ Len(dies') = Len(symbols')
    <3>1. DOMAIN symbols = 1 .. Len(symbols) /\ Len(symbols) \in Nat
      BY <1>3, SymbolsAre
    <3> QED  BY <1>1, <2>1, <3>1
  <2>4. Strings!Fits' => \A k \in DOMAIN symbols' : nlists'[k].n_strx \in DOMAIN buffer'
    <3> SUFFICES ASSUME Strings!Fits, NEW k \in DOMAIN symbols PROVE nlists'[k].n_strx \in DOMAIN buffer
      BY <1>1, <1>2
    <3>1. nameToOffset[symbols[k].name] \in DOMAIN buffer
      BY <1>3, OffsetsGiven DEF IInv
    <3> QED  BY <2>1, <3>1 DEF Nlist
  <2>5. TypeOK'
    BY <1>1, <1>2, <1>3, <2>1, <2>3, <2>4 DEF TypeOK, Strings!IInv
  <2> QED  BY <1>1, <1>2, <1>3, <2>1, <2>2, <2>5 DEF IInv
<1> QED  BY <1>4, <1>5

(* The arguments of the layout are what MachoLayout assumes. *)
LEMMA LayoutStarts ==
  ASSUME IInv, phase = "uuid", Strings!Fits
  PROVE  LayoutP!IInv
<1> DEFINE R == [wide : BOOLEAN, nsyms : 0 .. Word - 1, strsize : 0 .. Word - 1,
                 vmoff : 0 .. LongWord - 1]
           args == [wide |-> wide, nsyms |-> Len(symbols), strsize |-> needed, vmoff |-> vmoff]
<1>1. /\ lpc = "plan" /\ size = 0 /\ plan = Layout!NoPlan /\ step = 1 /\ at = [p \in {} |-> 0]
      /\ spc = "done" /\ symbols \in Inputs /\ wide \in BOOLEAN /\ vmoff \in Vmoffs /\ Strings!IInv
      /\ wide \/ vmoff < Word
  BY DEF IInv, TypeOK
<1>2. Len(symbols) \in 0 .. Word - 1
  BY <1>1, FewSymbols
<1>3. vmoff \in 0 .. LongWord - 1 /\ needed \in 0 .. Word - 1
  BY <1>1, DumpAssumption DEF Strings!IInv, Strings!TypeOK
<1>4. args \in R
  BY <1>1, <1>2, <1>3
<1>5. args \in {a \in R : a.wide \/ a.vmoff < Word}
  <2>1. args.wide = wide /\ args.vmoff = vmoff
    OBVIOUS
  <2> HIDE DEF args, R
  <2> QED  BY <1>1, <1>4, <2>1
<1>6. LayoutP!Init
  BY <1>1, <1>5, SamePieces DEF LayoutP!Init
<1> QED  BY <1>6, LayoutAssumed, LayoutP!InitIInv

(* The check of the UUID changes no table; behind it the layout may start. *)
LEMMA CheckUuidIInv == IInv /\ CheckUuid => IInv'
<1> SUFFICES ASSUME IInv, CheckUuid PROVE IInv'
  OBVIOUS
<1>1. /\ phase = "uuid" /\ phase' \in {"layout", "abort"}
      /\ UNCHANGED <<wide, symbols, vmoff, lpc, plan, step, size, at, nlists, dies>>
      /\ UNCHANGED <<spc, i, needed, offset, buffer, nameToOffset, overran, extent>>
      /\ UNCHANGED stringVars
  BY DEF CheckUuid, arguments, layoutVars, stringVars
<1>2. Strings!IInv' /\ (Strings!Fits' <=> Strings!Fits)
  BY <1>1, StringsStay
<1>3. lpc = "plan" /\ spc = "done" /\ TablesDumped
  BY <1>1 DEF IInv, TypeOK
<1>4. TablesDumped'
  BY <1>1, <1>3 DEF TablesDumped, Nlist, Die
<1>5. TypeOK'
  BY <1>1, <1>2, <1>3 DEF IInv, TypeOK, Strings!IInv
<1>6. Strings!Fits => Layout!IInv'
  <2> SUFFICES ASSUME Strings!Fits PROVE Layout!IInv'
    OBVIOUS
  <2>1. LayoutP!IInv
    BY <1>1, LayoutStarts
  <2>2. UNCHANGED LayoutP!vars
    BY <1>1 DEF LayoutP!vars
  <2>3. LayoutP!IInv'
    BY <2>1, <2>2, LayoutAssumed, LayoutP!ReturnIInv
  <2> QED  BY <2>3, SameLayoutNext
<1> QED  BY <1>1, <1>2, <1>3, <1>4, <1>5, <1>6 DEF IInv

(* MachoLayout preserves its own invariant, and nothing else moves. *)
LEMMA LayOutIInv == IInv /\ LayOut => IInv'
<1> SUFFICES ASSUME IInv, LayOut PROVE IInv'
  OBVIOUS
<1>1. /\ phase = "layout" /\ phase' = IF lpc' = "abort" THEN "abort" ELSE phase
      /\ UNCHANGED <<wide, symbols, vmoff, nlists, dies>>
      /\ UNCHANGED <<spc, i, needed, offset, buffer, nameToOffset, overran, extent>>
      /\ UNCHANGED stringVars
  BY DEF LayOut, arguments, stringVars
<1>2. Strings!IInv' /\ (Strings!Fits' <=> Strings!Fits)
  BY <1>1, StringsStay
<1>3. spc = "done" /\ TablesDumped
  BY <1>1 DEF IInv, TypeOK
<1>4. TablesDumped'
  BY <1>1, <1>3 DEF TablesDumped, Nlist, Die
<1>5. TypeOK'
  BY <1>1, <1>2, <1>3 DEF IInv, TypeOK, Strings!IInv
<1>6. Strings!Fits => Layout!IInv'
  <2> SUFFICES ASSUME Strings!Fits PROVE Layout!IInv'
    OBVIOUS
  <2>1. LayoutP!IInv
    BY <1>1, SameLayout DEF IInv
  <2>2. LayoutP!Plan \/ LayoutP!Emit \/ LayoutP!Return
    BY SameLayoutSteps DEF LayOut
  <2>3. LayoutP!IInv'
    BY <2>1, <2>2, LayoutAssumed, LayoutP!PlanIInv, LayoutP!EmitIInv, LayoutP!ReturnIInv
  <2> QED  BY <2>3, SameLayoutNext
<1> QED  BY <1>1, <1>2, <1>3, <1>4, <1>5, <1>6 DEF IInv

(* Nor does anything change while the program waits. *)
LEMMA StutterIInv == IInv /\ UNCHANGED vars => IInv'
<1> SUFFICES ASSUME IInv, UNCHANGED vars PROVE IInv'
  OBVIOUS
<1>1. /\ UNCHANGED <<wide, symbols, vmoff, phase, lpc, plan, step, size, at, nlists, dies>>
      /\ UNCHANGED <<spc, i, needed, offset, buffer, nameToOffset, overran, extent>>
      /\ UNCHANGED stringVars
  BY DEF vars, arguments, layoutVars, stringVars
<1>2. Strings!IInv' /\ (Strings!Fits' <=> Strings!Fits)
  BY <1>1, StringsStay
<1>3. TablesDumped => TablesDumped'
  BY <1>1 DEF TablesDumped, Nlist, Die
<1>4. TypeOK'
  BY <1>1, <1>2 DEF IInv, TypeOK, Strings!IInv
<1>5. Layout!IInv => Layout!IInv'
  <2> SUFFICES ASSUME Layout!IInv PROVE Layout!IInv'
    OBVIOUS
  <2>1. UNCHANGED LayoutP!vars
    BY <1>1 DEF LayoutP!vars
  <2>2. LayoutP!IInv'
    BY <2>1, SameLayout, LayoutAssumed, LayoutP!ReturnIInv
  <2> QED  BY <2>2, SameLayoutNext
<1>6. Layout!NoPlan' = Layout!NoPlan
  BY DEF Layout!NoPlan
<1> QED  BY <1>1, <1>2, <1>3, <1>4, <1>5, <1>6 DEF IInv

(* Macho<T>::dump keeps the invariants of its parts together: what          *)
(* StringTable::dump has counted and copied is still so while the tables    *)
(* that refer to it are written, and both tables while the file is laid out *)
(* (macho.h:46-143).                                                        *)
THEOREM Inductive == Spec => []IInv
<1>1. IInv /\ [Next]_vars => IInv'
  BY DumpStringsIInv, DumpTablesIInv, CheckUuidIInv, LayOutIInv, StutterIInv DEF Next, Returned
<1> QED  BY InitIInv, <1>1, PTL DEF Spec

(* The parts of Macho<T>::dump run one after the other, each on the         *)
(* finished result of the one before it, and every record of the symbol     *)
(* table points into the string table (macho.h:55-142,                      *)
(* symbol_table.h:32-42).                                                   *)
THEOREM TypeCorrect == Spec => []TypeOK
BY Inductive, PTL DEF IInv

-----------------------------------------------------------------------------
(* The finished file is one the lemmas know how to read. *)

(* The pieces of the finished image, in the terms of MachoImage. *)
LEMMA PiecesPlaced ==
  ASSUME IInv, lpc = "done", Strings!Fits
  PROVE  /\ phase = "layout" /\ spc = "done" /\ symbols \in Inputs /\ wide \in BOOLEAN
         /\ Strings!IInv /\ TablesDumped /\ LayoutP!IInv
         /\ plan = LayoutP!PlanFor([wide |-> wide, nsyms |-> Len(symbols), strsize |-> needed, vmoff |-> vmoff])
         /\ plan.fileoff \in Nat /\ LayoutP!SizeBefore[14] <= plan.fileoff
         /\ at["mach_header"] = LayoutP!SizeBefore[1] /\ at["uuid_command"] = LayoutP!SizeBefore[2]
         /\ at["symtab_command"] = LayoutP!SizeBefore[3] /\ at["text_segment"] = LayoutP!SizeBefore[4]
         /\ at["text_header"] = LayoutP!SizeBefore[5] /\ at["dwarf_segment"] = LayoutP!SizeBefore[6]
         /\ at["line_header"] = LayoutP!SizeBefore[7] /\ at["str_header"] = LayoutP!SizeBefore[8]
         /\ at["abbrev_header"] = LayoutP!SizeBefore[9] /\ at["info_header"] = LayoutP!SizeBefore[10]
         /\ at["symbols"] = LayoutP!SizeBefore[12] /\ at["line"] = LayoutP!SizeBefore[15]
         /\ at["info"] = LayoutP!SizeBefore[16] /\ at["abbrev"] = LayoutP!SizeBefore[17]
<1>1. /\ phase = "layout" /\ spc = "done" /\ symbols \in Inputs /\ wide \in BOOLEAN
      /\ Strings!IInv /\ TablesDumped /\ LayoutP!IInv
  BY SameLayout DEF IInv, TypeOK
<1>2. /\ plan = LayoutP!PlanFor([wide |-> wide, nsyms |-> Len(symbols), strsize |-> needed, vmoff |-> vmoff])
      /\ plan.fileoff \in Nat /\ LayoutP!SizeBefore[14] <= plan.fileoff
      /\ \A k \in 1 .. 18 : k \notin {11, 14} => at[LayoutP!Emission[k]] = LayoutP!SizeBefore[k]
  BY <1>1, LayoutAssumed, LayoutP!Finished
<1>3. /\ LayoutP!Emission[1] = "mach_header" /\ LayoutP!Emission[2] = "uuid_command"
      /\ LayoutP!Emission[3] = "symtab_command" /\ LayoutP!Emission[4] = "text_segment"
      /\ LayoutP!Emission[5] = "text_header" /\ LayoutP!Emission[6] = "dwarf_segment"
      /\ LayoutP!Emission[7] = "line_header" /\ LayoutP!Emission[8] = "str_header"
      /\ LayoutP!Emission[9] = "abbrev_header" /\ LayoutP!Emission[10] = "info_header"
      /\ LayoutP!Emission[12] = "symbols" /\ LayoutP!Emission[15] = "line"
      /\ LayoutP!Emission[16] = "info" /\ LayoutP!Emission[17] = "abbrev"
  BY LayoutAssumed, LayoutP!EmissionOrder
<1> HIDE DEF IInv
<1> QED  BY SMTT(30), <1>1, <1>2, <1>3

(* The sizes before the pieces, in the terms of MachoImage. *)
LEMMA SizesBefore ==
  ASSUME wide \in BOOLEAN, Len(symbols) \in Nat, plan.fileoff \in Nat, needed \in Nat
  PROVE  LET H == HeaderSizeOf(wide)
             C == SegmentSizeOf(wide)
             S == SectionSizeOf(wide)
             n == Len(symbols)
             B == LayoutP!SizeBefore
             f == plan.fileoff
         IN /\ B[1] = 0 /\ B[2] = H /\ B[3] = H + 24 /\ B[4] = H + 48
            /\ B[5] = H + 48 + C /\ B[6] = H + 48 + C + S /\ B[7] = H + 48 + 2 * C + S
            /\ B[8] = H + 48 + 2 * C + 2 * S /\ B[9] = H + 48 + 2 * C + 3 * S
            /\ B[10] = H + 48 + 2 * C + 4 * S
            /\ B[12] = 4096 /\ B[14] = 4096 + n * NlistSizeOf(wide) + needed
            /\ B[15] = f /\ B[16] = f + 20 /\ B[17] = f + 20 + InfoLength(wide, n)
            /\ Layout!TextCommandSize = S + C /\ Layout!DwarfCommandSize = C + 4 * S
            /\ LayoutP!InfoSize(n) = InfoLength(wide, n)
<1> DEFINE H == HeaderSizeOf(wide)
           C == SegmentSizeOf(wide)
           S == SectionSizeOf(wide)
           n == Len(symbols)
           f == plan.fileoff
<1>1. H \in Nat /\ C \in Nat /\ S \in Nat /\ n \in Nat /\ f \in Nat
  BY DEF HeaderSizeOf, SegmentSizeOf, SectionSizeOf
<1>2. /\ LayoutP!MachHeaderSize = H /\ LayoutP!SegmentSize = C /\ LayoutP!SectionSize = S
      /\ Layout!SegmentSize = C /\ Layout!SectionSize = S
      /\ LayoutP!CommandSize = 24 /\ LayoutP!LineSize = 20 /\ LayoutP!SymbolTableOffset = 4096
  BY DEF LayoutP!MachHeaderSize, LayoutP!SegmentSize, LayoutP!SectionSize, LayoutP!Sizeof, LayoutP!CommandSize,
    Layout!SegmentSize, Layout!SectionSize, Layout!Sizeof, LayoutP!LineSize, LayoutP!SymbolTableOffset,
    HeaderSizeOf, SegmentSizeOf, SectionSizeOf
<1>3. LayoutP!SymbolsSize(n) = n * NlistSizeOf(wide)
  BY DEF LayoutP!SymbolsSize, LayoutP!Sizeof, NlistSizeOf
<1>4. LayoutP!InfoSize(n) = InfoLength(wide, n)
  <2>1. LayoutP!InfoSize(n) = 14 + n * (1 + (IF wide THEN 16 ELSE 8) + 4) + 1
    BY <1>1 DEF LayoutP!InfoSize, LayoutP!Sizeof
  <2>2. EntrySize(wide) = 1 + (IF wide THEN 16 ELSE 8) + 4
    BY DEF EntrySize, Long
  <2> DEFINE x == n * EntrySize(wide)
  <2>3. x \in Nat /\ LayoutP!InfoSize(n) = 14 + x + 1
    BY <1>1, <2>1, <2>2
  <2>4. InfoLength(wide, n) = 15 + x
    BY DEF InfoLength
  <2> HIDE DEF x
  <2> QED  BY <2>3, <2>4
<1>5. \A k : LayoutP!HeadersEnd(k) = H + 2 * 24 + 2 * C + k * S
  BY <1>2 DEF LayoutP!HeadersEnd
<1> HIDE DEF H, C, S, f, n
<1>6. /\ LayoutP!HeadersEnd(0) = H + 48 + 2 * C /\ LayoutP!HeadersEnd(1) = H + 48 + 2 * C + S
      /\ LayoutP!HeadersEnd(2) = H + 48 + 2 * C + 2 * S /\ LayoutP!HeadersEnd(3) = H + 48 + 2 * C + 3 * S
      /\ LayoutP!HeadersEnd(4) = H + 48 + 2 * C + 4 * S
  BY <1>1, <1>5
<1> DEFINE tables == LayoutP!SymbolTableOffset + LayoutP!SymbolsSize(n)
           B == LayoutP!SizeBefore
<1>7. /\ B[1] = 0 /\ B[2] = H /\ B[3] = H + 24 /\ B[4] = LayoutP!HeadersEnd(0) - 2 * C
      /\ B[5] = LayoutP!HeadersEnd(0) - C /\ B[6] = LayoutP!HeadersEnd(1) - C
      /\ B[7] = LayoutP!HeadersEnd(1) /\ B[8] = LayoutP!HeadersEnd(2)
      /\ B[9] = LayoutP!HeadersEnd(3) /\ B[10] = LayoutP!HeadersEnd(4)
      /\ B[12] = 4096 /\ B[14] = tables + needed /\ B[15] = f /\ B[16] = f + 20
      /\ B[17] = f + 20 + InfoLength(wide, n)
  BY <1>2, <1>4 DEF LayoutP!SizeBefore, n, f
<1>8. tables = 4096 + n * NlistSizeOf(wide)
  BY <1>2, <1>3
<1> HIDE DEF tables, B
<1> DEFINE h(k) == LayoutP!HeadersEnd(k)
<1>9. /\ B[4] = H + 48 /\ B[5] = H + 48 + C /\ B[6] = H + 48 + C + S /\ B[7] = H + 48 + 2 * C + S
      /\ B[8] = H + 48 + 2 * C + 2 * S /\ B[9] = H + 48 + 2 * C + 3 * S /\ B[10] = H + 48 + 2 * C + 4 * S
  <2>1. /\ h(0) = H + 48 + 2 * C /\ h(1) = H + 48 + 2 * C + S
        /\ h(2) = H + 48 + 2 * C + 2 * S /\ h(3) = H + 48 + 2 * C + 3 * S
        /\ h(4) = H + 48 + 2 * C + 4 * S
    BY <1>6
  <2>2. /\ B[4] = h(0) - 2 * C /\ B[5] = h(0) - C /\ B[6] = h(1) - C
        /\ B[7] = h(1) /\ B[8] = h(2) /\ B[9] = h(3) /\ B[10] = h(4)
    BY <1>7
  <2> HIDE DEF h
  <2>3. h(0) \in Int /\ h(1) \in Int
    BY <1>1, <2>1
  <2>4. B[4] = H + 48 /\ B[5] = H + 48 + C /\ B[6] = H + 48 + C + S
    BY <1>1, <2>1, <2>2, <2>3
  <2> QED  BY <2>1, <2>2, <2>4
<1>10. Layout!TextCommandSize = S + C /\ Layout!DwarfCommandSize = C + 4 * S
  BY <1>2 DEF Layout!TextCommandSize, Layout!DwarfCommandSize
<1>11. B[14] = 4096 + n * NlistSizeOf(wide) + needed
  BY <1>7, <1>8
<1>12. /\ B[1] = 0 /\ B[2] = H /\ B[3] = H + 24 /\ B[4] = H + 48
       /\ B[5] = H + 48 + C /\ B[6] = H + 48 + C + S /\ B[7] = H + 48 + 2 * C + S
       /\ B[8] = H + 48 + 2 * C + 2 * S /\ B[9] = H + 48 + 2 * C + 3 * S
       /\ B[10] = H + 48 + 2 * C + 4 * S
       /\ B[12] = 4096 /\ B[14] = 4096 + n * NlistSizeOf(wide) + needed
       /\ B[15] = f /\ B[16] = f + 20 /\ B[17] = f + 20 + InfoLength(wide, n)
       /\ Layout!TextCommandSize = S + C /\ Layout!DwarfCommandSize = C + 4 * S
       /\ LayoutP!InfoSize(n) = InfoLength(wide, n)
  BY SMTT(30), <1>4, <1>7, <1>9, <1>10, <1>11 DEF n
<1> QED  BY <1>12 DEF B, H, C, S, n, f

(* The fields of the layout that the image is written from. *)
LEMMA LayoutIs ==
  /\ LayoutOfImage.wide = wide /\ LayoutOfImage.plan = plan /\ LayoutOfImage.at = at
  /\ LayoutOfImage.nsyms = Len(symbols)
  /\ LayoutOfImage.textsize = Layout!TextCommandSize /\ LayoutOfImage.dwarfsize = Layout!DwarfCommandSize
BY DEF LayoutOfImage

(* Both tables have one record per symbol. *)
LEMMA TablesAre ==
  ASSUME symbols \in Inputs, TablesDumped
  PROVE  /\ Lists(nlists, Len(symbols), {}) /\ Lists(dies, Len(symbols), {})
         /\ \A k \in 1 .. Len(symbols) : nlists[k] = Nlist(k) /\ dies[k] = Die(k)
<1> DEFINE n == Len(symbols)
<1>1. n \in Nat /\ DOMAIN symbols = 1 .. n
  BY SymbolsAre
<1>2. nlists = [k \in 1 .. n |-> Nlist(k)] /\ dies = [k \in 1 .. n |-> Die(k)]
  BY <1>1 DEF TablesDumped
<1> HIDE DEF n
<1>3. \A k \in 1 .. n : nlists[k] = Nlist(k) /\ dies[k] = Die(k)
  BY <1>2
<1>4. nlists = [k \in 1 .. n |-> nlists[k]] /\ dies = [k \in 1 .. n |-> dies[k]]
  BY <1>2, <1>3
<1>5. Len(nlists) = n /\ Len(dies) = n
  BY <1>1, <1>2
<1>6. Lists(nlists, n, {}) /\ Lists(dies, n, {})
  BY <1>1, <1>4, <1>5 DEF Lists
<1> QED  BY <1>3, <1>6 DEF n

(* The finished image is one that the reader of MachoImage can read. *)
LEMMA FinishedIsReadable ==
  ASSUME IInv, lpc = "done", Strings!Fits
  PROVE  Readable(LayoutOfImage, nlists, dies)
<1> DEFINE l == LayoutOfImage
           n == Len(symbols)
           B == LayoutP!SizeBefore
<1>1. symbols \in Inputs /\ wide \in BOOLEAN /\ Strings!IInv /\ TablesDumped
  BY PiecesPlaced
<1>2. n \in Nat /\ needed \in Nat
  <2>1. n \in Nat
    BY <1>1, SymbolsAre
  <2>2. needed \in 0 .. Word - 1 /\ Word \in Nat
    BY <1>1, DumpAssumption DEF Strings!IInv, Strings!TypeOK
  <2> QED  BY <2>1, <2>2
<1>3. plan.fileoff \in Nat /\ B[14] <= plan.fileoff
  BY PiecesPlaced
<1>4. HeadersLaid(l)
  <2> DEFINE H == HeaderSizeOf(wide)
             C == SegmentSizeOf(wide)
             S == SectionSizeOf(wide)
  <2>1. /\ at["mach_header"] = 0 /\ at["uuid_command"] = H
        /\ at["symtab_command"] = H + 24 /\ at["text_segment"] = H + 48
        /\ at["text_header"] = H + 48 + C /\ at["dwarf_segment"] = H + 48 + C + S
        /\ at["line_header"] = H + 48 + 2 * C + S /\ at["str_header"] = H + 48 + 2 * C + 2 * S
        /\ at["abbrev_header"] = H + 48 + 2 * C + 3 * S
        /\ at["info_header"] = H + 48 + 2 * C + 4 * S
    BY SMTT(30), <1>1, <1>2, <1>3, SizesBefore, PiecesPlaced
  <2>2. Layout!TextCommandSize = S + C /\ Layout!DwarfCommandSize = C + 4 * S
    BY <1>1, <1>2, <1>3, SizesBefore
  <2> HIDE DEF l
  <2>3. /\ l.wide = wide /\ l.at = at /\ l.textsize = S + C /\ l.dwarfsize = C + 4 * S
    BY <2>2, LayoutIs DEF l
  <2> QED  BY <1>1, <2>1, <2>3 DEF HeadersLaid
<1>5. TablesLaid(l)
  <2>1. plan.symoff = 4096
    <3>1. plan = LayoutP!PlanFor([wide |-> wide, nsyms |-> Len(symbols), strsize |-> needed, vmoff |-> vmoff])
      BY PiecesPlaced
    <3> QED  BY <3>1 DEF LayoutP!PlanFor, LayoutP!SymbolTableOffset
  <2>2. at["symbols"] = B[12] /\ at["line"] = B[15] /\ at["info"] = B[16] /\ at["abbrev"] = B[17]
    BY PiecesPlaced
  <2>3. /\ B[12] = 4096 /\ B[14] = 4096 + n * NlistSizeOf(wide) + needed
        /\ B[15] = plan.fileoff /\ B[16] = plan.fileoff + 20
        /\ B[17] = plan.fileoff + 20 + InfoLength(wide, n)
    BY <1>1, <1>2, <1>3, SizesBefore
  <2> DEFINE f == plan.fileoff
             x == n * NlistSizeOf(wide)
             z == InfoLength(wide, n)
  <2>4. x \in Nat
    BY <1>2 DEF NlistSizeOf
  <2>5. f \in Nat /\ 4096 + x + needed <= f /\ B[15] = f /\ B[16] = f + 20 /\ B[17] = (f + 20) + z
    BY <1>3, <2>3
  <2> HIDE DEF B, f, x, l
  <2>6. 4096 + x <= f
    BY <1>2, <2>4, <2>5
  <2>7. /\ at["line"] \in Nat /\ 4096 + x <= at["line"]
        /\ at["info"] = at["line"] + 20 /\ at["abbrev"] = at["info"] + z
        /\ at["symbols"] = 4096
    BY <2>2, <2>3, <2>5, <2>6
  <2>8. l.wide = wide /\ l.at = at /\ l.plan = plan /\ l.nsyms = n
    BY LayoutIs DEF l
  <2> QED  BY <1>2, <2>1, <2>7, <2>8 DEF TablesLaid, x
<1>6. Lists(nlists, l.nsyms, {}) /\ Lists(dies, l.nsyms, {})
  BY <1>1, TablesAre, LayoutIs
<1> QED  BY <1>4, <1>5, <1>6 DEF Readable, Laid

(* Its headers announce where the sections are, when nothing has wrapped. *)
LEMMA FinishedIsAnnounced ==
  ASSUME IInv, lpc = "done", Strings!Fits, Layout!Fits
  PROVE  Announced(LayoutOfImage)
<1> DEFINE l == LayoutOfImage
           n == Len(symbols)
           args == [wide |-> wide, nsyms |-> n, strsize |-> needed, vmoff |-> vmoff]
<1>1. symbols \in Inputs /\ wide \in BOOLEAN /\ Strings!IInv /\ LayoutP!IInv /\ plan.fileoff \in Nat
  BY PiecesPlaced
<1>2. LayoutP!Fits
  BY DEF Layout!Fits, LayoutP!Fits
<1>3. LayoutP!HeadersLocateSections
  BY <1>1, LayoutAssumed, LayoutP!HeadersRight
<1>4. \A s \in {"line", "info", "abbrev", "str"} :
        at[s] = plan.offset[s] /\ LayoutP!PieceSize(args, s) = plan.length[s]
  BY <1>2, <1>3 DEF LayoutP!HeadersLocateSections, LayoutP!Sections
<1>5. /\ LayoutP!PieceSize(args, "line") = 20 /\ LayoutP!PieceSize(args, "abbrev") = 18
      /\ LayoutP!PieceSize(args, "info") = LayoutP!InfoSize(n)
  <2>1. args.nsyms = n
    OBVIOUS
  <2> HIDE DEF args
  <2>2. /\ LayoutP!PieceSize(args, "line") = LayoutP!LineSize
        /\ LayoutP!PieceSize(args, "abbrev") = LayoutP!AbbrevSize
        /\ LayoutP!PieceSize(args, "info") = LayoutP!InfoSize(args.nsyms)
    BY LayoutAssumed, LayoutP!SizesOfContents
  <2> QED  BY <2>1, <2>2 DEF LayoutP!LineSize, LayoutP!AbbrevSize
<1>6. LayoutP!InfoSize(n) = InfoLength(wide, n)
  <2>1. n \in Nat
    BY <1>1, SymbolsAre
  <2>2. needed \in 0 .. Word - 1 /\ Word \in Nat
    BY <1>1, DumpAssumption DEF Strings!IInv, Strings!TypeOK
  <2>3. needed \in Nat
    BY <2>2
  <2> QED  BY <1>1, <2>1, <2>3, SizesBefore
<1> HIDE DEF args, l
<1>7. l.wide = wide /\ l.at = at /\ l.plan = plan /\ l.nsyms = n
  BY LayoutIs DEF l
<1>8. /\ plan.offset["line"] = at["line"] /\ plan.offset["info"] = at["info"]
      /\ plan.offset["abbrev"] = at["abbrev"] /\ plan.offset["str"] = at["str"]
      /\ plan.length["line"] = 20 /\ plan.length["abbrev"] = 18
      /\ plan.length["info"] = InfoLength(wide, n)
  BY <1>4, <1>5, <1>6
<1> QED  BY <1>7, <1>8 DEF Announced, l

(* The file a reader is given, in the terms of the lemmas about readers. *)
LEMMA FileIs ==
  ASSUME NEW file \in Files
  PROVE  lpc = "done" /\ file = ImageOf(LayoutOfImage, nlists, dies)
<1>1. lpc = "done" /\ file = Image(LayoutOfImage, nlists, dies)
  BY DEF Files
<1> QED  BY <1>1, ImageIs DEF ImageOf

(* Where the tables of LC_SYMTAB and the names of the sections are. *)
LEMMA StringsPlaced ==
  ASSUME IInv, lpc = "done", Strings!Fits
  PROVE  /\ at["strings"] = plan.stroff /\ plan.stroff \in Int
         /\ Layout!Fits => plan.offset["str"] \in Int
<1>1. LayoutP!IInv /\ plan = LayoutP!PlanFor([wide |-> wide, nsyms |-> Len(symbols), strsize |-> needed, vmoff |-> vmoff])
  BY PiecesPlaced
<1>2. LayoutP!SymtabLocatesTables
  BY <1>1, LayoutAssumed, LayoutP!SymtabRight
<1>3. LayoutP!FieldsInRange
  BY <1>1 DEF LayoutP!IInv, LayoutP!TypeOK
<1>4. Word \in Nat
  BY DumpAssumption
<1>5. plan.stroff \in 0 .. Word - 1
  BY <1>3 DEF LayoutP!FieldsInRange
<1>6. plan.offset \in [LayoutP!Sections -> 0 .. Word - 1]
  BY <1>3 DEF LayoutP!FieldsInRange
<1>7. plan.offset["str"] \in 0 .. Word - 1
  BY <1>6 DEF LayoutP!Sections
<1>8. at["strings"] = plan.stroff
  BY <1>2 DEF LayoutP!SymtabLocatesTables
<1> QED  BY <1>4, <1>5, <1>7, <1>8

(* The name of a symbol, at its offset behind the begin of a copy. *)
LEMMA NameRead ==
  ASSUME IInv, lpc = "done", Strings!Fits, NEW k \in DOMAIN symbols, NEW piece, NEW pos,
         pos = at[piece], pos \in Int
  PROVE  /\ nameToOffset[symbols[k].name] \in Nat
         /\ StringAt(pos + nameToOffset[symbols[k].name], piece, symbols[k].name)
<1> DEFINE o == nameToOffset[symbols[k].name]
<1>1. symbols \in Inputs /\ spc = "done" /\ Strings!IInv
  BY PiecesPlaced
<1>2. o \in Nat /\ Strings!ReadsAs(buffer, o, symbols[k].name)
  BY <1>1, OffsetsGiven
<1> HIDE DEF o
<1>3. (pos + o) - at[piece] = o
  BY <1>2
<1>4. StringAt(pos + o, piece, symbols[k].name)
  BY <1>2, <1>3 DEF StringAt
<1> QED  BY <1>2, <1>4 DEF o

-----------------------------------------------------------------------------
(* What a reader finds. *)

(* LC_SYMTAB leads a reader to the symbol table and to its strings. *)
LEMMA SymbolsRecovered == IInv => EverySymbolRecovered
<1> SUFFICES ASSUME IInv, Strings!Fits, NEW file \in Files
             PROVE  /\ SymtabValue(file, "nsyms") = Len(symbols)
                    /\ \A k \in DOMAIN symbols :
                         /\ SymbolValue(file, k, "n_value") = symbols[k].base
                         /\ SymbolValue(file, k, "n_desc") = (IF wide THEN 0 ELSE N_ARM_THUMB_DEF)
                         /\ StringAt(SymtabValue(file, "stroff") + SymbolValue(file, k, "n_strx"),
                                     "strings", symbols[k].name)
  BY DEF EverySymbolRecovered
<1>1. lpc = "done" /\ file = ImageOf(LayoutOfImage, nlists, dies)
  BY FileIs
<1>2. Readable(LayoutOfImage, nlists, dies)
  BY <1>1, FinishedIsReadable
<1>3. LayoutOfImage.nsyms = Len(symbols) /\ LayoutOfImage.plan = plan
  BY LayoutIs
<1>4. SymtabValue(file, "nsyms") = Len(symbols) /\ SymtabValue(file, "stroff") = plan.stroff
  BY <1>1, <1>2, <1>3, SymtabIs
<1>5. ASSUME NEW k \in DOMAIN symbols
      PROVE  /\ SymbolValue(file, k, "n_value") = symbols[k].base
             /\ SymbolValue(file, k, "n_desc") = (IF wide THEN 0 ELSE N_ARM_THUMB_DEF)
             /\ StringAt(SymtabValue(file, "stroff") + SymbolValue(file, k, "n_strx"),
                         "strings", symbols[k].name)
  <2>1. symbols \in Inputs /\ TablesDumped /\ wide \in BOOLEAN
    BY <1>1, PiecesPlaced
  <2>2. k \in 1 .. Len(symbols)
    BY <2>1, SymbolsAre
  <2>3. nlists[k] = Nlist(k)
    BY <2>1, <2>2, TablesAre
  <2>4. /\ nlists[k].n_strx = nameToOffset[symbols[k].name] /\ nlists[k].n_value = symbols[k].base
        /\ nlists[k].thumb = ~wide
    BY <2>3 DEF Nlist
  <2>5. k \in 1 .. LayoutOfImage.nsyms
    BY <1>3, <2>2
  <2>6. /\ SymbolValue(file, k, "n_strx") = nlists[k].n_strx
        /\ SymbolValue(file, k, "n_value") = nlists[k].n_value
        /\ SymbolValue(file, k, "n_desc") = IF nlists[k].thumb THEN N_ARM_THUMB_DEF ELSE 0
    BY <1>1, <1>2, <2>5, SymbolIs
  <2>7. StringAt(plan.stroff + nameToOffset[symbols[k].name], "strings", symbols[k].name)
    BY <1>1, StringsPlaced, NameRead
  <2>8. SymbolValue(file, k, "n_desc") = (IF wide THEN 0 ELSE N_ARM_THUMB_DEF)
    BY <2>1, <2>4, <2>6
  <2> QED  BY <1>4, <2>4, <2>6, <2>7, <2>8
<1> QED  BY <1>4, <1>5

(* The section headers lead it to entries and abbreviations that fit        *)
(* together.                                                                *)
LEMMA FunctionsRecovered == IInv => EveryFunctionRecovered
<1> SUFFICES ASSUME IInv, NEW file \in FittingFiles
             PROVE  \A entries \in {UnitEntries(file, SectionNamed(file, "__debug_info"),
                                                SectionNamed(file, "__debug_abbrev"))} :
                      /\ Len(entries) = Len(symbols) + 1 /\ entries[1] = CompileUnit
                      /\ \A k \in DOMAIN symbols :
                           /\ entries[k + 1].tag = DW_TAG_subprogram /\ entries[k + 1].depth = 1
                           /\ entries[k + 1].values[DW_AT_low_pc] = symbols[k].base
                           /\ entries[k + 1].values[DW_AT_high_pc] = symbols[k].end
                           /\ StringAt(SectionNamed(file, "__debug_str").offset
                                         + entries[k + 1].values[DW_AT_name], "str", symbols[k].name)
  BY DEF EveryFunctionRecovered
<1>1. Strings!Fits /\ Layout!Fits /\ file \in Files
  BY DEF FittingFiles
<1>2. lpc = "done" /\ file = ImageOf(LayoutOfImage, nlists, dies)
  BY <1>1, FileIs
<1>3. Readable(LayoutOfImage, nlists, dies) /\ Announced(LayoutOfImage)
  BY <1>1, <1>2, FinishedIsReadable, FinishedIsAnnounced
<1>4. LayoutOfImage.nsyms = Len(symbols) /\ LayoutOfImage.plan = plan /\ LayoutOfImage.at = at
  BY LayoutIs
<1> DEFINE e == EntriesIn(file)
<1>5. /\ Len(e) = Len(symbols) + 1 /\ e[1] = TheUnit
      /\ \A k \in 1 .. Len(symbols) : SaysFunction(e[k + 1], dies[k])
  BY <1>2, <1>3, <1>4, FunctionsAreRecovered DEF TheUnit
<1>6. CompileUnit = TheUnit
  BY DEF CompileUnit, TheUnit
<1>7. SectionNamed(file, "__debug_str").offset = plan.offset["str"] /\ plan.offset["str"] = at["str"]
  <2>1. SectionNamed(file, "__debug_str") = [offset |-> plan.offset["str"], size |-> plan.length["str"]]
    BY <1>2, <1>3, <1>4, SectionIs, PartsAre DEF Parts
  <2> QED  BY <1>3, <1>4, <2>1 DEF Announced
<1>8. ASSUME NEW k \in DOMAIN symbols
      PROVE  /\ e[k + 1].tag = DW_TAG_subprogram /\ e[k + 1].depth = 1
             /\ e[k + 1].values[DW_AT_low_pc] = symbols[k].base
             /\ e[k + 1].values[DW_AT_high_pc] = symbols[k].end
             /\ StringAt(SectionNamed(file, "__debug_str").offset
                           + e[k + 1].values[DW_AT_name], "str", symbols[k].name)
  <2>1. symbols \in Inputs /\ TablesDumped
    BY <1>1, <1>2, PiecesPlaced
  <2>2. k \in 1 .. Len(symbols)
    BY <2>1, SymbolsAre
  <2>3. dies[k] = Die(k)
    BY <2>1, <2>2, TablesAre
  <2>4. /\ dies[k].low_pc = symbols[k].base /\ dies[k].high_pc = symbols[k].end
        /\ dies[k].name = nameToOffset[symbols[k].name]
    BY <2>3 DEF Die
  <2>5. StringAt(plan.offset["str"] + nameToOffset[symbols[k].name], "str", symbols[k].name)
    BY <1>1, <1>2, <1>7, StringsPlaced, NameRead
  <2>6. SaysFunction(e[k + 1], dies[k])
    BY <1>5, <2>2
  <2> HIDE DEF e
  <2> QED  BY <1>7, <2>4, <2>5, <2>6 DEF SaysFunction
<1>9. e = UnitEntries(file, SectionNamed(file, "__debug_info"), SectionNamed(file, "__debug_abbrev"))
  BY DEF EntriesIn
<1> HIDE DEF e
<1> QED  BY <1>5, <1>6, <1>8, <1>9

(* Both units end with their sections. *)
LEMMA UnitsFill == IInv => UnitsFillSections
<1> SUFFICES ASSUME IInv, NEW file \in FittingFiles
             PROVE  \A sect \in {SectionNamed(file, name) : name \in {"__debug_info", "__debug_line"}} :
                      UnitEnd(file, sect) = sect.offset + sect.size
  BY DEF UnitsFillSections
<1>1. Strings!Fits /\ Layout!Fits /\ file \in Files
  BY DEF FittingFiles
<1>2. lpc = "done" /\ file = ImageOf(LayoutOfImage, nlists, dies)
  BY <1>1, FileIs
<1>3. Readable(LayoutOfImage, nlists, dies) /\ Announced(LayoutOfImage)
  BY <1>1, <1>2, FinishedIsReadable, FinishedIsAnnounced
<1> QED  BY <1>2, <1>3, UnitsEnd

(* A reader that follows the load commands finds every symbol of the input  *)
(* with its own name, address and Thumb mark (symbol_table.h:32-42,         *)
(* macho.h:72-76), for any number of symbols and any names, shared or       *)
(* empty, in both widths.                                                   *)
THEOREM SymbolsAreFound == Spec => []EverySymbolRecovered
BY Inductive, SymbolsRecovered, PTL

(* A debugger that takes the sections from their headers and the fields     *)
(* from the abbreviations sees one unit with exactly the functions of the   *)
(* input, each with its range and its name                                  *)
(* (dwarf_debug_info_section.h:33-53,                                       *)
(* dwarf_debug_abbrev_section.cpp:20-32), for any number of functions.      *)
THEOREM FunctionsAreFound == Spec => []EveryFunctionRecovered
BY Inductive, FunctionsRecovered, PTL

(* The lengths of the units agree with the headers of their sections, in    *)
(* __debug_line in spite of the padding of DwarfDebugLine                   *)
(* (dwarf_debug_info_section.h:56,                                          *)
(* dwarf_dummy_debug_line_section.cpp:20-22), for any number of functions.  *)
THEOREM UnitsAreFilled == Spec => []UnitsFillSections
BY Inductive, UnitsFill, PTL
=============================================================================
