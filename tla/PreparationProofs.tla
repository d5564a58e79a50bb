------------------------- MODULE PreparationProofs -------------------------
(***************************************************************************)
(* Proofs about Preparation, for every binary, every listing of methods    *)
(* and every set of words that names of symbols contain.                   *)
(*                                                                         *)
(* The invariant of the whole run, FullInv, has one part for each program: *)
(* MethodsInv for the listing, Track for the position of macho-dump in the *)
(* file, Tally for what it has printed, Fed (with LoopInv) for the loop    *)
(* over the numbers, BaseParsed for the argument of the tool, and Control  *)
(* for what one function of main.py leaves to the next.                    *)
(***************************************************************************)
EXTENDS Preparation, LoaderStructsProofs, SequenceTheorems, TLAPS

Symbols == INSTANCE ObjcSymbolsProofs WITH
  Outputs <- {s.output : s \in Scenarios}, pc <- opc

-----------------------------------------------------------------------------
(* The formatting of the methods is that of ObjcSymbols, whose proofs are   *)
(* instantiated for the values they have inside the run.                    *)

(* The two instances have the same powers of 16, *)
LEMMA SamePower == Objc!Power = Symbols!Power
BY DEF Objc!Power, Symbols!Power

(* the same keys of lines, *)
LEMMA SameKeys == \A l : Objc!Key(l) = Symbols!Key(l)
BY SamePower DEF Objc!Key, Symbols!Key, Objc!HexDigits, Symbols!HexDigits, Objc!Padded, Symbols!Padded

(* the same assumption, *)
LEMMA SameAssumption == Objc!ObjcAssumption <=> Symbols!ObjcAssumption
BY SamePower DEF Objc!ObjcAssumption, Symbols!ObjcAssumption

(* the same initial states, *)
LEMMA SameBegin == \A output, w : Objc!Begin(output, w) <=> Symbols!Begin(output, w)
BY DEF Objc!Begin, Symbols!Begin, Objc!AddrWord, Symbols!AddrWord

(* the same types, *)
LEMMA SameType == Objc!TypeOK <=> Symbols!TypeOK
BY DEF Objc!TypeOK, Symbols!TypeOK, Objc!AddrWord, Symbols!AddrWord

(* the same steps of main.py, *)
LEMMA SamePrepare == Objc!Prepare => Symbols!Prepare
<1>1. Objc!Sort => Symbols!Sort
  BY SameKeys DEF Objc!Sort, Symbols!Sort, Objc!TextBefore, Symbols!TextBefore,
    Objc!Permutations, Symbols!Permutations
<1>2. Objc!ReadLine => Symbols!ReadLine
  BY DEF Objc!ReadLine, Symbols!ReadLine, Objc!Corrected, Symbols!Corrected,
    Objc!CloseLast, Symbols!CloseLast
<1>3. Objc!WriteRaw => Symbols!WriteRaw
  BY DEF Objc!WriteRaw, Symbols!WriteRaw, Objc!FakeSize, Symbols!FakeSize,
    Objc!CloseLast, Symbols!CloseLast
<1> QED  BY <1>1, <1>2, <1>3 DEF Objc!Prepare, Symbols!Prepare

(* the same steps of the tool, *)
LEMMA SameParse == Objc!Parse => Symbols!Parse
<1>1. Objc!ParseLine => Symbols!ParseLine
  BY DEF Objc!ParseLine, Symbols!ParseLine, Objc!OutOfRange, Symbols!OutOfRange,
    Objc!Stoull, Symbols!Stoull, Objc!AddrWord, Symbols!AddrWord
<1>2. Objc!Parsed => Symbols!Parsed
  BY DEF Objc!Parsed, Symbols!Parsed
<1> QED  BY <1>1, <1>2 DEF Objc!Parse, Symbols!Parse

(* and the same attribution of addresses. *)
LEMMA SameAttribution == Objc!EveryAddressAttributed <=> Symbols!EveryAddressAttributed
<1> USE DEF Objc!Entry, Symbols!Entry, Objc!Coded, Symbols!Coded
<1>1. \A a : Objc!InReach(a) <=> Symbols!InReach(a)
  BY DEF Objc!InReach, Symbols!InReach, Objc!FakeSize, Symbols!FakeSize, Objc!AddrWord, Symbols!AddrWord,
    Objc!Corrected, Symbols!Corrected
<1>2. \A a : Objc!AttributedRight(a) <=> Symbols!AttributedRight(a)
  BY DEF Objc!AttributedRight, Symbols!AttributedRight, Objc!Owners, Symbols!Owners,
    Objc!Holders, Symbols!Holders
<1> QED
  BY <1>1, <1>2 DEF Objc!EveryAddressAttributed, Symbols!EveryAddressAttributed,
    Objc!FakeSize, Symbols!FakeSize

(* What ObjcSymbolsProofs proves inductive. *)
MethodsInv == Symbols!IInv /\ Symbols!OrderInv

(* It holds in the beginning. *)
LEMMA InitMethods == Init => MethodsInv
<1> SUFFICES ASSUME Init PROVE MethodsInv
  OBVIOUS
<1>1. PICK s \in Scenarios : Objc!Begin(s.output, s.wide)
  BY DEF Init
<1>2. wide \in BOOLEAN
  BY <1>1, PreparationAssumption DEF Objc!Begin
<1>3. Symbols!Init
  BY <1>1, <1>2, SameBegin DEF Symbols!Init, Objc!Begin
<1> QED
  BY <1>3, PreparationAssumption, SameAssumption, Symbols!InitIInv, Symbols!InitOrder DEF MethodsInv

(* A step of the run is a step of ObjcSymbols or leaves it alone. *)
LEMMA StepOfMethods == [Next]_vars => [Symbols!Prepare \/ Symbols!Parse]_Symbols!vars
BY SamePrepare, SameParse DEF Next, vars, objcVars, Symbols!vars, CheckMagic, ExtractSymbols, RunMachoDump,
  ExtractUuid, GrepNumbers, CalculateBase, ParseVmbase, ParseSymbols, CheckUuid, Ended

(* Every step keeps it, the steps of the others without touching its variables. *)
LEMMA NextMethods == MethodsInv /\ [Next]_vars => MethodsInv'
<1> SUFFICES ASSUME MethodsInv, [Next]_vars PROVE MethodsInv'
  OBVIOUS
<1>1. Symbols!ObjcAssumption /\ Symbols!TypeOK
  BY PreparationAssumption, SameAssumption DEF MethodsInv, Symbols!IInv
<1> QED
  BY <1>1, StepOfMethods, Symbols!NextIInv, Symbols!NextOrder DEF MethodsInv

(* It always holds. *)
LEMMA MethodsKept == Spec => []MethodsInv
BY InitMethods, NextMethods, PTL DEF Spec

(* ObjcSymbols: whatever is prepared around it, every address of an          *)
(* instruction belongs to the function that begins last before it.          *)
THEOREM AllAddressesAttributed == Spec => []Symbols!AttributedEverywhere
<1>1. MethodsInv => Symbols!AttributedEverywhere
  BY PreparationAssumption, SameAssumption, Symbols!AttributionFollows DEF MethodsInv
<1> QED
  BY <1>1, MethodsKept, PTL

(* The same of the addresses next to the functions, which a run checks.     *)
THEOREM AddressesAttributed == Spec => []EveryAddressAttributed
<1>1. MethodsInv => EveryAddressAttributed
  BY PreparationAssumption, SameAssumption, SameAttribution, Symbols!AttributionFollows,
    Symbols!SelectionFollows DEF MethodsInv, EveryAddressAttributed
<1> QED
  BY <1>1, MethodsKept, PTL

-----------------------------------------------------------------------------
(* Concatenation.  FlattenSeq is defined by recursion over a sequence.      *)

(* f[i] is the first i sequences of s, one behind the other. *)
Flat(f, s, n) == f = [i \in 1 .. n |-> IF i = 1 THEN s[i] ELSE f[i - 1] \o s[i]]

(* The function FlattenSeq is defined by exists. *)
LEMMA FlatExists ==
  ASSUME NEW s, NEW n \in Nat
  PROVE  \E f : Flat(f, s, n)
<1> DEFINE S == {m \in Nat : \E f : Flat(f, s, m)}
<1>1. 0 \in S
  <2>1. Flat([i \in 1 .. 0 |-> 0], s, 0)
    BY DEF Flat
  <2> QED  BY <2>1
<1>2. ASSUME NEW m \in S PROVE m + 1 \in S
  <2>1. PICK f : Flat(f, s, m)
    OBVIOUS
  <2> DEFINE e == IF m + 1 = 1 THEN s[m + 1] ELSE f[m] \o s[m + 1]
             g == [i \in 1 .. m + 1 |-> IF i = m + 1 THEN e ELSE f[i]]
  <2>2. \A i \in 1 .. m : f[i] = IF i = 1 THEN s[i] ELSE f[i - 1] \o s[i]
    BY <2>1 DEF Flat
  <2>3. ASSUME NEW i \in 1 .. m + 1
        PROVE  g[i] = IF i = 1 THEN s[i] ELSE g[i - 1] \o s[i]
    <3>1. CASE i = m + 1
      <4>1. g[i] = e /\ (i # 1 => g[i - 1] = f[m])
        BY <3>1
      <4> QED  BY <3>1, <4>1
    <3>2. CASE i # m + 1
      <4>1. i \in 1 .. m /\ (i # 1 => i - 1 \in 1 .. m + 1 /\ i - 1 # m + 1)
        BY <3>2
      <4>2. g[i] = f[i] /\ (i # 1 => g[i - 1] = f[i - 1])
        BY <4>1, <3>2
      <4> HIDE DEF g
      <4> QED  BY <4>1, <4>2, <2>2
    <3> QED  BY <3>1, <3>2
  <2>4. Flat(g, s, m + 1)
    <3>1. g = [i \in 1 .. m + 1 |-> g[i]]
      OBVIOUS
    <3> HIDE DEF g
    <3> QED  BY <2>3, <3>1 DEF Flat
  <2> HIDE DEF g
  <2> QED  BY <2>4
<1>3. S = Nat
  <2> HIDE DEF S
  <2>1. S \in SUBSET Nat
    BY DEF S
  <2> QED  BY <1>1, <1>2, <2>1, Induction
<1> QED  BY <1>3

(* Two sequences that begin alike are joined alike as far as that. *)
LEMMA FlatDetermined ==
  ASSUME NEW s, NEW t, NEW m \in Nat, NEW n \in Nat, m <= n, \A i \in 1 .. m : s[i] = t[i],
         NEW f, NEW g, Flat(f, s, m), Flat(g, t, n)
  PROVE  \A i \in 1 .. m : f[i] = g[i]
<1> DEFINE S == {d \in Nat : d + 1 <= m => f[d + 1] = g[d + 1]}
<1>0. /\ \A i \in 1 .. m : f[i] = IF i = 1 THEN s[i] ELSE f[i - 1] \o s[i]
      /\ \A i \in 1 .. n : g[i] = IF i = 1 THEN t[i] ELSE g[i - 1] \o t[i]
  BY DEF Flat
<1>1. 0 \in S
  BY <1>0
<1>2. ASSUME NEW d \in S PROVE d + 1 \in S
  <2> SUFFICES ASSUME (d + 1) + 1 <= m PROVE f[(d + 1) + 1] = g[(d + 1) + 1]
    OBVIOUS
  <2>1. /\ (d + 1) + 1 \in 1 .. m /\ (d + 1) + 1 \in 1 .. n /\ (d + 1) + 1 # 1
        /\ ((d + 1) + 1) - 1 = d + 1 /\ d + 1 <= m
    OBVIOUS
  <2> QED  BY <1>0, <2>1
<1>3. S = Nat
  <2> HIDE DEF S
  <2>1. S \in SUBSET Nat
    BY DEF S
  <2> QED  BY <1>1, <1>2, <2>1, Induction
<1>4. ASSUME NEW i \in 1 .. m PROVE f[i] = g[i]
  <2>1. i - 1 \in Nat /\ (i - 1) + 1 = i /\ (i - 1) + 1 <= m
    OBVIOUS
  <2>2. \A d \in Nat : d + 1 <= m => f[d + 1] = g[d + 1]
    BY <1>3
  <2> HIDE DEF S
  <2> QED  BY <2>1, <2>2
<1> QED  BY <1>4

(* The first n sequences, one behind the other. *)
Concat(s, n) == FlattenSeq([k \in 1 .. n |-> s[k]])

(* Of no sequences, nothing. *)
LEMMA ConcatNone ==
  ASSUME NEW s
  PROVE  Concat(s, 0) = <<>>
<1>1. [k \in 1 .. 0 |-> s[k]] = <<>>
  OBVIOUS
<1> QED  BY <1>1 DEF Concat, FlattenSeq

(* Concat ends with its last sequence. *)
LEMMA ConcatFlat ==
  ASSUME NEW s, NEW n \in Nat \ {0}
  PROVE  \E f : Flat(f, s, n) /\ Concat(s, n) = f[n]
<1> DEFINE t == [k \in 1 .. n |-> s[k]]
           Rec(f) == f = [i \in 1 .. n |-> IF i = 1 THEN t[i] ELSE f[i - 1] \o t[i]]
           g == CHOOSE f : Rec(f)
<1>1. Len(t) = n
  OBVIOUS
<1>2. \A f : Rec(f) <=> Flat(f, s, n)
  <2>1. \A i \in 1 .. n : t[i] = s[i]
    OBVIOUS
  <2>2. \A f : [i \in 1 .. n |-> IF i = 1 THEN t[i] ELSE f[i - 1] \o t[i]]
                 = [i \in 1 .. n |-> IF i = 1 THEN s[i] ELSE f[i - 1] \o s[i]]
    BY <2>1
  <2> QED  BY <2>2 DEF Flat
<1>3. Rec(g)
  <2> HIDE DEF Rec
  <2> QED  BY <1>2, FlatExists
<1>4. Concat(s, n) = g[n]
  BY <1>1 DEF Concat, FlattenSeq
<1> HIDE DEF g, Rec
<1> QED  BY <1>2, <1>3, <1>4

(* Of one sequence, that one. *)
LEMMA ConcatOne ==
  ASSUME NEW S, NEW s, s[1] \in Seq(S)
  PROVE  Concat(s, 1) = s[1]
<1>1. PICK f : Flat(f, s, 1) /\ Concat(s, 1) = f[1]
  BY ConcatFlat
<1> QED  BY <1>1 DEF Flat

(* Two sequences joined are a sequence. *)
LEMMA JoinIsSequence ==
  ASSUME NEW S, NEW a \in Seq(S), NEW b \in Seq(S)
  PROVE  a \o b \in Seq(S)
OBVIOUS

(* One more sequence, behind at least one. *)
LEMMA ConcatLonger ==
  ASSUME NEW s, NEW n \in Nat \ {0}
  PROVE  Concat(s, n + 1) = Concat(s, n) \o s[n + 1]
<1>1. PICK f : Flat(f, s, n) /\ Concat(s, n) = f[n]
  BY ConcatFlat
<1>2. PICK g : Flat(g, s, n + 1) /\ Concat(s, n + 1) = g[n + 1]
  BY ConcatFlat
<1>3. f[n] = g[n]
  <2>1. n \in Nat /\ n + 1 \in Nat /\ n <= n + 1 /\ n \in 1 .. n
    OBVIOUS
  <2>2. \A i \in 1 .. n : f[i] = g[i]
    BY SMTT(30), <1>1, <1>2, <2>1, FlatDetermined
  <2> QED  BY <2>1, <2>2
<1>4. g[n + 1] = g[n] \o s[n + 1]
  <2>1. \A i \in 1 .. n + 1 : g[i] = IF i = 1 THEN s[i] ELSE g[i - 1] \o s[i]
    BY <1>2 DEF Flat
  <2>2. n + 1 \in 1 .. n + 1 /\ n + 1 # 1 /\ (n + 1) - 1 = n
    OBVIOUS
  <2> QED  BY <2>1, <2>2
<1> QED  BY <1>1, <1>2, <1>3, <1>4

(* One more sequence. *)
LEMMA ConcatNext ==
  ASSUME NEW S, NEW s, NEW n \in Nat, \A k \in 1 .. n + 1 : s[k] \in Seq(S)
  PROVE  Concat(s, n) \in Seq(S) /\ Concat(s, n + 1) = Concat(s, n) \o s[n + 1]
<1> DEFINE T == {m \in Nat : m <= n => Concat(s, m) \in Seq(S)}
<1>1. 0 \in T
  <2>1. Concat(s, 0) = <<>>
    BY ConcatNone
  <2>2. <<>> \in Seq(S)
    OBVIOUS
  <2> QED  BY <2>1, <2>2
<1>2. ASSUME NEW m \in T PROVE m + 1 \in T
  <2> SUFFICES ASSUME m + 1 <= n PROVE Concat(s, m + 1) \in Seq(S)
    OBVIOUS
  <2>1. s[m + 1] \in Seq(S) /\ Concat(s, m) \in Seq(S)
    OBVIOUS
  <2>2. CASE m = 0
    BY <2>1, <2>2, ConcatOne
  <2>3. CASE m # 0
    <3>1. Concat(s, m + 1) = Concat(s, m) \o s[m + 1]
      BY <2>3, ConcatLonger
    <3>2. Concat(s, m) \o s[m + 1] \in Seq(S)
      BY <2>1, JoinIsSequence
    <3> QED  BY <3>1, <3>2
  <2> QED  BY <2>2, <2>3
<1>3. T = Nat
  <2> HIDE DEF T
  <2>1. T \in SUBSET Nat
    BY DEF T
  <2> QED  BY <1>1, <1>2, <2>1, Induction
<1>4. Concat(s, n) \in Seq(S)
  BY <1>3
<1>5. CASE n = 0
  <2>1. Concat(s, n) = <<>> /\ s[1] \in Seq(S)
    BY <1>5, ConcatNone
  <2>2. Concat(s, 1) = s[1]
    BY <2>1, ConcatOne
  <2>3. <<>> \o s[1] = s[1]
    BY <2>1
  <2> QED  BY <1>4, <1>5, <2>1, <2>2, <2>3
<1>6. CASE n # 0
  BY <1>4, <1>6, ConcatLonger
<1> QED  BY <1>5, <1>6

(* What does not depend on the sequences behind the first n. *)
LEMMA ConcatEqual ==
  ASSUME NEW s, NEW t, NEW n \in Nat, \A k \in 1 .. n : s[k] = t[k]
  PROVE  Concat(s, n) = Concat(t, n)
<1>1. [k \in 1 .. n |-> s[k]] = [k \in 1 .. n |-> t[k]]
  OBVIOUS
<1> QED  BY <1>1 DEF Concat

(* FlattenSeq of MachoReader is the one used here. *)
LEMMA SameFlatten == \A s : Dump!FlattenSeq(s) = FlattenSeq(s)
BY DEF Dump!FlattenSeq, FlattenSeq

(* So is OffsetOf. *)
LEMMA SameOffset == \A struct, k : Dump!OffsetOf(struct, k) = OffsetOf(struct, k)
BY DEF Dump!OffsetOf, OffsetOf, Dump!MapThenSumSet, MapThenSumSet, Dump!MapThenFoldSet, MapThenFoldSet

-----------------------------------------------------------------------------
(* Structures that are where a reader looks for them. *)

(* Every member is in its place, with these values. *)
Placed(file, pos, struct, values) ==
  \A k \in DOMAIN struct : /\ Holds(file, pos, struct, k)
                           /\ file[pos + OffsetOf(struct, k)].value = values[struct[k].name]

(* What was written at a place, and is not touched by anything else, is     *)
(* there.                                                                   *)
LEMMA CellsArePlaced ==
  ASSUME NEW struct, Structure(struct), NEW values, NEW pos \in Int,
         NEW cells, NEW lo, NEW hi, Apart(cells, lo, hi), Cells(struct, values, pos) \subseteq cells
  PROVE  Placed(Contents(cells), pos, struct, values)
<1> SUFFICES ASSUME NEW k \in DOMAIN struct
             PROVE  /\ Holds(Contents(cells), pos, struct, k)
                    /\ Contents(cells)[pos + OffsetOf(struct, k)].value = values[struct[k].name]
  BY DEF Placed
<1> DEFINE c == [at |-> pos + OffsetOf(struct, k), name |-> struct[k].name,
                 width |-> struct[k].width, value |-> values[struct[k].name]]
<1>1. c \in cells
  BY DEF Cells
<1>2. c.at \in DOMAIN Contents(cells) /\ Contents(cells)[c.at] = c
  <2> HIDE DEF c
  <2> QED  BY <1>1, ContentsHold
<1> QED  BY <1>2 DEF Holds

(* A member that is in its place is read with its value. *)
LEMMA PlacedIsRead ==
  ASSUME NEW file, NEW pos, NEW struct, NEW values, Placed(file, pos, struct, values),
         NEW name \in MemberNames(struct)
  PROVE  ValueAt(file, pos, struct, name) = values[name]
<1> DEFINE k == IndexOf(struct, name)
<1>1. k \in DOMAIN struct /\ struct[k].name = name
  BY DEF IndexOf, MemberNames
<1>2. Holds(file, pos, struct, k) /\ file[pos + OffsetOf(struct, k)].value = values[name]
  BY <1>1 DEF Placed
<1> HIDE DEF k
<1> QED  BY <1>2 DEF ValueAt, k

(* The parts of a structure that is read in two steps. *)
LEMMA PlacedParts ==
  ASSUME NEW file, NEW pos \in Int, NEW head, NEW tail, Structure(head), Structure(tail), NEW values,
         Placed(file, pos, head \o tail, values)
  PROVE  /\ Placed(file, pos, head, values)
         /\ Placed(file, pos + SizeOf(head), tail, values)
<1> DEFINE s == head \o tail
<1>1. /\ Len(head) \in Nat /\ Len(tail) \in Nat /\ Len(s) = Len(head) + Len(tail)
      /\ DOMAIN head = 1 .. Len(head) /\ DOMAIN tail = 1 .. Len(tail) /\ DOMAIN s = 1 .. Len(s)
      /\ \A k \in 1 .. Len(head) : s[k] = head[k]
      /\ \A k \in 1 .. Len(tail) : s[Len(head) + k] = tail[k]
  BY StructureJoin DEF Structure
<1>2. /\ \A k \in 1 .. Len(head) + 1 : OffsetOf(s, k) = OffsetOf(head, k)
      /\ \A k \in 1 .. Len(tail) + 1 : OffsetOf(s, Len(head) + k) = SizeOf(head) + OffsetOf(tail, k)
      /\ \A k \in 1 .. Len(tail) + 1 : OffsetOf(tail, k) \in Nat
      /\ SizeOf(head) \in Nat
  <2>1. Len(head) + 1 \in 1 .. Len(head) + 1
    BY <1>1
  <2> QED  BY SMTT(30), <2>1, OffsetOfJoin, OffsetsIncrease DEF SizeOf
<1>3. \A k \in DOMAIN s : /\ pos + OffsetOf(s, k) \in DOMAIN file
                          /\ file[pos + OffsetOf(s, k)].name = s[k].name
                          /\ file[pos + OffsetOf(s, k)].width = s[k].width
                          /\ file[pos + OffsetOf(s, k)].value = values[s[k].name]
  BY DEF Placed, Holds
<1> HIDE DEF s
<1>4. ASSUME NEW k \in DOMAIN head
      PROVE  /\ pos + OffsetOf(head, k) \in DOMAIN file
             /\ file[pos + OffsetOf(head, k)].name = head[k].name
             /\ file[pos + OffsetOf(head, k)].width = head[k].width
             /\ file[pos + OffsetOf(head, k)].value = values[head[k].name]
  <2>1. k \in DOMAIN s /\ s[k] = head[k] /\ OffsetOf(s, k) = OffsetOf(head, k)
    BY <1>1, <1>2
  <2> QED  BY <1>3, <2>1
<1>5. ASSUME NEW k \in DOMAIN tail
      PROVE  LET p == (pos + SizeOf(head)) + OffsetOf(tail, k)
             IN p \in DOMAIN file /\ file[p].name = tail[k].name /\ file[p].width = tail[k].width
                /\ file[p].value = values[tail[k].name]
  <2>1. Len(head) + k \in DOMAIN s /\ s[Len(head) + k] = tail[k]
    BY <1>1
  <2>2. OffsetOf(s, Len(head) + k) = SizeOf(head) + OffsetOf(tail, k) /\ OffsetOf(tail, k) \in Nat
    BY <1>1, <1>2
  <2>3. pos + (SizeOf(head) + OffsetOf(tail, k)) = (pos + SizeOf(head)) + OffsetOf(tail, k)
    BY <1>2, <2>2
  <2> QED  BY <1>3, <2>1, <2>2, <2>3
<1> QED  BY <1>4, <1>5 DEF Placed, Holds

(* Brackets do not matter. *)
LEMMA StructureIsSequence ==
  ASSUME NEW s, Structure(s), NEW S, \A k \in 1 .. Len(s) : s[k] \in S
  PROVE  s \in Seq(S)
BY DEF Structure

(* Three structures are joined in any order. *)
LEMMA JoinAssoc ==
  ASSUME NEW a, NEW b, NEW c, Structure(a), Structure(b), Structure(c)
  PROVE  (a \o b) \o c = a \o (b \o c)
<1> DEFINE S == {a[k] : k \in 1 .. Len(a)} \cup {b[k] : k \in 1 .. Len(b)} \cup {c[k] : k \in 1 .. Len(c)}
<1>1. /\ \A k \in 1 .. Len(a) : a[k] \in S
      /\ \A k \in 1 .. Len(b) : b[k] \in S
      /\ \A k \in 1 .. Len(c) : c[k] \in S
  OBVIOUS
<1> HIDE DEF S
<1>2. a \in Seq(S) /\ b \in Seq(S) /\ c \in Seq(S)
  BY <1>1, StructureIsSequence
<1> QED  BY <1>2, ConcatAssociative

(* A structure of two parts, the second of which has these members. *)
Splits(struct, head, tail, size, names) ==
  /\ Structure(head) /\ struct = head \o tail
  /\ Declares(tail, size, names)

(* The members of the parts are members of the whole. *)
LEMMA NamesOfTail ==
  ASSUME NEW struct, NEW head, NEW tail, NEW size, NEW names, Splits(struct, head, tail, size, names)
  PROVE  names \subseteq MemberNames(struct) /\ MemberNames(head) \subseteq MemberNames(struct)
<1>1. Structure(head) /\ Structure(tail) /\ struct = head \o tail /\ names \subseteq MemberNames(tail)
  BY DEF Splits, Declares
<1>2. /\ Len(head) \in Nat /\ Len(tail) \in Nat /\ Len(struct) = Len(head) + Len(tail)
      /\ DOMAIN head = 1 .. Len(head) /\ DOMAIN tail = 1 .. Len(tail) /\ DOMAIN struct = 1 .. Len(struct)
      /\ \A k \in 1 .. Len(head) : struct[k] = head[k]
      /\ \A k \in 1 .. Len(tail) : struct[Len(head) + k] = tail[k]
  BY <1>1, StructureJoin DEF Structure
<1>3. \A k \in DOMAIN tail : Len(head) + k \in DOMAIN struct /\ struct[Len(head) + k] = tail[k]
  BY <1>2
<1>4. \A k \in DOMAIN head : k \in DOMAIN struct /\ struct[k] = head[k]
  BY <1>2
<1>5. MemberNames(tail) \subseteq MemberNames(struct)
  BY <1>3 DEF MemberNames
<1>6. MemberNames(head) \subseteq MemberNames(struct)
  BY <1>4 DEF MemberNames
<1> QED  BY <1>1, <1>5, <1>6

-----------------------------------------------------------------------------
(* What the functions of macho-dump.py read is what mach-o/loader.h and      *)
(* nlist.h declare.                                                         *)

(* The reader's lists are made as structures are. *)
LEMMA SameWords ==
  /\ \A names : Dump!Words(names) = Words(names)
  /\ \A names, width : Dump!Members(names, width) = Members(names, width)
  /\ \A name : Dump!Name16(name) = Name16(name)
  /\ \A w : Dump!Long(w) = Long(w)
BY DEF Dump!Words, Words, Dump!Members, Members, Dump!Name16, Name16, Dump!Member, Member, Dump!Long, Long

(* The reader's sizes and offsets are those of the structures. *)
LEMMA SameReading ==
  /\ \A struct : Dump!SizeOf(struct) = SizeOf(struct)
  /\ \A file, pos, struct, k : Dump!Holds(file, pos, struct, k) <=> Holds(file, pos, struct, k)
  /\ \A file, pos, struct, name : Dump!ValueAt(file, pos, struct, name) = ValueAt(file, pos, struct, name)
BY SameOffset DEF Dump!SizeOf, SizeOf, Dump!Holds, Holds, Dump!ValueAt, ValueAt, Dump!IndexOf, IndexOf,
  Dump!Misread, Misread

(* dumpLoadCommand reads load_command. *)
LEMMA CommandListIs == Dump!CommandList = load_command
BY SameWords DEF Dump!CommandList, load_command

(* load_command is two words. *)
LEMMA HeadIs == Structure(load_command) /\ SizeOf(load_command) = 8 /\ {"cmd", "cmdsize"} \subseteq MemberNames(load_command)
BY LoadCommandDeclared DEF Declares

(* In mach_header, the magic is read before the width is known. *)
LEMMA HeaderListIs ==
  ASSUME NEW w \in BOOLEAN
  PROVE  Dump!Words(<<"magic">>) \o Dump!HeaderList(w) = MachHeader(w)
<1> DEFINE six == <<"cputype", "cpusubtype", "filetype", "ncmds", "sizeofcmds", "flags">>
           seven == <<"magic", "cputype", "cpusubtype", "filetype", "ncmds", "sizeofcmds", "flags">>
           one == <<"magic">>
           last == <<"reserved">>
<1>1. Lists(one, 1, {}) /\ Lists(six, 6, {})
  BY DEF Lists
<1>2. Lists(seven, 7, {}) /\ Lists(last, 1, {})
  BY DEF Lists
<1>3. seven[1] = one[1] /\ \A k \in 1 .. 6 : seven[1 + k] = six[k]
  <2>1. \A k \in 1 .. 6 : k = 1 \/ k = 2 \/ k = 3 \/ k = 4 \/ k = 5 \/ k = 6
    OBVIOUS
  <2>2. seven[1] = one[1] /\ seven[2] = six[1] /\ seven[3] = six[2] /\ seven[4] = six[3]
        /\ seven[5] = six[4] /\ seven[6] = six[5] /\ seven[7] = six[6]
    OBVIOUS
  <2> HIDE DEF six, seven, one
  <2> QED  BY <2>1, <2>2
<1>4. /\ Dump!HeaderList(w) = Words(six) \o IF w THEN Words(last) ELSE <<>>
      /\ mach_header = Words(seven) /\ mach_header_64 = Words(seven) \o Words(last)
      /\ Dump!Words(<<"magic">>) = Words(one)
  BY SameWords DEF Dump!HeaderList, mach_header, mach_header_64
<1> HIDE DEF six, seven, one, last
<1>5. /\ Structure(Words(one)) /\ Structure(Words(six)) /\ Structure(Words(seven)) /\ Structure(Words(last))
      /\ Len(Words(one)) = 1 /\ Len(Words(six)) = 6 /\ Len(Words(seven)) = 7
      /\ Words(one)[1] = Member(one[1], 4)
      /\ \A k \in 1 .. 6 : Words(six)[k] = Member(six[k], 4)
      /\ \A k \in 1 .. 7 : Words(seven)[k] = Member(seven[k], 4)
  <2>1. \A list, n : Lists(list, n, {}) =>
          /\ Structure(Words(list)) /\ Len(Words(list)) = n
          /\ \A k \in 1 .. n : Words(list)[k] = Member(list[k], 4)
    BY MembersAre DEF Words
  <2>2. 1 \in 1 .. 1
    OBVIOUS
  <2>3. Structure(Words(one)) /\ Len(Words(one)) = 1 /\ Words(one)[1] = Member(one[1], 4)
    BY <1>1, <2>1, <2>2
  <2>4. Structure(Words(six)) /\ Len(Words(six)) = 6 /\ \A k \in 1 .. 6 : Words(six)[k] = Member(six[k], 4)
    BY <1>1, <2>1
  <2>5. Structure(Words(seven)) /\ Len(Words(seven)) = 7 /\ \A k \in 1 .. 7 : Words(seven)[k] = Member(seven[k], 4)
    BY <1>2, <2>1
  <2>6. Structure(Words(last))
    BY <1>2, <2>1
  <2> QED  BY <2>3, <2>4, <2>5, <2>6
<1>6. Words(one) \o Words(six) = Words(seven)
  <2> DEFINE s == Words(one) \o Words(six)
             t == Words(seven)
  <2>1. /\ Structure(s) /\ Len(s) = 7
        /\ s[1] = Words(one)[1] /\ \A k \in 1 .. 6 : s[1 + k] = Words(six)[k]
    <3> DEFINE x == Words(one)
               y == Words(six)
    <3>1. Structure(x) /\ Structure(y) /\ Len(x) = 1 /\ Len(y) = 6
      BY <1>5
    <3> HIDE DEF t, x, y
    <3>2. /\ Structure(x \o y) /\ Len(x \o y) = Len(x) + Len(y)
          /\ \A k \in 1 .. Len(x) : (x \o y)[k] = x[k]
          /\ \A k \in 1 .. Len(y) : (x \o y)[Len(x) + k] = y[k]
      <4>1. Structure(x) /\ Structure(y)
        BY <3>1
      <4> HIDE DEF s
      <4>2. \A a, b : Structure(a) /\ Structure(b) =>
              /\ Structure(a \o b) /\ Len(a \o b) = Len(a) + Len(b)
              /\ \A k \in 1 .. Len(a) : (a \o b)[k] = a[k]
              /\ \A k \in 1 .. Len(b) : (a \o b)[Len(a) + k] = b[k]
        BY StructureJoin
      <4> QED  BY <4>1, <4>2
    <3>3. s = x \o y
      BY DEF x, y
    <3>4. x[1] = (x \o y)[1] /\ \A k \in 1 .. 6 : (x \o y)[1 + k] = y[k]
      BY <3>1, <3>2
    <3> HIDE DEF s
    <3> QED  BY <3>1, <3>2, <3>3, <3>4 DEF x, y
  <2>2. \A k \in 1 .. 7 : k = 1 \/ (k - 1 \in 1 .. 6 /\ 1 + (k - 1) = k)
    OBVIOUS
  <2>3. \A k \in 1 .. 6 : s[1 + k] = t[1 + k]
    <3>1. \A k \in 1 .. 6 : 1 + k \in 1 .. 7
      OBVIOUS
    <3> HIDE DEF s
    <3> QED  BY <3>1, <2>1, <1>5, <1>3
  <2>4. s[1] = t[1]
    BY <2>1, <1>5, <1>3
  <2>5. Structure(t) /\ Len(t) = 7
    BY <1>5
  <2> HIDE DEF s, t
  <2>6. \A k \in 1 .. 7 : s[k] = t[k]
    BY <2>2, <2>3, <2>4
  <2>7. s = [k \in 1 .. 7 |-> s[k]] /\ t = [k \in 1 .. 7 |-> t[k]]
    BY <2>1, <2>5 DEF Structure
  <2>8. s = t
    BY <2>6, <2>7
  <2> QED  BY <2>8 DEF s, t
<1>7. CASE w
  <2>1. Words(one) \o (Words(six) \o Words(last)) = (Words(one) \o Words(six)) \o Words(last)
    <3>1. Structure(Words(one)) /\ Structure(Words(six)) /\ Structure(Words(last))
      BY <1>5
    <3> QED  BY <3>1, JoinAssoc
  <2> QED  BY <1>4, <1>6, <1>7, <2>1 DEF MachHeader
<1>8. CASE ~w
  <2>1. Words(six) \o <<>> = Words(six)
    <3>1. Words(six) = [k \in 1 .. 6 |-> Words(six)[k]] /\ \A k \in 1 .. 6 : Words(six)[k] \in {Words(six)[j] : j \in 1 .. 6}
      BY <1>5 DEF Structure
    <3>2. Words(six) \in Seq({Words(six)[j] : j \in 1 .. 6})
      BY <1>5, <3>1, StructureIsSequence
    <3> QED  BY <3>2
  <2> QED  BY <1>4, <1>6, <1>8, <2>1 DEF MachHeader
<1> QED  BY <1>7, <1>8

(* The members of a header dumpmacho uses. *)
LEMMA HeaderHas ==
  ASSUME NEW w \in BOOLEAN
  PROVE  {"magic", "ncmds", "sizeofcmds"} \subseteq MemberNames(MachHeader(w))
<1> DEFINE list == <<"magic", "cputype", "cpusubtype", "filetype", "ncmds", "sizeofcmds", "flags">>
           names == {"magic", "ncmds", "sizeofcmds"}
<1>1. Lists(list, 7, names)
  <2>1. list[1] = "magic" /\ list[5] = "ncmds" /\ list[6] = "sizeofcmds" /\ 1 \in 1 .. 7 /\ 5 \in 1 .. 7 /\ 6 \in 1 .. 7
    OBVIOUS
  <2>2. Len(list) = 7 /\ list = [k \in 1 .. 7 |-> list[k]]
    OBVIOUS
  <2> HIDE DEF list
  <2> QED  BY <2>1, <2>2 DEF Lists
<1>2. mach_header = Words(list)
  BY DEF mach_header
<1> HIDE DEF list, names
<1>3. Declares(mach_header, 7 * 4, names)
  BY <1>1, <1>2, DeclaresWords
<1>4. Lists(<<"reserved">>, 1, {})
  BY DEF Lists
<1>5. Declares(Words(<<"reserved">>), 1 * 4, {})
  BY <1>4, DeclaresWords
<1>6. Declares(mach_header_64, 7 * 4 + 1 * 4, names \cup {})
  BY <1>3, <1>5, DeclaresJoin DEF mach_header_64
<1>7. names \subseteq MemberNames(MachHeader(w))
  BY <1>3, <1>6 DEF Declares, MachHeader
<1> QED  BY <1>7 DEF names

(* dumpUuid reads what uuid_command has behind its head. *)
LEMMA UuidListIs == Splits(uuid_command, load_command, Dump!Name16("uuid"), 16, {"uuid"})
BY DeclaresName, SameWords, HeadIs DEF Splits, uuid_command

(* dumpSymtabCommand reads what symtab_command has behind its head. *)
LEMMA SymtabListIs ==
  Splits(symtab_command, load_command, Dump!SymtabList, 16, {"symoff", "nsyms", "stroff", "strsize"})
<1> DEFINE list == <<"symoff", "nsyms", "stroff", "strsize">>
           names == {"symoff", "nsyms", "stroff", "strsize"}
<1>1. Lists(list, 4, names)
  BY DEF Lists
<1>2. symtab_command = load_command \o Words(list) /\ Dump!SymtabList = Words(list)
  BY SameWords DEF symtab_command, Dump!SymtabList
<1> HIDE DEF list, names
<1>3. Declares(Words(list), 4 * 4, names)
  BY <1>1, DeclaresWords
<1>4. Splits(symtab_command, load_command, Dump!SymtabList, 16, names)
  BY <1>2, <1>3, HeadIs DEF Splits
<1> QED  BY <1>4 DEF names

(* dumpDysymtabCommand reads what dysymtab_command has behind its head. *)
LEMMA DysymtabListIs ==
  Splits(dysymtab_command, load_command, Dump!DysymtabList, 72, {"indirectsymoff", "nindirectsyms"})
<1> DEFINE list == <<"ilocalsym", "nlocalsym", "iextdefsym", "nextdefsym", "iundefsym",
                     "nundefsym", "tocoff", "ntoc", "modtaboff", "nmodtab", "extrefsymoff",
                     "nextrefsyms", "indirectsymoff", "nindirectsyms", "extreloff",
                     "nextrel", "locreloff", "nlocrel">>
           names == {"indirectsymoff", "nindirectsyms"}
<1>1. Lists(list, 18, names)
  <2>1. list[13] = "indirectsymoff" /\ list[14] = "nindirectsyms" /\ 13 \in 1 .. 18 /\ 14 \in 1 .. 18
    OBVIOUS
  <2>2. Len(list) = 18 /\ list = [k \in 1 .. 18 |-> list[k]]
    OBVIOUS
  <2> HIDE DEF list
  <2> QED  BY <2>1, <2>2 DEF Lists
<1>2. dysymtab_command = load_command \o Words(list) /\ Dump!DysymtabList = Words(list)
  BY SameWords DEF dysymtab_command, Dump!DysymtabList
<1> HIDE DEF list, names
<1>3. Declares(Words(list), 18 * 4, names)
  BY <1>1, DeclaresWords
<1>4. Splits(dysymtab_command, load_command, Dump!DysymtabList, 72, names)
  BY <1>2, <1>3, HeadIs DEF Splits
<1> QED  BY <1>4 DEF names

(* dumpSegmentLoadCommand reads what a segment command has behind its head. *)
LEMMA SegmentListIs ==
  ASSUME NEW w \in BOOLEAN
  PROVE  Splits(SegmentCommand(w), load_command, Dump!SegmentList(w), SegmentSizeOf(w) - 8,
                {"vmaddr", "vmsize", "nsects"})
<1> DEFINE long == Long(w)
           longs == <<"vmaddr", "vmsize", "fileoff", "filesize">>
           words == <<"maxprot", "initprot", "nsects", "flags">>
           a == load_command
           b == Name16("segname")
           c == Members(longs, long)
           d == Words(words)
<1>1. Lists(longs, 4, {"vmaddr", "vmsize"}) /\ long \in {4, 8} /\ long \in Nat \ {0}
  BY DEF Lists, Long
<1>2. Lists(words, 4, {"nsects"})
  BY DEF Lists
<1>3. SegmentCommand(w) = ((a \o b) \o c) \o d /\ Dump!SegmentList(w) = (b \o c) \o d
  BY SameWords DEF SegmentCommand, segment_command, segment_command_64, SegmentOf, Dump!SegmentList, Long
<1>0. SegmentSizeOf(w) - 8 = (16 + 4 * long) + 4 * 4
  BY DEF SegmentSizeOf, Long
<1> HIDE DEF longs, words, long
<1>4. Declares(b, 16, {"segname"}) /\ Declares(c, 4 * long, {"vmaddr", "vmsize"}) /\ Declares(d, 4 * 4, {"nsects"})
  BY <1>1, <1>2, DeclaresName, DeclaresEqual, DeclaresWords
<1>5. Structure(a)
  BY HeadIs
<1> HIDE DEF a, b, c, d
<1>6. Declares(b \o c, 16 + 4 * long, {"segname"} \cup {"vmaddr", "vmsize"})
  BY <1>4, DeclaresJoin
<1>7. Declares((b \o c) \o d, (16 + 4 * long) + 4 * 4, ({"segname"} \cup {"vmaddr", "vmsize"}) \cup {"nsects"})
  BY <1>4, <1>6, DeclaresJoin
<1>8. Structure(b) /\ Structure(c) /\ Structure(d) /\ Structure(b \o c)
  BY <1>4, <1>6 DEF Declares
<1>9. ((a \o b) \o c) \o d = a \o ((b \o c) \o d)
  <2> DEFINE e == b \o c
  <2>0. Structure(a) /\ Structure(b) /\ Structure(c)
    BY <1>5, <1>8
  <2>1. (a \o b) \o c = a \o (b \o c)
    BY <2>0, JoinAssoc
  <2>2. (a \o e) \o d = a \o (e \o d)
    <3>1. Structure(a) /\ Structure(e) /\ Structure(d)
      BY <1>5, <1>8
    <3> HIDE DEF e
    <3> QED  BY <3>1, JoinAssoc
  <2> QED  BY <2>1, <2>2
<1>10. Declares((b \o c) \o d, (16 + 4 * long) + 4 * 4, {"vmaddr", "vmsize", "nsects"})
  BY <1>7 DEF Declares
<1>11. Splits(SegmentCommand(w), a, Dump!SegmentList(w), SegmentSizeOf(w) - 8, {"vmaddr", "vmsize", "nsects"})
  BY <1>0, <1>3, <1>5, <1>9, <1>10 DEF Splits
<1> QED  BY <1>11 DEF a

(* dumpSection reads the section of that width. *)
LEMMA SectionListIs ==
  ASSUME NEW w \in BOOLEAN
  PROVE  Dump!SectionList(w) = Section(w) /\ {"reloff", "nreloc"} \subseteq MemberNames(Section(w))
<1>1. ASSUME NEW long \in {4, 8}
      PROVE  /\ Declares(SectionOf(long), 60 + 2 * long, {"reloff", "nreloc"})
             /\ SectionOf(long) \o <<>> = SectionOf(long)
  <2> DEFINE longs == <<"addr", "size">>
             words == <<"offset", "align", "reloff", "nreloc", "flags", "reserved1", "reserved2">>
             a == Name16("sectname")
             b == Name16("segname")
             c == Members(longs, long)
             d == Words(words)
  <2>1. Lists(longs, 2, {}) /\ long \in Nat \ {0}
    BY DEF Lists
  <2>2. Lists(words, 7, {"reloff", "nreloc"})
    <3>1. words[3] = "reloff" /\ words[4] = "nreloc" /\ 3 \in 1 .. 7 /\ 4 \in 1 .. 7
      OBVIOUS
    <3>2. Len(words) = 7 /\ words = [k \in 1 .. 7 |-> words[k]]
      OBVIOUS
    <3> HIDE DEF words
    <3> QED  BY <3>1, <3>2 DEF Lists
  <2>3. SectionOf(long) = a \o b \o c \o d
    BY DEF SectionOf
  <2> HIDE DEF longs, words
  <2>4. /\ Declares(a, 16, {}) /\ Declares(b, 16, {})
        /\ Declares(c, 2 * long, {}) /\ Declares(d, 7 * 4, {"reloff", "nreloc"})
    BY <2>1, <2>2, DeclaresName, DeclaresEqual, DeclaresWords DEF Declares
  <2> HIDE DEF a, b, c, d
  <2>5. Declares(a \o b, 16 + 16, {} \cup {})
    BY <2>4, DeclaresJoin
  <2>6. Declares((a \o b) \o c, (16 + 16) + 2 * long, ({} \cup {}) \cup {})
    BY <2>4, <2>5, DeclaresJoin
  <2>7. Declares(((a \o b) \o c) \o d, ((16 + 16) + 2 * long) + 7 * 4,
                 (({} \cup {}) \cup {}) \cup {"reloff", "nreloc"})
    BY <2>4, <2>6, DeclaresJoin
  <2>8. ((16 + 16) + 2 * long) + 7 * 4 = 60 + 2 * long
    OBVIOUS
  <2>9. Declares(SectionOf(long), 60 + 2 * long, {"reloff", "nreloc"})
    BY <2>3, <2>7, <2>8 DEF Declares
  <2> DEFINE s == SectionOf(long)
  <2> HIDE DEF s
  <2>10. s \in Seq({s[j] : j \in 1 .. Len(s)})
    <3>1. Structure(s) /\ \A k \in 1 .. Len(s) : s[k] \in {s[j] : j \in 1 .. Len(s)}
      BY <2>9 DEF Declares, s
    <3> QED  BY <3>1, StructureIsSequence
  <2>11. s \o <<>> = s
    BY <2>10
  <2> QED  BY <2>9, <2>11 DEF s
<1>2. Dump!SectionList(w) = SectionOf(Long(w)) \o IF w THEN Words(<<"reserved3">>) ELSE <<>>
  BY SameWords DEF Dump!SectionList, SectionOf
<1>3. CASE w
  <2>1. Lists(<<"reserved3">>, 1, {})
    BY DEF Lists
  <2>2. Declares(Words(<<"reserved3">>), 1 * 4, {})
    BY <2>1, DeclaresWords
  <2>3. Declares(SectionOf(8), 60 + 2 * 8, {"reloff", "nreloc"})
    BY <1>1
  <2>4. Declares(section_64, (60 + 2 * 8) + 1 * 4, {"reloff", "nreloc"} \cup {})
    BY <2>2, <2>3, DeclaresJoin DEF section_64
  <2> QED  BY <1>2, <1>3, <2>4 DEF Section, section_64, Declares, Long
<1>4. CASE ~w
  <2>1. Declares(SectionOf(4), 60 + 2 * 4, {"reloff", "nreloc"}) /\ SectionOf(4) \o <<>> = SectionOf(4)
    BY <1>1
  <2> QED  BY <1>2, <1>4, <2>1 DEF Section, section, Declares, Long
<1> QED  BY <1>3, <1>4

(* dumpNlist32 reads the nlist of the width of the file. *)
LEMMA NlistListIs ==
  ASSUME is64 \in BOOLEAN
  PROVE  Dump!NlistList = NlistOfWidth(is64)
BY SameWords DEF Dump!NlistList, NlistOfWidth, nlist, nlist_64, NlistOf, Long

(* A relocation has eight bytes for both. *)
LEMMA RelocationListIs == SizeOf(Dump!RelocationList) = 8 /\ SizeOf(relocation_info) = 8
<1>1. Lists(<<"r_address", "r_info">>, 2, {})
  BY DEF Lists
<1>2. Declares(Words(<<"r_address", "r_info">>), 2 * 4, {})
  BY <1>1, DeclaresWords
<1> QED  BY <1>2, SameWords DEF Dump!RelocationList, relocation_info, Declares

-----------------------------------------------------------------------------
(* Where the parts of a binary are. *)

(* A load command is of one of five kinds. *)
LEMMA ItemKinds ==
  ASSUME NEW item \in Item
  PROVE  /\ item.kind \in {"segment", "symtab", "dysymtab", "uuid", "other"}
         /\ item.kind = "segment" => item.vmaddr \in Nat /\ item.vmsize \in Nat /\ item.relocs \in Seq(Nat)
         /\ item.kind = "symtab" => item.names \in Seq(STRING)
         /\ item.kind = "dysymtab" => item.n \in Nat
         /\ item.kind = "other" => item.size \in Nat
<1>1. CASE item \in [kind : {"segment"}, vmaddr : Nat, vmsize : Nat, relocs : Seq(Nat)]
  BY <1>1
<1>2. CASE item \in [kind : {"symtab"}, names : Seq(STRING)]
  BY <1>2
<1>3. CASE item \in [kind : {"dysymtab"}, n : Nat]
  BY <1>3
<1>4. CASE item \in [kind : {"uuid"}, id : STRING]
  BY <1>4
<1>5. CASE item \in [kind : {"other"}, size : Nat]
  BY <1>5
<1> QED  BY <1>1, <1>2, <1>3, <1>4, <1>5 DEF Item

(* The load commands of a binary are a sequence. *)
LEMMA ItemsAre ==
  ASSUME NEW b, WellFormed(b)
  PROVE  /\ Len(b.items) \in Nat /\ DOMAIN b.items = 1 .. Len(b.items) /\ b.wide \in BOOLEAN
         /\ \A k \in 1 .. Len(b.items) : b.items[k] \in Item
BY DEF WellFormed

(* Sums of natural numbers. *)
LEMMA TotalIsNatural ==
  ASSUME NEW n \in Nat, NEW w, \A k \in 1 .. n : w[k] \in Nat
  PROVE  Total(1 .. n, w) \in Nat
<1> DEFINE T == {m \in Nat : m <= n => Total(1 .. m, w) \in Nat}
<1>1. 0 \in T
  <2>1. 1 .. 0 = {}
    OBVIOUS
  <2>2. Total({}, w) = 0
    BY TotalOfNone
  <2> QED  BY <2>1, <2>2
<1>2. ASSUME NEW m \in T PROVE m + 1 \in T
  <2> SUFFICES ASSUME m + 1 <= n PROVE Total(1 .. m + 1, w) \in Nat
    OBVIOUS
  <2>1. m \in Nat /\ Total(1 .. m, w) \in Nat /\ w[m + 1] \in Nat /\ \A k \in 1 .. m + 1 : w[k] \in Int
    OBVIOUS
  <2>2. Total(1 .. m + 1, w) = Total(1 .. m, w) + w[m + 1]
    BY <2>1, TotalOfOneMore
  <2> QED  BY <2>1, <2>2
<1>3. T = Nat
  <2> HIDE DEF T
  <2>1. T \in SUBSET Nat
    BY DEF T
  <2> QED  BY <1>1, <1>2, <2>1, Induction
<1> QED  BY <1>3

(* The number of relocations before a section is a natural number. *)
LEMMA RelocsAreCounted ==
  ASSUME NEW item, item.relocs \in Seq(Nat), NEW s \in 1 .. Len(item.relocs) + 1
  PROVE  RelocsBefore(item, s) \in Nat
<1> DEFINE w == [j \in 1 .. s - 1 |-> item.relocs[j]]
<1>1. RelocsBefore(item, s) = Total(1 .. s - 1, w)
  BY DEF RelocsBefore, MapThenSumSet, MapThenFoldSet, Total, SumsUp
<1>2. s - 1 \in Nat /\ \A k \in 1 .. s - 1 : w[k] \in Nat
  OBVIOUS
<1> HIDE DEF w
<1> QED  BY <1>1, <1>2, TotalIsNatural

(* Sizes of the structures. *)
LEMMA StructSizes ==
  ASSUME NEW w \in BOOLEAN
  PROVE  /\ SizeOf(MachHeader(w)) = HeaderSizeOf(w) /\ SizeOf(SegmentCommand(w)) = SegmentSizeOf(w)
         /\ SizeOf(Section(w)) = SectionSizeOf(w) /\ SizeOf(NlistOfWidth(w)) = NlistSizeOf(w)
         /\ SizeOf(symtab_command) = 24 /\ SizeOf(uuid_command) = 24 /\ SizeOf(dysymtab_command) = 80
         /\ SizeOf(load_command) = 8 /\ SizeOf(relocation_info) = 8
         /\ Structure(MachHeader(w)) /\ Structure(SegmentCommand(w)) /\ Structure(Section(w))
         /\ Structure(NlistOfWidth(w)) /\ Structure(symtab_command) /\ Structure(uuid_command)
         /\ Structure(dysymtab_command) /\ Structure(load_command)
         /\ HeaderSizeOf(w) \in {28, 32} /\ SegmentSizeOf(w) \in {56, 72}
         /\ SectionSizeOf(w) \in {68, 80} /\ NlistSizeOf(w) \in {12, 16}
<1>1. SizeOf(dysymtab_command) = 80 /\ Structure(dysymtab_command)
  <2>1. /\ Structure(load_command) /\ Structure(Dump!DysymtabList) /\ SizeOf(Dump!DysymtabList) = 72
        /\ dysymtab_command = load_command \o Dump!DysymtabList
    BY DysymtabListIs DEF Splits, Declares
  <2>2. /\ SizeOf(load_command \o Dump!DysymtabList) = SizeOf(load_command) + SizeOf(Dump!DysymtabList)
        /\ Structure(load_command \o Dump!DysymtabList)
    BY <2>1, SizeOfJoin, StructureJoin
  <2> QED  BY <2>1, <2>2, HeadIs
<1>2. HeaderSizeOf(w) \in {28, 32} /\ SegmentSizeOf(w) \in {56, 72}
  BY DEF HeaderSizeOf, SegmentSizeOf
<1>3. SectionSizeOf(w) \in {68, 80} /\ NlistSizeOf(w) \in {12, 16}
  BY DEF SectionSizeOf, NlistSizeOf
<1> QED  BY <1>1, <1>2, <1>3, StructuresAre, HeadIs, RelocationListIs

(* The size of a command. *)
SizeOfItem(w, item) ==
  CASE item.kind = "segment"  -> SegmentSizeOf(w) + Len(item.relocs) * SectionSizeOf(w)
    [] item.kind = "symtab"   -> 24
    [] item.kind = "dysymtab" -> 80
    [] item.kind = "uuid"     -> 24
    [] item.kind = "other"    -> 8 + item.size

(* Every command has at least its head. *)
LEMMA CmdsizeIs ==
  ASSUME NEW w \in BOOLEAN, NEW item \in Item
  PROVE  /\ Cmdsize(w, item) = SizeOfItem(w, item)
         /\ Cmdsize(w, item) \in Nat /\ Cmdsize(w, item) >= 8
<1>1. Cmdsize(w, item) = SizeOfItem(w, item)
  BY StructSizes DEF Cmdsize, SizeOfItem
<1>2. CASE item.kind = "segment"
  <2>1. Len(item.relocs) \in Nat /\ SizeOfItem(w, item) = SegmentSizeOf(w) + Len(item.relocs) * SectionSizeOf(w)
    BY <1>2, ItemKinds DEF SizeOfItem
  <2>2. SectionSizeOf(w) \in Nat /\ SegmentSizeOf(w) \in Nat /\ SegmentSizeOf(w) >= 8
    BY StructSizes
  <2>3. Len(item.relocs) * SectionSizeOf(w) \in Nat
    BY <2>1, <2>2
  <2> QED  BY <1>1, <2>1, <2>2, <2>3
<1>3. CASE item.kind = "symtab" \/ item.kind = "uuid"
  BY <1>1, <1>3 DEF SizeOfItem
<1>4. CASE item.kind = "dysymtab"
  BY <1>1, <1>4 DEF SizeOfItem
<1>5. CASE item.kind = "other"
  BY <1>1, <1>5, ItemKinds DEF SizeOfItem
<1> QED  BY <1>2, <1>3, <1>4, <1>5, ItemKinds

(* The size of the table a command points to. *)
LEMMA TableSizeIs ==
  ASSUME NEW w \in BOOLEAN, NEW item \in Item
  PROVE  /\ TableSize(w, item) \in Nat
         /\ item.kind = "symtab" => /\ Len(item.names) \in Nat /\ Len(item.names) * NlistSizeOf(w) \in Nat
                                    /\ TableSize(w, item)
                                         = Len(item.names) * NlistSizeOf(w) + StringTableSize(item.names)
                                    /\ StringTableSize(item.names) = 1 + 4 * Len(item.names)
<1>1. CASE item.kind = "segment"
  <2>1. item.relocs \in Seq(Nat) /\ Len(item.relocs) + 1 \in 1 .. Len(item.relocs) + 1
    BY <1>1, ItemKinds
  <2>2. RelocsBefore(item, Len(item.relocs) + 1) \in Nat
    BY <2>1, RelocsAreCounted
  <2> QED  BY <1>1, <2>2, StructSizes DEF TableSize
<1>2. CASE item.kind = "symtab"
  <2>1. Len(item.names) \in Nat /\ NlistSizeOf(w) \in Nat
    BY <1>2, ItemKinds, StructSizes
  <2>2. Len(item.names) * NlistSizeOf(w) \in Nat
    BY <2>1
  <2>3. TableSize(w, item) = Len(item.names) * NlistSizeOf(w) + StringTableSize(item.names)
    BY <1>2, StructSizes DEF TableSize
  <2> QED  BY <1>2, <2>1, <2>2, <2>3 DEF StringTableSize
<1>3. CASE item.kind = "dysymtab"
  BY <1>3, ItemKinds DEF TableSize
<1>4. CASE item.kind = "uuid" \/ item.kind = "other"
  BY <1>4 DEF TableSize
<1> QED  BY <1>1, <1>2, <1>3, <1>4, ItemKinds

(* Regions of these sizes, one behind the other. *)
Positions(at, n, start, size) ==
  \A k \in 1 .. n + 1 : at[k] = start + Total(1 .. k - 1, [j \in 1 .. k - 1 |-> size[j]])

(* Each begins where the one before it ends. *)
Consecutive(at, n, start, size) ==
  /\ at[1] = start
  /\ \A k \in 1 .. n + 1 : at[k] \in Nat
  /\ \A k \in 1 .. n : at[k + 1] = at[k] + size[k]

(* They are sums of the sizes before them, so each begins where the one     *)
(* before it ends.                                                          *)
LEMMA PositionsOfSums ==
  ASSUME NEW n \in Nat, NEW start \in Nat, NEW size, \A k \in 1 .. n : size[k] \in Nat,
         NEW at, Positions(at, n, start, size)
  PROVE  Consecutive(at, n, start, size)
<1>1. at[1] = start
  <2>1. 1 .. 1 - 1 = {} /\ 1 \in 1 .. n + 1
    OBVIOUS
  <2> DEFINE w == [j \in 1 .. 1 - 1 |-> size[j]]
  <2>2. Total({}, w) = 0
    BY TotalOfNone
  <2>3. at[1] = start + Total(1 .. 1 - 1, w)
    BY <2>1 DEF Positions
  <2> HIDE DEF w
  <2> QED  BY <2>1, <2>2, <2>3
<1>2. ASSUME NEW k \in 1 .. n + 1 PROVE at[k] \in Nat
  <2> DEFINE w == [j \in 1 .. k - 1 |-> size[j]]
  <2>1. k - 1 \in Nat /\ \A j \in 1 .. k - 1 : w[j] \in Nat
    OBVIOUS
  <2>2. at[k] = start + Total(1 .. k - 1, w)
    BY DEF Positions
  <2> HIDE DEF w
  <2>3. Total(1 .. k - 1, w) \in Nat
    BY <2>1, TotalIsNatural
  <2> QED  BY <2>2, <2>3
<1>3. ASSUME NEW k \in 1 .. n PROVE at[k + 1] = at[k] + size[k]
  <2> DEFINE v == [j \in 1 .. k - 1 |-> size[j]]
             w == [j \in 1 .. (k + 1) - 1 |-> size[j]]
             m == k - 1
  <2>1. /\ k \in 1 .. n + 1 /\ k + 1 \in 1 .. n + 1 /\ m \in Nat /\ m + 1 = k /\ (k + 1) - 1 = m + 1
    OBVIOUS
  <2>2. at[k] = start + Total(1 .. k - 1, v) /\ at[k + 1] = start + Total(1 .. (k + 1) - 1, w)
    BY <2>1 DEF Positions
  <2>3. /\ \A j \in 1 .. m + 1 : w[j] \in Int
        /\ \A j \in 1 .. m : v[j] = w[j]
        /\ w[m + 1] = size[k]
    OBVIOUS
  <2> HIDE DEF v, w
  <2>4. Total(1 .. m + 1, w) = Total(1 .. m, v) + w[m + 1] /\ Total(1 .. m, v) \in Int
    BY <2>1, <2>3, TotalOfOneMore
  <2>5. 1 .. m + 1 = 1 .. (k + 1) - 1 /\ 1 .. m = 1 .. k - 1
    BY <2>1
  <2> QED  BY <2>2, <2>3, <2>4, <2>5
<1> QED  BY <1>1, <1>2, <1>3 DEF Consecutive

(* Commands are one behind the other, from the end of the header. *)
LEMMA CommandsAre ==
  ASSUME NEW b, WellFormed(b)
  PROVE  /\ CommandAt(b, 1) = HeaderSizeOf(b.wide)
         /\ \A k \in 1 .. Len(b.items) + 1 : CommandAt(b, k) \in Nat
         /\ \A k \in 1 .. Len(b.items) : CommandAt(b, k + 1) = CommandAt(b, k) + Cmdsize(b.wide, b.items[k])
<1> DEFINE n == Len(b.items)
           size == [k \in 1 .. n |-> Cmdsize(b.wide, b.items[k])]
           at == [k \in 1 .. n + 1 |-> CommandAt(b, k)]
<1>1. n \in Nat /\ b.wide \in BOOLEAN /\ \A k \in 1 .. n : b.items[k] \in Item
  BY ItemsAre
<1>2. HeaderSizeOf(b.wide) \in Nat /\ SizeOf(MachHeader(b.wide)) = HeaderSizeOf(b.wide)
  BY <1>1, StructSizes DEF HeaderSizeOf
<1>3. \A k \in 1 .. n : size[k] \in Nat /\ size[k] = Cmdsize(b.wide, b.items[k])
  BY <1>1, CmdsizeIs
<1>4. \A k : CommandAt(b, k) = HeaderSizeOf(b.wide)
                                 + Total(1 .. k - 1, [j \in 1 .. k - 1 |-> Cmdsize(b.wide, b.items[j])])
  BY <1>2 DEF CommandAt, MapThenSumSet, MapThenFoldSet, Total, SumsUp
<1>5. ASSUME NEW k \in 1 .. n + 1
      PROVE  at[k] = HeaderSizeOf(b.wide) + Total(1 .. k - 1, [j \in 1 .. k - 1 |-> size[j]])
  <2>1. \A j \in 1 .. k - 1 : j \in 1 .. n
    BY <1>1
  <2>2. [j \in 1 .. k - 1 |-> size[j]] = [j \in 1 .. k - 1 |-> Cmdsize(b.wide, b.items[j])]
    BY <2>1
  <2>3. at[k] = CommandAt(b, k)
    OBVIOUS
  <2> HIDE DEF at, size
  <2> QED  BY <1>4, <2>2, <2>3
<1>6. \A k \in 1 .. n + 1 : at[k] = CommandAt(b, k)
  OBVIOUS
<1> HIDE DEF at, size, n
<1>7. /\ at[1] = HeaderSizeOf(b.wide)
      /\ \A k \in 1 .. n + 1 : at[k] \in Nat
      /\ \A k \in 1 .. n : at[k + 1] = at[k] + size[k]
  <2> DEFINE h == HeaderSizeOf(b.wide)
  <2>1. Positions(at, n, h, size) /\ n \in Nat /\ h \in Nat
    BY <1>1, <1>2, <1>5 DEF Positions
  <2>2. \A k \in 1 .. n : size[k] \in Nat
    BY <1>3
  <2> HIDE DEF h
  <2>3. Consecutive(at, n, h, size)
    BY <2>1, <2>2, PositionsOfSums
  <2> QED  BY <2>3 DEF Consecutive, h
<1>8. 1 \in 1 .. n + 1 /\ \A k \in 1 .. n : k \in 1 .. n + 1 /\ k + 1 \in 1 .. n + 1
  BY <1>1
<1>9. CommandAt(b, 1) = HeaderSizeOf(b.wide) /\ \A k \in 1 .. n + 1 : CommandAt(b, k) \in Nat
  BY <1>6, <1>7, <1>8
<1>10. \A k \in 1 .. n : CommandAt(b, k + 1) = CommandAt(b, k) + Cmdsize(b.wide, b.items[k])
  BY <1>3, <1>6, <1>7, <1>8
<1> QED  BY <1>9, <1>10 DEF n

(* Tables are one behind the other, from the end of the commands. *)
LEMMA TablesAre ==
  ASSUME NEW b, WellFormed(b)
  PROVE  /\ TableAt(b, 1) = CommandAt(b, Len(b.items) + 1)
         /\ \A k \in 1 .. Len(b.items) + 1 : TableAt(b, k) \in Nat
         /\ \A k \in 1 .. Len(b.items) : TableAt(b, k + 1) = TableAt(b, k) + TableSize(b.wide, b.items[k])
<1> DEFINE n == Len(b.items)
           c == CommandAt(b, n + 1)
           size == [k \in 1 .. n |-> TableSize(b.wide, b.items[k])]
           at == [k \in 1 .. n + 1 |-> TableAt(b, k)]
<1>1. n \in Nat /\ b.wide \in BOOLEAN /\ \A k \in 1 .. n : b.items[k] \in Item
  BY ItemsAre
<1>2. c \in Nat
  <2>1. n + 1 \in 1 .. n + 1
    BY <1>1
  <2> QED  BY <2>1, CommandsAre
<1>3. \A k \in 1 .. n : size[k] \in Nat /\ size[k] = TableSize(b.wide, b.items[k])
  BY <1>1, TableSizeIs
<1>4. \A k : TableAt(b, k) = c + Total(1 .. k - 1, [j \in 1 .. k - 1 |-> TableSize(b.wide, b.items[j])])
  BY ZenonT(60), <1>2 DEF TableAt, MapThenSumSet, MapThenFoldSet, Total, SumsUp
<1>5. ASSUME NEW k \in 1 .. n + 1
      PROVE  at[k] = c + Total(1 .. k - 1, [j \in 1 .. k - 1 |-> size[j]])
  <2>1. \A j \in 1 .. k - 1 : j \in 1 .. n
    BY <1>1
  <2>2. [j \in 1 .. k - 1 |-> size[j]] = [j \in 1 .. k - 1 |-> TableSize(b.wide, b.items[j])]
    BY <2>1
  <2>3. at[k] = TableAt(b, k)
    OBVIOUS
  <2> HIDE DEF at, size, c
  <2> QED  BY <1>4, <2>2, <2>3
<1>6. \A k \in 1 .. n + 1 : at[k] = TableAt(b, k)
  OBVIOUS
<1> HIDE DEF at, size, c, n
<1>7. /\ at[1] = c
      /\ \A k \in 1 .. n + 1 : at[k] \in Nat
      /\ \A k \in 1 .. n : at[k + 1] = at[k] + size[k]
  <2>1. Positions(at, n, c, size)
    BY <1>5 DEF Positions
  <2>2. \A k \in 1 .. n : size[k] \in Nat
    BY <1>3
  <2>3. Consecutive(at, n, c, size)
    BY <1>1, <1>2, <2>1, <2>2, PositionsOfSums
  <2> QED  BY <2>3 DEF Consecutive
<1>8. 1 \in 1 .. n + 1 /\ \A k \in 1 .. n : k \in 1 .. n + 1 /\ k + 1 \in 1 .. n + 1
  BY <1>1
<1>9. TableAt(b, 1) = c /\ \A k \in 1 .. n + 1 : TableAt(b, k) \in Nat
  BY <1>6, <1>7, <1>8
<1>10. \A k \in 1 .. n : TableAt(b, k + 1) = TableAt(b, k) + TableSize(b.wide, b.items[k])
  BY <1>3, <1>6, <1>7, <1>8
<1> QED  BY <1>9, <1>10 DEF n, c

-----------------------------------------------------------------------------
(* The cells of a binary do not touch each other. *)

(* Regions one behind the other. *)
LEMMA PiecesApart ==
  ASSUME NEW n \in Nat, NEW piece, NEW at, at[1] \in Int,
         \A k \in 1 .. n : Apart(piece[k], at[k], at[k + 1])
  PROVE  Apart(UNION {piece[k] : k \in 1 .. n}, at[1], at[n + 1])
<1> DEFINE U(m) == UNION {piece[k] : k \in 1 .. m}
           T == {m \in Nat : m <= n => Apart(U(m), at[1], at[m + 1])}
<1>1. 0 \in T
  <2>1. U(0) = {}
    OBVIOUS
  <2>2. Apart({}, at[1], at[0 + 1])
    BY DEF Apart
  <2> QED  BY <2>1, <2>2
<1>2. ASSUME NEW m \in T PROVE m + 1 \in T
  <2> SUFFICES ASSUME m + 1 <= n PROVE Apart(U(m + 1), at[1], at[(m + 1) + 1])
    OBVIOUS
  <2>1. m \in Nat /\ m + 1 \in 1 .. n /\ Apart(U(m), at[1], at[m + 1])
    OBVIOUS
  <2>2. Apart(piece[m + 1], at[m + 1], at[(m + 1) + 1])
    BY <2>1
  <2>3. U(m + 1) = U(m) \cup piece[m + 1]
    <3>1. \A k \in 1 .. m + 1 : k \in 1 .. m \/ k = m + 1
      BY <2>1
    <3>2. \A k \in 1 .. m : k \in 1 .. m + 1
      BY <2>1
    <3>3. m + 1 \in 1 .. m + 1
      BY <2>1
    <3> QED  BY <3>1, <3>2, <3>3
  <2> HIDE DEF U
  <2>4. at[m + 1] <= at[m + 1]
    BY <2>2 DEF Apart
  <2>5. Apart(U(m) \cup piece[m + 1], at[1], at[(m + 1) + 1])
    BY <2>1, <2>2, <2>4, ApartJoin
  <2> QED  BY <2>3, <2>5
<1>3. T = Nat
  <2> HIDE DEF T
  <2>1. T \in SUBSET Nat
    BY DEF T
  <2> QED  BY <1>1, <1>2, <2>1, Induction
<1>4. Apart(U(n), at[1], at[n + 1])
  <2> HIDE DEF U
  <2> QED  BY <1>3
<1> QED  BY <1>4

(* The strings of a symbol table are behind its symbols. *)
StringsAt(b, k) == TableAt(b, k) + Len(b.items[k].names) * SizeOf(NlistOfWidth(b.wide))

(* Members of the commands, and of the entries of the tables. *)
SegmentValues(b, k) ==
  Filled(SegmentCommand(b.wide),
         [vmaddr |-> b.items[k].vmaddr, vmsize |-> b.items[k].vmsize, nsects |-> Len(b.items[k].relocs),
          cmd |-> CommandHead(b, k).cmd, cmdsize |-> CommandHead(b, k).cmdsize])
SectionValues(b, k, s) ==
  Filled(Section(b.wide),
         [nreloc |-> b.items[k].relocs[s],
          reloff |-> TableAt(b, k) + RelocsBefore(b.items[k], s) * SizeOf(relocation_info)])
SymtabValues(b, k) ==
  [cmd |-> CommandHead(b, k).cmd, cmdsize |-> CommandHead(b, k).cmdsize,
   symoff |-> TableAt(b, k), nsyms |-> Len(b.items[k].names),
   stroff |-> StringsAt(b, k), strsize |-> StringTableSize(b.items[k].names)]
SymbolValues(b, k, s) ==
  Filled(NlistOfWidth(b.wide),
         [n_strx |-> IndexOfName(s) + Wrong(b, "n_strx") * Len(b.items[k].names)])
DysymtabValues(b, k) ==
  Filled(dysymtab_command,
         [cmd |-> CommandHead(b, k).cmd, cmdsize |-> CommandHead(b, k).cmdsize,
          indirectsymoff |-> TableAt(b, k), nindirectsyms |-> b.items[k].n])
UuidValues(b, k) ==
  [cmd |-> CommandHead(b, k).cmd, cmdsize |-> CommandHead(b, k).cmdsize, uuid |-> b.items[k].id]

(* The structure of a command and the values of its members. *)
CommandStruct(b, k) ==
  CASE b.items[k].kind = "segment"  -> SegmentCommand(b.wide)
    [] b.items[k].kind = "symtab"   -> symtab_command
    [] b.items[k].kind = "dysymtab" -> dysymtab_command
    [] b.items[k].kind = "uuid"     -> uuid_command
    [] OTHER                        -> load_command
CommandValues(b, k) ==
  CASE b.items[k].kind = "segment"  -> SegmentValues(b, k)
    [] b.items[k].kind = "symtab"   -> SymtabValues(b, k)
    [] b.items[k].kind = "dysymtab" -> DysymtabValues(b, k)
    [] b.items[k].kind = "uuid"     -> UuidValues(b, k)
    [] OTHER                        -> CommandHead(b, k)

(* Where section s and symbol s of command k are. *)
SectionAt(b, k, s) == CommandAt(b, k) + SizeOf(SegmentCommand(b.wide)) + (s - 1) * SizeOf(Section(b.wide))
SymbolAt(b, k, s) == TableAt(b, k) + (s - 1) * SizeOf(NlistOfWidth(b.wide))

(* The cells of the entries of a table. *)
SectionRows(b, k) ==
  IF b.items[k].kind = "segment"
    THEN UNION {Cells(Section(b.wide), SectionValues(b, k, s), SectionAt(b, k, s)) : s \in DOMAIN b.items[k].relocs}
    ELSE {}
SymbolRows(b, k) ==
  UNION {Cells(NlistOfWidth(b.wide), SymbolValues(b, k, s), SymbolAt(b, k, s)) : s \in DOMAIN b.items[k].names}
StringsCell(b, k) ==
  [at |-> StringsAt(b, k), name |-> "strings", width |-> StringTableSize(b.items[k].names),
   value |-> StringTable(b.items[k].names)]

(* The cells of a command, and of the table it points to. *)
CommandCells(b, k) == Cells(CommandStruct(b, k), CommandValues(b, k), CommandAt(b, k)) \cup SectionRows(b, k)
TableCells(b, k) == IF b.items[k].kind = "symtab" THEN SymbolRows(b, k) \cup {StringsCell(b, k)} ELSE {}

(* There are no other cells. *)
LEMMA ItemCellsAre ==
  ASSUME NEW b, NEW k, b.items[k] \in Item
  PROVE  ItemCells(b, k) = CommandCells(b, k) \cup TableCells(b, k)
<1>0. b.items[k].kind \in {"segment", "symtab", "dysymtab", "uuid", "other"}
  BY ItemKinds
<1> DEFINE item == b.items[k]
<1>1. CASE item.kind = "segment"
  <2>1. ItemCells(b, k) = SegmentCells(b, k) /\ TableCells(b, k) = {}
    BY <1>1 DEF ItemCells, TableCells
  <2>2. SegmentCells(b, k) = CommandCells(b, k)
    BY <1>1 DEF SegmentCells, CommandCells, CommandStruct, CommandValues, SegmentValues,
      SectionRows, SectionCells, SectionValues, SectionAt
  <2> QED  BY <2>1, <2>2
<1>2. CASE item.kind = "symtab"
  <2>1. ItemCells(b, k) = SymtabCells(b, k) /\ SectionRows(b, k) = {}
    BY <1>2 DEF ItemCells, SectionRows
  <2>2. CommandCells(b, k) = Cells(symtab_command, SymtabValues(b, k), CommandAt(b, k))
    BY <1>2, <2>1 DEF CommandCells, CommandStruct, CommandValues
  <2>3. TableCells(b, k) = SymbolRows(b, k) \cup {StringsCell(b, k)}
    BY <1>2 DEF TableCells
  <2>4. SymtabCells(b, k) = (Cells(symtab_command, SymtabValues(b, k), CommandAt(b, k))
                              \cup {StringsCell(b, k)}) \cup SymbolRows(b, k)
    BY DEF SymtabCells, SymtabValues, StringsCell, SymbolRows, SymbolCells, SymbolValues, SymbolAt, StringsAt
  <2> QED  BY <2>1, <2>2, <2>3, <2>4
<1>3. CASE item.kind = "dysymtab"
  BY <1>3 DEF ItemCells, CommandCells, TableCells, CommandStruct, CommandValues, SectionRows, DysymtabValues
<1>4. CASE item.kind = "uuid"
  BY <1>4 DEF ItemCells, CommandCells, TableCells, CommandStruct, CommandValues, SectionRows, UuidValues
<1>5. CASE item.kind = "other"
  BY <1>5 DEF ItemCells, CommandCells, TableCells, CommandStruct, CommandValues, SectionRows
<1> QED  BY <1>0, <1>1, <1>2, <1>3, <1>4, <1>5

(* A command, with its sections, fills its bytes and no more. *)
LEMMA CommandStructIs ==
  ASSUME NEW b, WellFormed(b), NEW k \in 1 .. Len(b.items)
  PROVE  /\ Structure(CommandStruct(b, k)) /\ SizeOf(CommandStruct(b, k)) \in Nat
         /\ b.items[k].kind # "segment" => CommandAt(b, k) + SizeOf(CommandStruct(b, k)) <= CommandAt(b, k + 1)
         /\ b.items[k].kind = "segment" =>
              /\ Len(b.items[k].relocs) \in Nat /\ Len(b.items[k].relocs) * SectionSizeOf(b.wide) \in Nat
              /\ SizeOf(CommandStruct(b, k)) = SegmentSizeOf(b.wide)
              /\ CommandAt(b, k + 1) = (CommandAt(b, k) + SegmentSizeOf(b.wide))
                                         + Len(b.items[k].relocs) * SectionSizeOf(b.wide)
<1> DEFINE item == b.items[k]
<1>1. item \in Item /\ b.wide \in BOOLEAN
  BY ItemsAre
<1>2. /\ CommandAt(b, k) \in Nat /\ CommandAt(b, k + 1) = CommandAt(b, k) + SizeOfItem(b.wide, item)
      /\ SizeOfItem(b.wide, item) \in Nat
  <2>1. k \in 1 .. Len(b.items) + 1
    BY ItemsAre
  <2> QED  BY <1>1, <2>1, CommandsAre, CmdsizeIs
<1>3. CASE item.kind = "segment"
  <2>1. Len(item.relocs) \in Nat /\ SectionSizeOf(b.wide) \in Nat /\ SegmentSizeOf(b.wide) \in Nat
    BY <1>1, <1>3, ItemKinds, StructSizes
  <2>2. Len(item.relocs) * SectionSizeOf(b.wide) \in Nat
    BY <2>1
  <2>3. CommandStruct(b, k) = SegmentCommand(b.wide)
    BY <1>3 DEF CommandStruct
  <2>4. SizeOfItem(b.wide, item) = SegmentSizeOf(b.wide) + Len(item.relocs) * SectionSizeOf(b.wide)
    BY <1>3 DEF SizeOfItem
  <2>5. Structure(SegmentCommand(b.wide)) /\ SizeOf(SegmentCommand(b.wide)) = SegmentSizeOf(b.wide)
    BY <1>1, StructSizes
  <2> QED  BY <1>2, <1>3, <2>1, <2>2, <2>3, <2>4, <2>5
<1>4. CASE item.kind = "symtab"
  BY <1>1, <1>2, <1>4, StructSizes DEF CommandStruct, SizeOfItem
<1>5. CASE item.kind = "dysymtab"
  BY <1>1, <1>2, <1>5, StructSizes DEF CommandStruct, SizeOfItem
<1>6. CASE item.kind = "uuid"
  BY <1>1, <1>2, <1>6, StructSizes DEF CommandStruct, SizeOfItem
<1>7. CASE item.kind = "other"
  <2>1. CommandStruct(b, k) = load_command /\ SizeOfItem(b.wide, item) = 8 + item.size /\ item.size \in Nat
    BY <1>1, <1>7, ItemKinds DEF CommandStruct, SizeOfItem
  <2> QED  BY <1>2, <1>7, <2>1, HeadIs
<1> QED  BY <1>1, <1>3, <1>4, <1>5, <1>6, <1>7, ItemKinds

(* The cells of a command do not leave it. *)
LEMMA CommandCellsApart ==
  ASSUME NEW b, WellFormed(b), NEW k \in 1 .. Len(b.items)
  PROVE  Apart(CommandCells(b, k), CommandAt(b, k), CommandAt(b, k + 1))
<1> DEFINE item == b.items[k]
           c == CommandAt(b, k)
           d == CommandAt(b, k + 1)
           m == Len(item.relocs)
           z == SectionSizeOf(b.wide)
<1>1. c \in Nat /\ d \in Nat
  <2>1. k \in 1 .. Len(b.items) + 1 /\ k + 1 \in 1 .. Len(b.items) + 1
    BY ItemsAre
  <2> QED  BY <2>1, CommandsAre
<1>2. Apart(Cells(CommandStruct(b, k), CommandValues(b, k), c), c, c + SizeOf(CommandStruct(b, k)))
  BY <1>1, CommandStructIs, CellsApart
<1>3. CASE item.kind # "segment"
  <2>1. SectionRows(b, k) = {} /\ c + SizeOf(CommandStruct(b, k)) <= d
    BY <1>3, CommandStructIs DEF SectionRows
  <2> QED  BY <1>1, <1>2, <2>1 DEF Apart, CommandCells
<1>4. CASE item.kind = "segment"
  <2>1. /\ m \in Nat /\ m * z \in Nat /\ SizeOf(CommandStruct(b, k)) = SegmentSizeOf(b.wide)
        /\ d = (c + SegmentSizeOf(b.wide)) + m * z
    BY <1>4, CommandStructIs
  <2>2. /\ Structure(Section(b.wide)) /\ SizeOf(Section(b.wide)) = z /\ z \in Nat /\ SegmentSizeOf(b.wide) \in Nat
        /\ SizeOf(SegmentCommand(b.wide)) = SegmentSizeOf(b.wide)
    BY StructSizes, ItemsAre
  <2> DEFINE base == c + SegmentSizeOf(b.wide)
             row == [s \in 1 .. m |-> Cells(Section(b.wide), SectionValues(b, k, s), base + (s - 1) * z)]
  <2>3. base \in Int
    BY <1>1, <2>2
  <2>4. SectionRows(b, k) = AllRows(row, m)
    <3>1. DOMAIN item.relocs = 1 .. m
      BY <1>4, ItemKinds, ItemsAre
    <3>2. \A s \in 1 .. m : SectionAt(b, k, s) = base + (s - 1) * z
      BY <2>2 DEF SectionAt
    <3>3. \A s \in 1 .. m : row[s] = Cells(Section(b.wide), SectionValues(b, k, s), SectionAt(b, k, s))
      BY <3>2
    <3> HIDE DEF row, base
    <3> QED  BY <1>4, <3>1, <3>3 DEF SectionRows, AllRows
  <2>5. \A s \in 1 .. m : row[s] = Cells(Section(b.wide), SectionValues(b, k, s), base + (s - 1) * z)
    OBVIOUS
  <2> HIDE DEF row, base
  <2>6. Rows(row, m, z, base)
    <3> SUFFICES ASSUME NEW s \in 1 .. m PROVE Apart(row[s], base + (s - 1) * z, base + s * z)
      BY DEF Rows
    <3>1. (s - 1) * z \in Int /\ s * z = (s - 1) * z + z
      BY <2>1, <2>2
    <3>2. base + (s - 1) * z \in Int /\ base + s * z = (base + (s - 1) * z) + z
      BY <2>2, <2>3, <3>1
    <3>3. Apart(row[s], base + (s - 1) * z, (base + (s - 1) * z) + z)
      BY <2>2, <2>5, <3>2, CellsOfSize
    <3> QED  BY <3>2, <3>3
  <2>7. Apart(SectionRows(b, k), base, base + m * z)
    BY <2>1, <2>2, <2>3, <2>4, <2>6, RowsApart
  <2>8. Apart(Cells(CommandStruct(b, k), CommandValues(b, k), c), c, base)
    BY <1>2, <2>1 DEF base
  <2>9. base <= base /\ d = base + m * z
    BY <2>1, <2>3 DEF base
  <2> HIDE DEF c, d, m, z, item
  <2>10. Apart(Cells(CommandStruct(b, k), CommandValues(b, k), c) \cup SectionRows(b, k), c, base + m * z)
    BY <2>7, <2>8, <2>9, ApartJoin
  <2> QED  BY <2>9, <2>10 DEF CommandCells, c, d
<1> QED  BY <1>3, <1>4

(* The cells of a table do not leave it. *)
LEMMA TableCellsApart ==
  ASSUME NEW b, WellFormed(b), NEW k \in 1 .. Len(b.items)
  PROVE  Apart(TableCells(b, k), TableAt(b, k), TableAt(b, k + 1))
<1> DEFINE item == b.items[k]
           c == TableAt(b, k)
           d == TableAt(b, k + 1)
<1>1. c \in Nat /\ d = c + TableSize(b.wide, item) /\ TableSize(b.wide, item) \in Nat
      /\ item \in Item /\ b.wide \in BOOLEAN
  <2>1. k \in 1 .. Len(b.items) + 1 /\ item \in Item /\ b.wide \in BOOLEAN
    BY ItemsAre
  <2> QED  BY <2>1, TablesAre, TableSizeIs
<1>2. CASE item.kind # "symtab"
  BY <1>1, <1>2 DEF TableCells, Apart
<1>3. CASE item.kind = "symtab"
  <2> DEFINE m == Len(item.names)
             z == NlistSizeOf(b.wide)
             base == c
             row == [s \in 1 .. m |-> Cells(NlistOfWidth(b.wide), SymbolValues(b, k, s), base + (s - 1) * z)]
  <2>1. /\ m \in Nat /\ m * z \in Nat
        /\ d = c + (m * z + StringTableSize(item.names)) /\ StringTableSize(item.names) = 1 + 4 * m
    BY <1>1, <1>3, TableSizeIs
  <2>2. Structure(NlistOfWidth(b.wide)) /\ SizeOf(NlistOfWidth(b.wide)) = z /\ z \in Nat
    BY <1>1, StructSizes
  <2>3. base \in Int
    BY <1>1
  <2>4. SymbolRows(b, k) = AllRows(row, m)
    <3>1. DOMAIN item.names = 1 .. m
      BY <1>1, <1>3, ItemKinds
    <3>2. \A s \in 1 .. m : row[s] = Cells(NlistOfWidth(b.wide), SymbolValues(b, k, s), SymbolAt(b, k, s))
      BY <2>2 DEF SymbolAt
    <3> HIDE DEF row, base
    <3> QED  BY <3>1, <3>2 DEF SymbolRows, AllRows
  <2>5. \A s \in 1 .. m : row[s] = Cells(NlistOfWidth(b.wide), SymbolValues(b, k, s), base + (s - 1) * z)
    OBVIOUS
  <2> HIDE DEF row
  <2>6. Rows(row, m, z, base)
    <3> SUFFICES ASSUME NEW s \in 1 .. m PROVE Apart(row[s], base + (s - 1) * z, base + s * z)
      BY DEF Rows
    <3>1. (s - 1) * z \in Int /\ s * z = (s - 1) * z + z
      BY <2>1, <2>2
    <3>2. base + (s - 1) * z \in Int /\ base + s * z = (base + (s - 1) * z) + z
      BY <2>2, <2>3, <3>1
    <3>3. Apart(row[s], base + (s - 1) * z, (base + (s - 1) * z) + z)
      BY <2>2, <2>5, <3>2, CellsOfSize
    <3> QED  BY <3>2, <3>3
  <2>7. Apart(SymbolRows(b, k), c, c + m * z)
    BY <2>1, <2>2, <2>3, <2>4, <2>6, RowsApart
  <2>8. StringsAt(b, k) = c + m * z /\ StringsCell(b, k).at = c + m * z
    BY <2>2 DEF StringsAt, StringsCell
  <2>9. Apart({StringsCell(b, k)}, c + m * z, d) /\ c + m * z <= c + m * z
    <3> DEFINE p == m * z
               cell == StringsCell(b, k)
    <3>1. p \in Nat /\ m \in Nat /\ c \in Nat /\ d = c + (p + (1 + 4 * m)) /\ cell.at = c + p
      BY <1>1, <2>1, <2>8
    <3> HIDE DEF c, d, m, z, item, p, cell
    <3>2. d \in Int /\ c + p \in Int /\ c + p < d /\ c + p <= d /\ c + p <= c + p
      BY <3>1
    <3>3. Apart({cell}, c + p, d)
      BY <3>1, <3>2 DEF Apart
    <3> QED  BY <3>2, <3>3 DEF p, cell
  <2> HIDE DEF c, d, m, z, item
  <2>10. Apart(SymbolRows(b, k) \cup {StringsCell(b, k)}, c, d)
    BY <2>7, <2>9, ApartJoin
  <2> QED  BY <1>3, <2>10 DEF TableCells, c, d, item
<1> QED  BY <1>2, <1>3

(* All cells of a binary. *)
HeaderValues(b) == Filled(MachHeader(b.wide), Header(b))
AllCells(b) == Cells(MachHeader(b.wide), HeaderValues(b), 0) \cup (UNION {ItemCells(b, k) : k \in DOMAIN b.items})

(* No two cells of a binary touch each other. *)
LEMMA FileApart ==
  ASSUME NEW b, WellFormed(b)
  PROVE  Apart(AllCells(b), 0, FileSize(b))
<1> DEFINE n == Len(b.items)
           x == HeaderSizeOf(b.wide)
           y == CommandAt(b, n + 1)
           z == FileSize(b)
           commands == [k \in 1 .. n |-> CommandCells(b, k)]
           tables == [k \in 1 .. n |-> TableCells(b, k)]
           commandAt == [k \in 1 .. n + 1 |-> CommandAt(b, k)]
           tableAt == [k \in 1 .. n + 1 |-> TableAt(b, k)]
           H == Cells(MachHeader(b.wide), HeaderValues(b), 0)
           C == UNION {commands[k] : k \in 1 .. n}
           T == UNION {tables[k] : k \in 1 .. n}
<1>1. n \in Nat /\ DOMAIN b.items = 1 .. n /\ b.wide \in BOOLEAN /\ \A k \in 1 .. n : b.items[k] \in Item
  BY ItemsAre
<1>2. /\ \A k \in 1 .. n : k \in 1 .. n + 1 /\ k + 1 \in 1 .. n + 1
      /\ 1 \in 1 .. n + 1 /\ n + 1 \in 1 .. n + 1
  BY <1>1
<1>3. Apart(C, x, y)
  <2>1. \A k \in 1 .. n : commands[k] = CommandCells(b, k) /\ commandAt[k] = CommandAt(b, k)
                          /\ commandAt[k + 1] = CommandAt(b, k + 1)
    BY <1>2
  <2>2. commandAt[1] = x /\ commandAt[n + 1] = y /\ x \in Int
    BY <1>1, <1>2, CommandsAre DEF HeaderSizeOf
  <2> HIDE DEF commands, commandAt, n, x, y
  <2>3. \A k \in 1 .. n : Apart(commands[k], commandAt[k], commandAt[k + 1])
    BY <2>1, CommandCellsApart DEF n
  <2>4. Apart(UNION {commands[k] : k \in 1 .. n}, commandAt[1], commandAt[n + 1])
    BY <1>1, <2>2, <2>3, PiecesApart
  <2> QED  BY <2>2, <2>4
<1>4. Apart(T, y, z)
  <2>1. \A k \in 1 .. n : tables[k] = TableCells(b, k) /\ tableAt[k] = TableAt(b, k)
                          /\ tableAt[k + 1] = TableAt(b, k + 1)
    BY <1>2
  <2>2. tableAt[1] = y /\ tableAt[n + 1] = z /\ y \in Int
    BY <1>1, <1>2, TablesAre, CommandsAre DEF FileSize
  <2> HIDE DEF tables, tableAt, n, y, z
  <2>3. \A k \in 1 .. n : Apart(tables[k], tableAt[k], tableAt[k + 1])
    BY <2>1, TableCellsApart DEF n
  <2>4. Apart(UNION {tables[k] : k \in 1 .. n}, tableAt[1], tableAt[n + 1])
    BY <1>1, <2>2, <2>3, PiecesApart
  <2> QED  BY <2>2, <2>4
<1>5. Apart(H, 0, x)
  <2>1. Structure(MachHeader(b.wide)) /\ SizeOf(MachHeader(b.wide)) = x /\ 0 \in Int /\ x \in Nat
    BY <1>1, StructSizes DEF HeaderSizeOf
  <2>2. Apart(H, 0, 0 + x)
    BY <2>1, CellsOfSize
  <2> QED  BY <2>1, <2>2
<1>6. AllCells(b) = (H \cup C) \cup T
  <2>1. \A k \in 1 .. n : ItemCells(b, k) = CommandCells(b, k) \cup TableCells(b, k)
    BY <1>1, ItemCellsAre
  <2>2. \A k \in 1 .. n : commands[k] = CommandCells(b, k) /\ tables[k] = TableCells(b, k)
    OBVIOUS
  <2> HIDE DEF commands, tables, n
  <2>3. UNION {ItemCells(b, k) : k \in 1 .. n} = C \cup T
    BY <2>1, <2>2
  <2> QED  BY <1>1, <2>3 DEF AllCells
<1> HIDE DEF H, C, T, x, y, z
<1>7. x <= x /\ y <= y
  BY <1>3, <1>4 DEF Apart
<1>8. Apart(H \cup C, 0, y)
  BY <1>3, <1>5, <1>7, ApartJoin
<1>9. Apart((H \cup C) \cup T, 0, z)
  BY <1>4, <1>7, <1>8, ApartJoin
<1> QED  BY <1>6, <1>9 DEF z

-----------------------------------------------------------------------------
(* What can be read from the file of a binary. *)

(* What a reader is given. *)
Cellsof(b) == Contents(AllCells(b))

(* It is the file of the binary. *)
LEMMA FileIs == \A b : FileOf(b).cells = Cellsof(b)
BY DEF FileOf, Cellsof, AllCells, HeaderValues

(* A structure that was written into the binary is read as it was written. *)
LEMMA PartIsPlaced ==
  ASSUME NEW b, WellFormed(b), NEW struct, Structure(struct), NEW values, NEW pos \in Nat,
         Cells(struct, values, pos) \subseteq AllCells(b)
  PROVE  Placed(Cellsof(b), pos, struct, values)
<1>1. Apart(AllCells(b), 0, FileSize(b)) /\ pos \in Int
  BY FileApart
<1> QED  BY <1>1, CellsArePlaced DEF Cellsof

(* Each command and each table was written into the binary. *)
LEMMA PartsOfItem ==
  ASSUME NEW b, WellFormed(b), NEW k \in 1 .. Len(b.items)
  PROVE  CommandCells(b, k) \subseteq AllCells(b) /\ TableCells(b, k) \subseteq AllCells(b)
<1>1. k \in DOMAIN b.items /\ b.items[k] \in Item
  BY ItemsAre
<1>2. ItemCells(b, k) \subseteq AllCells(b)
  BY <1>1 DEF AllCells
<1> QED  BY <1>1, <1>2, ItemCellsAre

(* The header is at the beginning. *)
LEMMA HeaderIsPlaced ==
  ASSUME NEW b, WellFormed(b)
  PROVE  Placed(Cellsof(b), 0, MachHeader(b.wide), HeaderValues(b))
<1>1. Structure(MachHeader(b.wide)) /\ Cells(MachHeader(b.wide), HeaderValues(b), 0) \subseteq AllCells(b) /\ 0 \in Nat
  BY ItemsAre, StructSizes DEF AllCells
<1> QED  BY <1>1, PartIsPlaced

(* Each command is where the ones before it end. *)
LEMMA CommandIsPlaced ==
  ASSUME NEW b, WellFormed(b), NEW k \in 1 .. Len(b.items)
  PROVE  Placed(Cellsof(b), CommandAt(b, k), CommandStruct(b, k), CommandValues(b, k))
<1>1. Cells(CommandStruct(b, k), CommandValues(b, k), CommandAt(b, k)) \subseteq AllCells(b)
  BY PartsOfItem DEF CommandCells
<1>2. CommandAt(b, k) \in Nat /\ Structure(CommandStruct(b, k))
  <2>1. k \in 1 .. Len(b.items) + 1
    BY ItemsAre
  <2> QED  BY <2>1, CommandsAre, CommandStructIs
<1> QED  BY <1>1, <1>2, PartIsPlaced

(* Each section is behind its segment command. *)
LEMMA SectionIsPlaced ==
  ASSUME NEW b, WellFormed(b), NEW k \in 1 .. Len(b.items), b.items[k].kind = "segment",
         NEW s \in 1 .. Len(b.items[k].relocs)
  PROVE  Placed(Cellsof(b), SectionAt(b, k, s), Section(b.wide), SectionValues(b, k, s))
<1>1. s \in DOMAIN b.items[k].relocs /\ b.wide \in BOOLEAN
  BY ItemsAre, ItemKinds
<1>2. Cells(Section(b.wide), SectionValues(b, k, s), SectionAt(b, k, s)) \subseteq SectionRows(b, k)
  BY <1>1 DEF SectionRows
<1>3. Cells(Section(b.wide), SectionValues(b, k, s), SectionAt(b, k, s)) \subseteq AllCells(b)
  BY <1>2, PartsOfItem DEF CommandCells
<1>4. SectionAt(b, k, s) \in Nat
  <2>1. k \in 1 .. Len(b.items) + 1 /\ Len(b.items[k].relocs) \in Nat
    BY ItemsAre, ItemKinds
  <2>2. CommandAt(b, k) \in Nat
    BY <2>1, CommandsAre
  <2> DEFINE x == SizeOf(SegmentCommand(b.wide))
             y == SizeOf(Section(b.wide))
             c == CommandAt(b, k)
  <2>3. x \in Nat /\ y \in Nat
    BY <1>1, StructSizes
  <2>4. s - 1 \in Nat
    BY <2>1
  <2>5. SectionAt(b, k, s) = c + x + (s - 1) * y
    BY DEF SectionAt
  <2> HIDE DEF x, y, c
  <2>6. (s - 1) * y \in Nat
    BY <2>3, <2>4
  <2> QED  BY <2>2, <2>3, <2>5, <2>6 DEF c
<1>5. Structure(Section(b.wide))
  BY <1>1, StructSizes
<1> QED  BY <1>3, <1>4, <1>5, PartIsPlaced

(* Each symbol is in its table. *)
LEMMA SymbolIsPlaced ==
  ASSUME NEW b, WellFormed(b), NEW k \in 1 .. Len(b.items), b.items[k].kind = "symtab",
         NEW s \in 1 .. Len(b.items[k].names)
  PROVE  Placed(Cellsof(b), SymbolAt(b, k, s), NlistOfWidth(b.wide), SymbolValues(b, k, s))
<1>1. s \in DOMAIN b.items[k].names /\ b.wide \in BOOLEAN
  BY ItemsAre, ItemKinds
<1>2. Cells(NlistOfWidth(b.wide), SymbolValues(b, k, s), SymbolAt(b, k, s)) \subseteq SymbolRows(b, k)
  BY <1>1 DEF SymbolRows
<1>3. Cells(NlistOfWidth(b.wide), SymbolValues(b, k, s), SymbolAt(b, k, s)) \subseteq AllCells(b)
  BY <1>2, PartsOfItem DEF TableCells
<1>4. SymbolAt(b, k, s) \in Nat
  <2>1. k \in 1 .. Len(b.items) + 1 /\ Len(b.items[k].names) \in Nat
    BY ItemsAre, ItemKinds
  <2> DEFINE y == SizeOf(NlistOfWidth(b.wide))
             c == TableAt(b, k)
  <2>1a. s - 1 \in Nat
    BY <2>1
  <2>1b. y \in Nat
    BY <1>1, StructSizes
  <2>1c. c \in Nat
    BY <2>1, TablesAre
  <2>2. c \in Nat /\ y \in Nat /\ s - 1 \in Nat
    BY <2>1a, <2>1b, <2>1c
  <2>3. SymbolAt(b, k, s) = c + (s - 1) * y
    BY DEF SymbolAt
  <2> HIDE DEF y, c
  <2>4. (s - 1) * y \in Nat
    BY <2>2
  <2> QED  BY <2>2, <2>3, <2>4
<1>5. Structure(NlistOfWidth(b.wide))
  BY <1>1, StructSizes
<1> QED  BY <1>3, <1>4, <1>5, PartIsPlaced

(* So are the strings. *)
LEMMA StringsArePlaced ==
  ASSUME NEW b, WellFormed(b), NEW k \in 1 .. Len(b.items), b.items[k].kind = "symtab"
  PROVE  /\ StringsAt(b, k) \in DOMAIN Cellsof(b)
         /\ Cellsof(b)[StringsAt(b, k)].value = StringTable(b.items[k].names)
<1> DEFINE c == StringsCell(b, k)
<1>1. c \in AllCells(b)
  BY PartsOfItem DEF TableCells
<1>2. c.at = StringsAt(b, k) /\ c.value = StringTable(b.items[k].names)
  BY DEF StringsCell
<1> HIDE DEF c
<1>3. c.at \in DOMAIN Contents(AllCells(b)) /\ Contents(AllCells(b))[c.at] = c
  BY <1>1, FileApart, ContentsHold
<1> QED  BY <1>2, <1>3 DEF Cellsof

(* No member of the structure has this name. *)
Without(struct, name) == \A k \in 1 .. Len(struct) : struct[k].name # name

(* Members with these names have no other. *)
LEMMA WithoutMembers ==
  ASSUME NEW list, NEW n, Lists(list, n, {}), NEW w \in Nat \ {0}, NEW name, \A k \in 1 .. n : list[k] # name
  PROVE  Structure(Members(list, w)) /\ Without(Members(list, w), name)
<1>1. /\ Structure(Members(list, w)) /\ Len(Members(list, w)) = n
      /\ \A k \in 1 .. n : Members(list, w)[k] = Member(list[k], w)
  BY MembersAre
<1> QED  BY <1>1 DEF Without, Member

(* What two parts lack, the whole lacks. *)
LEMMA WithoutJoin ==
  ASSUME NEW a, NEW b, Structure(a), Structure(b), NEW name, Without(a, name), Without(b, name)
  PROVE  Structure(a \o b) /\ Without(a \o b, name)
<1>0. \A x, y : Structure(x) /\ Structure(y) =>
        /\ Structure(x \o y) /\ Len(x \o y) = Len(x) + Len(y)
        /\ \A k \in 1 .. Len(x) : (x \o y)[k] = x[k]
        /\ \A k \in 1 .. Len(y) : (x \o y)[Len(x) + k] = y[k]
  BY StructureJoin
<1>1. /\ Structure(a \o b) /\ Len(a \o b) = Len(a) + Len(b)
      /\ \A k \in 1 .. Len(a) : (a \o b)[k] = a[k]
      /\ \A k \in 1 .. Len(b) : (a \o b)[Len(a) + k] = b[k]
  BY <1>0
<1>1a. Len(a) \in Nat /\ Len(b) \in Nat
  BY DEF Structure
<1> DEFINE s == a \o b
<1> HIDE DEF s
<1>2. ASSUME NEW k \in 1 .. Len(s) PROVE s[k].name # name
  <2>1. k \in 1 .. Len(a) \/ (k - Len(a) \in 1 .. Len(b) /\ k = Len(a) + (k - Len(a)))
    BY <1>1, <1>1a DEF s
  <2>2. (s[k] = a[k] /\ k \in 1 .. Len(a)) \/ (s[k] = b[k - Len(a)] /\ k - Len(a) \in 1 .. Len(b))
    <3>1. CASE k \in 1 .. Len(a)
      BY <1>1, <3>1 DEF s
    <3>2. CASE k - Len(a) \in 1 .. Len(b) /\ k = Len(a) + (k - Len(a))
      <4> DEFINE j == k - Len(a)
      <4>1. j \in 1 .. Len(b) /\ k = Len(a) + j
        BY <3>2
      <4> HIDE DEF j
      <4>2. s[k] = b[j]
        BY <1>1, <4>1 DEF s
      <4> QED  BY <4>1, <4>2 DEF j
    <3> QED  BY <2>1, <3>1, <3>2
  <2> QED  BY <2>2 DEF Without
<1> QED  BY <1>1, <1>2 DEF Without, s

(* Structures without a member called cmdsize. *)
Lacks(struct) == Structure(struct) /\ Without(struct, "cmdsize")

(* Two of them joined. *)
LEMMA LacksJoin ==
  ASSUME NEW a, NEW b, Lacks(a), Lacks(b)
  PROVE  Lacks(a \o b)
BY WithoutJoin DEF Lacks

(* Members of one width. *)
LEMMA LacksMembers ==
  ASSUME NEW list, NEW n, Lists(list, n, {}), NEW w \in Nat \ {0}, \A k \in 1 .. n : list[k] # "cmdsize"
  PROVE  Lacks(Members(list, w))
BY WithoutMembers DEF Lacks

(* Words. *)
LEMMA LacksWords ==
  ASSUME NEW list, NEW n, Lists(list, n, {}), \A k \in 1 .. n : list[k] # "cmdsize"
  PROVE  Lacks(Words(list))
BY LacksMembers DEF Words

(* A name of sixteen bytes. *)
LEMMA LacksName ==
  ASSUME NEW name, name # "cmdsize"
  PROVE  Lacks(Name16(name))
<1>1. Name16(name) = Members(<<name>>, 16)
  BY DEF Name16, Members, Member
<1>2. Lists(<<name>>, 1, {}) /\ 16 \in Nat \ {0} /\ \A k \in 1 .. 1 : <<name>>[k] # "cmdsize"
  BY DEF Lists
<1> QED  BY <1>1, <1>2, LacksMembers

(* A header has no cmdsize. *)
LEMMA HeaderLacks ==
  ASSUME NEW w \in BOOLEAN
  PROVE  Lacks(MachHeader(w))
<1> DEFINE list == <<"magic", "cputype", "cpusubtype", "filetype", "ncmds", "sizeofcmds", "flags">>
           one == <<"reserved">>
<1>1. Lists(list, 7, {}) /\ \A k \in 1 .. 7 : list[k] # "cmdsize"
  BY DEF Lists
<1>2. Lists(one, 1, {}) /\ \A k \in 1 .. 1 : one[k] # "cmdsize"
  BY DEF Lists
<1>3. mach_header = Words(list) /\ mach_header_64 = Words(list) \o Words(one)
  BY DEF mach_header, mach_header_64
<1> HIDE DEF list, one
<1>4. Lacks(Words(list)) /\ Lacks(Words(one))
  BY <1>1, <1>2, LacksWords
<1>5. Lacks(Words(list) \o Words(one))
  BY <1>4, LacksJoin
<1> QED  BY <1>3, <1>4, <1>5 DEF MachHeader

(* Nor has a section. *)
LEMMA SectionLacks ==
  ASSUME NEW w \in BOOLEAN
  PROVE  Lacks(Section(w))
<1> DEFINE one == <<"reserved3">>
<1>1. ASSUME NEW long \in {4, 8} PROVE Lacks(SectionOf(long))
  <2> DEFINE longs == <<"addr", "size">>
             words == <<"offset", "align", "reloff", "nreloc", "flags", "reserved1", "reserved2">>
             a == Name16("sectname")
             b == Name16("segname")
             c == Members(longs, long)
             d == Words(words)
  <2>1. Lists(longs, 2, {}) /\ (\A k \in 1 .. 2 : longs[k] # "cmdsize") /\ long \in Nat \ {0}
    BY DEF Lists
  <2>2. Lists(words, 7, {}) /\ \A k \in 1 .. 7 : words[k] # "cmdsize"
    BY DEF Lists
  <2>3. SectionOf(long) = a \o b \o c \o d
    BY DEF SectionOf
  <2> HIDE DEF longs, words
  <2>4. Lacks(a) /\ Lacks(b)
    BY LacksName
  <2>5. Lacks(c)
    BY <2>1, LacksMembers
  <2>6. Lacks(d)
    BY <2>2, LacksWords
  <2> HIDE DEF a, b, c, d
  <2>7. Lacks(a \o b)
    BY <2>4, LacksJoin
  <2>8. Lacks((a \o b) \o c)
    BY <2>5, <2>7, LacksJoin
  <2>9. Lacks(((a \o b) \o c) \o d)
    BY <2>6, <2>8, LacksJoin
  <2> QED  BY <2>3, <2>9
<1>2. Lists(one, 1, {}) /\ \A k \in 1 .. 1 : one[k] # "cmdsize"
  BY DEF Lists
<1>3. section_64 = SectionOf(8) \o Words(one) /\ section = SectionOf(4)
  BY DEF section_64, section
<1> HIDE DEF one
<1>4. Lacks(Words(one)) /\ Lacks(SectionOf(4)) /\ Lacks(SectionOf(8))
  BY <1>1, <1>2, LacksWords
<1>5. Lacks(SectionOf(8) \o Words(one))
  BY <1>4, LacksJoin
<1> QED  BY <1>3, <1>4, <1>5 DEF Section

(* Nor has a symbol. *)
LEMMA NlistLacks ==
  ASSUME NEW w \in BOOLEAN
  PROVE  Lacks(NlistOfWidth(w))
<1> SUFFICES ASSUME NEW long \in {4, 8} PROVE Lacks(NlistOf(long))
  BY DEF NlistOfWidth, nlist, nlist_64
<1> DEFINE l1 == <<"n_strx">>
           l2 == <<"n_type", "n_sect">>
           l3 == <<"n_desc">>
           l4 == <<"n_value">>
           a == Words(l1)
           b == Members(l2, 1)
           c == Members(l3, 2)
           d == Members(l4, long)
<1>1. Lists(l1, 1, {}) /\ Lists(l2, 2, {}) /\ (\A k \in 1 .. 1 : l1[k] # "cmdsize") /\ (\A k \in 1 .. 2 : l2[k] # "cmdsize")
  BY DEF Lists
<1>2. Lists(l3, 1, {}) /\ Lists(l4, 1, {}) /\ (\A k \in 1 .. 1 : l3[k] # "cmdsize") /\ (\A k \in 1 .. 1 : l4[k] # "cmdsize")
  BY DEF Lists
<1>3. NlistOf(long) = a \o b \o c \o d
  BY DEF NlistOf
<1> HIDE DEF l1, l2, l3, l4
<1>4. Lacks(a) /\ Lacks(b)
  BY <1>1, LacksWords, LacksMembers
<1>5. Lacks(c) /\ Lacks(d)
  BY <1>2, LacksMembers
<1> HIDE DEF a, b, c, d
<1>6. Lacks(a \o b)
  BY <1>4, LacksJoin
<1>7. Lacks((a \o b) \o c)
  BY <1>5, <1>6, LacksJoin
<1>8. Lacks(((a \o b) \o c) \o d)
  BY <1>5, <1>7, LacksJoin
<1> QED  BY <1>3, <1>8

(* Nor has a segment command behind its head. *)
LEMMA SegmentLacks ==
  ASSUME NEW w \in BOOLEAN
  PROVE  Lacks(Dump!SegmentList(w))
<1> DEFINE long == Long(w)
           longs == <<"vmaddr", "vmsize", "fileoff", "filesize">>
           words == <<"maxprot", "initprot", "nsects", "flags">>
           b == Name16("segname")
           c == Members(longs, long)
           d == Words(words)
<1>1. Lists(longs, 4, {}) /\ (\A k \in 1 .. 4 : longs[k] # "cmdsize") /\ long \in Nat \ {0}
  BY DEF Lists, Long
<1>2. Lists(words, 4, {}) /\ \A k \in 1 .. 4 : words[k] # "cmdsize"
  BY DEF Lists
<1>3. Dump!SegmentList(w) = (b \o c) \o d
  BY SameWords DEF Dump!SegmentList
<1> HIDE DEF longs, words, long
<1>4. Lacks(b) /\ Lacks(c) /\ Lacks(d)
  BY <1>1, <1>2, LacksName, LacksMembers, LacksWords
<1> HIDE DEF b, c, d
<1>5. Lacks(b \o c)
  BY <1>4, LacksJoin
<1>6. Lacks((b \o c) \o d)
  BY <1>4, <1>5, LacksJoin
<1> QED  BY <1>3, <1>6

(* Nor have the other commands. *)
LEMMA OthersLack == Lacks(Dump!SymtabList) /\ Lacks(Dump!DysymtabList) /\ Lacks(Dump!Name16("uuid"))
<1> DEFINE l1 == <<"symoff", "nsyms", "stroff", "strsize">>
           l2 == <<"ilocalsym", "nlocalsym", "iextdefsym", "nextdefsym", "iundefsym",
                   "nundefsym", "tocoff", "ntoc", "modtaboff", "nmodtab", "extrefsymoff",
                   "nextrefsyms", "indirectsymoff", "nindirectsyms", "extreloff",
                   "nextrel", "locreloff", "nlocrel">>
<1>1. Lists(l1, 4, {}) /\ \A k \in 1 .. 4 : l1[k] # "cmdsize"
  BY DEF Lists
<1>2. Lists(l2, 18, {}) /\ \A k \in 1 .. 18 : l2[k] # "cmdsize"
  BY DEF Lists
<1>3. Dump!SymtabList = Words(l1) /\ Dump!DysymtabList = Words(l2)
  BY SameWords DEF Dump!SymtabList, Dump!DysymtabList
<1> HIDE DEF l1, l2
<1>4. Lacks(Words(l1)) /\ Lacks(Words(l2))
  BY <1>1, <1>2, LacksWords
<1>5. Lacks(Dump!Name16("uuid"))
  BY LacksName, SameWords
<1> QED  BY <1>3, <1>4, <1>5

-----------------------------------------------------------------------------
(* Positions of commands and tables. *)

(* at[1], ..., at[n + 1], each at least this much behind the one before it. *)
Climbs(at, n, gap) ==
  /\ n \in Nat /\ gap \in Nat
  /\ \A k \in 1 .. n + 1 : at[k] \in Nat
  /\ \A k \in 1 .. n : at[k] + gap <= at[k + 1]

(* The same for any two of them. *)
LEMMA ClimbsFar ==
  ASSUME NEW at, NEW n, NEW gap, Climbs(at, n, gap)
  PROVE  \A j, k \in 1 .. n + 1 : j < k => at[j] + gap <= at[k]
<1>0. /\ n \in Nat /\ gap \in Nat
      /\ \A k \in 1 .. n + 1 : at[k] \in Nat
      /\ \A k \in 1 .. n : at[k] + gap <= at[k + 1]
  BY DEF Climbs
<1> DEFINE T == {m \in Nat : \A j, k \in 1 .. n + 1 : k = (j + m) + 1 => at[j] + gap <= at[k]}
<1>1. T \in SUBSET Nat
  OBVIOUS
<1>2. 0 \in T
  <2> SUFFICES ASSUME NEW j \in 1 .. n + 1, NEW k \in 1 .. n + 1, k = (j + 0) + 1
               PROVE  at[j] + gap <= at[k]
    OBVIOUS
  <2>1. j \in 1 .. n /\ k = j + 1
    BY <1>0
  <2> QED  BY <1>0, <2>1
<1>3. ASSUME NEW m \in T PROVE m + 1 \in T
  <2>1. m \in Nat /\ m + 1 \in Nat
    OBVIOUS
  <2>2. ASSUME NEW j \in 1 .. n + 1, NEW k \in 1 .. n + 1, k = (j + (m + 1)) + 1
        PROVE  at[j] + gap <= at[k]
    <3>1. j + 1 \in 1 .. n + 1 /\ j \in 1 .. n /\ k = ((j + 1) + m) + 1
      BY <1>0, <2>1, <2>2
    <3>2. at[j + 1] + gap <= at[k]
      BY <3>1
    <3>3. at[j] + gap <= at[j + 1]
      BY <1>0, <3>1
    <3>4. at[j] \in Nat /\ at[j + 1] \in Nat /\ at[k] \in Nat
      BY <1>0, <3>1
    <3> QED  BY <1>0, <3>2, <3>3, <3>4
  <2> QED  BY <2>1, <2>2
<1> HIDE DEF T
<1>4. T = Nat
  BY <1>1, <1>2, <1>3, Induction
<1> SUFFICES ASSUME NEW j \in 1 .. n + 1, NEW k \in 1 .. n + 1, j < k
             PROVE  at[j] + gap <= at[k]
  OBVIOUS
<1>5. (k - j) - 1 \in T /\ k = (j + ((k - j) - 1)) + 1
  BY <1>0, <1>4
<1> QED  BY <1>5 DEF T

(* A later command is at a higher place, and the tables are above all. *)
LEMMA CommandsClimb ==
  ASSUME NEW b, WellFormed(b)
  PROVE  /\ \A j, k \in 1 .. Len(b.items) + 1 : j < k => CommandAt(b, j) + 8 <= CommandAt(b, k)
         /\ \A k \in 1 .. Len(b.items) + 1 : CommandAt(b, k) \in Nat /\ CommandAt(b, k) <= TableAt(b, 1)
<1> DEFINE n == Len(b.items)
           at == [k \in 1 .. n + 1 |-> CommandAt(b, k)]
<1>1. n \in Nat /\ \A k \in 1 .. n : k \in 1 .. n + 1 /\ k + 1 \in 1 .. n + 1
  BY ItemsAre
<1>2. \A k \in 1 .. n + 1 : CommandAt(b, k) \in Nat
  BY CommandsAre
<1>3. ASSUME NEW k \in 1 .. n PROVE CommandAt(b, k) + 8 <= CommandAt(b, k + 1)
  <2>1. CommandAt(b, k + 1) = CommandAt(b, k) + Cmdsize(b.wide, b.items[k])
    BY CommandsAre
  <2>2. Cmdsize(b.wide, b.items[k]) \in Nat /\ Cmdsize(b.wide, b.items[k]) >= 8
    BY ItemsAre, CmdsizeIs
  <2>3. CommandAt(b, k) \in Nat
    BY <1>1, <1>2
  <2> QED  BY <2>1, <2>2, <2>3
<1>4. Climbs(at, n, 8)
  BY <1>1, <1>2, <1>3 DEF Climbs
<1>5. \A k \in 1 .. n + 1 : at[k] = CommandAt(b, k)
  OBVIOUS
<1>6. TableAt(b, 1) = CommandAt(b, n + 1)
  BY TablesAre
<1> HIDE DEF at, n
<1>7. \A j, k \in 1 .. n + 1 : j < k => at[j] + 8 <= at[k]
  BY <1>4, ClimbsFar
<1>8. \A j, k \in 1 .. n + 1 : j < k => CommandAt(b, j) + 8 <= CommandAt(b, k)
  BY <1>5, <1>7
<1>9. ASSUME NEW k \in 1 .. n + 1 PROVE CommandAt(b, k) <= CommandAt(b, n + 1)
  <2>1. n + 1 \in 1 .. n + 1 /\ (k = n + 1 \/ k < n + 1)
    BY <1>1
  <2>2. CommandAt(b, k) \in Nat /\ CommandAt(b, n + 1) \in Nat
    BY <1>2, <2>1
  <2> QED  BY <1>8, <2>1, <2>2
<1> QED  BY <1>2, <1>6, <1>8, <1>9 DEF n

(* The table of a later command is at a place not lower. *)
LEMMA TablesClimb ==
  ASSUME NEW b, WellFormed(b)
  PROVE  \A j, k \in 1 .. Len(b.items) + 1 : j <= k =>
           TableAt(b, j) \in Nat /\ TableAt(b, k) \in Nat /\ TableAt(b, j) <= TableAt(b, k)
<1> DEFINE n == Len(b.items)
           at == [k \in 1 .. n + 1 |-> TableAt(b, k)]
<1>1. n \in Nat /\ \A k \in 1 .. n : k \in 1 .. n + 1 /\ k + 1 \in 1 .. n + 1
  BY ItemsAre
<1>2. \A k \in 1 .. n + 1 : TableAt(b, k) \in Nat
  BY TablesAre
<1>3. ASSUME NEW k \in 1 .. n PROVE TableAt(b, k) + 0 <= TableAt(b, k + 1)
  <2>1. TableAt(b, k + 1) = TableAt(b, k) + TableSize(b.wide, b.items[k])
    BY TablesAre
  <2>2. TableSize(b.wide, b.items[k]) \in Nat
    BY ItemsAre, TableSizeIs
  <2>3. TableAt(b, k) \in Nat
    BY <1>1, <1>2
  <2> QED  BY <2>1, <2>2, <2>3
<1>4. Climbs(at, n, 0)
  BY <1>1, <1>2, <1>3 DEF Climbs
<1>5. \A k \in 1 .. n + 1 : at[k] = TableAt(b, k)
  OBVIOUS
<1> HIDE DEF at, n
<1>6. \A j, k \in 1 .. n + 1 : j < k => at[j] + 0 <= at[k]
  BY <1>4, ClimbsFar
<1> SUFFICES ASSUME NEW j \in 1 .. n + 1, NEW k \in 1 .. n + 1, j <= k
             PROVE  TableAt(b, j) \in Nat /\ TableAt(b, k) \in Nat /\ TableAt(b, j) <= TableAt(b, k)
  BY DEF n
<1>7. TableAt(b, j) \in Nat /\ TableAt(b, k) \in Nat
  BY <1>2
<1>8. j = k \/ j < k
  BY <1>1
<1> QED  BY <1>5, <1>6, <1>7, <1>8

-----------------------------------------------------------------------------
(* The two members every command begins with. *)

(* Their offsets are 0 and 4. *)
LEMMA HeadMembers ==
  /\ Structure(load_command) /\ Len(load_command) = 2
  /\ load_command[1].name = "cmd" /\ load_command[2].name = "cmdsize"
  /\ OffsetOf(load_command, 1) = 0 /\ OffsetOf(load_command, 2) = 4
  /\ IndexOf(load_command, "cmd") = 1 /\ IndexOf(load_command, "cmdsize") = 2
<1> DEFINE list == <<"cmd", "cmdsize">>
<1>1. Lists(list, 2, {}) /\ list[1] = "cmd" /\ list[2] = "cmdsize" /\ 4 \in Nat \ {0}
  BY DEF Lists
<1>2. load_command = Members(list, 4)
  BY DEF load_command, Words
<1> HIDE DEF list
<1>3. /\ Structure(load_command) /\ Len(load_command) = 2
      /\ \A k \in 1 .. 2 : load_command[k] = Member(list[k], 4)
  BY ZenonT(60), <1>1, <1>2, MembersAre
<1>4. 1 \in 1 .. 2 /\ 2 \in 1 .. 2
  OBVIOUS
<1>5. load_command[1].name = "cmd" /\ load_command[2].name = "cmdsize"
  BY <1>1, <1>3, <1>4 DEF Member
<1>6. \A k \in 1 .. Len(load_command) : load_command[k].width = 4
  BY <1>3 DEF Member
<1>7. \A k \in 1 .. Len(load_command) + 1 : OffsetOf(load_command, k) = (k - 1) * 4
  BY <1>3, <1>6, SizeOfEqual
<1>8. OffsetOf(load_command, 1) = 0 /\ OffsetOf(load_command, 2) = 4
  BY <1>3, <1>7
<1>9. DOMAIN load_command = {1, 2}
  BY <1>3 DEF Structure
<1> QED  BY <1>3, <1>5, <1>8, <1>9 DEF IndexOf

(* A structure without cmdsize has no such cell. *)
LEMMA LacksCells ==
  ASSUME NEW struct, Lacks(struct), NEW values, NEW pos
  PROVE  \A c \in Cells(struct, values, pos) : c.name # "cmdsize"
<1>1. DOMAIN struct = 1 .. Len(struct)
  BY DEF Lacks, Structure
<1> QED  BY <1>1 DEF Cells, Lacks, Without

(* A command that has no other member called cmdsize. *)
Headed(struct) == struct = load_command \/ \E tail : Lacks(tail) /\ struct = load_command \o tail

(* The cell called cmdsize is four bytes behind the begin of the command. *)
LEMMA HeadedCells ==
  ASSUME NEW struct, Headed(struct), NEW values, NEW pos \in Nat
  PROVE  \A c \in Cells(struct, values, pos) : c.name = "cmdsize" => c.at = pos + 4
<1>1. CASE struct = load_command
  <2>1. DOMAIN struct = {1, 2}
    BY <1>1, HeadMembers DEF Structure
  <2> QED  BY <1>1, <2>1, HeadMembers DEF Cells
<1>2. CASE \E tail : Lacks(tail) /\ struct = load_command \o tail
  <2>1. PICK tail : Lacks(tail) /\ struct = load_command \o tail
    BY <1>2
  <2>2. Structure(load_command) /\ Structure(tail)
    BY <2>1, HeadMembers DEF Lacks
  <2>3. \A x, y : Structure(x) /\ Structure(y) =>
          /\ Structure(x \o y) /\ Len(x \o y) = Len(x) + Len(y)
          /\ \A k \in 1 .. Len(x) : (x \o y)[k] = x[k]
          /\ \A k \in 1 .. Len(y) : (x \o y)[Len(x) + k] = y[k]
    BY StructureJoin
  <2>4. \A x, y : Structure(x) /\ Structure(y) => \A k \in 1 .. Len(x) + 1 : OffsetOf(x \o y, k) = OffsetOf(x, k)
    BY OffsetOfJoin
  <2>4a. Len(load_command) = 2
    BY HeadMembers
  <2>4b. LET x == load_command
             y == tail
         IN /\ Structure(x \o y) /\ Len(x \o y) = Len(x) + Len(y)
            /\ \A k \in 1 .. Len(x) : (x \o y)[k] = x[k]
            /\ \A k \in 1 .. Len(y) : (x \o y)[Len(x) + k] = y[k]
    BY <2>2, <2>3
  <2>5a. /\ Structure(struct) /\ Len(struct) = 2 + Len(tail)
         /\ \A k \in 1 .. 2 : struct[k] = load_command[k]
         /\ \A k \in 1 .. Len(tail) : struct[2 + k] = tail[k]
    BY <2>1, <2>4a, <2>4b
  <2>5b. 2 \in 1 .. Len(load_command) + 1
    BY HeadMembers
  <2>5c. OffsetOf(struct, 2) = OffsetOf(load_command, 2)
    BY <2>1, <2>2, <2>4, <2>5b
  <2>5d. Len(tail) \in Nat
    BY <2>2 DEF Structure
  <2>5. /\ Structure(struct) /\ Len(struct) = 2 + Len(tail) /\ Len(tail) \in Nat
        /\ \A k \in 1 .. 2 : struct[k] = load_command[k]
        /\ \A k \in 1 .. Len(tail) : struct[2 + k] = tail[k]
        /\ OffsetOf(struct, 2) = 4
    BY <2>5a, <2>5c, <2>5d, HeadMembers
  <2>6. ASSUME NEW k \in DOMAIN struct, struct[k].name = "cmdsize" PROVE k = 2
    <3>1. k \in 1 .. 2 + Len(tail)
      BY <2>5 DEF Structure
    <3>2. CASE k \in 1 .. 2
      BY <2>5, <2>6, <3>2, HeadMembers
    <3>3. CASE k \notin 1 .. 2
      <4> DEFINE j == k - 2
      <4>1. j \in 1 .. Len(tail) /\ k = 2 + j
        BY <2>5, <3>1, <3>3
      <4> HIDE DEF j
      <4>2. struct[k] = tail[j]
        BY <2>5, <4>1
      <4> QED  BY <2>1, <2>6, <4>1, <4>2 DEF Lacks, Without
    <3> QED  BY <3>2, <3>3
  <2> QED  BY <2>5, <2>6 DEF Cells
<1> QED  BY <1>1, <1>2 DEF Headed

(* What follows the two members. *)
CommandTail(b, k) ==
  CASE b.items[k].kind = "segment"  -> Dump!SegmentList(b.wide)
    [] b.items[k].kind = "symtab"   -> Dump!SymtabList
    [] b.items[k].kind = "dysymtab" -> Dump!DysymtabList
    [] OTHER                        -> Dump!Name16("uuid")
TailSize(b, k) ==
  CASE b.items[k].kind = "segment"  -> SegmentSizeOf(b.wide) - 8
    [] b.items[k].kind = "symtab"   -> 16
    [] b.items[k].kind = "dysymtab" -> 72
    [] OTHER                        -> 16
TailNames(b, k) ==
  CASE b.items[k].kind = "segment"  -> {"vmaddr", "vmsize", "nsects"}
    [] b.items[k].kind = "symtab"   -> {"symoff", "nsyms", "stroff", "strsize"}
    [] b.items[k].kind = "dysymtab" -> {"indirectsymoff", "nindirectsyms"}
    [] OTHER                        -> {"uuid"}

(* Every command the reader knows is load_command with what the reader      *)
(* reads behind it.                                                         *)
LEMMA CommandSplits ==
  ASSUME NEW b, WellFormed(b), NEW k \in 1 .. Len(b.items), b.items[k].kind # "other"
  PROVE  /\ Splits(CommandStruct(b, k), load_command, CommandTail(b, k), TailSize(b, k), TailNames(b, k))
         /\ Lacks(CommandTail(b, k))
<1>1. b.wide \in BOOLEAN /\ b.items[k].kind \in {"segment", "symtab", "dysymtab", "uuid", "other"}
  BY ItemsAre, ItemKinds
<1> USE DEF CommandStruct, CommandTail, TailSize, TailNames
<1>2. CASE b.items[k].kind = "segment"
  <2>1. Splits(SegmentCommand(b.wide), load_command, Dump!SegmentList(b.wide), SegmentSizeOf(b.wide) - 8,
               {"vmaddr", "vmsize", "nsects"})
    BY <1>1, SegmentListIs
  <2>2. Lacks(Dump!SegmentList(b.wide))
    BY <1>1, SegmentLacks
  <2> QED  BY <1>2, <2>1, <2>2
<1>3. CASE b.items[k].kind = "symtab"
  BY <1>3, SymtabListIs, OthersLack
<1>4. CASE b.items[k].kind = "dysymtab"
  BY <1>4, DysymtabListIs, OthersLack
<1>5. CASE b.items[k].kind = "uuid"
  BY <1>5, UuidListIs, OthersLack
<1> QED  BY <1>1, <1>2, <1>3, <1>4, <1>5

(* Every command has cmdsize in its head only. *)
LEMMA CommandIsHeaded ==
  ASSUME NEW b, WellFormed(b), NEW k \in 1 .. Len(b.items)
  PROVE  Headed(CommandStruct(b, k))
<1>1. CASE b.items[k].kind = "other"
  BY <1>1 DEF Headed, CommandStruct
<1>2. CASE b.items[k].kind # "other"
  BY <1>2, CommandSplits DEF Headed, Splits
<1> QED  BY <1>1, <1>2

(* Only commands have a member called cmdsize. *)
LEMMA OnlyCommandsHaveSizes ==
  ASSUME NEW b, WellFormed(b), NEW c \in AllCells(b), c.name = "cmdsize"
  PROVE  \E k \in 1 .. Len(b.items) : c.at = CommandAt(b, k) + 4
<1>1. b.wide \in BOOLEAN /\ DOMAIN b.items = 1 .. Len(b.items) /\ \A k \in 1 .. Len(b.items) : b.items[k] \in Item
  BY ItemsAre
<1>2. c \notin Cells(MachHeader(b.wide), HeaderValues(b), 0)
  BY <1>1, HeaderLacks, LacksCells
<1>3. PICK k \in 1 .. Len(b.items) : c \in ItemCells(b, k)
  BY <1>1, <1>2 DEF AllCells
<1>4. c \in CommandCells(b, k) \cup TableCells(b, k)
  BY <1>1, <1>3, ItemCellsAre
<1>5. c \notin SectionRows(b, k)
  <2>1. Lacks(Section(b.wide))
    BY <1>1, SectionLacks
  <2> QED  BY <2>1, LacksCells DEF SectionRows
<1>6. c \notin TableCells(b, k)
  <2>1. Lacks(NlistOfWidth(b.wide))
    BY <1>1, NlistLacks
  <2> QED  BY <2>1, LacksCells DEF TableCells, SymbolRows, StringsCell
<1>7. c \in Cells(CommandStruct(b, k), CommandValues(b, k), CommandAt(b, k))
  BY <1>4, <1>5, <1>6 DEF CommandCells
<1>8. CommandAt(b, k) \in Nat /\ Headed(CommandStruct(b, k))
  <2>1. k \in 1 .. Len(b.items) + 1
    BY ItemsAre
  <2> QED  BY <2>1, CommandsClimb, CommandIsHeaded
<1> QED  BY <1>7, <1>8, HeadedCells

(* What a reader finds who looks for a command four bytes behind its begin. *)
LEMMA LateCommand ==
  ASSUME NEW b, WellFormed(b), NEW k \in 1 .. Len(b.items), NEW p, p = CommandAt(b, k) + 4
  PROVE  /\ ValueAt(Cellsof(b), p, load_command, "cmd") = 0
         /\ ValueAt(Cellsof(b), p, load_command, "cmdsize") = 0
<1>0. k \in 1 .. Len(b.items) + 1 /\ CommandAt(b, k) \in Nat
  <2>1. k \in 1 .. Len(b.items) + 1
    BY ItemsAre
  <2> QED  BY <2>1, CommandsClimb
<1>1. p + OffsetOf(load_command, 1) = CommandAt(b, k) + 4
  BY <1>0, HeadMembers
<1>2. p + OffsetOf(load_command, 2) = CommandAt(b, k) + 8
  BY <1>0, HeadMembers
<1>3. Cellsof(b)[CommandAt(b, k) + 4].name = "cmdsize"
  <2>1. Placed(Cellsof(b), CommandAt(b, k), CommandStruct(b, k), CommandValues(b, k))
    BY CommandIsPlaced
  <2>2. Placed(Cellsof(b), CommandAt(b, k), load_command, CommandValues(b, k))
    <3>1. CASE CommandStruct(b, k) = load_command
      BY <2>1, <3>1
    <3>2. CASE \E tail : Lacks(tail) /\ CommandStruct(b, k) = load_command \o tail
      <4>1. PICK tail : Lacks(tail) /\ CommandStruct(b, k) = load_command \o tail
        BY <3>2
      <4>2. Structure(load_command) /\ Structure(tail) /\ CommandAt(b, k) \in Int
        BY <1>0, <4>1, HeadMembers DEF Lacks
      <4>3. Placed(Cellsof(b), CommandAt(b, k), load_command \o tail, CommandValues(b, k))
        BY <2>1, <4>1
      <4> QED  BY <4>2, <4>3, PlacedParts
    <3> QED  BY <3>1, <3>2, CommandIsHeaded DEF Headed
  <2>3. 2 \in DOMAIN load_command
    BY HeadMembers DEF Structure
  <2> QED  BY <2>2, <2>3, HeadMembers DEF Placed, Holds
<1>4. ASSUME CommandAt(b, k) + 8 \in DOMAIN Cellsof(b), Cellsof(b)[CommandAt(b, k) + 8].name = "cmdsize"
      PROVE  FALSE
  <2>1. PICK c \in AllCells(b) : c.at = CommandAt(b, k) + 8
    BY <1>4 DEF Cellsof, Contents
  <2>2. Cellsof(b)[c.at] = c
    BY FileApart, ContentsHold DEF Cellsof
  <2>3. c.name = "cmdsize"
    BY <1>4, <2>1, <2>2
  <2>4. PICK j \in 1 .. Len(b.items) : c.at = CommandAt(b, j) + 4
    BY <2>3, OnlyCommandsHaveSizes
  <2>5. j \in 1 .. Len(b.items) + 1 /\ Len(b.items) \in Nat
    BY ItemsAre
  <2>6. CommandAt(b, j) \in Nat /\ (j < k => CommandAt(b, j) + 8 <= CommandAt(b, k))
        /\ (k < j => CommandAt(b, k) + 8 <= CommandAt(b, j)) /\ (j < k \/ k < j \/ j = k)
    BY <1>0, <2>5, CommandsClimb
  <2> QED  BY <1>0, <2>1, <2>4, <2>6
<1>5. ~Holds(Cellsof(b), p, load_command, 1)
  BY <1>1, <1>3, HeadMembers DEF Holds
<1>6. ~Holds(Cellsof(b), p, load_command, 2)
  BY <1>2, <1>4, HeadMembers DEF Holds
<1> QED  BY <1>5, <1>6, HeadMembers DEF ValueAt, Misread

-----------------------------------------------------------------------------
(* The values a reader finds. *)

(* A structure that was filled has the values it was filled with. *)
LEMMA FilledHas ==
  ASSUME NEW struct, NEW values, NEW name \in MemberNames(struct), name \in DOMAIN values
  PROVE  Filled(struct, values)[name] = values[name]
BY DEF Filled

(* The values of a header. *)
LEMMA HeaderValuesAre ==
  ASSUME NEW b, WellFormed(b)
  PROVE  HeaderValues(b)["ncmds"] = Len(b.items) /\ HeaderValues(b)["sizeofcmds"] = Header(b).sizeofcmds
<1> DEFINE v == Header(b)
<1>1. {"magic", "ncmds", "sizeofcmds"} \subseteq MemberNames(MachHeader(b.wide))
  BY ItemsAre, HeaderHas
<1>2. {"magic", "ncmds", "sizeofcmds"} = DOMAIN v /\ v["ncmds"] = Len(b.items) /\ v["sizeofcmds"] = v.sizeofcmds
  BY DEF Header
<1> HIDE DEF v
<1> QED  BY <1>1, <1>2, FilledHas DEF HeaderValues, v

(* The values of a command. *)
LEMMA CommandValuesAre ==
  ASSUME NEW b, WellFormed(b), NEW k \in 1 .. Len(b.items)
  PROVE  /\ CommandValues(b, k)["cmd"] = CommandHead(b, k).cmd
         /\ CommandValues(b, k)["cmdsize"] = CommandHead(b, k).cmdsize
         /\ b.items[k].kind = "segment" =>
              /\ CommandValues(b, k)["vmaddr"] = b.items[k].vmaddr
              /\ CommandValues(b, k)["vmsize"] = b.items[k].vmsize
              /\ CommandValues(b, k)["nsects"] = Len(b.items[k].relocs)
         /\ b.items[k].kind = "symtab" =>
              /\ CommandValues(b, k)["symoff"] = TableAt(b, k)
              /\ CommandValues(b, k)["nsyms"] = Len(b.items[k].names)
              /\ CommandValues(b, k)["stroff"] = StringsAt(b, k)
              /\ CommandValues(b, k)["strsize"] = StringTableSize(b.items[k].names)
         /\ b.items[k].kind = "dysymtab" =>
              /\ CommandValues(b, k)["indirectsymoff"] = TableAt(b, k)
              /\ CommandValues(b, k)["nindirectsyms"] = b.items[k].n
<1>1. b.wide \in BOOLEAN /\ b.items[k].kind \in {"segment", "symtab", "dysymtab", "uuid", "other"}
  BY ItemsAre, ItemKinds
<1>2. CASE b.items[k].kind = "segment"
  <2> DEFINE s == SegmentCommand(b.wide)
             v == [vmaddr |-> b.items[k].vmaddr, vmsize |-> b.items[k].vmsize, nsects |-> Len(b.items[k].relocs),
                   cmd |-> CommandHead(b, k).cmd, cmdsize |-> CommandHead(b, k).cmdsize]
  <2>1. /\ DOMAIN v = {"vmaddr", "vmsize", "nsects", "cmd", "cmdsize"}
        /\ v["vmaddr"] = b.items[k].vmaddr /\ v["vmsize"] = b.items[k].vmsize
        /\ v["nsects"] = Len(b.items[k].relocs)
        /\ v["cmd"] = CommandHead(b, k).cmd /\ v["cmdsize"] = CommandHead(b, k).cmdsize
    OBVIOUS
  <2>2. CommandValues(b, k) = Filled(s, v)
    BY <1>2 DEF CommandValues, SegmentValues
  <2>3. Splits(s, load_command, CommandTail(b, k), TailSize(b, k), {"vmaddr", "vmsize", "nsects"})
    BY <1>2, CommandSplits DEF CommandStruct, TailNames
  <2> HIDE DEF s, v
  <2>4. {"vmaddr", "vmsize", "nsects"} \subseteq MemberNames(s) /\ {"cmd", "cmdsize"} \subseteq MemberNames(s)
    BY <2>3, NamesOfTail, HeadIs
  <2>5. \A name \in DOMAIN v : Filled(s, v)[name] = v[name]
    BY <2>1, <2>4, FilledHas
  <2> QED  BY <1>2, <2>1, <2>2, <2>5
<1>3. CASE b.items[k].kind = "symtab"
  BY <1>3 DEF CommandValues, SymtabValues
<1>4. CASE b.items[k].kind = "dysymtab"
  <2> DEFINE v == [cmd |-> CommandHead(b, k).cmd, cmdsize |-> CommandHead(b, k).cmdsize,
                   indirectsymoff |-> TableAt(b, k), nindirectsyms |-> b.items[k].n]
  <2>1. /\ DOMAIN v = {"cmd", "cmdsize", "indirectsymoff", "nindirectsyms"}
        /\ v["cmd"] = CommandHead(b, k).cmd /\ v["cmdsize"] = CommandHead(b, k).cmdsize
        /\ v["indirectsymoff"] = TableAt(b, k) /\ v["nindirectsyms"] = b.items[k].n
    OBVIOUS
  <2>2. CommandValues(b, k) = Filled(dysymtab_command, v)
    BY <1>4 DEF CommandValues, DysymtabValues
  <2> HIDE DEF v
  <2>3. /\ {"indirectsymoff", "nindirectsyms"} \subseteq MemberNames(dysymtab_command)
        /\ {"cmd", "cmdsize"} \subseteq MemberNames(dysymtab_command)
    BY DysymtabListIs, NamesOfTail, HeadIs
  <2>4. \A name \in DOMAIN v : Filled(dysymtab_command, v)[name] = v[name]
    BY <2>1, <2>3, FilledHas
  <2> QED  BY <1>4, <2>1, <2>2, <2>4
<1>5. CASE b.items[k].kind = "uuid"
  BY <1>5 DEF CommandValues, UuidValues
<1>6. CASE b.items[k].kind = "other"
  BY <1>6 DEF CommandValues
<1> QED  BY <1>1, <1>2, <1>3, <1>4, <1>5, <1>6

(* The values of a section that lead to its relocations. *)
LEMMA SectionValuesAre ==
  ASSUME NEW b, WellFormed(b), NEW k, NEW s
  PROVE  /\ SectionValues(b, k, s)["nreloc"] = b.items[k].relocs[s]
         /\ SectionValues(b, k, s)["reloff"] = TableAt(b, k) + RelocsBefore(b.items[k], s) * 8
<1> DEFINE x == TableAt(b, k) + RelocsBefore(b.items[k], s) * SizeOf(relocation_info)
           v == [nreloc |-> b.items[k].relocs[s], reloff |-> x]
<1>1. {"reloff", "nreloc"} \subseteq MemberNames(Section(b.wide))
  BY ItemsAre, SectionListIs
<1>2. DOMAIN v = {"reloff", "nreloc"} /\ v["nreloc"] = b.items[k].relocs[s] /\ v["reloff"] = x
  OBVIOUS
<1>3. x = TableAt(b, k) + RelocsBefore(b.items[k], s) * 8
  BY RelocationListIs
<1>4. SectionValues(b, k, s) = Filled(Section(b.wide), v)
  BY DEF SectionValues
<1> HIDE DEF v, x
<1>5. \A name \in DOMAIN v : Filled(Section(b.wide), v)[name] = v[name]
  BY <1>1, <1>2, FilledHas
<1> QED  BY <1>2, <1>3, <1>4, <1>5

(* The value of a symbol that leads to its name. *)
LEMMA SymbolValuesAre ==
  ASSUME NEW b, WellFormed(b), NEW k, NEW s
  PROVE  /\ SymbolValues(b, k, s)["n_strx"] = IndexOfName(s) + Wrong(b, "n_strx") * Len(b.items[k].names)
         /\ "n_strx" \in MemberNames(NlistOfWidth(b.wide))
<1> DEFINE x == IndexOfName(s) + Wrong(b, "n_strx") * Len(b.items[k].names)
           v == [n_strx |-> x]
<1>1. "n_strx" \in MemberNames(NlistOfWidth(b.wide))
  BY ItemsAre, NlistDeclared DEF Declares
<1>2. "n_strx" \in DOMAIN v /\ v["n_strx"] = x
  OBVIOUS
<1>3. SymbolValues(b, k, s) = Filled(NlistOfWidth(b.wide), v)
  BY DEF SymbolValues
<1> HIDE DEF v, x
<1> QED  BY <1>1, <1>2, <1>3, FilledHas DEF x

(* The head of a command is where the command is. *)
LEMMA HeadIsPlaced ==
  ASSUME NEW b, WellFormed(b), NEW k \in 1 .. Len(b.items)
  PROVE  Placed(Cellsof(b), CommandAt(b, k), load_command, CommandValues(b, k))
<1>0. k \in 1 .. Len(b.items) + 1
  BY ItemsAre
<1>1. CommandAt(b, k) \in Int
  BY <1>0, CommandsClimb
<1>2. Placed(Cellsof(b), CommandAt(b, k), CommandStruct(b, k), CommandValues(b, k))
  BY CommandIsPlaced
<1>3. CASE CommandStruct(b, k) = load_command
  BY <1>2, <1>3
<1>4. CASE \E tail : Lacks(tail) /\ CommandStruct(b, k) = load_command \o tail
  <2>1. PICK tail : Lacks(tail) /\ CommandStruct(b, k) = load_command \o tail
    BY <1>4
  <2>2. Structure(load_command) /\ Structure(tail)
    BY <2>1, HeadIs DEF Lacks
  <2>3. Placed(Cellsof(b), CommandAt(b, k), load_command \o tail, CommandValues(b, k))
    BY <1>2, <2>1
  <2> QED  BY <1>1, <2>2, <2>3, PlacedParts
<1> QED  BY <1>3, <1>4, CommandIsHeaded DEF Headed

(* The rest is eight bytes behind. *)
LEMMA TailIsPlaced ==
  ASSUME NEW b, WellFormed(b), NEW k \in 1 .. Len(b.items), b.items[k].kind # "other"
  PROVE  /\ Placed(Cellsof(b), CommandAt(b, k) + 8, CommandTail(b, k), CommandValues(b, k))
         /\ Structure(CommandTail(b, k)) /\ SizeOf(CommandTail(b, k)) = TailSize(b, k)
         /\ TailNames(b, k) \subseteq MemberNames(CommandTail(b, k))
<1>0. k \in 1 .. Len(b.items) + 1
  BY ItemsAre
<1>1. CommandAt(b, k) \in Int
  BY <1>0, CommandsClimb
<1> DEFINE tail == CommandTail(b, k)
<1>2. /\ Structure(load_command) /\ CommandStruct(b, k) = load_command \o tail
      /\ Structure(tail) /\ SizeOf(tail) = TailSize(b, k) /\ TailNames(b, k) \subseteq MemberNames(tail)
  BY CommandSplits DEF Splits, Declares
<1> HIDE DEF tail
<1>3. Placed(Cellsof(b), CommandAt(b, k), load_command \o tail, CommandValues(b, k))
  BY <1>2, CommandIsPlaced
<1>4. Placed(Cellsof(b), CommandAt(b, k) + SizeOf(load_command), tail, CommandValues(b, k))
  BY <1>1, <1>2, <1>3, PlacedParts
<1>5. SizeOf(load_command) = 8
  BY HeadIs
<1> QED  BY <1>2, <1>4, <1>5 DEF tail

-----------------------------------------------------------------------------
(* Reading of a list that is where the reader is. *)

(* The reader is given the file of the binary. *)
LEMMA CellsAre ==
  ASSUME binary \in Binaries
  PROVE  Dump!cells = Cellsof(binary) /\ WellFormed(binary)
BY PreparationAssumption, FileIs DEF Dump!cells

(* A list that is where it is looked for is not misread, *)
LEMMA Faithful ==
  ASSUME binary \in Binaries, NEW list, NEW values, Placed(Cellsof(binary), cursor, list, values),
         Dump!Reads(list)
  PROVE  misread' = misread
<1>1. \A k \in DOMAIN list : Dump!Holds(Dump!cells, cursor, list, k)
  BY CellsAre, SameReading DEF Placed
<1> QED  BY <1>1 DEF Dump!Reads, Dump!Readable

(* and has the values of its members. *)
LEMMA ValueIs ==
  ASSUME binary \in Binaries, NEW list, NEW values, Placed(Cellsof(binary), cursor, list, values),
         NEW name \in MemberNames(list)
  PROVE  Dump!Value(list, name) = values[name]
BY CellsAre, SameReading, PlacedIsRead DEF Dump!Value

-----------------------------------------------------------------------------
(* Everything a reader visits lies inside the file. *)

(* A command and its table lie inside the file. *)
LEMMA Extents ==
  ASSUME NEW b, WellFormed(b), NEW k \in 1 .. Len(b.items)
  PROVE  /\ CommandAt(b, k) \in Nat /\ CommandAt(b, k + 1) \in Nat /\ FileSize(b) \in Nat
         /\ CommandAt(b, k) + 8 <= CommandAt(b, k + 1) /\ CommandAt(b, k + 1) <= FileSize(b)
         /\ Cmdsize(b.wide, b.items[k]) = CommandAt(b, k + 1) - CommandAt(b, k)
         /\ TableAt(b, k) \in Nat /\ TableAt(b, k + 1) <= FileSize(b)
         /\ TableAt(b, k + 1) = TableAt(b, k) + TableSize(b.wide, b.items[k])
         /\ k + 1 \in 1 .. Len(b.items) + 1
<1> DEFINE n == Len(b.items)
<1>1. n \in Nat /\ k \in 1 .. n + 1 /\ k + 1 \in 1 .. n + 1 /\ n + 1 \in 1 .. n + 1 /\ 1 \in 1 .. n + 1 /\ k < k + 1
      /\ 1 <= n + 1 /\ k + 1 <= n + 1
  BY ItemsAre
<1>2. /\ CommandAt(b, k) \in Nat /\ CommandAt(b, k + 1) \in Nat
      /\ CommandAt(b, k) + 8 <= CommandAt(b, k + 1) /\ CommandAt(b, k + 1) <= TableAt(b, 1)
  BY <1>1, CommandsClimb
<1>3. /\ TableAt(b, 1) \in Nat /\ FileSize(b) \in Nat /\ TableAt(b, 1) <= FileSize(b)
      /\ TableAt(b, k) \in Nat /\ TableAt(b, k + 1) <= FileSize(b)
  BY <1>1, TablesClimb DEF FileSize
<1>4. CommandAt(b, k + 1) = CommandAt(b, k) + Cmdsize(b.wide, b.items[k])
  BY CommandsAre
<1>5. Cmdsize(b.wide, b.items[k]) \in Nat
  BY ItemsAre, CmdsizeIs
<1>6. TableAt(b, k + 1) = TableAt(b, k) + TableSize(b.wide, b.items[k])
  BY TablesAre
<1> QED  BY <1>1, <1>2, <1>3, <1>4, <1>5, <1>6

(* The sizes of commands without a variable part. *)
LEMMA SimpleExtents ==
  ASSUME NEW b, WellFormed(b), NEW k \in 1 .. Len(b.items)
  PROVE  /\ b.items[k].kind = "uuid" => CommandAt(b, k + 1) = CommandAt(b, k) + 24
         /\ b.items[k].kind = "symtab" => CommandAt(b, k + 1) = CommandAt(b, k) + 24
         /\ b.items[k].kind = "dysymtab" => /\ CommandAt(b, k + 1) = CommandAt(b, k) + 80
                                            /\ b.items[k].n \in Nat
                                            /\ TableAt(b, k) + 4 * b.items[k].n <= FileSize(b)
<1>1. b.wide \in BOOLEAN /\ b.items[k] \in Item
  BY ItemsAre
<1>2. CommandAt(b, k + 1) = CommandAt(b, k) + SizeOfItem(b.wide, b.items[k])
  BY <1>1, CommandsAre, CmdsizeIs
<1>3. b.items[k].kind = "dysymtab" => TableSize(b.wide, b.items[k]) = 4 * b.items[k].n /\ b.items[k].n \in Nat
  BY <1>1, ItemKinds DEF TableSize
<1> QED  BY <1>2, <1>3, Extents DEF SizeOfItem

(* Row s of a table that begins at base. *)
RowAt(base, size, s) == base + (s - 1) * size

(* Rows are one behind the other and none leaves the table. *)
LEMMA RowAfterRow ==
  ASSUME NEW base \in Nat, NEW size \in Nat, NEW n \in Nat
  PROVE  /\ RowAt(base, size, 1) = base /\ RowAt(base, size, n + 1) = base + n * size
         /\ n * size \in Nat
         /\ \A s \in 1 .. n : /\ RowAt(base, size, s) \in Nat
                             /\ RowAt(base, size, s + 1) = RowAt(base, size, s) + size
                             /\ RowAt(base, size, s) + size <= base + n * size
<1>1. RowAt(base, size, 1) = base
  <2>1. (1 - 1) * size = 0
    OBVIOUS
  <2> QED  BY <2>1 DEF RowAt
<1>2. RowAt(base, size, n + 1) = base + n * size
  <2>1. (n + 1) - 1 = n
    OBVIOUS
  <2> QED  BY <2>1 DEF RowAt
<1>3. n * size \in Nat
  BY ProductGrows
<1>4. ASSUME NEW s \in 1 .. n
      PROVE  /\ RowAt(base, size, s) \in Nat
             /\ RowAt(base, size, s + 1) = RowAt(base, size, s) + size
             /\ RowAt(base, size, s) + size <= base + n * size
  <2>1. s \in Nat /\ s - 1 \in Nat /\ s <= n /\ (s + 1) - 1 = s
    OBVIOUS
  <2>2. s * size \in Nat /\ s * size <= n * size
    BY <2>1, ProductGrows
  <2>3. (s - 1) * size \in Nat
    <3> DEFINE r == s - 1
    <3>1. r \in Nat
      BY <2>1
    <3> HIDE DEF r
    <3>2. r * size \in Nat
      BY <3>1, ProductGrows
    <3> QED  BY <3>2 DEF r
  <2>4. s * size = (s - 1) * size + size
    BY <2>1
  <2> DEFINE p == s * size
             q == n * size
             r == (s - 1) * size
  <2>5. p \in Nat /\ q \in Nat /\ r \in Nat /\ p <= q /\ p = r + size
    BY <1>3, <2>2, <2>3, <2>4
  <2>6. RowAt(base, size, s) = base + r /\ RowAt(base, size, s + 1) = base + p
    BY <2>1 DEF RowAt
  <2>7. base + q = base + n * size
    OBVIOUS
  <2> HIDE DEF p, q, r
  <2> QED  BY <2>5, <2>6, <2>7
<1> QED  BY <1>1, <1>2, <1>3, <1>4

(* Sections are one behind the other up to the end of the command. *)
LEMMA SectionExtents ==
  ASSUME NEW b, WellFormed(b), NEW k \in 1 .. Len(b.items), b.items[k].kind = "segment"
  PROVE  LET m == Len(b.items[k].relocs)
             z == SizeOf(Section(b.wide))
         IN /\ m \in Nat /\ z \in Nat
            /\ SectionAt(b, k, 1) = CommandAt(b, k) + SegmentSizeOf(b.wide)
            /\ SectionAt(b, k, 1) \in Nat /\ SectionAt(b, k, 1) <= CommandAt(b, k + 1)
            /\ SectionAt(b, k, m + 1) = CommandAt(b, k + 1)
            /\ \A s \in 1 .. m : /\ SectionAt(b, k, s) \in Nat
                                 /\ SectionAt(b, k, s + 1) = SectionAt(b, k, s) + z
                                 /\ SectionAt(b, k, s) + z <= CommandAt(b, k + 1)
<1> DEFINE m == Len(b.items[k].relocs)
           z == SizeOf(Section(b.wide))
           c == CommandAt(b, k)
           g == SegmentSizeOf(b.wide)
           base == c + g
           x == m * z
           e == CommandAt(b, k + 1)
<1>1. b.wide \in BOOLEAN /\ c \in Nat /\ e \in Nat
  BY ItemsAre, Extents
<1>2. /\ z = SectionSizeOf(b.wide) /\ SizeOf(SegmentCommand(b.wide)) = g /\ g \in Nat /\ z \in Nat
  BY <1>1, StructSizes
<1>3. m \in Nat /\ x \in Nat /\ e = base + x
  BY <1>2, CommandStructIs
<1>4. \A s : SectionAt(b, k, s) = RowAt(base, z, s)
  BY <1>2 DEF SectionAt, RowAt
<1>5. base \in Nat
  BY <1>1, <1>2
<1> HIDE DEF m, z, c, g, e, base
<1>6. /\ RowAt(base, z, 1) = base /\ RowAt(base, z, m + 1) = base + x
      /\ \A s \in 1 .. m : /\ RowAt(base, z, s) \in Nat
                          /\ RowAt(base, z, s + 1) = RowAt(base, z, s) + z
                          /\ RowAt(base, z, s) + z <= base + x
  <2>1. base \in Nat /\ z \in Nat /\ m \in Nat
    BY <1>2, <1>3, <1>5
  <2>2. RowAt(base, z, m + 1) = base + x
    BY <2>1, RowAfterRow
  <2>3. RowAt(base, z, 1) = base
    BY <2>1, RowAfterRow
  <2>4. \A s \in 1 .. m : /\ RowAt(base, z, s) \in Nat
                         /\ RowAt(base, z, s + 1) = RowAt(base, z, s) + z
                         /\ RowAt(base, z, s) + z <= base + x
    BY <2>1, RowAfterRow
  <2> QED  BY <2>2, <2>3, <2>4
<1>7. /\ RowAt(base, z, m + 1) = e
      /\ \A s \in 1 .. m : RowAt(base, z, s) + z <= e
  BY <1>3, <1>6
<1>8. base <= e
  <2> HIDE DEF x
  <2> QED  BY <1>3, <1>5
<1>9. base = c + g
  BY DEF base
<1> HIDE DEF x
<1>10. /\ SectionAt(b, k, 1) = base /\ SectionAt(b, k, m + 1) = e
       /\ \A s \in 1 .. m : /\ SectionAt(b, k, s) \in Nat
                           /\ SectionAt(b, k, s + 1) = SectionAt(b, k, s) + z
                           /\ SectionAt(b, k, s) + z <= e
  BY <1>4, <1>6, <1>7
<1> QED  BY <1>2, <1>3, <1>5, <1>8, <1>9, <1>10 DEF m, z, c, g, e

(* Symbols are one behind the other, then strings, up to the end of the     *)
(* table.                                                                   *)
LEMMA SymbolExtents ==
  ASSUME NEW b, WellFormed(b), NEW k \in 1 .. Len(b.items), b.items[k].kind = "symtab"
  PROVE  LET m == Len(b.items[k].names)
             z == SizeOf(NlistOfWidth(b.wide))
         IN /\ m \in Nat /\ z \in Nat
            /\ SymbolAt(b, k, 1) = TableAt(b, k)
            /\ StringTableSize(b.items[k].names) \in Nat /\ StringsAt(b, k) \in Nat
            /\ StringsAt(b, k) + StringTableSize(b.items[k].names) <= FileSize(b)
            /\ \A s \in 1 .. m : /\ SymbolAt(b, k, s) \in Nat
                                 /\ SymbolAt(b, k, s + 1) = SymbolAt(b, k, s) + z
                                 /\ SymbolAt(b, k, s) + z <= FileSize(b)
<1> DEFINE m == Len(b.items[k].names)
           z == SizeOf(NlistOfWidth(b.wide))
           base == TableAt(b, k)
           t == StringTableSize(b.items[k].names)
           f == FileSize(b)
           x == m * z
<1>1. b.wide \in BOOLEAN /\ b.items[k] \in Item /\ base \in Nat /\ f \in Nat
      /\ TableAt(b, k + 1) = base + TableSize(b.wide, b.items[k]) /\ TableAt(b, k + 1) <= f
  BY ItemsAre, Extents
<1>2. z = NlistSizeOf(b.wide) /\ z \in Nat
  BY <1>1, StructSizes
<1>3. m \in Nat /\ x \in Nat /\ TableSize(b.wide, b.items[k]) = x + t /\ t = 1 + 4 * m
  BY <1>1, <1>2, TableSizeIs
<1>4. \A s : SymbolAt(b, k, s) = RowAt(base, z, s)
  BY DEF SymbolAt, RowAt
<1>5. StringsAt(b, k) = base + x
  BY DEF StringsAt
<1> HIDE DEF m, z, base, t, f
<1>6. /\ RowAt(base, z, 1) = base
      /\ \A s \in 1 .. m : /\ RowAt(base, z, s) \in Nat
                          /\ RowAt(base, z, s + 1) = RowAt(base, z, s) + z
                          /\ RowAt(base, z, s) + z <= base + x
  <2>1. base \in Nat /\ z \in Nat /\ m \in Nat
    BY <1>1, <1>2, <1>3
  <2> QED  BY <2>1, RowAfterRow
<1> HIDE DEF x
<1>7. t \in Nat
  BY <1>3
<1>8. StringsAt(b, k) \in Nat /\ StringsAt(b, k) + t <= f /\ base + x <= f
  BY SMTT(30), <1>1, <1>3, <1>5, <1>7
<1>9. ASSUME NEW s \in 1 .. m
      PROVE  /\ SymbolAt(b, k, s) \in Nat
             /\ SymbolAt(b, k, s + 1) = SymbolAt(b, k, s) + z
             /\ SymbolAt(b, k, s) + z <= f
  <2> DEFINE r == RowAt(base, z, s)
  <2>1. r \in Nat /\ RowAt(base, z, s + 1) = r + z /\ r + z <= base + x
    BY <1>6
  <2>2. SymbolAt(b, k, s) = r /\ SymbolAt(b, k, s + 1) = RowAt(base, z, s + 1)
    BY <1>4
  <2> HIDE DEF r
  <2> QED  BY <1>1, <1>2, <1>3, <1>8, <2>1, <2>2
<1>10. SymbolAt(b, k, 1) = base
  BY <1>4, <1>6
<1> QED  BY <1>2, <1>3, <1>7, <1>8, <1>9, <1>10 DEF m, z, base, t, f

(* A part of a sum of natural numbers is not larger than the sum. *)
LEMMA SumsClimb ==
  ASSUME NEW n \in Nat, NEW size, \A k \in 1 .. n : size[k] \in Nat,
         NEW at, Positions(at, n, 0, size)
  PROVE  \A s \in 1 .. n : at[s] \in Nat /\ at[s] + size[s] <= at[n + 1] /\ at[n + 1] \in Nat
<1>1. 0 \in Nat
  OBVIOUS
<1>2. /\ \A k \in 1 .. n + 1 : at[k] \in Nat
      /\ \A k \in 1 .. n : at[k + 1] = at[k] + size[k]
  <2>1. Consecutive(at, n, 0, size)
    BY <1>1, PositionsOfSums
  <2> QED  BY <2>1 DEF Consecutive
<1>3. ASSUME NEW k \in 1 .. n PROVE at[k] + 0 <= at[k + 1]
  <2>1. k \in 1 .. n + 1
    OBVIOUS
  <2> QED  BY <1>2, <2>1
<1>4. Climbs(at, n, 0)
  BY <1>1, <1>2, <1>3 DEF Climbs
<1>5. \A j, k \in 1 .. n + 1 : j < k => at[j] + 0 <= at[k]
  BY <1>4, ClimbsFar
<1> SUFFICES ASSUME NEW s \in 1 .. n
             PROVE  at[s] \in Nat /\ at[s] + size[s] <= at[n + 1] /\ at[n + 1] \in Nat
  OBVIOUS
<1>6. s \in 1 .. n + 1 /\ s + 1 \in 1 .. n + 1 /\ n + 1 \in 1 .. n + 1 /\ (s + 1 = n + 1 \/ s + 1 < n + 1)
  OBVIOUS
<1>7. at[s] \in Nat /\ at[s + 1] \in Nat /\ at[n + 1] \in Nat
  BY <1>2, <1>6
<1>8. at[s + 1] <= at[n + 1]
  BY <1>5, <1>6, <1>7
<1>9. at[s + 1] = at[s] + size[s]
  BY <1>2
<1> QED  BY <1>7, <1>8, <1>9

(* The relocations of a section are among those of its segment. *)
LEMMA RelocsClimb ==
  ASSUME NEW item, item.relocs \in Seq(Nat), NEW s \in 1 .. Len(item.relocs)
  PROVE  /\ RelocsBefore(item, s) \in Nat /\ item.relocs[s] \in Nat
         /\ RelocsBefore(item, s) + item.relocs[s] <= RelocsBefore(item, Len(item.relocs) + 1)
         /\ RelocsBefore(item, Len(item.relocs) + 1) \in Nat
<1> DEFINE n == Len(item.relocs)
           size == item.relocs
           at == [k \in 1 .. n + 1 |-> RelocsBefore(item, k)]
<1>1. n \in Nat /\ \A k \in 1 .. n : size[k] \in Nat
  OBVIOUS
<1>2. \A k : RelocsBefore(item, k) = Total(1 .. k - 1, [j \in 1 .. k - 1 |-> size[j]])
  BY DEF RelocsBefore, MapThenSumSet, MapThenFoldSet, Total, SumsUp
<1>3. \A k \in 1 .. n + 1 : at[k] = RelocsBefore(item, k)
  OBVIOUS
<1>4. \A k \in 1 .. n + 1 : RelocsBefore(item, k) \in Nat
  BY RelocsAreCounted
<1>5. s \in 1 .. n
  OBVIOUS
<1> HIDE DEF n, size, at
<1>6. Positions(at, n, 0, size)
  <2> SUFFICES ASSUME NEW k \in 1 .. n + 1
               PROVE  at[k] = 0 + Total(1 .. k - 1, [j \in 1 .. k - 1 |-> size[j]])
    BY DEF Positions
  <2> DEFINE t == Total(1 .. k - 1, [j \in 1 .. k - 1 |-> size[j]])
  <2>1. at[k] = t
    BY <1>2, <1>3
  <2>2. at[k] \in Nat
    BY <1>3, <1>4 DEF n
  <2> HIDE DEF t
  <2>3. at[k] = 0 + t
    BY <2>1, <2>2
  <2> QED  BY <2>3 DEF t
<1>7. at[s] \in Nat /\ at[s] + size[s] <= at[n + 1] /\ at[n + 1] \in Nat
  BY <1>1, <1>5, <1>6, SumsClimb
<1>8. s \in 1 .. n + 1 /\ n + 1 \in 1 .. n + 1
  BY <1>1, <1>5
<1>9. at[s] = RelocsBefore(item, s) /\ at[n + 1] = RelocsBefore(item, n + 1)
  BY <1>3, <1>8
<1>10. size[s] \in Nat
  BY <1>1, <1>5
<1> QED  BY <1>7, <1>9, <1>10 DEF n, size

(* The relocations of a section lie inside the file. *)
LEMMA RelocsInside ==
  ASSUME NEW b, WellFormed(b), NEW k \in 1 .. Len(b.items), b.items[k].kind = "segment",
         NEW s \in 1 .. Len(b.items[k].relocs)
  PROVE  LET reloff == TableAt(b, k) + RelocsBefore(b.items[k], s) * 8
         IN reloff \in Nat /\ b.items[k].relocs[s] \in Nat
            /\ reloff + b.items[k].relocs[s] * 8 <= FileSize(b)
<1>1. b.items[k] \in Item /\ b.wide \in BOOLEAN
  BY ItemsAre
<1>2. b.items[k].relocs \in Seq(Nat)
  BY <1>1, ItemKinds
<1> DEFINE x == RelocsBefore(b.items[k], s)
           y == b.items[k].relocs[s]
           z == RelocsBefore(b.items[k], Len(b.items[k].relocs) + 1)
<1>3. x \in Nat /\ y \in Nat /\ x + y <= z /\ z \in Nat
  BY <1>2, RelocsClimb
<1>4. TableSize(b.wide, b.items[k]) = z * 8
  BY RelocationListIs DEF TableSize
<1> HIDE DEF x, y, z
<1>4a. /\ TableAt(b, k) \in Nat /\ TableAt(b, k + 1) <= FileSize(b) /\ FileSize(b) \in Nat
       /\ TableAt(b, k + 1) = TableAt(b, k) + TableSize(b.wide, b.items[k])
  BY Extents
<1>5. (TableAt(b, k) + x * 8) \in Nat /\ (TableAt(b, k) + x * 8) + y * 8 <= FileSize(b)
  BY <1>3, <1>4, <1>4a
<1> QED  BY <1>3, <1>5 DEF x, y

-----------------------------------------------------------------------------
(* Where macho-dump is in a binary. *)

(* The place and the kind of command k of the binary that is read. *)
At(k) == CommandAt(binary, k)
Kind(k) == binary.items[k].kind

(* Behind command k; a command nothing knows is skipped by its wrong size. *)
Late(k) == binary.lie = "cmdsize" /\ k >= 1 /\ Kind(k) = "other" /\ cursor = At(k + 1) + 4
Behind(k) == cursor = At(k + 1) \/ Late(k)

(* In the command that begins at the place of command k, with its head read. *)
InCommand(k) ==
  /\ k \in 1 .. Len(binary.items)
  /\ command.start = At(k)
  /\ command.cmd = CommandHead(binary, k).cmd /\ command.cmdsize = CommandHead(binary, k).cmdsize

(* At the function for command k. *)
FunctionOfKind(kind) == IF kind = "other" THEN "unknown" ELSE kind
Entered(k) == InCommand(k) /\ cursor = At(k) + 8 /\ dpc = FunctionOfKind(Kind(k))

(* In its loop. *)
InSections(k) ==
  /\ InCommand(k) /\ Kind(k) = "segment"
  /\ left \in 0 .. Len(binary.items[k].relocs)
  /\ cursor = SectionAt(binary, k, (Len(binary.items[k].relocs) - left) + 1)
InSymbols(k) ==
  /\ InCommand(k) /\ Kind(k) = "symtab"
  /\ left \in 0 .. Len(binary.items[k].names)
  /\ prev = At(k + 1) /\ strings = StringTable(binary.items[k].names)
  /\ cursor = SymbolAt(binary, k, (Len(binary.items[k].names) - left) + 1)

(* Nothing read yet. *)
Started ==
  /\ is64 = FALSE /\ cursor = 0 /\ strings = Dump!NoTable /\ command = Dump!NoCommand
  /\ printed = <<>> /\ misread = {}

(* A string table has been registered by a symtab. *)
Registered ==
  strings # Dump!NoTable =>
    \E k \in 1 .. command.number : Kind(k) = "symtab" /\ (dpc = "symtab" => k < command.number)

(* In a command read from the wrong place. *)
Lost == binary.lie = "cmdsize" /\ command.cmdsize = 0 /\ command.number \in 1 .. Len(binary.items)

(* Where each function begins to read. *)
Position ==
  LET n == command.number
  IN /\ dpc = "command" => Behind(n)
     /\ dpc \in {"uuid", "segment", "symtab", "dysymtab"} => Entered(n)
     /\ dpc = "unknown" => Entered(n) \/ Lost
     /\ dpc = "section" => InSections(n)
     /\ dpc = "symbol" => InSymbols(n)
     /\ dpc = "close" => InCommand(n) /\ Behind(n)
     /\ dpc = "done" => n = Len(binary.items)

(* The functions of macho-dump that are reached with the header read. *)
Functions == {"command", "uuid", "unknown", "segment", "section", "symtab", "symbol", "dysymtab",
              "close", "done"}

(* With the header read, the reader is in the binary it reads. *)
Reading ==
  /\ is64 = binary.wide
  /\ header = [ncmds |-> Len(binary.items), sizeofcmds |-> Header(binary).sizeofcmds, start |-> At(1)]
  /\ command.number \in 0 .. Len(binary.items)
  /\ Registered /\ Position

(* The inductive invariant of macho-dump. *)
Track ==
  /\ binary \in Binaries
  /\ dpc \in {"header", "raised"} \cup Functions
  /\ FieldsAsDeclared
  /\ dpc = "header" => Started
  /\ dpc \in Functions => Reading
  /\ Sound(binary) => dpc # "raised"

(* What main.py has made sure of. *)
Thin ==
  /\ Content[binary].length >= 4
  /\ Content[binary].magic \in {"CFFAEDFE", "CEFAEDFE"}

(* A step that knows where it is keeps it. *)
LEMMA TrackAgain ==
  ASSUME Track, binary' = binary, misread' = misread \/ binary.lie = "cmdsize",
         dpc' \in {"raised"} \cup Functions, Sound(binary) => dpc' # "raised",
         dpc' \in Functions => Reading'
  PROVE  Track'
<1>1. FieldsAsDeclared'
  BY DEF Track, FieldsAsDeclared
<1>2. dpc' # "header"
  BY DEF Functions
<1> QED  BY <1>1, <1>2 DEF Track

(* A binary that is sound is as long as it is, and tells no lies. *)
LEMMA SoundIs ==
  ASSUME binary \in Binaries
  PROVE  /\ Dump!Length \in Nat
         /\ \A field : Wrong(binary, field) = 0 \/ (Wrong(binary, field) = 4 /\ binary.lie = field)
         /\ Sound(binary) => Dump!Length = FileSize(binary) /\ binary.lie = "nothing"
<1>1. WellFormed(binary) /\ Content[binary] = FileOf(binary)
  BY PreparationAssumption
<1>2. Dump!Length \in Nat
  BY PreparationAssumption DEF Dump!Length, Dump!ReaderAssumption
<1>3. Sound(binary) => Dump!Length = FileSize(binary) /\ binary.lie = "nothing"
  <2> SUFFICES ASSUME Sound(binary) PROVE Dump!Length = FileSize(binary) /\ binary.lie = "nothing"
    OBVIOUS
  <2>1. binary.cut >= FileSize(binary) /\ binary.lie = "nothing" /\ binary.cut \in Nat
    BY <1>1 DEF Sound, WellFormed
  <2>2. FileSize(binary) \in Nat
    <3>1. 1 \in 1 .. Len(binary.items) + 1 /\ Len(binary.items) + 1 \in 1 .. Len(binary.items) + 1
          /\ 1 <= Len(binary.items) + 1
      BY <1>1, ItemsAre
    <3> QED  BY <1>1, <3>1, TablesClimb DEF FileSize
  <2>3. ~(binary.cut < FileSize(binary))
    BY <2>1, <2>2
  <2> QED  BY <1>1, <2>1, <2>3 DEF Dump!Length, FileOf
<1> QED  BY <1>2, <1>3 DEF Wrong

(* The function for a command is that of its kind. *)
LEMMA FunctionOfCommand ==
  ASSUME NEW w \in BOOLEAN, NEW item \in Item
  PROVE  /\ Dump!Function(Cmd(w, item)) = FunctionOfKind(item.kind)
         /\ item.kind = "segment" => (Cmd(w, item) = Dump!LC_SEGMENT_64 <=> w)
<1>1. item.kind \in {"segment", "symtab", "dysymtab", "uuid", "other"}
  BY ItemKinds
<1> QED
  BY <1>1 DEF Dump!Function, Cmd, FunctionOfKind, LC_SEGMENT, LC_SEGMENT_64, LC_SYMTAB, LC_DYSYMTAB, LC_UUID,
    Dump!LC_SEGMENT, Dump!LC_SEGMENT_64, Dump!LC_SYMTAB, Dump!LC_DYSYMTAB, Dump!LC_UUID

(* A command of zeroes is not known. *)
LEMMA NothingIsUnknown == Dump!Function(0) = "unknown"
BY DEF Dump!Function, Dump!LC_SEGMENT, Dump!LC_SEGMENT_64, Dump!LC_SYMTAB, Dump!LC_DYSYMTAB, Dump!LC_UUID

-----------------------------------------------------------------------------

(* dumpmacho reads the header and goes on at the first command. *)
LEMMA HeaderStep ==
  ASSUME Track, Thin, Dump!DumpHeader
  PROVE  Track'
<1> DEFINE b == binary
           wider == Content[binary].magic \in Dump!Magics64
           list == Dump!Words(<<"magic">>) \o Dump!HeaderList(wider)
<1>1. /\ b \in Binaries /\ WellFormed(b) /\ Content[b] = FileOf(b) /\ dpc = "header" /\ Started
  BY PreparationAssumption DEF Track, Dump!DumpHeader
<1>2. wider = b.wide /\ b.wide \in BOOLEAN
  <2>1. Content[b].magic = b.magic /\ b.wide \in BOOLEAN
        /\ (b.magic = "CFFAEDFE" => b.wide) /\ (b.magic = "CEFAEDFE" => ~b.wide)
    BY <1>1 DEF FileOf, WellFormed
  <2> QED  BY <2>1 DEF Thin, Dump!Magics64
<1>3. list = MachHeader(b.wide)
  BY <1>2, HeaderListIs
<1>4. /\ binary' = binary /\ strings' = strings /\ command' = command
      /\ Dump!Go(list, "command") /\ Dump!Reads(list)
      /\ header' = [ncmds |-> Dump!Value(list, "ncmds"), sizeofcmds |-> Dump!Value(list, "sizeofcmds"),
                    start |-> cursor']
      /\ is64' = wider
  <2>1. Dump!Available(0, 4)
    BY <1>1, SoundIs DEF Thin, Dump!Available, Dump!Length
  <2>2. Content[binary].magic \in Dump!Magics
    BY DEF Thin, Dump!Magics
  <2> QED  BY <2>1, <2>2 DEF Dump!DumpHeader
<1> HIDE DEF list, wider
<1>5. Placed(Cellsof(b), cursor, list, HeaderValues(b))
  BY <1>1, <1>3, HeaderIsPlaced DEF Started
<1>6. misread' = misread
  BY <1>1, <1>4, <1>5, Faithful
<1>7. Dump!Value(list, "ncmds") = Len(b.items) /\ Dump!Value(list, "sizeofcmds") = Header(b).sizeofcmds
  <2>1. {"magic", "ncmds", "sizeofcmds"} \subseteq MemberNames(list)
    BY <1>2, <1>3, HeaderHas
  <2> QED  BY <1>1, <1>5, <2>1, ValueIs, HeaderValuesAre
<1>8. Dump!SizeOf(list) = HeaderSizeOf(b.wide) /\ HeaderSizeOf(b.wide) \in Nat
  BY <1>2, <1>3, SameReading, StructSizes DEF HeaderSizeOf
<1>9. cursor' = At(1) /\ At(1) = HeaderSizeOf(b.wide)
  BY <1>1, <1>4, <1>8, CommandsAre DEF Dump!Go, Started, At
<1>10. Sound(b) => Dump!Available(cursor, Dump!SizeOf(list))
  <2>1. 1 \in 1 .. Len(b.items) + 1 /\ Len(b.items) + 1 \in 1 .. Len(b.items) + 1 /\ 1 <= Len(b.items) + 1
    BY <1>1, ItemsAre
  <2>2. At(1) <= TableAt(b, 1) /\ TableAt(b, 1) <= FileSize(b) /\ TableAt(b, 1) \in Nat /\ FileSize(b) \in Nat
    BY <1>1, <2>1, CommandsClimb, TablesClimb DEF At, FileSize
  <2> QED  BY <1>1, <1>8, <1>9, <2>2, SoundIs DEF Dump!Available, Started
<1>11. dpc' = (IF Dump!Available(cursor, Dump!SizeOf(list)) THEN "command" ELSE "raised")
  BY <1>4 DEF Dump!Go
<1>12. Reading'
  <2>1. command'.number = 0 /\ Len(b.items) \in Nat
    BY <1>1, <1>4, ItemsAre DEF Started, Dump!NoCommand
  <2>2. strings' = Dump!NoTable
    BY <1>1, <1>4 DEF Started
  <2>3. Position'
    BY <1>4, <1>9, <1>11, <2>1 DEF Position, Behind, At
  <2>4. header' = [ncmds |-> Len(b.items), sizeofcmds |-> Header(b).sizeofcmds, start |-> At(1)]
    BY <1>4, <1>7, <1>9
  <2> QED  BY <1>2, <1>4, <2>1, <2>2, <2>3, <2>4 DEF Reading, Registered, At
<1> QED  BY <1>4, <1>6, <1>10, <1>11, <1>12, TrackAgain DEF Functions

(* dumpLoadCommand reads the head of the next command. *)
LEMMA CommandStep ==
  ASSUME Track, Dump!DumpLoadCommand
  PROVE  Track'
<1> DEFINE b == binary
           n == command.number
           cmd == Dump!Value(Dump!CommandList, "cmd")
           size == Dump!Value(Dump!CommandList, "cmdsize")
<1>0. PICK k : k = n + 1
  OBVIOUS
<1>1. /\ b \in Binaries /\ WellFormed(b) /\ dpc = "command" /\ Reading /\ Behind(n) /\ Registered
      /\ n \in Nat /\ k \in 1 .. Len(b.items) /\ Len(b.items) \in Nat
  <2>1. b \in Binaries /\ WellFormed(b) /\ dpc = "command" /\ Reading
    BY PreparationAssumption DEF Track, Dump!DumpLoadCommand, Functions
  <2>2. n \in 0 .. Len(b.items) /\ n < Len(b.items) /\ Len(b.items) \in Nat
    BY <2>1, ItemsAre DEF Dump!DumpLoadCommand, Reading
  <2> QED  BY <1>0, <2>1, <2>2 DEF Reading, Position
<1>2. /\ binary' = binary /\ is64' = is64 /\ strings' = strings /\ header' = header
      /\ Dump!Go(Dump!CommandList, Dump!Function(cmd)) /\ Dump!Reads(Dump!CommandList)
      /\ command' = [number |-> k, start |-> cursor, cmd |-> cmd, cmdsize |-> size]
  BY <1>0 DEF Dump!DumpLoadCommand
<1>3. Dump!CommandList = load_command /\ Dump!SizeOf(load_command) = 8
      /\ "cmd" \in MemberNames(load_command) /\ "cmdsize" \in MemberNames(load_command)
  BY CommandListIs, SameReading, HeadIs
<1>4. /\ cursor' = cursor + 8
      /\ dpc' = (IF Dump!Available(cursor, 8) THEN Dump!Function(cmd) ELSE "raised")
  BY <1>2, <1>3 DEF Dump!Go
<1>5. /\ command'.number = k /\ command'.start = cursor /\ command'.cmd = cmd /\ command'.cmdsize = size
  BY <1>2
<1> HIDE DEF cmd, size
<1>6. CASE cursor = At(k)
  <2>1. Placed(Cellsof(b), cursor, Dump!CommandList, CommandValues(b, k))
    BY <1>1, <1>3, <1>6, HeadIsPlaced DEF At
  <2>2. misread' = misread
    BY <1>1, <1>2, <2>1, Faithful
  <2>3. cmd = CommandHead(b, k).cmd /\ size = CommandHead(b, k).cmdsize
    <3>1. cmd = CommandValues(b, k)["cmd"] /\ size = CommandValues(b, k)["cmdsize"]
      BY <1>1, <1>3, <2>1, ValueIs DEF cmd, size
    <3> QED  BY <1>1, <3>1, CommandValuesAre
  <2>4. Dump!Function(cmd) = FunctionOfKind(Kind(k))
    <3>1. b.items[k] \in Item /\ b.wide \in BOOLEAN
      BY <1>1, ItemsAre
    <3>2. cmd = Cmd(b.wide, b.items[k])
      BY <2>3 DEF CommandHead
    <3> QED  BY <3>1, <3>2, FunctionOfCommand DEF Kind
  <2>5. FunctionOfKind(Kind(k)) \in {"uuid", "segment", "symtab", "dysymtab", "unknown"}
    <3>1. b.items[k] \in Item
      BY <1>1, ItemsAre
    <3> QED  BY <3>1, ItemKinds DEF FunctionOfKind, Kind
  <2>6. Sound(b) => dpc' # "raised"
    <3>1. At(k) \in Nat /\ At(k) + 8 <= FileSize(b)
      BY <1>1, Extents DEF At
    <3>2. Sound(b) => Dump!Available(cursor, 8)
      BY <1>1, <1>6, <3>1, SoundIs DEF Dump!Available
    <3> QED  BY <1>4, <2>4, <2>5, <3>2
  <2>7. dpc' # "raised" => Reading'
    <3> SUFFICES ASSUME dpc' # "raised" PROVE Reading'
      OBVIOUS
    <3>1. dpc' = FunctionOfKind(Kind(k))
      BY <1>4, <2>4
    <3>2. Entered(k)'
      BY <1>1, <1>2, <1>4, <1>5, <1>6, <2>3, <3>1 DEF Entered, InCommand, At, Kind
    <3>4. Position'
      BY <1>5, <2>5, <3>1, <3>2 DEF Position, Entered, InCommand, At, Kind
    <3>5. Registered'
      <4>1. \A j \in 1 .. n : j \in 1 .. k /\ j < k
        BY <1>0, <1>1
      <4>2. dpc # "symtab"
        BY <1>1
      <4> QED  BY <1>1, <1>2, <1>5, <4>1, <4>2 DEF Registered, Kind
    <3>6. command'.number \in 0 .. Len(b.items)
      BY <1>1, <1>5
    <3> QED  BY <1>1, <1>2, <3>4, <3>5, <3>6 DEF Reading, At
  <2>8. dpc' \in {"raised"} \cup Functions
    BY <1>4, <2>4, <2>5 DEF Functions
  <2> QED  BY <1>2, <2>2, <2>6, <2>7, <2>8, TrackAgain DEF Functions
<1>7. CASE Late(n)
  <2>1. b.lie = "cmdsize" /\ cursor = At(k) + 4
    BY <1>0, <1>7 DEF Late
  <2>2. cmd = 0 /\ size = 0
    <3>1. ValueAt(Cellsof(b), cursor, load_command, "cmd") = 0 /\ ValueAt(Cellsof(b), cursor, load_command, "cmdsize") = 0
      BY <1>1, <2>1, LateCommand DEF At
    <3> QED  BY <1>1, <1>3, <3>1, CellsAre, SameReading DEF cmd, size, Dump!Value
  <2>3. dpc' \in {"unknown", "raised"}
    BY <1>4, <2>2, NothingIsUnknown
  <2>4. ~Sound(b)
    BY <1>1, <2>1, SoundIs
  <2>5. dpc' = "unknown" => Reading'
    <3> SUFFICES ASSUME dpc' = "unknown" PROVE Reading'
      OBVIOUS
    <3>1. Lost'
      BY <1>1, <1>2, <1>5, <2>1, <2>2 DEF Lost
    <3>2. Position'
      BY <3>1 DEF Position
    <3>3. Registered'
      <4>1. \A j \in 1 .. n : j \in 1 .. k /\ j < k
        BY <1>0, <1>1
      <4> QED  BY <1>1, <1>2, <1>5, <4>1 DEF Registered, Kind
    <3>4. command'.number \in 0 .. Len(b.items)
      BY <1>1, <1>5
    <3> QED  BY <1>1, <1>2, <3>2, <3>3, <3>4 DEF Reading, At
  <2> QED  BY <1>2, <2>1, <2>3, <2>4, <2>5, TrackAgain DEF Functions
<1> QED  BY <1>0, <1>1, <1>6, <1>7 DEF Behind

(* A command and its file, from inside it. *)
LEMMA Inside ==
  ASSUME Track, dpc \in Functions, NEW k, k = command.number, InCommand(k)
  PROVE  /\ binary \in Binaries /\ WellFormed(binary) /\ k \in 1 .. Len(binary.items) /\ Len(binary.items) \in Nat
         /\ binary.items[k] \in Item /\ binary.wide \in BOOLEAN /\ is64 = binary.wide
         /\ At(k) \in Nat /\ At(k + 1) \in Nat /\ FileSize(binary) \in Nat /\ At(k + 1) <= FileSize(binary)
         /\ Dump!Length \in Nat /\ (Sound(binary) => Dump!Length = FileSize(binary))
         /\ Registered /\ Position
<1>1. binary \in Binaries /\ WellFormed(binary) /\ k \in 1 .. Len(binary.items)
  BY PreparationAssumption DEF Track, InCommand
<1>2. Len(binary.items) \in Nat /\ binary.items[k] \in Item /\ binary.wide \in BOOLEAN
  BY <1>1, ItemsAre
<1>3. At(k) \in Nat /\ At(k + 1) \in Nat /\ FileSize(binary) \in Nat /\ At(k + 1) <= FileSize(binary)
  BY <1>1, Extents DEF At
<1>4. Dump!Length \in Nat /\ (Sound(binary) => Dump!Length = FileSize(binary))
  BY <1>1, SoundIs
<1>5. is64 = binary.wide /\ Registered /\ Position
  BY DEF Track, Reading
<1> QED  BY <1>1, <1>2, <1>3, <1>4, <1>5

(* What does not change inside a command. *)
LEMMA StaysInside ==
  ASSUME Track, dpc \in Functions, dpc # "symtab", NEW k, k = command.number, InCommand(k),
         binary' = binary, is64' = is64, strings' = strings, header' = header, command' = command
  PROVE  /\ InCommand(k)' /\ \A j : At(j)' = At(j) /\ Kind(j)' = Kind(j)
         /\ dpc' \in Functions /\ dpc' # "symtab" /\ Position' => Reading'
<1>1. InCommand(k)' /\ \A j : At(j)' = At(j) /\ Kind(j)' = Kind(j)
  BY DEF InCommand, At, Kind
<1>2. dpc' # "symtab" => Registered'
  BY DEF Track, Reading, Registered, Kind
<1>3. is64' = binary'.wide /\ command'.number \in 0 .. Len(binary'.items)
      /\ header' = [ncmds |-> Len(binary'.items), sizeofcmds |-> Header(binary').sizeofcmds, start |-> At(1)']
  BY DEF Track, Reading, At
<1> QED  BY <1>1, <1>2, <1>3 DEF Reading

(* dumpUuid ends at the end of its command. *)
LEMMA UuidStep ==
  ASSUME Track, Dump!DumpUuid
  PROVE  Track'
<1> DEFINE b == binary
           k == command.number
           list == Dump!Name16("uuid")
<1>1. dpc = "uuid" /\ dpc \in Functions /\ Entered(k) /\ InCommand(k) /\ Kind(k) = "uuid"
  BY DEF Dump!DumpUuid, Track, Functions, Reading, Position, Entered, FunctionOfKind
<1>2. /\ binary \in Binaries /\ WellFormed(binary) /\ k \in 1 .. Len(binary.items) /\ Len(binary.items) \in Nat
      /\ At(k) \in Nat /\ At(k + 1) \in Nat /\ FileSize(binary) \in Nat /\ At(k + 1) <= FileSize(binary)
      /\ Dump!Length \in Nat /\ (Sound(binary) => Dump!Length = FileSize(binary))
  BY <1>1, Inside
<1>3. /\ binary' = binary /\ is64' = is64 /\ strings' = strings /\ header' = header /\ command' = command
      /\ Dump!Go(list, "close") /\ Dump!Reads(list)
  BY DEF Dump!DumpUuid
<1>4. /\ CommandTail(b, k) = list /\ TailSize(b, k) = 16
  BY <1>1 DEF CommandTail, TailSize, Kind
<1>5. Placed(Cellsof(b), cursor, list, CommandValues(b, k)) /\ Dump!SizeOf(list) = 16
  BY <1>1, <1>2, <1>4, TailIsPlaced, SameReading DEF Entered, At, Kind
<1> HIDE DEF list
<1>6. misread' = misread
  BY <1>2, <1>3, <1>5, Faithful
<1>7. At(k + 1) = At(k) + 24 /\ cursor = At(k) + 8
  BY <1>1, <1>2, SimpleExtents DEF At, Kind, Entered
<1>8. cursor' = At(k + 1) /\ dpc' = (IF Dump!Available(cursor, 16) THEN "close" ELSE "raised")
  BY <1>2, <1>3, <1>5, <1>7 DEF Dump!Go
<1>9. Sound(b) => dpc' # "raised"
  BY <1>2, <1>7, <1>8 DEF Dump!Available
<1>10. dpc' = "close" => Reading'
  <2>1. InCommand(k)' /\ (\A j : At(j)' = At(j)) /\ (dpc' \in Functions /\ dpc' # "symtab" /\ Position' => Reading')
    BY <1>1, <1>3, StaysInside
  <2>2. dpc' = "close" => Position'
    BY <1>3, <1>8, <2>1 DEF Position, Behind
  <2> QED  BY <2>1, <2>2 DEF Functions
<1> QED  BY <1>3, <1>6, <1>8, <1>9, <1>10, TrackAgain DEF Functions

(* A command that is not known is skipped by the size it claims. *)
LEMMA SkipStep ==
  ASSUME Track, Dump!SkipCommand
  PROVE  Track'
<1> DEFINE b == binary
           k == command.number
           size == command.cmdsize - 8
<1>1. dpc = "unknown" /\ dpc \in Functions /\ b \in Binaries /\ (Entered(k) \/ Lost)
  BY DEF Dump!SkipCommand, Track, Functions, Reading, Position
<1>2. /\ binary' = binary /\ is64' = is64 /\ strings' = strings /\ header' = header /\ command' = command
      /\ misread' = misread
      /\ dpc' = (IF size >= 0 /\ Dump!Available(cursor, size) THEN "close" ELSE "raised")
      /\ cursor' = (IF size >= 0 THEN cursor + size ELSE Dump!Length)
  BY DEF Dump!SkipCommand
<1>3. CASE Lost
  <2>1. dpc' = "raised" /\ b.lie = "cmdsize"
    BY <1>2, <1>3 DEF Lost
  <2>2. ~Sound(b)
    BY <1>1, <2>1, SoundIs
  <2> QED  BY <1>2, <2>1, <2>2, TrackAgain DEF Functions
<1>4. CASE Entered(k)
  <2>1. InCommand(k) /\ Kind(k) = "other" /\ cursor = At(k) + 8
    BY <1>1, <1>4, Inside, ItemKinds DEF Entered, FunctionOfKind, Kind
  <2>2. /\ binary \in Binaries /\ WellFormed(binary) /\ k \in 1 .. Len(binary.items) /\ Len(binary.items) \in Nat
        /\ At(k) \in Nat /\ At(k + 1) \in Nat /\ FileSize(binary) \in Nat /\ At(k + 1) <= FileSize(binary)
        /\ Dump!Length \in Nat /\ (Sound(binary) => Dump!Length = FileSize(binary))
    BY <1>1, <2>1, Inside
  <2> DEFINE wrong == Wrong(b, "cmdsize")
  <2>3. wrong = 0 \/ (wrong = 4 /\ b.lie = "cmdsize")
    BY <2>2, SoundIs
  <2>4. command.cmdsize = (At(k + 1) - At(k)) + wrong /\ At(k) + 8 <= At(k + 1)
    BY <2>1, <2>2, Extents DEF InCommand, CommandHead, At
  <2> HIDE DEF wrong
  <2>5. size \in Nat /\ cursor + size = At(k + 1) + wrong /\ size >= 0
    BY SMTT(30), <2>1, <2>2, <2>3, <2>4
  <2>6. cursor' = At(k + 1) + wrong
    BY <1>2, <2>5
  <2>7. Sound(b) => dpc' # "raised"
    <3>1. Sound(b) => wrong = 0
      BY <2>2, <2>3, SoundIs
    <3> QED  BY <1>2, <2>2, <2>5, <3>1 DEF Dump!Available
  <2>8. dpc' = "close" => Reading'
    <3>1. InCommand(k)' /\ (\A j : At(j)' = At(j) /\ Kind(j)' = Kind(j))
          /\ (dpc' \in Functions /\ dpc' # "symtab" /\ Position' => Reading')
      BY <1>1, <1>2, <2>1, StaysInside
    <3>2. k >= 1
      BY <2>2
    <3>3. Behind(k)'
      BY <1>2, <2>1, <2>2, <2>3, <2>6, <3>1, <3>2 DEF Behind, Late
    <3>6. dpc' = "close" => Position'
      BY <1>2, <3>1, <3>3 DEF Position, Behind, Late, InCommand, At, Kind
    <3> QED  BY <3>1, <3>6 DEF Functions
  <2> QED  BY <1>2, <2>7, <2>8, TrackAgain DEF Functions
<1> QED  BY <1>1, <1>3, <1>4

(* The members behind the head of a command. *)
LEMMA TailValues ==
  ASSUME binary \in Binaries, WellFormed(binary), NEW k \in 1 .. Len(binary.items),
         binary.items[k].kind # "other", cursor = CommandAt(binary, k) + 8,
         NEW list, list = CommandTail(binary, k)
  PROVE  /\ Placed(Cellsof(binary), cursor, list, CommandValues(binary, k))
         /\ Dump!SizeOf(list) = TailSize(binary, k)
         /\ \A name \in TailNames(binary, k) : Dump!Value(list, name) = CommandValues(binary, k)[name]
<1>1. /\ Placed(Cellsof(binary), cursor, list, CommandValues(binary, k))
      /\ SizeOf(list) = TailSize(binary, k) /\ TailNames(binary, k) \subseteq MemberNames(list)
  BY TailIsPlaced
<1>2. Dump!SizeOf(list) = TailSize(binary, k)
  BY <1>1, SameReading
<1>3. ASSUME NEW name \in TailNames(binary, k) PROVE Dump!Value(list, name) = CommandValues(binary, k)[name]
  BY <1>1, ValueIs
<1> QED  BY <1>1, <1>2, <1>3

(* dumpSegmentLoadCommand ends at the first section. *)
LEMMA SegmentStep ==
  ASSUME Track, Dump!DumpSegment
  PROVE  Track'
<1> DEFINE b == binary
           list == Dump!SegmentList(Dump!Is64Segment)
           m(k) == Len(b.items[k].relocs)
<1>0. PICK k : k = command.number
  OBVIOUS
<1>1. dpc = "segment" /\ dpc \in Functions /\ Entered(k) /\ InCommand(k) /\ Kind(k) = "segment"
  BY <1>0, ItemKinds, Inside DEF Dump!DumpSegment, Track, Functions, Reading, Position, Entered, FunctionOfKind
<1>2. /\ binary \in Binaries /\ WellFormed(b) /\ k \in 1 .. Len(b.items) /\ Len(b.items) \in Nat
      /\ At(k) \in Nat /\ At(k + 1) \in Nat /\ FileSize(b) \in Nat /\ At(k + 1) <= FileSize(b)
      /\ Dump!Length \in Nat /\ (Sound(b) => Dump!Length = FileSize(b))
      /\ b.items[k] \in Item /\ b.wide \in BOOLEAN
  BY <1>0, <1>1, Inside
<1>3. /\ binary' = binary /\ is64' = is64 /\ strings' = strings /\ header' = header /\ command' = command
      /\ Dump!Go(list, "section") /\ Dump!Reads(list) /\ left' = Dump!Value(list, "nsects")
  BY DEF Dump!DumpSegment
<1>4. list = CommandTail(b, k) /\ TailSize(b, k) = SegmentSizeOf(b.wide) - 8 /\ "nsects" \in TailNames(b, k)
  <2>1. command.cmd = Cmd(b.wide, b.items[k])
    BY <1>1 DEF InCommand, CommandHead
  <2>2. Dump!Is64Segment <=> b.wide
    BY <1>1, <1>2, <2>1, FunctionOfCommand DEF Dump!Is64Segment, Kind
  <2>3. Dump!Is64Segment = b.wide
    BY <1>2, <2>2 DEF Dump!Is64Segment
  <2> QED  BY <1>1, <2>3 DEF CommandTail, TailSize, TailNames, Kind
<1> HIDE DEF list
<1>5. /\ Placed(Cellsof(b), cursor, list, CommandValues(b, k)) /\ Dump!SizeOf(list) = SegmentSizeOf(b.wide) - 8
      /\ Dump!Value(list, "nsects") = CommandValues(b, k)["nsects"] /\ cursor = At(k) + 8
  <2>1. cursor = At(k) + 8 /\ b.items[k].kind # "other"
    BY <1>1 DEF Entered, Kind
  <2> QED  BY <1>2, <1>4, <2>1, TailValues DEF At
<1>6. misread' = misread
  BY <1>2, <1>3, <1>5, Faithful
<1>7. left' = m(k) /\ m(k) \in Nat
  <2>1. CommandValues(b, k)["nsects"] = m(k)
    BY <1>1, <1>2, CommandValuesAre DEF Kind
  <2> QED  BY <1>1, <1>2, <1>3, <1>5, <2>1, SectionExtents DEF Kind
<1>8. /\ SectionAt(b, k, 1) = At(k) + SegmentSizeOf(b.wide) /\ SectionAt(b, k, 1) <= At(k + 1)
      /\ SectionAt(b, k, 1) \in Nat /\ SegmentSizeOf(b.wide) \in Nat
  BY SMTT(30), <1>1, <1>2, SectionExtents, StructSizes DEF Kind, At
<1>9. cursor' = SectionAt(b, k, 1)
      /\ dpc' = (IF Dump!Available(cursor, SegmentSizeOf(b.wide) - 8) THEN "section" ELSE "raised")
  BY <1>2, <1>3, <1>5, <1>8 DEF Dump!Go
<1>10. Sound(b) => dpc' # "raised"
  BY <1>2, <1>5, <1>8, <1>9 DEF Dump!Available
<1>11. dpc' = "section" => Reading'
  <2>1. InCommand(k)' /\ (\A j : At(j)' = At(j) /\ Kind(j)' = Kind(j))
        /\ (dpc' \in Functions /\ dpc' # "symtab" /\ Position' => Reading')
    BY <1>0, <1>1, <1>3, StaysInside
  <2>2. (m(k) - m(k)) + 1 = 1
    BY <1>7
  <2>3. InSections(k)'
    BY <1>1, <1>3, <1>7, <1>9, <2>1, <2>2 DEF InSections, Kind
  <2>4. dpc' = "section" => Position'
    BY <1>0, <1>3, <2>3 DEF Position
  <2> QED  BY <2>1, <2>4 DEF Functions
<1> QED  BY <1>3, <1>6, <1>9, <1>10, <1>11, TrackAgain DEF Functions

(* Each turn reads a section and ends at the next one. *)
LEMMA SectionStep ==
  ASSUME Track, Dump!DumpSection
  PROVE  Track'
<1> DEFINE b == binary
           list == Dump!SectionList(Dump!Is64Segment)
           reloff == Dump!Value(list, "reloff")
           nreloc == Dump!Value(list, "nreloc")
           behind == cursor + Dump!SizeOf(list)
           end == reloff + nreloc * Dump!SizeOf(Dump!RelocationList)
           m(k) == Len(b.items[k].relocs)
<1>0. PICK k : k = command.number
  OBVIOUS
<1>1. dpc = "section" /\ dpc \in Functions /\ InSections(k) /\ InCommand(k) /\ Kind(k) = "segment"
  BY <1>0 DEF Dump!DumpSection, Track, Functions, Reading, Position, InSections
<1>2. /\ binary \in Binaries /\ WellFormed(b) /\ k \in 1 .. Len(b.items) /\ Len(b.items) \in Nat
      /\ At(k) \in Nat /\ At(k + 1) \in Nat /\ FileSize(b) \in Nat /\ At(k + 1) <= FileSize(b)
      /\ Dump!Length \in Nat /\ (Sound(b) => Dump!Length = FileSize(b))
      /\ b.items[k] \in Item /\ b.wide \in BOOLEAN
  BY <1>0, <1>1, Inside
<1>3. /\ binary' = binary /\ is64' = is64 /\ strings' = strings /\ header' = header /\ command' = command
      /\ Dump!Reads(list) /\ left > 0 /\ left' = left - 1 /\ cursor' = behind
      /\ dpc' = (IF Dump!Available(cursor, Dump!SizeOf(list)) /\ (nreloc > 0 => Dump!Available(end, 0))
                   THEN "section" ELSE "raised")
  BY <1>1 DEF Dump!DumpSection, Dump!Resume
<1>4. list = Section(b.wide) /\ {"reloff", "nreloc"} \subseteq MemberNames(list)
  <2>1. command.cmd = Cmd(b.wide, b.items[k])
    BY <1>1 DEF InCommand, CommandHead
  <2>2. Dump!Is64Segment <=> b.wide
    BY <1>1, <1>2, <2>1, FunctionOfCommand DEF Dump!Is64Segment, Kind
  <2>3. Dump!Is64Segment = b.wide
    BY <1>2, <2>2 DEF Dump!Is64Segment
  <2> QED  BY <1>2, <2>3, SectionListIs
<1>5. PICK s : s = (m(k) - left) + 1
  OBVIOUS
<1>6. /\ m(k) \in Nat /\ left \in 0 .. m(k) /\ s \in 1 .. m(k) /\ cursor = SectionAt(b, k, s)
      /\ left' \in 0 .. m(k) /\ s + 1 = (m(k) - left') + 1
  <2>1. m(k) \in Nat /\ left \in 0 .. m(k)
    BY <1>1, <1>2, SectionExtents DEF Kind, InSections
  <2> QED  BY <1>1, <1>3, <1>5, <2>1 DEF InSections
<1>7. /\ SectionAt(b, k, s) \in Nat /\ SectionAt(b, k, s + 1) = SectionAt(b, k, s) + SizeOf(Section(b.wide))
      /\ SectionAt(b, k, s) + SizeOf(Section(b.wide)) <= At(k + 1) /\ SizeOf(Section(b.wide)) \in Nat
  BY <1>1, <1>2, <1>6, SectionExtents DEF Kind, At
<1>8. Placed(Cellsof(b), cursor, list, SectionValues(b, k, s))
  BY <1>1, <1>2, <1>4, <1>6, SectionIsPlaced DEF Kind
<1>9. Dump!SizeOf(list) = SizeOf(Section(b.wide)) /\ Dump!SizeOf(Dump!RelocationList) = 8
  BY <1>4, SameReading, RelocationListIs
<1>10. reloff = TableAt(b, k) + RelocsBefore(b.items[k], s) * 8 /\ nreloc = b.items[k].relocs[s]
  <2>1. reloff = SectionValues(b, k, s)["reloff"] /\ nreloc = SectionValues(b, k, s)["nreloc"]
    BY <1>2, <1>4, <1>8, ValueIs
  <2> QED  BY <1>2, <2>1, SectionValuesAre
<1>11. reloff \in Nat /\ nreloc \in Nat /\ end \in Nat /\ end <= FileSize(b)
  <2>1. reloff \in Nat /\ nreloc \in Nat /\ reloff + nreloc * 8 <= FileSize(b)
    BY <1>1, <1>2, <1>6, <1>10, RelocsInside DEF Kind
  <2> HIDE DEF reloff, nreloc
  <2> QED  BY <1>2, <1>9, <2>1
<1> HIDE DEF list, reloff, nreloc, end
<1>12. misread' = misread
  BY <1>2, <1>3, <1>8, Faithful
<1>13. cursor' = SectionAt(b, k, s + 1)
  BY <1>3, <1>6, <1>7, <1>9
<1>14. Sound(b) => dpc' # "raised"
  <2> SUFFICES ASSUME Sound(b) PROVE dpc' # "raised"
    OBVIOUS
  <2>1. Dump!Length \in Nat /\ Dump!Length = FileSize(b)
    BY <1>2
  <2>2. Dump!Available(cursor, Dump!SizeOf(list))
    BY <1>2, <1>6, <1>7, <1>9, <2>1 DEF Dump!Available
  <2>3. Dump!Available(end, 0)
    BY <1>2, <1>11, <2>1 DEF Dump!Available
  <2> QED  BY <1>3, <2>2, <2>3
<1>15. dpc' = "section" => Reading'
  <2>1. InCommand(k)' /\ (\A j : At(j)' = At(j) /\ Kind(j)' = Kind(j))
        /\ (dpc' \in Functions /\ dpc' # "symtab" /\ Position' => Reading')
    BY <1>0, <1>1, <1>3, StaysInside
  <2>2. InSections(k)'
    BY <1>1, <1>3, <1>6, <1>13, <2>1 DEF InSections, Kind
  <2>3. dpc' = "section" => Position'
    BY <1>0, <1>3, <2>2 DEF Position
  <2> QED  BY <2>1, <2>3 DEF Functions
<1> QED  BY <1>3, <1>12, <1>14, <1>15, TrackAgain DEF Functions

(* dumpSymtabCommand goes to the symbols and remembers the next command. *)
LEMMA SymtabStep ==
  ASSUME Track, Dump!DumpSymtab
  PROVE  Track'
<1> DEFINE b == binary
           list == Dump!SymtabList
           stroff == Dump!Value(list, "stroff")
           strsize == Dump!Value(list, "strsize")
           whole == Dump!Available(cursor, Dump!SizeOf(list)) /\ Dump!Available(stroff, strsize)
           table == IF stroff \in DOMAIN Dump!cells THEN Dump!cells[stroff].value ELSE Dump!NoTable
           names(k) == b.items[k].names
<1>0. PICK k : k = command.number
  OBVIOUS
<1>1. dpc = "symtab" /\ dpc \in Functions /\ Entered(k) /\ InCommand(k) /\ Kind(k) = "symtab"
  BY <1>0, ItemKinds, Inside DEF Dump!DumpSymtab, Track, Functions, Reading, Position, Entered, FunctionOfKind
<1>2. /\ binary \in Binaries /\ WellFormed(b) /\ k \in 1 .. Len(b.items) /\ Len(b.items) \in Nat
      /\ At(k) \in Nat /\ At(k + 1) \in Nat /\ FileSize(b) \in Nat /\ At(k + 1) <= FileSize(b)
      /\ Dump!Length \in Nat /\ (Sound(b) => Dump!Length = FileSize(b)) /\ Registered
  BY <1>0, <1>1, Inside
<1>3. /\ binary' = binary /\ is64' = is64 /\ header' = header /\ command' = command /\ Dump!Reads(list)
      /\ dpc' = (IF whole /\ strings = Dump!NoTable THEN "symbol" ELSE "raised")
      /\ strings' = (IF whole /\ strings = Dump!NoTable THEN table ELSE strings)
      /\ prev' = cursor + Dump!SizeOf(list)
      /\ cursor' = Dump!Value(list, "symoff") /\ left' = Dump!Value(list, "nsyms")
  BY DEF Dump!DumpSymtab
<1>4. /\ list = CommandTail(b, k) /\ TailSize(b, k) = 16
      /\ {"symoff", "nsyms", "stroff", "strsize"} \subseteq TailNames(b, k)
  BY <1>1 DEF CommandTail, TailSize, TailNames, Kind
<1>5. /\ Placed(Cellsof(b), cursor, list, CommandValues(b, k)) /\ Dump!SizeOf(list) = 16
      /\ \A name \in {"symoff", "nsyms", "stroff", "strsize"} : Dump!Value(list, name) = CommandValues(b, k)[name]
      /\ cursor = At(k) + 8
  <2>1. cursor = At(k) + 8 /\ b.items[k].kind # "other"
    BY <1>1 DEF Entered, Kind
  <2> QED  BY <1>2, <1>4, <2>1, TailValues DEF At
<1>6. /\ Dump!Value(list, "symoff") = TableAt(b, k) /\ Dump!Value(list, "nsyms") = Len(names(k))
      /\ stroff = StringsAt(b, k) /\ strsize = StringTableSize(names(k))
  BY <1>1, <1>2, <1>5, CommandValuesAre DEF Kind
<1>7. table = StringTable(names(k))
  BY <1>1, <1>2, <1>6, StringsArePlaced, CellsAre DEF Kind
<1> HIDE DEF list, stroff, strsize, table
<1>8. misread' = misread
  BY <1>2, <1>3, <1>5, Faithful
<1>9. /\ Len(names(k)) \in Nat /\ SymbolAt(b, k, 1) = TableAt(b, k)
      /\ StringTableSize(names(k)) \in Nat /\ StringsAt(b, k) \in Nat
      /\ StringsAt(b, k) + StringTableSize(names(k)) <= FileSize(b)
  BY <1>1, <1>2, SymbolExtents DEF Kind
<1>10. At(k + 1) = At(k) + 24
  BY <1>1, <1>2, SimpleExtents DEF Kind, At
<1>11. Sound(b) => dpc' # "raised"
  <2> SUFFICES ASSUME Sound(b) PROVE dpc' # "raised"
    OBVIOUS
  <2>1. Dump!Length = FileSize(b)
    BY <1>2
  <2>2. whole
    BY <1>2, <1>5, <1>6, <1>9, <1>10, <2>1 DEF Dump!Available
  <2>3. strings = Dump!NoTable
    <3> SUFFICES ASSUME strings # Dump!NoTable PROVE FALSE
      OBVIOUS
    <3>1. PICK j \in 1 .. k : Kind(j) = "symtab" /\ j < k
      BY <1>0, <1>1, <1>2 DEF Registered
    <3>2. j \in DOMAIN b.items /\ k \in DOMAIN b.items
      BY <1>2, ItemsAre
    <3> QED  BY <1>1, <3>1, <3>2 DEF Sound, Kind
  <2> QED  BY <1>3, <2>2, <2>3
<1>12. dpc' = "symbol" => Reading'
  <2> SUFFICES ASSUME dpc' = "symbol" PROVE Reading'
    OBVIOUS
  <2>1. strings' = StringTable(names(k)) /\ left' = Len(names(k)) /\ cursor' = SymbolAt(b, k, 1)
        /\ prev' = At(k + 1)
    BY <1>2, <1>3, <1>5, <1>6, <1>7, <1>9, <1>10
  <2>2. InCommand(k)' /\ (\A j : At(j)' = At(j) /\ Kind(j)' = Kind(j))
    BY <1>1, <1>3 DEF InCommand, At, Kind
  <2>3. (Len(names(k)) - Len(names(k))) + 1 = 1
    BY <1>9
  <2>4. InSymbols(k)'
    BY <1>1, <1>3, <1>9, <2>1, <2>2, <2>3 DEF InSymbols, Kind
  <2>5. Position'
    BY <1>0, <1>3, <2>4 DEF Position
  <2>6. Registered'
    <3>1. command'.number = k /\ k \in 1 .. k /\ Kind(k)' = "symtab"
      BY <1>0, <1>1, <1>2, <1>3, <2>2
    <3> QED  BY <3>1 DEF Registered
  <2>7. is64' = binary'.wide /\ command'.number \in 0 .. Len(binary'.items)
        /\ header' = [ncmds |-> Len(binary'.items), sizeofcmds |-> Header(binary').sizeofcmds, start |-> At(1)']
    BY <1>1, <1>3 DEF Track, Reading, At
  <2> QED  BY <2>5, <2>6, <2>7 DEF Reading
<1> QED  BY <1>3, <1>8, <1>11, <1>12, TrackAgain DEF Functions

(* Each turn reads a symbol and ends at the next one. *)
LEMMA NlistStep ==
  ASSUME Track, Dump!DumpNlist
  PROVE  Track'
<1> DEFINE b == binary
           list == Dump!NlistList
           strx == Dump!Value(list, "n_strx")
           found == Dump!Available(cursor, Dump!SizeOf(list)) /\ strx \in DOMAIN strings
           m(k) == Len(b.items[k].names)
<1>0. PICK k : k = command.number
  OBVIOUS
<1>1. dpc = "symbol" /\ dpc \in Functions /\ InSymbols(k) /\ InCommand(k) /\ Kind(k) = "symtab"
  BY <1>0 DEF Dump!DumpNlist, Track, Functions, Reading, Position, InSymbols
<1>2. /\ binary \in Binaries /\ WellFormed(b) /\ k \in 1 .. Len(b.items) /\ Len(b.items) \in Nat
      /\ At(k) \in Nat /\ At(k + 1) \in Nat /\ FileSize(b) \in Nat /\ At(k + 1) <= FileSize(b)
      /\ Dump!Length \in Nat /\ (Sound(b) => Dump!Length = FileSize(b))
      /\ b.items[k] \in Item /\ b.wide \in BOOLEAN /\ is64 = b.wide
  BY <1>0, <1>1, Inside
<1>3. /\ binary' = binary /\ is64' = is64 /\ strings' = strings /\ header' = header /\ command' = command
      /\ prev' = prev /\ Dump!Reads(list) /\ left > 0 /\ left' = left - 1
      /\ cursor' = cursor + Dump!SizeOf(list)
      /\ dpc' = (IF found THEN "symbol" ELSE "raised")
  BY <1>1 DEF Dump!DumpNlist
<1>4. list = NlistOfWidth(b.wide)
  BY <1>2, NlistListIs
<1>5. PICK s : s = (m(k) - left) + 1
  OBVIOUS
<1>6. /\ m(k) \in Nat /\ left \in 0 .. m(k) /\ s \in 1 .. m(k) /\ cursor = SymbolAt(b, k, s)
      /\ left' \in 0 .. m(k) /\ s + 1 = (m(k) - left') + 1
  <2>1. m(k) \in Nat /\ left \in 0 .. m(k)
    BY <1>1, <1>2, SymbolExtents DEF Kind, InSymbols
  <2> QED  BY <1>1, <1>3, <1>5, <2>1 DEF InSymbols
<1>7. /\ SymbolAt(b, k, s) \in Nat /\ SymbolAt(b, k, s + 1) = SymbolAt(b, k, s) + SizeOf(NlistOfWidth(b.wide))
      /\ SymbolAt(b, k, s) + SizeOf(NlistOfWidth(b.wide)) <= FileSize(b) /\ SizeOf(NlistOfWidth(b.wide)) \in Nat
  BY <1>1, <1>2, <1>6, SymbolExtents DEF Kind
<1>8. Placed(Cellsof(b), cursor, list, SymbolValues(b, k, s))
  BY <1>1, <1>2, <1>4, <1>6, SymbolIsPlaced DEF Kind
<1>9. Dump!SizeOf(list) = SizeOf(NlistOfWidth(b.wide))
  BY <1>4, SameReading
<1>10. strx = IndexOfName(s) + Wrong(b, "n_strx") * m(k)
  <2>1. "n_strx" \in MemberNames(list)
    BY <1>2, <1>4, SymbolValuesAre
  <2>2. strx = SymbolValues(b, k, s)["n_strx"]
    BY <1>2, <1>8, <2>1, ValueIs
  <2> QED  BY <1>2, <2>2, SymbolValuesAre
<1> HIDE DEF list, strx
<1>11. misread' = misread
  BY <1>2, <1>3, <1>8, Faithful
<1>12. cursor' = SymbolAt(b, k, s + 1)
  BY <1>3, <1>6, <1>7, <1>9
<1>13. Sound(b) => dpc' # "raised"
  <2> SUFFICES ASSUME Sound(b) PROVE dpc' # "raised"
    OBVIOUS
  <2>1. Dump!Length = FileSize(b) /\ Wrong(b, "n_strx") = 0
    BY <1>2 DEF Sound, Wrong
  <2>2. Dump!Available(cursor, Dump!SizeOf(list))
    BY <1>2, <1>6, <1>7, <1>9, <2>1 DEF Dump!Available
  <2>3. strx = IndexOfName(s)
    BY <1>6, <1>10, <2>1 DEF IndexOfName
  <2>4. strings = StringTable(b.items[k].names)
    BY <1>1 DEF InSymbols
  <2>5. s \in DOMAIN b.items[k].names
    BY SMTT(30), <1>1, <1>2, <1>6, ItemKinds DEF Kind
  <2>6. strx \in DOMAIN strings
    BY <2>3, <2>4, <2>5 DEF StringTable
  <2> QED  BY <1>3, <2>2, <2>6
<1>14. dpc' = "symbol" => Reading'
  <2>1. InCommand(k)' /\ (\A j : At(j)' = At(j) /\ Kind(j)' = Kind(j))
        /\ (dpc' \in Functions /\ dpc' # "symtab" /\ Position' => Reading')
    BY <1>0, <1>1, <1>3, StaysInside
  <2>2. InSymbols(k)'
    BY <1>1, <1>3, <1>6, <1>12, <2>1 DEF InSymbols, Kind
  <2>3. dpc' = "symbol" => Position'
    BY <1>0, <1>3, <2>2 DEF Position
  <2> QED  BY <2>1, <2>3 DEF Functions
<1> QED  BY <1>3, <1>11, <1>13, <1>14, TrackAgain DEF Functions

(* Behind the loops, the reader is at the end of the command. *)
LEMMA EndLoopStep ==
  ASSUME Track, Dump!EndLoop
  PROVE  Track'
<1> DEFINE b == binary
<1>0. PICK k : k = command.number
  OBVIOUS
<1>1. /\ dpc \in {"section", "symbol"} /\ dpc \in Functions /\ dpc # "symtab" /\ InCommand(k) /\ left = 0
      /\ dpc = "section" => InSections(k)
      /\ dpc = "symbol" => InSymbols(k)
  BY <1>0 DEF Dump!EndLoop, Track, Functions, Reading, Position, InSections, InSymbols
<1>2. /\ WellFormed(b) /\ k \in 1 .. Len(b.items)
  BY <1>0, <1>1, Inside
<1>3. /\ binary' = binary /\ is64' = is64 /\ strings' = strings /\ header' = header /\ command' = command
      /\ misread' = misread /\ dpc' = "close"
      /\ cursor' = (IF dpc = "symbol" THEN prev ELSE cursor)
  BY DEF Dump!EndLoop, Dump!Resume
<1>4. cursor' = At(k + 1)
  <2>1. CASE dpc = "symbol"
    BY <1>1, <1>3, <2>1 DEF InSymbols
  <2>2. CASE dpc = "section"
    <3>1. b.items[k].kind = "segment" /\ cursor = SectionAt(b, k, (Len(b.items[k].relocs) - 0) + 1)
      BY <1>1, <2>2 DEF InSections, Kind
    <3>2. Len(b.items[k].relocs) \in Nat /\ SectionAt(b, k, Len(b.items[k].relocs) + 1) = At(k + 1)
      BY <1>2, <3>1, SectionExtents DEF At
    <3>3. (Len(b.items[k].relocs) - 0) + 1 = Len(b.items[k].relocs) + 1
      BY <3>2
    <3> QED  BY <1>3, <2>2, <3>1, <3>2, <3>3
  <2> QED  BY <1>1, <2>1, <2>2
<1>5. InCommand(k)' /\ (\A j : At(j)' = At(j) /\ Kind(j)' = Kind(j))
      /\ (dpc' \in Functions /\ dpc' # "symtab" /\ Position' => Reading')
  BY <1>0, <1>1, <1>3, StaysInside
<1>6. Behind(k)'
  BY <1>4, <1>5 DEF Behind
<1>7. Position'
  BY <1>0, <1>3, <1>5, <1>6 DEF Position
<1> QED  BY <1>3, <1>5, <1>7, TrackAgain DEF Functions

(* dumpDysymtabCommand comes back from the indirect symbols. *)
LEMMA DysymtabStep ==
  ASSUME Track, Dump!DumpDysymtab
  PROVE  Track'
<1> DEFINE b == binary
           list == Dump!DysymtabList
           symoff == Dump!Value(list, "indirectsymoff")
           nsyms == Dump!Value(list, "nindirectsyms")
           end == symoff + 4 * nsyms
<1>0. PICK k : k = command.number
  OBVIOUS
<1>1. dpc = "dysymtab" /\ dpc \in Functions /\ Entered(k) /\ InCommand(k) /\ Kind(k) = "dysymtab"
  BY <1>0, ItemKinds, Inside DEF Dump!DumpDysymtab, Track, Functions, Reading, Position, Entered, FunctionOfKind
<1>2. /\ binary \in Binaries /\ WellFormed(b) /\ k \in 1 .. Len(b.items) /\ Len(b.items) \in Nat
      /\ At(k) \in Nat /\ At(k + 1) \in Nat /\ FileSize(b) \in Nat /\ At(k + 1) <= FileSize(b)
      /\ Dump!Length \in Nat /\ (Sound(b) => Dump!Length = FileSize(b))
  BY <1>0, <1>1, Inside
<1>3. /\ binary' = binary /\ is64' = is64 /\ strings' = strings /\ header' = header /\ command' = command
      /\ Dump!Reads(list) /\ cursor' = cursor + Dump!SizeOf(list)
      /\ dpc' = (IF Dump!Available(cursor, Dump!SizeOf(list)) /\ (nsyms > 0 => Dump!Available(end, 0))
                   THEN "close" ELSE "raised")
  BY DEF Dump!DumpDysymtab, Dump!Resume
<1>4. /\ list = CommandTail(b, k) /\ TailSize(b, k) = 72
      /\ {"indirectsymoff", "nindirectsyms"} \subseteq TailNames(b, k)
  BY <1>1 DEF CommandTail, TailSize, TailNames, Kind
<1>5. /\ Placed(Cellsof(b), cursor, list, CommandValues(b, k)) /\ Dump!SizeOf(list) = 72
      /\ symoff = CommandValues(b, k)["indirectsymoff"] /\ nsyms = CommandValues(b, k)["nindirectsyms"]
      /\ cursor = At(k) + 8
  <2>1. cursor = At(k) + 8 /\ b.items[k].kind # "other"
    BY <1>1 DEF Entered, Kind
  <2> QED  BY <1>2, <1>4, <2>1, TailValues DEF At
<1>6. symoff = TableAt(b, k) /\ nsyms = b.items[k].n
  BY <1>1, <1>2, <1>5, CommandValuesAre DEF Kind
<1>7. At(k + 1) = At(k) + 80 /\ nsyms \in Nat /\ symoff \in Nat /\ end <= FileSize(b)
  BY SMTT(30), <1>1, <1>2, <1>6, SimpleExtents, Extents DEF Kind, At
<1> HIDE DEF list, symoff, nsyms
<1>8. misread' = misread
  BY <1>2, <1>3, <1>5, Faithful
<1>9. cursor' = At(k + 1)
  BY <1>2, <1>3, <1>5, <1>7
<1>10. Sound(b) => dpc' # "raised"
  <2> SUFFICES ASSUME Sound(b) PROVE dpc' # "raised"
    OBVIOUS
  <2>1. Dump!Length \in Nat /\ Dump!Length = FileSize(b)
    BY <1>2
  <2>2. Dump!Available(cursor, Dump!SizeOf(list))
    BY <1>2, <1>5, <1>7, <2>1 DEF Dump!Available
  <2>3. Dump!Available(end, 0)
    BY <1>2, <1>7, <2>1 DEF Dump!Available
  <2> QED  BY <1>3, <2>2, <2>3
<1>11. InCommand(k)' /\ (\A j : At(j)' = At(j) /\ Kind(j)' = Kind(j))
       /\ (dpc' \in Functions /\ dpc' # "symtab" /\ Position' => Reading')
  BY <1>0, <1>1, <1>3, StaysInside
<1>12. Behind(k)'
  BY <1>9, <1>11 DEF Behind
<1>13. dpc' = "close" => Position'
  BY <1>0, <1>3, <1>11, <1>12 DEF Position
<1> QED  BY <1>3, <1>8, <1>10, <1>11, <1>13, TrackAgain DEF Functions

(* The sizes of the commands are compared. *)
LEMMA CloseCommandStep ==
  ASSUME Track, Dump!CloseCommand
  PROVE  Track'
<1> DEFINE b == binary
<1>0. PICK k : k = command.number
  OBVIOUS
<1>1. dpc = "close" /\ dpc \in Functions /\ dpc # "symtab" /\ InCommand(k) /\ Behind(k)
  BY <1>0 DEF Dump!CloseCommand, Track, Functions, Reading, Position
<1>2. /\ binary \in Binaries /\ WellFormed(b) /\ k \in 1 .. Len(b.items) /\ At(k) \in Nat /\ At(k + 1) \in Nat
  BY <1>0, <1>1, Inside
<1>3. /\ binary' = binary /\ is64' = is64 /\ strings' = strings /\ header' = header /\ command' = command
      /\ misread' = misread /\ cursor' = cursor
      /\ dpc' = (IF cursor - command.start = command.cmdsize THEN "command" ELSE "raised")
  BY DEF Dump!CloseCommand
<1>4. Sound(b) => dpc' # "raised"
  <2> SUFFICES ASSUME Sound(b) PROVE dpc' # "raised"
    OBVIOUS
  <2>1. cursor = At(k + 1) /\ Wrong(b, "cmdsize") = 0
    BY <1>1 DEF Sound, Behind, Late, Wrong
  <2>2. command.start = At(k) /\ command.cmdsize = (At(k + 1) - At(k)) + 0
    BY <1>1, <1>2, <2>1, Extents DEF InCommand, CommandHead, At
  <2> QED  BY <1>2, <1>3, <2>1, <2>2
<1>5. InCommand(k)' /\ (\A j : At(j)' = At(j) /\ Kind(j)' = Kind(j))
      /\ (dpc' \in Functions /\ dpc' # "symtab" /\ Position' => Reading')
  BY <1>0, <1>1, <1>3, StaysInside
<1>6. Behind(k)'
  BY <1>1, <1>3, <1>5 DEF Behind, Late
<1>7. dpc' = "command" => Position'
  BY <1>0, <1>3, <1>5, <1>6 DEF Position
<1> QED  BY <1>3, <1>4, <1>5, <1>7, TrackAgain DEF Functions

(* The sizes of all commands are compared. *)
LEMMA CloseFileStep ==
  ASSUME Track, Dump!CloseFile
  PROVE  Track'
<1> DEFINE b == binary
<1>0. PICK n : n = command.number
  OBVIOUS
<1>1. /\ dpc = "command" /\ b \in Binaries /\ WellFormed(b) /\ Reading /\ Behind(n)
      /\ n = Len(b.items) /\ Len(b.items) \in Nat
  <2>1. dpc = "command" /\ b \in Binaries /\ WellFormed(b) /\ Reading /\ Len(b.items) \in Nat
    BY PreparationAssumption, ItemsAre DEF Track, Dump!CloseFile, Functions
  <2> QED  BY <1>0, <2>1 DEF Reading, Position, Dump!CloseFile
<1>2. /\ binary' = binary /\ is64' = is64 /\ strings' = strings /\ header' = header /\ command' = command
      /\ misread' = misread /\ cursor' = cursor
      /\ dpc' = (IF cursor - header.start = header.sizeofcmds THEN "done" ELSE "raised")
  BY DEF Dump!CloseFile
<1>3. Sound(b) => dpc' # "raised"
  <2> SUFFICES ASSUME Sound(b) PROVE dpc' # "raised"
    OBVIOUS
  <2>1. cursor = At(n + 1) /\ Wrong(b, "sizeofcmds") = 0
    BY <1>1 DEF Sound, Behind, Late, Wrong
  <2>2. 1 \in 1 .. Len(b.items) + 1 /\ n + 1 \in 1 .. Len(b.items) + 1
    BY <1>1
  <2>3. At(1) = SizeOf(MachHeader(b.wide)) /\ At(1) \in Nat /\ At(n + 1) \in Nat
    BY <1>1, <2>2, CommandsAre, StructSizes, ItemsAre DEF At
  <2>4. header.start = At(1) /\ header.sizeofcmds = (At(n + 1) - At(1)) + 0
    BY <1>1, <2>1, <2>3 DEF Reading, Header, At
  <2> QED  BY <1>2, <2>1, <2>3, <2>4
<1>4. dpc' = "done" => Reading'
  <2> SUFFICES ASSUME dpc' = "done" PROVE Reading'
    OBVIOUS
  <2>1. Position'
    BY <1>0, <1>1, <1>2 DEF Position
  <2>2. Registered'
    BY <1>1, <1>2 DEF Reading, Registered, Kind
  <2> QED  BY <1>1, <1>2, <2>1, <2>2 DEF Reading, At
<1> QED  BY <1>2, <1>3, <1>4, TrackAgain DEF Functions

-----------------------------------------------------------------------------

(* Every step of macho-dump keeps the invariant. *)
LEMMA StepOfTrack ==
  ASSUME Track, Thin, Dump!Read
  PROVE  Track'
BY HeaderStep, CommandStep, UuidStep, SkipStep, SegmentStep, SectionStep, SymtabStep, NlistStep, EndLoopStep,
  DysymtabStep, CloseCommandStep, CloseFileStep DEF Dump!Read

(* So do the steps of the others, which change nothing it is about. *)
LEMMA TrackStays ==
  ASSUME Track, UNCHANGED <<binary, dumpVars>>
  PROVE  Track'
<1>1. binary' = binary /\ dpc' = dpc /\ is64' = is64 /\ cursor' = cursor /\ prev' = prev /\ strings' = strings
      /\ header' = header /\ command' = command /\ left' = left /\ printed' = printed /\ misread' = misread
  BY DEF dumpVars
<1>2. \A k : /\ At(k)' = At(k) /\ Kind(k)' = Kind(k)
             /\ Behind(k)' = Behind(k) /\ InCommand(k)' = InCommand(k) /\ Entered(k)' = Entered(k)
             /\ InSections(k)' = InSections(k) /\ InSymbols(k)' = InSymbols(k)
  BY <1>1 DEF At, Kind, Behind, Late, InCommand, Entered, InSections, InSymbols
<1>3. Lost' = Lost /\ Registered' = Registered /\ Started' = Started
  BY <1>1, <1>2 DEF Lost, Registered, Started, Kind
<1>4. Reading => Position'
  BY <1>1, <1>2, <1>3 DEF Position, Reading
<1>5. Reading => Reading'
  BY <1>1, <1>2, <1>3, <1>4 DEF Reading, At
<1> QED  BY <1>1, <1>3, <1>5 DEF Track, FieldsAsDeclared

(* The same with what main.py has checked before macho-dump is started. *)
MachoInv == Track /\ (phase \notin {"check", "failed"} => Thin)

(* It holds in the beginning. *)
LEMMA InitTrack == Init => MachoInv
<1> SUFFICES ASSUME Init PROVE MachoInv
  OBVIOUS
<1>1. phase = "check" /\ \E s \in Scenarios : Dump!Start(s.binary)
  BY DEF Init
<1>2. binary \in Binaries /\ dpc = "header" /\ misread = {} /\ Started
  BY <1>1 DEF Dump!Start, Binaries, Started
<1> QED  BY <1>1, <1>2 DEF MachoInv, Track, Functions, FieldsAsDeclared

(* Every step keeps it. *)
LEMMA NextTrack == MachoInv /\ [Next]_vars => MachoInv'
<1> SUFFICES ASSUME MachoInv, [Next]_vars PROVE MachoInv'
  OBVIOUS
<1>1. CASE RunMachoDump
  <2>1. phase = "dump" /\ Track /\ Thin /\ Dump!Read
    BY <1>1 DEF RunMachoDump, MachoInv
  <2>2. binary' = binary
    BY <2>1 DEF Dump!Read, Dump!DumpHeader, Dump!DumpLoadCommand, Dump!DumpUuid, Dump!SkipCommand,
      Dump!DumpSegment, Dump!DumpSection, Dump!DumpSymtab, Dump!DumpNlist, Dump!EndLoop, Dump!DumpDysymtab,
      Dump!CloseCommand, Dump!CloseFile
  <2> QED  BY <2>1, <2>2, StepOfTrack DEF MachoInv, Thin
<1>2. CASE CheckMagic
  <2>1. Track' /\ binary' = binary
    BY <1>2, TrackStays DEF MachoInv, CheckMagic
  <2>2. phase' # "failed" => Thin
    BY <1>2 DEF CheckMagic, Thin
  <2> QED  BY <2>1, <2>2 DEF MachoInv, Thin
<1>3. CASE ExtractSymbols \/ ExtractUuid \/ GrepNumbers \/ CalculateBase \/ ParseVmbase \/ ParseSymbols
           \/ CheckUuid \/ Ended \/ UNCHANGED vars
  <2>1. UNCHANGED <<binary, dumpVars>>
    BY <1>3 DEF ExtractSymbols, ExtractUuid, GrepNumbers, CalculateBase, ParseVmbase, ParseSymbols, CheckUuid,
      Ended, vars, dumpVars
  <2>2. phase' \notin {"check", "failed"} => phase \notin {"check", "failed"}
    BY <1>3 DEF ExtractSymbols, ExtractUuid, GrepNumbers, CalculateBase, ParseVmbase, ParseSymbols, CheckUuid,
      Ended, vars
  <2> QED  BY <2>1, <2>2, TrackStays DEF MachoInv, Thin
<1> QED  BY <1>1, <1>2, <1>3 DEF Next

(* It always holds. *)
LEMMA MachoKept == Spec => []MachoInv
BY InitTrack, NextTrack, PTL DEF Spec

(* macho-dump.py:133-199, 234-258: whatever the commands of a binary, its   *)
(* tables and its width, and wherever it was cut, each member is read at    *)
(* the place where mach-o/loader.h and nlist.h declare it, unless the       *)
(* cmdsize of an unknown command, the number of bytes to skip, is wrong.    *)
THEOREM FieldsDeclared == Spec => []FieldsAsDeclared
<1>1. MachoInv => FieldsAsDeclared
  BY DEF MachoInv, Track
<1> QED  BY <1>1, MachoKept, PTL

-----------------------------------------------------------------------------
(* What is found in lines that were printed. *)

(* f is a list of n pieces. *)
Listed(f, n) == f = [k \in 1 .. n |-> f[k]]

(* One piece per element, and one element more. *)
OneMore(S, n, f, g) ==
  /\ n \in Nat /\ Listed(f, n) /\ Listed(g, n + 1)
  /\ \A k \in 1 .. n : g[k] = f[k]
  /\ \A k \in 1 .. n + 1 : g[k] \in Seq(S)

(* What is joined grows at the end by the piece added there. *)
LEMMA FlattenMore ==
  ASSUME NEW S, NEW n, NEW f, NEW g, OneMore(S, n, f, g)
  PROVE  FlattenSeq(f) \in Seq(S) /\ FlattenSeq(g) = FlattenSeq(f) \o g[n + 1]
<1>0. n \in Nat /\ (\A k \in 1 .. n : g[k] = f[k]) /\ \A k \in 1 .. n + 1 : g[k] \in Seq(S)
  BY DEF OneMore
<1>1. f = [k \in 1 .. n |-> f[k]] /\ g = [k \in 1 .. n + 1 |-> g[k]]
  BY DEF OneMore, Listed
<1>2. FlattenSeq(f) = Concat(f, n) /\ FlattenSeq(g) = Concat(g, n + 1)
  BY <1>1 DEF Concat
<1>3. Concat(g, n) = Concat(f, n)
  BY <1>0, ConcatEqual
<1>4. Concat(g, n) \in Seq(S) /\ Concat(g, n + 1) = Concat(g, n) \o g[n + 1]
  BY <1>0, ConcatNext
<1> QED  BY <1>2, <1>3, <1>4

IsSequence(p) == \E S : p \in Seq(S)

(* A sequence and one element more, place by place. *)
LEMMA AppendIs ==
  ASSUME NEW p, IsSequence(p), NEW l
  PROVE  /\ IsSequence(Append(p, l)) /\ Len(p) \in Nat /\ DOMAIN p = 1 .. Len(p)
         /\ DOMAIN Append(p, l) = 1 .. Len(p) + 1 /\ Append(p, l)[Len(p) + 1] = l
         /\ \A k \in 1 .. Len(p) : Append(p, l)[k] = p[k]
<1>1. PICK S : p \in Seq(S)
  BY DEF IsSequence
<1>2. p \in Seq(S \cup {l})
  <2>1. S \subseteq S \cup {l}
    OBVIOUS
  <2> QED  BY <1>1, <2>1, SeqMonotonic
<1>3. l \in S \cup {l}
  OBVIOUS
<1>4. Append(p, l) \in Seq(S \cup {l})
  BY <1>2, <1>3
<1>5. /\ Len(p) \in Nat /\ DOMAIN p = 1 .. Len(p)
      /\ DOMAIN Append(p, l) = 1 .. Len(p) + 1 /\ Append(p, l)[Len(p) + 1] = l
      /\ \A k \in 1 .. Len(p) : Append(p, l)[k] = p[k]
  BY <1>2, <1>3
<1> QED  BY <1>4, <1>5 DEF IsSequence

(* The numbers GrepNumbers finds in these lines. *)
NumbersIn(p) == FlattenSeq([k \in DOMAIN p |-> NumbersOf(p[k])])
(* The line, if it reports an address or a size of a segment. *)
VmOf(l) == IF l.key \in {"vmaddr", "vmsize"} THEN <<l>> ELSE <<>>
(* All of these lines. *)
VmIn(p) == FlattenSeq([k \in DOMAIN p |-> VmOf(p[k])])
(* LinesWith, for any lines. *)
KeyIn(p, key) == {k \in DOMAIN p : p[k].key = key}

(* One line more adds its numbers at the end. *)
LEMMA NumbersAppend ==
  ASSUME NEW p, IsSequence(p), NEW l, NumbersOf(l) \in Seq(Nat),
         \A k \in DOMAIN p : NumbersOf(p[k]) \in Seq(Nat)
  PROVE  NumbersIn(p) \in Seq(Nat) /\ NumbersIn(Append(p, l)) = NumbersIn(p) \o NumbersOf(l)
<1> DEFINE n == Len(p)
           f == [k \in DOMAIN p |-> NumbersOf(p[k])]
           q == Append(p, l)
           g == [k \in DOMAIN q |-> NumbersOf(q[k])]
<1>1. /\ n \in Nat /\ DOMAIN p = 1 .. n /\ DOMAIN q = 1 .. n + 1 /\ q[n + 1] = l
      /\ \A k \in 1 .. n : q[k] = p[k]
  BY AppendIs
<1> HIDE DEF q, n
<1>2. Listed(f, n) /\ Listed(g, n + 1)
  <2>1. f = [k \in 1 .. n |-> f[k]] /\ g = [k \in 1 .. n + 1 |-> g[k]]
    BY <1>1
  <2> QED  BY <2>1 DEF Listed
<1>3. (\A k \in 1 .. n : g[k] = f[k]) /\ g[n + 1] = NumbersOf(l)
  BY <1>1
<1>4. \A k \in 1 .. n + 1 : g[k] \in Seq(Nat)
  <2>1. \A k \in 1 .. n : g[k] \in Seq(Nat)
    BY <1>1, <1>3
  <2>2. g[n + 1] \in Seq(Nat)
    BY <1>3
  <2>3. \A k \in 1 .. n + 1 : k \in 1 .. n \/ k = n + 1
    BY <1>1
  <2> HIDE DEF g
  <2> QED  BY <2>1, <2>2, <2>3
<1>5. NumbersIn(p) = FlattenSeq(f) /\ NumbersIn(q) = FlattenSeq(g)
  BY DEF NumbersIn
<1> HIDE DEF f, g
<1>6. FlattenSeq(f) \in Seq(Nat) /\ FlattenSeq(g) = FlattenSeq(f) \o g[n + 1]
  <2>1. OneMore(Nat, n, f, g)
    BY <1>1, <1>2, <1>3, <1>4 DEF OneMore
  <2> QED  BY <2>1, FlattenMore
<1>7. NumbersIn(p) \in Seq(Nat) /\ NumbersIn(q) = NumbersIn(p) \o NumbersOf(l)
  BY <1>3, <1>5, <1>6
<1> QED  BY <1>7 DEF q

(* And itself, if it is about a segment. *)
LEMMA VmAppend ==
  ASSUME NEW p, IsSequence(p), NEW l
  PROVE  IsSequence(VmIn(p)) /\ VmIn(Append(p, l)) = VmIn(p) \o VmOf(l)
<1> DEFINE n == Len(p)
           q == Append(p, l)
           f == [k \in DOMAIN p |-> VmOf(p[k])]
           g == [k \in DOMAIN q |-> VmOf(q[k])]
           S == {q[k] : k \in DOMAIN q}
<1>1. /\ n \in Nat /\ DOMAIN p = 1 .. n /\ DOMAIN q = 1 .. n + 1 /\ q[n + 1] = l
      /\ \A k \in 1 .. n : q[k] = p[k]
  BY AppendIs
<1> HIDE DEF q, n
<1>2. Listed(f, n) /\ Listed(g, n + 1)
  <2>1. f = [k \in 1 .. n |-> f[k]] /\ g = [k \in 1 .. n + 1 |-> g[k]]
    BY <1>1
  <2> QED  BY <2>1 DEF Listed
<1>3. (\A k \in 1 .. n : g[k] = f[k]) /\ g[n + 1] = VmOf(l)
  BY <1>1
<1>4. \A k \in 1 .. n + 1 : g[k] \in Seq(S)
  <2> TAKE k \in 1 .. n + 1
  <2>1. q[k] \in S /\ g[k] = VmOf(q[k])
    BY <1>1
  <2>2. g[k] = <<q[k]>> \/ g[k] = <<>>
    BY <2>1 DEF VmOf
  <2> HIDE DEF g, S
  <2>3. <<q[k]>> \in Seq(S)
    BY <2>1
  <2>4. <<>> \in Seq(S)
    OBVIOUS
  <2> QED  BY <2>2, <2>3, <2>4
<1>5. VmIn(p) = FlattenSeq(f) /\ VmIn(q) = FlattenSeq(g)
  BY DEF VmIn
<1> HIDE DEF f, g, S
<1>6. FlattenSeq(f) \in Seq(S) /\ FlattenSeq(g) = FlattenSeq(f) \o g[n + 1]
  <2>1. OneMore(S, n, f, g)
    BY <1>1, <1>2, <1>3, <1>4 DEF OneMore
  <2> QED  BY <2>1, FlattenMore
<1>7. VmIn(q) = VmIn(p) \o VmOf(l)
  BY <1>3, <1>5, <1>6
<1> QED  BY <1>5, <1>6, <1>7 DEF q, IsSequence

(* Nothing printed. *)
LEMMA NothingFound ==
  /\ IsSequence(<<>>) /\ NumbersIn(<<>>) = <<>> /\ VmIn(<<>>) = <<>> /\ \A key : KeyIn(<<>>, key) = {}
<1>1. <<>> \in Seq({}) /\ DOMAIN <<>> = 1 .. 0
  OBVIOUS
<1>2. Concat([k \in 1 .. 0 |-> NumbersOf(<<>>[k])], 0) = <<>> /\ Concat([k \in 1 .. 0 |-> VmOf(<<>>[k])], 0) = <<>>
  BY ConcatNone
<1>3. [k \in DOMAIN <<>> |-> NumbersOf(<<>>[k])] = [k \in 1 .. 0 |-> [i \in 1 .. 0 |-> NumbersOf(<<>>[i])][k]]
      /\ [k \in DOMAIN <<>> |-> VmOf(<<>>[k])] = [k \in 1 .. 0 |-> [i \in 1 .. 0 |-> VmOf(<<>>[i])][k]]
  BY <1>1
<1> QED  BY <1>1, <1>2, <1>3 DEF NumbersIn, VmIn, KeyIn, IsSequence, Concat

-----------------------------------------------------------------------------
(* What is to be found in a binary. *)

(* Of each command, the numbers and the lines of its addresses. *)
SegNums(b, k) == IF b.items[k].kind = "segment" THEN <<b.items[k].vmaddr, b.items[k].vmsize>> ELSE <<>>
(* The lines reported of a segment. *)
LinesOf(b, k) ==
  IF b.items[k].kind = "segment"
    THEN <<Dump!Line("vmaddr", b.items[k].vmaddr), Dump!Line("vmsize", b.items[k].vmsize)>> ELSE <<>>

(* Of the first m commands. *)
NumsUpto(b, m) == FlattenSeq([k \in 1 .. m |-> SegNums(b, k)])
LinesUpto(b, m) == FlattenSeq([k \in 1 .. m |-> LinesOf(b, k)])
UuidsUpto(b, m) == {k \in 1 .. m : b.items[k].kind = "uuid"}

(* Command k adds its numbers to those of the commands before it. *)
LEMMA NumsNext ==
  ASSUME NEW b, WellFormed(b), NEW k \in 1 .. Len(b.items)
  PROVE  NumsUpto(b, k - 1) \in Seq(Nat) /\ NumsUpto(b, k) = NumsUpto(b, k - 1) \o SegNums(b, k)
<1> DEFINE f == [j \in 1 .. k - 1 |-> SegNums(b, j)]
           g == [j \in 1 .. k |-> SegNums(b, j)]
<1>1. Len(b.items) \in Nat /\ k - 1 \in Nat /\ (k - 1) + 1 = k /\ k \in 1 .. k
  BY ItemsAre
<1>2. \A j \in 1 .. k : SegNums(b, j) \in Seq(Nat)
  <2> TAKE j \in 1 .. k
  <2>1. b.items[j] \in Item
    BY <1>1, ItemsAre
  <2>2. b.items[j].kind = "segment" => b.items[j].vmaddr \in Nat /\ b.items[j].vmsize \in Nat
    BY <2>1, ItemKinds
  <2>3. \A x, y \in Nat : <<x, y>> \in Seq(Nat)
    OBVIOUS
  <2>4. <<>> \in Seq(Nat)
    OBVIOUS
  <2> QED  BY <2>2, <2>3, <2>4 DEF SegNums
<1>3. (\A j \in 1 .. k : g[j] = SegNums(b, j)) /\ \A j \in 1 .. k - 1 : f[j] = SegNums(b, j)
  OBVIOUS
<1>4. Listed(f, k - 1) /\ Listed(g, (k - 1) + 1)
  BY <1>1 DEF Listed
<1>5. NumsUpto(b, k - 1) = FlattenSeq(f) /\ NumsUpto(b, k) = FlattenSeq(g)
  BY DEF NumsUpto
<1> HIDE DEF f, g
<1>6. OneMore(Nat, k - 1, f, g)
  BY <1>1, <1>2, <1>3, <1>4 DEF OneMore
<1>7. FlattenSeq(f) \in Seq(Nat) /\ FlattenSeq(g) = FlattenSeq(f) \o g[(k - 1) + 1]
  <2>1. \A n : OneMore(Nat, n, f, g) => FlattenSeq(f) \in Seq(Nat) /\ FlattenSeq(g) = FlattenSeq(f) \o g[n + 1]
    BY FlattenMore
  <2> QED  BY <1>6, <2>1, Zenon
<1> QED  BY <1>1, <1>3, <1>5, <1>7

(* And its lines to theirs. *)
LEMMA LinesNext ==
  ASSUME NEW b, WellFormed(b), NEW k \in 1 .. Len(b.items)
  PROVE  IsSequence(LinesUpto(b, k - 1)) /\ LinesUpto(b, k) = LinesUpto(b, k - 1) \o LinesOf(b, k)
<1> DEFINE f == [j \in 1 .. k - 1 |-> LinesOf(b, j)]
           g == [j \in 1 .. k |-> LinesOf(b, j)]
           S == {Dump!Line(key, n) : key \in {"vmaddr", "vmsize"}, n \in Nat}
<1>1. Len(b.items) \in Nat /\ k - 1 \in Nat /\ (k - 1) + 1 = k /\ k \in 1 .. k
  BY ItemsAre
<1>2. \A j \in 1 .. k : LinesOf(b, j) \in Seq(S)
  <2> TAKE j \in 1 .. k
  <2>1. b.items[j] \in Item
    BY <1>1, ItemsAre
  <2>2. b.items[j].kind = "segment" => b.items[j].vmaddr \in Nat /\ b.items[j].vmsize \in Nat
    BY <2>1, ItemKinds
  <2>3. \A n \in Nat : Dump!Line("vmaddr", n) \in S /\ Dump!Line("vmsize", n) \in S
    OBVIOUS
  <2> HIDE DEF S
  <2>4. \A x, y \in S : <<x, y>> \in Seq(S)
    OBVIOUS
  <2>5. <<>> \in Seq(S)
    OBVIOUS
  <2> QED  BY <2>2, <2>3, <2>4, <2>5 DEF LinesOf
<1>3. (\A j \in 1 .. k : g[j] = LinesOf(b, j)) /\ \A j \in 1 .. k - 1 : f[j] = LinesOf(b, j)
  OBVIOUS
<1>4. Listed(f, k - 1) /\ Listed(g, (k - 1) + 1)
  BY <1>1 DEF Listed
<1>5. LinesUpto(b, k - 1) = FlattenSeq(f) /\ LinesUpto(b, k) = FlattenSeq(g)
  BY DEF LinesUpto
<1> HIDE DEF f, g, S
<1>6. OneMore(S, k - 1, f, g)
  BY <1>1, <1>2, <1>3, <1>4 DEF OneMore
<1>7. FlattenSeq(f) \in Seq(S) /\ FlattenSeq(g) = FlattenSeq(f) \o g[(k - 1) + 1]
  <2>1. \A n : OneMore(S, n, f, g) => FlattenSeq(f) \in Seq(S) /\ FlattenSeq(g) = FlattenSeq(f) \o g[n + 1]
    BY FlattenMore
  <2> QED  BY <1>6, <2>1, Zenon
<1> QED  BY <1>1, <1>3, <1>5, <1>7 DEF IsSequence

(* No command has no numbers, no lines and no uuid. *)
LEMMA NothingUpto == \A b : NumsUpto(b, 0) = <<>> /\ LinesUpto(b, 0) = <<>> /\ UuidsUpto(b, 0) = {}
<1> TAKE b
<1>1. Concat([k \in 1 .. 0 |-> SegNums(b, k)], 0) = <<>> /\ Concat([k \in 1 .. 0 |-> LinesOf(b, k)], 0) = <<>>
  BY ConcatNone
<1>2. /\ [k \in 1 .. 0 |-> SegNums(b, k)] = [k \in 1 .. 0 |-> [i \in 1 .. 0 |-> SegNums(b, i)][k]]
      /\ [k \in 1 .. 0 |-> LinesOf(b, k)] = [k \in 1 .. 0 |-> [i \in 1 .. 0 |-> LinesOf(b, i)][k]]
  OBVIOUS
<1> QED  BY <1>1, <1>2 DEF NumsUpto, LinesUpto, UuidsUpto, Concat

(* Command k is counted when it is a uuid. *)
LEMMA UuidsNext ==
  ASSUME NEW b, WellFormed(b), NEW k \in 1 .. Len(b.items)
  PROVE  /\ IsFiniteSet(UuidsUpto(b, k - 1)) /\ k \notin UuidsUpto(b, k - 1)
         /\ UuidsUpto(b, k) = IF b.items[k].kind = "uuid" THEN UuidsUpto(b, k - 1) \cup {k} ELSE UuidsUpto(b, k - 1)
<1>1. Len(b.items) \in Nat /\ k - 1 \in Nat
  BY ItemsAre
<1>2. IsFiniteSet(1 .. k - 1) /\ UuidsUpto(b, k - 1) \subseteq 1 .. k - 1
  BY <1>1, FS_Interval DEF UuidsUpto
<1>3. IsFiniteSet(UuidsUpto(b, k - 1))
  BY <1>2, FS_Subset
<1>4. \A j : j \in 1 .. k <=> j \in 1 .. k - 1 \/ j = k
  BY <1>1
<1>5. k \notin 1 .. k - 1
  BY <1>1
<1> QED  BY <1>3, <1>4, <1>5 DEF UuidsUpto

(* Behind the last segment there is nothing to be found. *)
LEMMA NumsComplete ==
  ASSUME NEW b, WellFormed(b), NEW m \in 0 .. Len(b.items),
         \A k \in 1 .. Len(b.items) : b.items[k].kind = "segment" => k <= m
  PROVE  NumsUpto(b, Len(b.items)) = NumsUpto(b, m)
<1> DEFINE T == {d \in Nat : m + d <= Len(b.items) => NumsUpto(b, m + d) = NumsUpto(b, m)}
<1>0. Len(b.items) \in Nat /\ m \in Nat
  BY ItemsAre
<1>1. 0 \in T
  BY <1>0
<1>2. ASSUME NEW d \in T PROVE d + 1 \in T
  <2> SUFFICES ASSUME m + (d + 1) <= Len(b.items) PROVE NumsUpto(b, m + (d + 1)) = NumsUpto(b, m)
    OBVIOUS
  <2> DEFINE k == m + (d + 1)
  <2>1. k \in 1 .. Len(b.items) /\ k - 1 = m + d /\ m + d <= Len(b.items) /\ ~(k <= m)
    BY <1>0
  <2>2. NumsUpto(b, k - 1) = NumsUpto(b, m)
    BY <2>1
  <2> HIDE DEF k
  <2>3. SegNums(b, k) = <<>>
    BY <2>1 DEF SegNums
  <2>4. NumsUpto(b, k - 1) \in Seq(Nat) /\ NumsUpto(b, k) = NumsUpto(b, k - 1) \o <<>>
    BY <2>1, <2>3, NumsNext
  <2>5. NumsUpto(b, k) = NumsUpto(b, m)
    BY <2>2, <2>4, ConcatEmptySeq
  <2> QED  BY <2>5 DEF k
<1>3. T = Nat
  <2>1. T \in SUBSET Nat
    OBVIOUS
  <2> HIDE DEF T
  <2> QED  BY <1>1, <1>2, <2>1, Induction
<1>4. \A d \in Nat : m + d <= Len(b.items) => NumsUpto(b, m + d) = NumsUpto(b, m)
  BY <1>3
<1>5. Len(b.items) - m \in Nat
  BY <1>0
<1>6. PICK d \in Nat : d = Len(b.items) - m
  BY <1>5
<1> HIDE DEF T
<1>7. m + d <= Len(b.items) /\ m + d = Len(b.items)
  BY <1>0, <1>6
<1>8. NumsUpto(b, m + d) = NumsUpto(b, m)
  BY <1>4, <1>7
<1> QED  BY <1>7, <1>8

-----------------------------------------------------------------------------
(* What macho-dump prints, and the numbers egrep finds in it. *)

(* Pieces of elements of S are joined to a sequence of elements of S. *)
LEMMA FlattenIsSequence ==
  ASSUME NEW S, NEW n \in Nat, NEW f, Listed(f, n), \A k \in 1 .. n : f[k] \in Seq(S)
  PROVE  FlattenSeq(f) \in Seq(S)
<1> DEFINE g == [k \in 1 .. n + 1 |-> IF k \in 1 .. n THEN f[k] ELSE <<>>]
<1>1. Listed(g, n + 1) /\ \A k \in 1 .. n : g[k] = f[k]
  <2>1. g = [k \in 1 .. n + 1 |-> g[k]] /\ \A k \in 1 .. n : g[k] = f[k]
    OBVIOUS
  <2> HIDE DEF g
  <2> QED  BY <2>1 DEF Listed
<1>2. <<>> \in Seq(S)
  OBVIOUS
<1>3. \A k \in 1 .. n + 1 : g[k] \in Seq(S)
  BY <1>2
<1> HIDE DEF g
<1>4. OneMore(S, n, f, g)
  BY <1>1, <1>3 DEF OneMore
<1> QED  BY <1>4, FlattenMore

(* The strings of a table are the names of its symbols, and an empty one. *)
LEMMA StringsAre ==
  ASSUME NEW names, names \in Seq(STRING)
  PROVE  /\ DOMAIN StringTable(names) \subseteq Nat /\ 0 \in DOMAIN StringTable(names)
         /\ \A i \in DOMAIN StringTable(names) :
              StringTable(names)[i] = IF i = 0 THEN "" ELSE StringTable(names)[i]
         /\ \A i \in DOMAIN StringTable(names) : i # 0 => StringTable(names)[i] \in Range(names)
         /\ StringTable(names)[0] = ""
         /\ Max(DOMAIN StringTable(names)) \in Nat
<1> DEFINE n == Len(names)
           D == {0} \cup {IndexOfName(k) : k \in 1 .. n}
<1>1. n \in Nat /\ DOMAIN names = 1 .. n
  OBVIOUS
<1>2. DOMAIN StringTable(names) = D
  BY <1>1 DEF StringTable
<1>3. \A k \in 1 .. n : IndexOfName(k) \in Nat /\ IndexOfName(k) <= 1 + 4 * (n - 1) /\ IndexOfName(k) # 0
                        /\ (IndexOfName(k) - 1) \div 4 + 1 = k
  BY <1>1 DEF IndexOfName
<1>4. \A k \in 1 .. n : StringTable(names)[IndexOfName(k)] = names[k]
  BY <1>1, <1>3 DEF StringTable
<1>5. StringTable(names)[0] = ""
  BY DEF StringTable
<1>6. \A i \in DOMAIN StringTable(names) : i # 0 => StringTable(names)[i] \in Range(names)
  BY <1>1, <1>2, <1>4 DEF Range
<1>7. \E x \in D : \A y \in D : x >= y
  <2>1. CASE n = 0
    <3>1. D = {0} /\ 0 >= 0
      BY <2>1
    <3> HIDE DEF D
    <3> QED  BY <3>1
  <2>2. CASE n # 0
    <3>1. IndexOfName(n) \in D /\ IndexOfName(n) = 1 + 4 * (n - 1)
      BY <1>1, <2>2 DEF IndexOfName
    <3>2. \A y \in D : 1 + 4 * (n - 1) >= y
      BY <1>1, <1>3, <2>2
    <3> QED  BY <3>1, <3>2
  <2> QED  BY <2>1, <2>2
<1>8. D \subseteq Nat
  BY <1>3
<1> HIDE DEF D
<1>9. Max(D) \in D
  BY <1>7 DEF Max
<1> QED  BY <1>2, <1>5, <1>6, <1>8, <1>9 DEF StringTable

(* Lines that can be printed for binary b. *)
Printable(b, l) ==
  \/ l.key \in {"vmaddr", "vmsize"} /\ l.value \in Nat
  \/ l.key = "uuid"
  \/ l.key = "string" /\ l.value \in SymbolNamesOf(b)
  \/ l.key = "string_data" /\ \E j \in 1 .. Len(b.items) :
       b.items[j].kind = "symtab" /\ l.value = StringTable(b.items[j].names)

(* The names of a symbol table are names of symbols of the binary, and the  *)
(* digits in them are known.                                                *)
LEMMA NamesInTable ==
  ASSUME NEW b \in Binaries, NEW j \in 1 .. Len(b.items), b.items[j].kind = "symtab"
  PROVE  /\ b.items[j].names \in Seq(STRING) /\ Range(b.items[j].names) \subseteq SymbolNamesOf(b)
         /\ \A name \in SymbolNamesOf(b) : Digits[name] \in Seq(Nat)
<1>1. WellFormed(b)
  BY PreparationAssumption
<1>2. b.items[j] \in Item /\ j \in DOMAIN b.items
  BY <1>1, ItemsAre
<1>3. b.items[j].names \in Seq(STRING)
  BY <1>2, ItemKinds
<1>4. \A name \in SymbolNamesOf(b) : Digits[name] \in Seq(Nat)
  BY PreparationAssumption
<1> QED  BY <1>2, <1>3, <1>4 DEF SymbolNamesOf

(* In the line of a string table there are only natural numbers. *)
LEMMA StringNumbers ==
  ASSUME NEW b \in Binaries, NEW j \in 1 .. Len(b.items), b.items[j].kind = "symtab"
  PROVE  StringDataNumbers(StringTable(b.items[j].names)) \in Seq(Nat)
<1> DEFINE table == StringTable(b.items[j].names)
           last == Max(DOMAIN table)
           n == last + 1
           piece(i) == (IF table[i] = "" THEN <<>> ELSE Digits[table[i]]) \o <<0>>
           f == [i \in 1 .. n |-> IF i - 1 \in DOMAIN table THEN piece(i - 1) ELSE <<>>]
<1>1. /\ \A i \in DOMAIN table : table[i] = "" \/ Digits[table[i]] \in Seq(Nat)
      /\ n \in Nat
  <2>1. /\ b.items[j].names \in Seq(STRING)
        /\ \A name \in Range(b.items[j].names) : Digits[name] \in Seq(Nat)
    BY NamesInTable
  <2>2. /\ \A i \in DOMAIN table : i # 0 => table[i] \in Range(b.items[j].names)
        /\ table[0] = ""
    BY <2>1, StringsAre
  <2>0. last \in Nat
    BY <2>1, StringsAre
  <2> HIDE DEF table, last
  <2>3. n \in Nat
    BY <2>0
  <2>4. ASSUME NEW i \in DOMAIN table PROVE table[i] = "" \/ Digits[table[i]] \in Seq(Nat)
    <3>1. CASE i = 0
      BY <2>2, <3>1
    <3>2. CASE i # 0
      <4>1. table[i] \in Range(b.items[j].names)
        BY <2>2, <3>2
      <4> QED  BY <2>1, <4>1
    <3> QED  BY <3>1, <3>2
  <2> QED  BY <2>3, <2>4
<1> HIDE DEF table, last, n
<1>2. \A i \in DOMAIN table : piece(i) \in Seq(Nat)
  <2> TAKE i \in DOMAIN table
  <2>1. <<>> \in Seq(Nat) /\ <<0>> \in Seq(Nat)
    OBVIOUS
  <2>2. (IF table[i] = "" THEN <<>> ELSE Digits[table[i]]) \in Seq(Nat)
    BY <1>1, <2>1
  <2> QED  BY <2>1, <2>2, JoinIsSequence
<1>3. <<>> \in Seq(Nat)
  OBVIOUS
<1> HIDE DEF piece
<1>4. Listed(f, n) /\ \A k \in 1 .. n : f[k] \in Seq(Nat)
  <2>1. f = [k \in 1 .. n |-> f[k]]
    OBVIOUS
  <2>2. \A k \in 1 .. n : f[k] \in Seq(Nat)
    BY <1>2, <1>3
  <2> HIDE DEF f
  <2> QED  BY <2>1, <2>2 DEF Listed
<1>5. StringDataNumbers(table) = FlattenSeq(f)
  BY DEF StringDataNumbers, last, n, piece
<1> HIDE DEF f
<1>6. FlattenSeq(f) \in Seq(Nat)
  BY <1>1, <1>4, FlattenIsSequence
<1> QED  BY <1>5, <1>6 DEF table

(* In every line that macho-dump can print of the binary there are only     *)
(* natural numbers.                                                         *)
LEMMA NumbersOfPrintable ==
  ASSUME NEW b \in Binaries, NEW l, Printable(b, l)
  PROVE  NumbersOf(l) \in Seq(Nat)
<1>1. CASE l.key \in {"vmaddr", "vmsize"} /\ l.value \in Nat
  BY <1>1 DEF NumbersOf
<1>2. CASE l.key = "uuid"
  BY <1>2 DEF NumbersOf
<1>3. CASE l.key = "string" /\ l.value \in SymbolNamesOf(b)
  <2>1. Digits[l.value] \in Seq(Nat)
    BY <1>3, PreparationAssumption
  <2>2. NumbersOf(l) = Digits[l.value] \/ NumbersOf(l) = <<>>
    BY <1>3 DEF NumbersOf
  <2>3. <<>> \in Seq(Nat)
    OBVIOUS
  <2> QED  BY <2>1, <2>2, <2>3
<1>4. CASE l.key = "string_data" /\ \E j \in 1 .. Len(b.items) :
             b.items[j].kind = "symtab" /\ l.value = StringTable(b.items[j].names)
  <2>1. StringDataNumbers(l.value) \in Seq(Nat)
    BY <1>4, StringNumbers
  <2>2. NumbersOf(l) = StringDataNumbers(l.value) \/ NumbersOf(l) = <<>>
    BY <1>4 DEF NumbersOf
  <2>3. <<>> \in Seq(Nat)
    OBVIOUS
  <2> QED  BY <2>1, <2>2, <2>3
<1> QED  BY <1>1, <1>2, <1>3, <1>4 DEF Printable

-----------------------------------------------------------------------------
(* What has been printed of a binary. *)

(* Only such lines have been printed. *)
Told(b, p) == IsSequence(p) /\ \A k \in DOMAIN p : Printable(b, p[k])

(* Behind the segments, if they come first. *)
Marked(p) == KeyIn(p, "uuid") # {} \/ KeyIn(p, "string_data") # {}
(* SegmentsFirst, for any binary. *)
BeforeOthers(b) ==
  \A k \in SegmentItems(b) : \A j \in DOMAIN b.items : b.items[j].kind \in {"uuid", "symtab"} => k < j

(* The numbers s come first in t. *)
Begins(s, t) == Len(s) <= Len(t) /\ \A k \in 1 .. Len(s) : t[k] = s[k]

(* With a uuid or a string table printed, all segments have been printed    *)
(* before anything else was.                                                *)
SegmentsTold(b, p) == BeforeOthers(b) /\ Marked(p) => Begins(NumsUpto(b, Len(b.items)), NumbersIn(p))

(* The first m commands, and nothing else. *)
Plain(b) == SymbolNamesOf(b) \cap VmNames = {}
(* Printed is what the first m commands say about segments and uuids, and   *)
(* among the numbers there is nothing else before the first string table,   *)
(* or ever, if no name contains one of the words.                           *)
Exactly(b, p, m) ==
  /\ VmIn(p) = LinesUpto(b, m)
  /\ IsFiniteSet(KeyIn(p, "uuid")) /\ Cardinality(KeyIn(p, "uuid")) = Cardinality(UuidsUpto(b, m))
  /\ Plain(b) \/ KeyIn(p, "string_data") = {} => NumbersIn(p) = NumsUpto(b, m)

(* What comes first does so in anything longer. *)
LEMMA BeginsLonger ==
  ASSUME NEW s \in Seq(Nat), NEW t \in Seq(Nat), NEW u \in Seq(Nat), Begins(s, t)
  PROVE  Begins(s, t \o u)
<1>1. Len(t \o u) = Len(t) + Len(u) /\ \A k \in 1 .. Len(t) : (t \o u)[k] = t[k]
  OBVIOUS
<1>2. Len(s) \in Nat /\ Len(t) \in Nat /\ Len(u) \in Nat
  OBVIOUS
<1>3. Len(s) <= Len(t) /\ \A k \in 1 .. Len(s) : t[k] = s[k]
  BY DEF Begins
<1>4. \A k \in 1 .. Len(s) : k \in 1 .. Len(t)
  BY <1>2, <1>3
<1>5. Len(s) <= Len(t \o u)
  BY <1>1, <1>2, <1>3
<1>6. \A k \in 1 .. Len(s) : (t \o u)[k] = s[k]
  BY <1>1, <1>3, <1>4
<1> QED  BY <1>5, <1>6 DEF Begins

(* And in itself. *)
LEMMA BeginsItself ==
  ASSUME NEW s \in Seq(Nat)
  PROVE  Begins(s, s)
<1>1. Len(s) \in Nat
  OBVIOUS
<1> QED  BY <1>1 DEF Begins

(* The numbers of segments are natural. *)
LEMMA NumsAre ==
  ASSUME NEW b, WellFormed(b), NEW m \in 0 .. Len(b.items)
  PROVE  NumsUpto(b, m) \in Seq(Nat)
<1>1. Len(b.items) \in Nat
  BY ItemsAre
<1>2. CASE m = 0
  <2>1. <<>> \in Seq(Nat)
    OBVIOUS
  <2> QED  BY <1>2, <2>1, NothingUpto
<1>3. CASE m # 0
  <2>1. m \in 1 .. Len(b.items)
    BY <1>1, <1>3
  <2>2. b.items[m] \in Item
    BY <2>1, ItemsAre
  <2>3. SegNums(b, m) \in Seq(Nat)
    <3>1. b.items[m].kind = "segment" => b.items[m].vmaddr \in Nat /\ b.items[m].vmsize \in Nat
      BY <2>2, ItemKinds
    <3>2. \A x, y \in Nat : <<x, y>> \in Seq(Nat)
      OBVIOUS
    <3>3. <<>> \in Seq(Nat)
      OBVIOUS
    <3> QED  BY <3>1, <3>2, <3>3 DEF SegNums
  <2>4. NumsUpto(b, m - 1) \in Seq(Nat) /\ NumsUpto(b, m) = NumsUpto(b, m - 1) \o SegNums(b, m)
    BY <2>1, NumsNext
  <2> QED  BY <2>3, <2>4, JoinIsSequence
<1> QED  BY <1>2, <1>3

-----------------------------------------------------------------------------
(* One line more. *)

(* One line more has its own key, at the end. *)
LEMMA KeyAppend ==
  ASSUME NEW p, IsSequence(p), NEW l, NEW key
  PROVE  KeyIn(Append(p, l), key) = KeyIn(p, key) \cup (IF l.key = key THEN {Len(p) + 1} ELSE {})
         /\ Len(p) + 1 \notin KeyIn(p, key)
<1> DEFINE q == Append(p, l)
           n == Len(p)
<1>1. /\ n \in Nat /\ DOMAIN p = 1 .. n /\ DOMAIN q = 1 .. n + 1 /\ q[n + 1] = l
      /\ \A k \in 1 .. n : q[k] = p[k]
  BY AppendIs
<1> HIDE DEF q, n
<1>2. \A k : k \in 1 .. n + 1 <=> k \in 1 .. n \/ k = n + 1
  BY <1>1
<1>3. n + 1 \notin 1 .. n
  BY <1>1
<1>4. KeyIn(q, key) = KeyIn(p, key) \cup (IF l.key = key THEN {n + 1} ELSE {}) /\ n + 1 \notin KeyIn(p, key)
  BY <1>1, <1>2, <1>3 DEF KeyIn
<1> QED  BY <1>4 DEF q, n

(* One line more that can be printed. *)
LEMMA ToldMore ==
  ASSUME NEW b \in Binaries, NEW p, Told(b, p), NEW l, Printable(b, l)
  PROVE  /\ Told(b, Append(p, l)) /\ IsSequence(p)
         /\ NumbersIn(p) \in Seq(Nat) /\ NumbersOf(l) \in Seq(Nat)
         /\ NumbersIn(Append(p, l)) = NumbersIn(p) \o NumbersOf(l)
<1> DEFINE q == Append(p, l)
           n == Len(p)
<1>1. IsSequence(p) /\ \A k \in DOMAIN p : Printable(b, p[k])
  BY DEF Told
<1>2. /\ IsSequence(q) /\ n \in Nat /\ DOMAIN p = 1 .. n /\ DOMAIN q = 1 .. n + 1 /\ q[n + 1] = l
      /\ \A k \in 1 .. n : q[k] = p[k]
  BY <1>1, AppendIs
<1> HIDE DEF q, n
<1>3. \A k : k \in 1 .. n + 1 <=> k \in 1 .. n \/ k = n + 1
  BY <1>2
<1>4. \A k \in DOMAIN q : Printable(b, q[k])
  BY <1>1, <1>2, <1>3
<1>5. Told(b, q)
  BY <1>2, <1>4 DEF Told
<1>6. NumbersOf(l) \in Seq(Nat) /\ \A k \in DOMAIN p : NumbersOf(p[k]) \in Seq(Nat)
  BY <1>1, NumbersOfPrintable
<1>7. NumbersIn(p) \in Seq(Nat) /\ NumbersIn(Append(p, l)) = NumbersIn(p) \o NumbersOf(l)
  BY <1>1, <1>6, NumbersAppend
<1>8. Told(b, Append(p, l))
  BY <1>5 DEF q
<1> QED  BY <1>1, <1>6, <1>7, <1>8

(* Another line takes nothing away. *)
LEMMA SegmentsTellMore ==
  ASSUME NEW b \in Binaries, NEW p, Told(b, p), NEW l, Printable(b, l), SegmentsTold(b, p),
         Marked(Append(p, l)) => Marked(p)
  PROVE  SegmentsTold(b, Append(p, l))
<1> SUFFICES ASSUME BeforeOthers(b), Marked(p)
             PROVE  Begins(NumsUpto(b, Len(b.items)), NumbersIn(Append(p, l)))
  BY DEF SegmentsTold
<1>1. WellFormed(b)
  BY PreparationAssumption
<1>2. Len(b.items) \in 0 .. Len(b.items)
  BY <1>1, ItemsAre
<1>3. NumsUpto(b, Len(b.items)) \in Seq(Nat)
  BY <1>1, <1>2, NumsAre
<1>4. Begins(NumsUpto(b, Len(b.items)), NumbersIn(p))
  BY DEF SegmentsTold
<1>5. /\ NumbersIn(p) \in Seq(Nat) /\ NumbersOf(l) \in Seq(Nat)
      /\ NumbersIn(Append(p, l)) = NumbersIn(p) \o NumbersOf(l)
  BY ToldMore
<1> QED  BY <1>3, <1>4, <1>5, BeginsLonger

(* A line that is neither a uuid nor a string table does not mark. *)
LEMMA NotMarked ==
  ASSUME NEW p, IsSequence(p), NEW l, l.key \notin {"uuid", "string_data"}
  PROVE  Marked(Append(p, l)) => Marked(p)
BY KeyAppend DEF Marked

(* A uuid or a string table comes when all segments have been seen. *)
LEMMA AllSegments ==
  ASSUME NEW b \in Binaries, NEW p, Told(b, p), NEW k \in 1 .. Len(b.items),
         b.items[k].kind \in {"uuid", "symtab"},
         SegmentsTold(b, p), Exactly(b, p, k - 1), NEW l, Printable(b, l)
  PROVE  SegmentsTold(b, Append(p, l))
<1>1. CASE Marked(p)
  BY <1>1, SegmentsTellMore
<1>2. CASE ~Marked(p)
  <2> SUFFICES ASSUME BeforeOthers(b)
               PROVE  Begins(NumsUpto(b, Len(b.items)), NumbersIn(Append(p, l)))
    BY DEF SegmentsTold
  <2>1. WellFormed(b) /\ Len(b.items) \in Nat /\ DOMAIN b.items = 1 .. Len(b.items)
    BY PreparationAssumption, ItemsAre
  <2>2. NumbersIn(p) = NumsUpto(b, k - 1)
    BY <1>2 DEF Marked, Exactly
  <2>3. k - 1 \in 0 .. Len(b.items) /\ \A j \in 1 .. Len(b.items) : b.items[j].kind = "segment" => j <= k - 1
    <3>1. \A j \in 1 .. Len(b.items) : b.items[j].kind = "segment" => j < k
      BY <2>1 DEF BeforeOthers, SegmentItems
    <3> QED  BY <2>1, <3>1
  <2>4. NumsUpto(b, Len(b.items)) = NumsUpto(b, k - 1) /\ NumsUpto(b, k - 1) \in Seq(Nat)
    BY <2>1, <2>3, NumsComplete, NumsAre
  <2>5. /\ NumbersIn(p) \in Seq(Nat) /\ NumbersOf(l) \in Seq(Nat)
        /\ NumbersIn(Append(p, l)) = NumbersIn(p) \o NumbersOf(l)
    BY ToldMore
  <2> HIDE DEF NumsUpto
  <2>6. Begins(NumbersIn(p), NumbersIn(p))
    BY <2>5, BeginsItself
  <2>7. Begins(NumbersIn(p), NumbersIn(p) \o NumbersOf(l))
    BY <2>5, <2>6, BeginsLonger
  <2> QED  BY <2>2, <2>4, <2>5, <2>7
<1> QED  BY <1>1, <1>2

-----------------------------------------------------------------------------
(* One command more. *)

(* A command that is no segment adds no numbers, one that is no uuid no     *)
(* uuid.                                                                    *)
LEMMA NothingOfCommand ==
  ASSUME NEW b, WellFormed(b), NEW k \in 1 .. Len(b.items)
  PROVE  /\ b.items[k].kind # "segment" =>
              NumsUpto(b, k) = NumsUpto(b, k - 1) /\ LinesUpto(b, k) = LinesUpto(b, k - 1)
         /\ b.items[k].kind # "uuid" => UuidsUpto(b, k) = UuidsUpto(b, k - 1)
<1>1. ASSUME b.items[k].kind # "segment"
      PROVE  NumsUpto(b, k) = NumsUpto(b, k - 1)
  <2>1. SegNums(b, k) = <<>>
    BY <1>1 DEF SegNums
  <2>2. NumsUpto(b, k - 1) \in Seq(Nat) /\ NumsUpto(b, k) = NumsUpto(b, k - 1) \o SegNums(b, k)
    BY NumsNext
  <2> HIDE DEF NumsUpto
  <2> QED  BY <2>1, <2>2, ConcatEmptySeq
<1>2. ASSUME b.items[k].kind # "segment"
      PROVE  LinesUpto(b, k) = LinesUpto(b, k - 1)
  <2>1. LinesOf(b, k) = <<>>
    BY <1>2 DEF LinesOf
  <2>2. IsSequence(LinesUpto(b, k - 1)) /\ LinesUpto(b, k) = LinesUpto(b, k - 1) \o LinesOf(b, k)
    BY LinesNext
  <2> HIDE DEF LinesUpto
  <2>3. PICK S : LinesUpto(b, k - 1) \in Seq(S)
    BY <2>2 DEF IsSequence
  <2> QED  BY <2>1, <2>2, <2>3, ConcatEmptySeq
<1>3. b.items[k].kind # "uuid" => UuidsUpto(b, k) = UuidsUpto(b, k - 1)
  BY UuidsNext
<1> QED  BY <1>1, <1>2, <1>3

(* What was exact before a command that is neither is exact behind it. *)
LEMMA ExactlyQuiet ==
  ASSUME NEW b, WellFormed(b), NEW k \in 1 .. Len(b.items), b.items[k].kind \notin {"segment", "uuid"},
         NEW p, Exactly(b, p, k - 1)
  PROVE  Exactly(b, p, k)
<1>1. /\ NumsUpto(b, k) = NumsUpto(b, k - 1) /\ LinesUpto(b, k) = LinesUpto(b, k - 1)
      /\ UuidsUpto(b, k) = UuidsUpto(b, k - 1)
  BY NothingOfCommand
<1> HIDE DEF NumsUpto, LinesUpto, UuidsUpto
<1> QED  BY <1>1 DEF Exactly

(* Without one of the words in a name only segments have numbers. *)
LEMMA PlainNumbers ==
  ASSUME NEW b \in Binaries, Plain(b), NEW l, Printable(b, l), l.key \notin {"vmaddr", "vmsize"}
  PROVE  NumbersOf(l) = <<>>
<1>1. CASE l.key = "uuid"
  BY <1>1 DEF NumbersOf
<1>2. CASE l.key = "string"
  <2>1. l.value \in SymbolNamesOf(b)
    BY <1>2 DEF Printable
  <2>2. l.value \notin VmNames
    BY <2>1 DEF Plain
  <2> QED  BY <1>2, <2>2 DEF NumbersOf
<1>3. CASE l.key = "string_data"
  <2>1. PICK j \in 1 .. Len(b.items) :
          b.items[j].kind = "symtab" /\ l.value = StringTable(b.items[j].names)
    BY <1>3 DEF Printable
  <2> DEFINE table == l.value
  <2>2. b.items[j].names \in Seq(STRING) /\ Range(b.items[j].names) \subseteq SymbolNamesOf(b)
    BY <2>1, NamesInTable
  <2>3. \A i \in DOMAIN table : table[i] = "" \/ table[i] \in Range(b.items[j].names)
    BY <2>1, <2>2, StringsAre
  <2>4. \A i \in DOMAIN table : table[i] \notin VmNames
    BY <2>2, <2>3, PreparationAssumption DEF Plain
  <2>5. Range(l.value) \cap VmNames = {}
    BY <2>4 DEF Range
  <2> QED  BY <1>3, <2>5 DEF NumbersOf
<1> QED  BY <1>1, <1>2, <1>3 DEF Printable

(* One line more changes only the lines with its key. *)
LEMMA KeySame ==
  ASSUME NEW p, IsSequence(p), NEW l, NEW key
  PROVE  /\ l.key # key => KeyIn(Append(p, l), key) = KeyIn(p, key)
         /\ KeyIn(p, key) \subseteq KeyIn(Append(p, l), key)
         /\ l.key = key => KeyIn(Append(p, l), key) # {}
<1>1. KeyIn(Append(p, l), key) = KeyIn(p, key) \cup (IF l.key = key THEN {Len(p) + 1} ELSE {})
  BY KeyAppend
<1> HIDE DEF KeyIn
<1> QED  BY <1>1, Zenon

(* A line about the symbol table. *)
LEMMA ExactlySymbol ==
  ASSUME NEW b \in Binaries, NEW m, NEW p, Told(b, p), NEW l, Printable(b, l), Exactly(b, p, m),
         l.key \in {"string", "string_data"}, l.key = "string" => KeyIn(p, "string_data") # {}
  PROVE  Exactly(b, Append(p, l), m)
<1> DEFINE q == Append(p, l)
<1>1. /\ IsSequence(p) /\ NumbersIn(p) \in Seq(Nat)
      /\ NumbersIn(q) = NumbersIn(p) \o NumbersOf(l)
  BY ToldMore
<1>2. IsSequence(VmIn(p)) /\ VmIn(q) = VmIn(p) \o VmOf(l)
  BY <1>1, VmAppend
<1>3. KeyIn(q, "uuid") = KeyIn(p, "uuid")
  <2>1. l.key # "uuid"
    OBVIOUS
  <2> QED  BY <1>1, <2>1, KeySame
<1>4. KeyIn(q, "string_data") # {}
  <2>1. /\ KeyIn(p, "string_data") \subseteq KeyIn(q, "string_data")
        /\ l.key = "string_data" => KeyIn(q, "string_data") # {}
    BY <1>1, KeySame
  <2> HIDE DEF q, KeyIn
  <2> QED  BY <2>1
<1> HIDE DEF q, NumbersIn, VmIn, KeyIn
<1>5. VmIn(q) = VmIn(p)
  <2>1. VmOf(l) = <<>>
    BY DEF VmOf
  <2>2. PICK S : VmIn(p) \in Seq(S)
    BY <1>2 DEF IsSequence
  <2> QED  BY <1>2, <2>1, <2>2, ConcatEmptySeq
<1>6. Plain(b) => NumbersIn(q) = NumbersIn(p)
  <2> SUFFICES ASSUME Plain(b) PROVE NumbersIn(q) = NumbersIn(p)
    OBVIOUS
  <2>1. NumbersOf(l) = <<>>
    BY PlainNumbers
  <2> QED  BY <1>1, <2>1, ConcatEmptySeq
<1>7. Exactly(b, q, m)
  BY <1>3, <1>4, <1>5, <1>6 DEF Exactly
<1> QED  BY <1>7 DEF q

(* The line of a uuid. *)
LEMMA ExactlyUuid ==
  ASSUME NEW b \in Binaries, NEW k \in 1 .. Len(b.items), b.items[k].kind = "uuid",
         NEW p, Told(b, p), NEW l, Printable(b, l), Exactly(b, p, k - 1), l.key = "uuid"
  PROVE  Exactly(b, Append(p, l), k)
<1> DEFINE q == Append(p, l)
<1>0. WellFormed(b)
  BY PreparationAssumption
<1>1. /\ IsSequence(p) /\ NumbersIn(p) \in Seq(Nat)
      /\ NumbersIn(q) = NumbersIn(p) \o NumbersOf(l)
  BY ToldMore
<1>2. IsSequence(VmIn(p)) /\ VmIn(q) = VmIn(p) \o VmOf(l)
  BY <1>1, VmAppend
<1>3. KeyIn(q, "uuid") = KeyIn(p, "uuid") \cup {Len(p) + 1} /\ Len(p) + 1 \notin KeyIn(p, "uuid")
  BY <1>1, KeyAppend
<1>4. KeyIn(q, "string_data") = KeyIn(p, "string_data")
  <2>1. l.key # "string_data"
    OBVIOUS
  <2> QED  BY <1>1, <2>1, KeySame
<1>5. /\ NumsUpto(b, k) = NumsUpto(b, k - 1) /\ LinesUpto(b, k) = LinesUpto(b, k - 1)
      /\ IsFiniteSet(UuidsUpto(b, k - 1)) /\ k \notin UuidsUpto(b, k - 1)
      /\ UuidsUpto(b, k) = UuidsUpto(b, k - 1) \cup {k}
  BY <1>0, NothingOfCommand, UuidsNext
<1> HIDE DEF q, NumbersIn, VmIn, KeyIn, NumsUpto, LinesUpto, UuidsUpto
<1>6. VmIn(q) = VmIn(p)
  <2>1. VmOf(l) = <<>>
    BY DEF VmOf
  <2>2. PICK S : VmIn(p) \in Seq(S)
    BY <1>2 DEF IsSequence
  <2> QED  BY <1>2, <2>1, <2>2, ConcatEmptySeq
<1>7. NumbersIn(q) = NumbersIn(p)
  <2>1. NumbersOf(l) = <<>>
    BY DEF NumbersOf
  <2> QED  BY <1>1, <2>1, ConcatEmptySeq
<1>8. IsFiniteSet(KeyIn(p, "uuid")) /\ Cardinality(KeyIn(p, "uuid")) = Cardinality(UuidsUpto(b, k - 1))
  BY DEF Exactly
<1>9. /\ IsFiniteSet(KeyIn(q, "uuid")) /\ Cardinality(KeyIn(q, "uuid")) = Cardinality(KeyIn(p, "uuid")) + 1
  BY <1>3, <1>8, FS_AddElement
<1>10. Cardinality(UuidsUpto(b, k)) = Cardinality(UuidsUpto(b, k - 1)) + 1
  BY <1>5, FS_AddElement
<1>11. Exactly(b, q, k)
  BY <1>4, <1>5, <1>6, <1>7, <1>8, <1>9, <1>10 DEF Exactly
<1> QED  BY <1>11 DEF q

(* One after another is two at once. *)
LEMMA TwoMore ==
  ASSUME NEW s, IsSequence(s), NEW x, NEW y
  PROVE  (s \o <<x>>) \o <<y>> = s \o <<x, y>>
<1>1. PICK S : s \in Seq(S)
  BY DEF IsSequence
<1> DEFINE T == S \cup {x, y}
<1>2. s \in Seq(T) /\ x \in T /\ y \in T
  <2>1. S \subseteq T /\ x \in T /\ y \in T
    OBVIOUS
  <2> HIDE DEF T
  <2> QED  BY <1>1, <2>1, SeqMonotonic
<1> HIDE DEF T
<1>3. <<x>> \in Seq(T) /\ <<y>> \in Seq(T) /\ <<x>> \o <<y>> = <<x, y>>
  <2>1. \A z \in T : <<z>> \in Seq(T)
    OBVIOUS
  <2>2. <<x>> \o <<y>> = <<x, y>>
    <3>1. /\ <<x>> \in Seq({x, y}) /\ <<y>> \in Seq({x, y}) /\ <<x, y>> \in Seq({x, y})
          /\ Len(<<x>>) = 1 /\ Len(<<y>>) = 1 /\ Len(<<x, y>>) = 2
      OBVIOUS
    <3>2. /\ <<x>> \o <<y>> \in Seq({x, y}) /\ Len(<<x>> \o <<y>>) = 2
          /\ (<<x>> \o <<y>>)[1] = x /\ (<<x>> \o <<y>>)[2] = y
      BY <3>1
    <3>3. \A i \in 1 .. 2 : (<<x>> \o <<y>>)[i] = <<x, y>>[i]
      BY <3>2
    <3>4. \A i \in 1 .. Len(<<x>> \o <<y>>) : (<<x>> \o <<y>>)[i] = <<x, y>>[i]
      BY <3>2, <3>3
    <3>5. <<x>> \o <<y>> \in Seq({x, y}) /\ <<x, y>> \in Seq({x, y}) /\ Len(<<x>> \o <<y>>) = Len(<<x, y>>)
      BY <3>1, <3>2
    <3> QED  BY <3>4, <3>5, SeqEqual
  <2> QED  BY <1>2, <2>1, <2>2
<1>4. (s \o <<x>>) \o <<y>> = s \o (<<x>> \o <<y>>)
  BY <1>2, <1>3, ConcatAssociative
<1> QED  BY <1>3, <1>4

(* The two lines of a segment. *)
LEMMA ExactlySegment ==
  ASSUME NEW b \in Binaries, NEW k \in 1 .. Len(b.items), b.items[k].kind = "segment",
         NEW p, Told(b, p), Exactly(b, p, k - 1)
  PROVE  LET l == Dump!Line("vmaddr", b.items[k].vmaddr)
             m == Dump!Line("vmsize", b.items[k].vmsize)
         IN /\ Printable(b, l) /\ Printable(b, m)
            /\ Exactly(b, Append(Append(p, l), m), k)
<1> DEFINE l == Dump!Line("vmaddr", b.items[k].vmaddr)
           m == Dump!Line("vmsize", b.items[k].vmsize)
           q == Append(p, l)
           r == Append(q, m)
<1>0. WellFormed(b) /\ b.items[k].vmaddr \in Nat /\ b.items[k].vmsize \in Nat
  BY PreparationAssumption, ItemsAre, ItemKinds
<1>1. /\ Printable(b, l) /\ Printable(b, m)
      /\ NumbersOf(l) = <<b.items[k].vmaddr>> /\ NumbersOf(m) = <<b.items[k].vmsize>>
      /\ VmOf(l) = <<l>> /\ VmOf(m) = <<m>>
      /\ l.key = "vmaddr" /\ m.key = "vmsize"
  BY <1>0 DEF Printable, NumbersOf, VmOf, Dump!Line
<1>2. /\ SegNums(b, k) = <<b.items[k].vmaddr, b.items[k].vmsize>>
      /\ LinesOf(b, k) = <<l, m>>
  BY DEF SegNums, LinesOf
<1> HIDE DEF l, m
<1>3. /\ Told(b, q) /\ IsSequence(p) /\ NumbersIn(p) \in Seq(Nat) /\ NumbersIn(q) = NumbersIn(p) \o NumbersOf(l)
  BY <1>1, ToldMore
<1>4. /\ IsSequence(q) /\ NumbersIn(r) = NumbersIn(q) \o NumbersOf(m)
  BY <1>1, <1>3, ToldMore
<1>5. /\ IsSequence(VmIn(p)) /\ VmIn(q) = VmIn(p) \o VmOf(l) /\ VmIn(r) = VmIn(q) \o VmOf(m)
  BY <1>3, <1>4, VmAppend
<1>6. /\ KeyIn(q, "uuid") = KeyIn(p, "uuid") /\ KeyIn(q, "string_data") = KeyIn(p, "string_data")
  <2>1. l.key # "uuid" /\ l.key # "string_data"
    BY <1>1
  <2> QED  BY <1>3, <2>1, KeySame
<1>7. /\ KeyIn(r, "uuid") = KeyIn(q, "uuid") /\ KeyIn(r, "string_data") = KeyIn(q, "string_data")
  <2>1. m.key # "uuid" /\ m.key # "string_data"
    BY <1>1
  <2> QED  BY <1>4, <2>1, KeySame
<1>8. /\ NumsUpto(b, k) = NumsUpto(b, k - 1) \o SegNums(b, k)
      /\ LinesUpto(b, k) = LinesUpto(b, k - 1) \o LinesOf(b, k)
      /\ UuidsUpto(b, k) = UuidsUpto(b, k - 1)
  BY <1>0, NumsNext, LinesNext, UuidsNext
<1> HIDE DEF q, r, NumbersIn, VmIn, KeyIn, NumsUpto, LinesUpto, UuidsUpto
<1>9. NumbersIn(r) = NumbersIn(p) \o SegNums(b, k)
  <2>1. IsSequence(NumbersIn(p))
    BY <1>3 DEF IsSequence
  <2>2. (NumbersIn(p) \o <<b.items[k].vmaddr>>) \o <<b.items[k].vmsize>>
          = NumbersIn(p) \o <<b.items[k].vmaddr, b.items[k].vmsize>>
    BY SMTT(30), <2>1, TwoMore
  <2> QED  BY <1>1, <1>2, <1>3, <1>4, <2>2
<1>10. VmIn(r) = VmIn(p) \o LinesOf(b, k)
  <2>1. (VmIn(p) \o <<l>>) \o <<m>> = VmIn(p) \o <<l, m>>
    BY ZenonT(60), <1>5, TwoMore
  <2> QED  BY <1>1, <1>2, <1>5, <2>1
<1>11. Exactly(b, r, k)
  BY <1>6, <1>7, <1>8, <1>9, <1>10 DEF Exactly
<1> QED  BY <1>1, <1>11 DEF q, r, l, m

-----------------------------------------------------------------------------
(* What the reader prints. *)

(* The commands whose lines have been printed. *)
Before ==
  IF dpc \in {"uuid", "segment", "unknown", "symtab", "dysymtab"} THEN command.number - 1 ELSE command.number

(* The inductive invariant about what macho-dump prints: the segments and   *)
(* uuids so far, each of them once, in their order.                         *)
Tally ==
  /\ Told(binary, printed)
  /\ dpc # "header" /\ strings # Dump!NoTable => KeyIn(printed, "string_data") # {}
  /\ SegmentsTold(binary, printed)
  /\ dpc \in Functions => Exactly(binary, printed, Before)

(* A step that prints nothing. *)
LEMMA TallyQuiet ==
  ASSUME Tally, dpc # "header", binary' = binary, printed' = printed, strings' = strings \/ strings' = Dump!NoTable,
         dpc' \in Functions => Exactly(binary, printed, Before')
  PROVE  Tally'
<1>1. Told(binary, printed)' /\ SegmentsTold(binary, printed)'
  BY DEF Tally, Told, SegmentsTold, Printable, SymbolNamesOf, Marked, KeyIn, BeforeOthers, SegmentItems,
         NumbersIn, NumsUpto, SegNums
<1>2. (dpc # "header" /\ strings # Dump!NoTable => KeyIn(printed, "string_data") # {})'
  BY DEF Tally, KeyIn, Dump!NoTable
<1>3. (dpc \in Functions => Exactly(binary, printed, Before))'
  BY DEF Exactly
<1> QED  BY <1>1, <1>2, <1>3 DEF Tally

(* Joining no line, one line and two lines. *)
LEMMA Appending ==
  ASSUME NEW p, IsSequence(p), NEW x, NEW y
  PROVE  /\ p \o <<>> = p /\ p \o <<x>> = Append(p, x)
         /\ p \o <<x, y>> = Append(Append(p, x), y)
<1>1. PICK S : p \in Seq(S)
  BY DEF IsSequence
<1> DEFINE T == S \cup {x, y}
<1>2. p \in Seq(T) /\ x \in T /\ y \in T
  <2>1. S \subseteq T /\ x \in T /\ y \in T
    OBVIOUS
  <2> HIDE DEF T
  <2> QED  BY <1>1, <2>1, SeqMonotonic
<1> HIDE DEF T
<1>3. \A q \in Seq(T) : \A z \in T : q \o <<z>> = Append(q, z) /\ Append(q, z) \in Seq(T)
  <2> TAKE q \in Seq(T)
  <2> TAKE z \in T
  <2>1. <<z>> \in Seq(T) /\ Len(<<z>>) = 1 /\ <<z>>[1] = z
    OBVIOUS
  <2>2. q \o <<z>> \in Seq(T) /\ Append(q, z) \in Seq(T) /\ Len(q) \in Nat
    BY <2>1
  <2>3. Len(q \o <<z>>) = Len(Append(q, z)) /\ Len(Append(q, z)) = Len(q) + 1
    BY <2>1, <2>2
  <2>4. \A i \in 1 .. Len(q \o <<z>>) : (q \o <<z>>)[i] = Append(q, z)[i]
    BY <2>1, <2>2, <2>3
  <2> QED  BY <2>2, <2>3, <2>4, SeqEqual
<1>4. p \o <<>> = p
  BY <1>2, ConcatEmptySeq
<1>5. (p \o <<x>>) \o <<y>> = p \o <<x, y>>
  BY TwoMore
<1> QED  BY <1>2, <1>3, <1>4, <1>5

(* Joining one piece and two pieces. *)
LEMMA FlattenPieces ==
  ASSUME NEW S, NEW f, f[1] \in Seq(S)
  PROVE  /\ FlattenSeq([k \in 1 .. 1 |-> f[k]]) = f[1]
         /\ f[2] \in Seq(S) => FlattenSeq([k \in 1 .. 2 |-> f[k]]) = f[1] \o f[2]
<1>1. Concat(f, 1) = f[1]
  BY ConcatOne
<1>2. ASSUME f[2] \in Seq(S) PROVE Concat(f, 2) = f[1] \o f[2]
  <2>1. \A k \in 1 .. 1 + 1 : f[k] \in Seq(S)
    BY <1>2
  <2>2. \A n : n = 1 + 1 => Concat(f, n) = Concat(f, 1) \o f[n]
    BY <2>1, ConcatNext
  <2>3. 2 = 1 + 1
    OBVIOUS
  <2>4. Concat(f, 2) = Concat(f, 1) \o f[2]
    BY <2>2, <2>3
  <2> QED  BY <1>1, <2>4
<1> QED  BY <1>1, <1>2 DEF Concat

(* A member that can be read is printed. *)
PieceOf(list, name) ==
  IF name \in Dump!ReadableNames(list) THEN <<Dump!Line(name, Dump!Value(list, name))>> ELSE <<>>

(* print() of one member. *)
LEMMA PrintsOne ==
  ASSUME NEW list, NEW name, Dump!Prints(list, <<name>>)
  PROVE  printed' = printed \o PieceOf(list, name)
<1> DEFINE names == <<name>>
           f == [k \in 1 .. 1 |-> PieceOf(list, names[k])]
           S == {Dump!Line(name, Dump!Value(list, name))}
<1>1. DOMAIN names = 1 .. 1 /\ names[1] = name
  OBVIOUS
<1>2. printed' = printed \o FlattenSeq([k \in 1 .. 1 |-> PieceOf(list, names[k])])
  BY <1>1, SameFlatten DEF Dump!Prints, PieceOf
<1>3. f[1] = PieceOf(list, name)
  BY <1>1
<1>4. PieceOf(list, name) \in Seq(S)
  <2>1. \A z : <<z>> \in Seq({z}) /\ <<>> \in Seq({z})
    OBVIOUS
  <2> QED  BY <2>1 DEF PieceOf
<1>5. [k \in 1 .. 1 |-> f[k]] = [k \in 1 .. 1 |-> PieceOf(list, names[k])]
  OBVIOUS
<1> HIDE DEF f, S, names
<1>6. FlattenSeq([k \in 1 .. 1 |-> f[k]]) = f[1]
  BY <1>3, <1>4, FlattenPieces
<1> QED  BY <1>2, <1>3, <1>5, <1>6

(* print() of two members. *)
LEMMA PrintsTwo ==
  ASSUME NEW list, NEW name, NEW other, Dump!Prints(list, <<name, other>>)
  PROVE  printed' = printed \o (PieceOf(list, name) \o PieceOf(list, other))
<1> DEFINE names == <<name, other>>
           f == [k \in 1 .. 2 |-> PieceOf(list, names[k])]
           S == {Dump!Line(name, Dump!Value(list, name)), Dump!Line(other, Dump!Value(list, other))}
<1>1. DOMAIN names = 1 .. 2 /\ names[1] = name /\ names[2] = other
  OBVIOUS
<1>2. printed' = printed \o FlattenSeq([k \in 1 .. 2 |-> PieceOf(list, names[k])])
  BY <1>1, SameFlatten DEF Dump!Prints, PieceOf
<1>3. f[1] = PieceOf(list, name) /\ f[2] = PieceOf(list, other)
  BY <1>1
<1>4. PieceOf(list, name) \in Seq(S) /\ PieceOf(list, other) \in Seq(S)
  <2>1. \A T : \A z \in T : <<z>> \in Seq(T) /\ <<>> \in Seq(T)
    OBVIOUS
  <2>2. \A n \in {name, other} : Dump!Line(n, Dump!Value(list, n)) \in S
    OBVIOUS
  <2> HIDE DEF S
  <2>3. \A n \in {name, other} : PieceOf(list, n) \in Seq(S)
    BY <2>1, <2>2 DEF PieceOf
  <2> QED  BY <2>3
<1>5. [k \in 1 .. 2 |-> f[k]] = [k \in 1 .. 2 |-> PieceOf(list, names[k])]
  OBVIOUS
<1> HIDE DEF f, S, names
<1>6. FlattenSeq([k \in 1 .. 2 |-> f[k]]) = f[1] \o f[2]
  BY <1>3, <1>4, FlattenPieces
<1> QED  BY <1>2, <1>3, <1>5, <1>6

(* Where the whole structure is available, each member is. *)
LEMMA AllReadable ==
  ASSUME NEW list, Structure(list), cursor \in Nat, Dump!Length \in Nat,
         Dump!Available(cursor, Dump!SizeOf(list)), NEW name \in MemberNames(list)
  PROVE  name \in Dump!ReadableNames(list)
<1>1. PICK k \in DOMAIN list : list[k].name = name
  BY DEF MemberNames
<1>2. DOMAIN list = 1 .. Len(list) /\ Len(list) \in Nat
  BY DEF Structure
<1>3. OffsetOf(list, k + 1) \in Nat /\ OffsetOf(list, Len(list) + 1) \in Nat
      /\ OffsetOf(list, k + 1) <= OffsetOf(list, Len(list) + 1)
  <2>1. k + 1 \in 1 .. Len(list) + 1 /\ Len(list) + 1 \in 1 .. Len(list) + 1 /\ k \in 1 .. Len(list)
    BY <1>1, <1>2
  <2>2. \A j \in 1 .. Len(list) : list[j].width \in Nat
    BY <1>2 DEF Structure
  <2>3. CASE k = Len(list)
    BY <2>1, <2>3, OffsetsIncrease
  <2>4. CASE k # Len(list)
    <3>1. k + 1 \in 1 .. Len(list) /\ k + 1 < Len(list) + 1
      BY <1>2, <2>1, <2>4
    <3>2. OffsetOf(list, k + 1) + list[k + 1].width <= OffsetOf(list, Len(list) + 1)
      BY <2>1, <3>1, OffsetsIncrease
    <3>3. OffsetOf(list, k + 1) \in Nat /\ OffsetOf(list, Len(list) + 1) \in Nat /\ list[k + 1].width \in Nat
      BY <2>1, <2>2, <3>1, OffsetsIncrease
    <3> QED  BY <3>2, <3>3
  <2> QED  BY <2>3, <2>4
<1>4. Dump!SizeOf(list) = OffsetOf(list, Len(list) + 1)
  BY SameReading DEF SizeOf
<1>5. Dump!OffsetOf(list, k + 1) = OffsetOf(list, k + 1)
  BY SameOffset
<1>6. Dump!Available(cursor, Dump!OffsetOf(list, k + 1))
  BY <1>3, <1>4, <1>5 DEF Dump!Available
<1> QED  BY <1>1, <1>6 DEF Dump!ReadableNames, Dump!Readable

-----------------------------------------------------------------------------

(* A step that prints one line. *)
LEMMA TallyLine ==
  ASSUME Tally, dpc # "header", binary \in Binaries, NEW l, Printable(binary, l), binary' = binary,
         printed' = Append(printed, l),
         strings' = strings \/ l.key = "string_data",
         SegmentsTold(binary, Append(printed, l)),
         dpc' \in Functions => Exactly(binary, Append(printed, l), Before')
  PROVE  Tally'
<1>1. Told(binary, Append(printed, l)) /\ IsSequence(printed)
  BY ToldMore DEF Tally
<1>2. KeyIn(printed, "string_data") # {} \/ l.key = "string_data" => KeyIn(Append(printed, l), "string_data") # {}
  <2>1. /\ KeyIn(printed, "string_data") \subseteq KeyIn(Append(printed, l), "string_data")
        /\ l.key = "string_data" => KeyIn(Append(printed, l), "string_data") # {}
    BY <1>1, KeySame
  <2> HIDE DEF KeyIn
  <2> QED  BY <2>1
<1>3. strings' # Dump!NoTable => KeyIn(Append(printed, l), "string_data") # {}
  BY <1>2 DEF Tally
<1>4. Dump!NoTable' = Dump!NoTable
  BY DEF Dump!NoTable
<1> QED  BY <1>1, <1>3, <1>4 DEF Tally

(* Nothing printed is right before the first command. *)
LEMMA ToldNothing ==
  ASSUME NEW b
  PROVE  Told(b, <<>>) /\ SegmentsTold(b, <<>>) /\ Exactly(b, <<>>, 0)
<1>1. IsSequence(<<>>) /\ NumbersIn(<<>>) = <<>> /\ VmIn(<<>>) = <<>> /\ \A key : KeyIn(<<>>, key) = {}
  BY NothingFound
<1>2. \A c : NumsUpto(c, 0) = <<>> /\ LinesUpto(c, 0) = <<>> /\ UuidsUpto(c, 0) = {}
  BY NothingUpto
<1>3. Told(b, <<>>)
  BY <1>1 DEF Told
<1>4. SegmentsTold(b, <<>>)
  BY <1>1, Zenon DEF SegmentsTold, Marked
<1>5. Exactly(b, <<>>, 0)
  <2>1. IsFiniteSet({})
    BY FS_EmptySet
  <2> HIDE DEF NumbersIn, VmIn, KeyIn, NumsUpto, LinesUpto, UuidsUpto
  <2> QED  BY <1>1, <1>2, <2>1, Zenon DEF Exactly
<1> QED  BY <1>3, <1>4, <1>5 

(* dumpmacho prints nothing that counts, and is before the first command. *)
LEMMA TallyHeader ==
  ASSUME Track, Tally, Dump!DumpHeader
  PROVE  Tally'
<1>1. /\ binary' \in Binaries' /\ printed' = <<>> /\ strings' = Dump!NoTable /\ command' = Dump!NoCommand
      /\ dpc' \in {"command", "raised"}
  BY DEF Dump!DumpHeader, Track, Started, Dump!Go
<1>2. dpc' \in Functions => Before' = 0
  BY <1>1 DEF Before, Dump!NoCommand, Functions
<1>3. strings' = Dump!NoTable'
  BY <1>1 DEF Dump!NoTable
<1>4. Told(binary', <<>>) /\ SegmentsTold(binary', <<>>) /\ Exactly(binary', <<>>, 0)
  BY ToldNothing
<1> QED  BY <1>1, <1>2, <1>3, <1>4 DEF Tally

(* dumpLoadCommand goes on to the next command. *)
LEMMA TallyCommand ==
  ASSUME Track, Tally, Dump!DumpLoadCommand
  PROVE  Tally'
<1>1. /\ dpc = "command" /\ command.number \in Nat /\ dpc \in Functions
  <2>1. dpc = "command" /\ dpc \in Functions
    BY DEF Dump!DumpLoadCommand, Functions
  <2>2. Len(binary.items) \in Nat
    BY PreparationAssumption, ItemsAre DEF Track
  <2> QED  BY <2>1, <2>2 DEF Track, Reading
<1>2. /\ binary' = binary /\ printed' = printed /\ strings' = strings /\ command'.number = command.number + 1
      /\ dpc' \in {"uuid", "segment", "unknown", "symtab", "dysymtab", "raised"}
  BY DEF Dump!DumpLoadCommand, Dump!Go, Dump!Function
<1>3. dpc' \in Functions => Before' = Before
  BY <1>1, <1>2 DEF Before, Functions
<1>4. Exactly(binary, printed, Before)
  BY <1>1 DEF Tally
<1> QED  BY <1>1, <1>2, <1>3, <1>4, TallyQuiet

(* A command that is skipped has nothing to report. *)
LEMMA TallySkip ==
  ASSUME Track, Tally, Dump!SkipCommand
  PROVE  Tally'
<1>0. PICK k : k = command.number
  OBVIOUS
<1>1. dpc = "unknown" /\ dpc \in Functions /\ (Entered(k) \/ Lost)
  BY <1>0 DEF Dump!SkipCommand, Track, Functions, Reading, Position
<1>2. /\ binary' = binary /\ printed' = printed /\ strings' = strings /\ command' = command
      /\ dpc' \in {"close", "raised"} /\ (command.cmdsize = 0 => dpc' = "raised")
  BY DEF Dump!SkipCommand
<1>3. dpc' \in Functions => Exactly(binary, printed, Before')
  <2> SUFFICES ASSUME dpc' \in Functions PROVE Exactly(binary, printed, Before')
    OBVIOUS
  <2>1. dpc' = "close" /\ Entered(k)
    BY <1>1, <1>2 DEF Functions, Lost
  <2>2. InCommand(k)
    BY <2>1 DEF Entered
  <2>3. WellFormed(binary) /\ k \in 1 .. Len(binary.items) /\ binary.items[k] \in Item
    BY <1>0, <1>1, <2>2, Inside
  <2>4. binary.items[k].kind = "other"
    BY <1>1, <2>1, <2>3, ItemKinds DEF Entered, FunctionOfKind, Kind
  <2>5. Exactly(binary, printed, k - 1)
    BY <1>0, <1>1 DEF Tally, Before
  <2>6. Exactly(binary, printed, k)
    BY <2>3, <2>4, <2>5, ExactlyQuiet
  <2>7. Before' = k
    BY <1>0, <1>2, <2>1 DEF Before
  <2> QED  BY <2>6, <2>7
<1> QED  BY <1>1, <1>2, <1>3, TallyQuiet

(* dumpDysymtabCommand prints nothing that counts. *)
LEMMA TallyDysymtab ==
  ASSUME Track, Tally, Dump!DumpDysymtab
  PROVE  Tally'
<1>0. PICK k : k = command.number
  OBVIOUS
<1>1. dpc = "dysymtab" /\ dpc \in Functions /\ Entered(k) /\ InCommand(k) /\ Kind(k) = "dysymtab"
  BY <1>0, ItemKinds, Inside DEF Dump!DumpDysymtab, Track, Functions, Reading, Position, Entered, FunctionOfKind
<1>2. /\ binary' = binary /\ printed' = printed /\ strings' = strings /\ command' = command
      /\ dpc' \in {"close", "raised"}
  BY DEF Dump!DumpDysymtab
<1>3. WellFormed(binary) /\ k \in 1 .. Len(binary.items)
  BY <1>0, <1>1, Inside
<1>4. Exactly(binary, printed, k - 1)
  BY <1>0, <1>1 DEF Tally, Before
<1>5. Exactly(binary, printed, k)
  BY <1>1, <1>3, <1>4, ExactlyQuiet DEF Kind
<1>6. dpc' \in Functions => Before' = k
  BY <1>0, <1>2 DEF Before, Functions
<1> QED  BY <1>1, <1>2, <1>5, <1>6, TallyQuiet

(* The loops and the ends of functions print nothing. *)
LEMMA TallyStays ==
  ASSUME Tally, dpc \in {"section", "symbol", "close", "command"},
         binary' = binary, printed' = printed, strings' = strings, command' = command,
         dpc' \in {"section", "symbol", "close", "command", "done", "raised"}
  PROVE  Tally'
<1>1. Before' = Before /\ Exactly(binary, printed, Before) /\ dpc # "header"
  BY DEF Before, Tally, Functions
<1> QED  BY <1>1, TallyQuiet

(* These steps print nothing. *)
LEMMA TallyQuietSteps ==
  ASSUME Track, Tally, Dump!DumpSection \/ Dump!EndLoop \/ Dump!CloseCommand \/ Dump!CloseFile
  PROVE  Tally'
<1>1. CASE Dump!DumpSection
  BY <1>1, TallyStays DEF Dump!DumpSection
<1>2. CASE Dump!EndLoop
  BY <1>2, TallyStays DEF Dump!EndLoop
<1>3. CASE Dump!CloseCommand
  BY <1>3, TallyStays DEF Dump!CloseCommand
<1>4. CASE Dump!CloseFile
  BY <1>4, TallyStays DEF Dump!CloseFile
<1> QED  BY <1>1, <1>2, <1>3, <1>4

(* dumpUuid prints the uuid, and the command is done. *)
LEMMA TallyUuid ==
  ASSUME Track, Tally, Dump!DumpUuid
  PROVE  Tally'
<1> DEFINE b == binary
           list == Dump!Name16("uuid")
           l == Dump!Line("uuid", Dump!Value(list, "uuid"))
<1>0. PICK k : k = command.number
  OBVIOUS
<1>1. dpc = "uuid" /\ dpc \in Functions /\ Entered(k) /\ InCommand(k) /\ Kind(k) = "uuid"
  BY <1>0, ItemKinds, Inside DEF Dump!DumpUuid, Track, Functions, Reading, Position, Entered, FunctionOfKind
<1>2. /\ binary \in Binaries /\ WellFormed(b) /\ k \in 1 .. Len(b.items) /\ At(k) \in Nat /\ Dump!Length \in Nat
  BY <1>0, <1>1, Inside
<1>3. /\ binary' = binary /\ strings' = strings /\ command' = command
      /\ dpc' = (IF Dump!Available(cursor, Dump!SizeOf(list)) THEN "close" ELSE "raised")
      /\ printed' = printed \o PieceOf(list, "uuid")
  <2>1. Dump!Prints(list, <<"uuid">>)
    BY DEF Dump!DumpUuid
  <2>2. printed' = printed \o PieceOf(list, "uuid")
    BY <2>1, PrintsOne
  <2> QED  BY <2>2 DEF Dump!DumpUuid, Dump!Go
<1>4. Told(b, printed) /\ IsSequence(printed) /\ SegmentsTold(b, printed) /\ Exactly(b, printed, k - 1)
  BY <1>0, <1>1 DEF Tally, Before, Told
<1>5. Structure(list) /\ "uuid" \in MemberNames(list) /\ cursor \in Nat
  <2>1. Declares(list, 16, {"uuid"})
    BY SameWords, UuidListIs DEF Splits
  <2> QED  BY <1>1, <1>2, <2>1 DEF Declares, Entered
<1>6. Printable(b, l) /\ l.key = "uuid"
  BY DEF Printable, Dump!Line
<1>7. printed' = printed \/ printed' = Append(printed, l)
  BY <1>3, <1>4, Appending DEF PieceOf
<1>8. dpc' = "close" => printed' = Append(printed, l)
  <2> SUFFICES ASSUME dpc' = "close" PROVE printed' = Append(printed, l)
    OBVIOUS
  <2>1. "uuid" \in Dump!ReadableNames(list)
    BY <1>2, <1>3, <1>5, AllReadable
  <2> QED  BY <1>3, <1>4, <2>1, Appending DEF PieceOf
<1>9. dpc' \in Functions => dpc' = "close" /\ Before' = k
  BY <1>0, <1>3 DEF Functions, Before
<1> HIDE DEF l
<1>10. CASE printed' = Append(printed, l)
  <2>1. SegmentsTold(b, Append(printed, l))
    BY <1>1, <1>2, <1>4, <1>6, AllSegments DEF Kind
  <2>2. Exactly(b, Append(printed, l), k)
    BY <1>1, <1>2, <1>4, <1>6, ExactlyUuid DEF Kind
  <2> QED  BY <1>1, <1>2, <1>3, <1>6, <1>9, <1>10, <2>1, <2>2, TallyLine
<1>11. CASE printed' = printed /\ dpc' # "close"
  BY <1>1, <1>3, <1>9, <1>11, TallyQuiet
<1> QED  BY <1>7, <1>8, <1>10, <1>11

(* dumpSymtabCommand prints the string table behind everything before it. *)
LEMMA TallySymtab ==
  ASSUME Track, Tally, Dump!DumpSymtab
  PROVE  Tally'
<1> DEFINE b == binary
           list == Dump!SymtabList
           stroff == Dump!Value(list, "stroff")
           table == IF stroff \in DOMAIN Dump!cells THEN Dump!cells[stroff].value ELSE Dump!NoTable
           l == Dump!Line("string_data", table)
           names(k) == b.items[k].names
<1>0. PICK k : k = command.number
  OBVIOUS
<1>1. dpc = "symtab" /\ dpc \in Functions /\ Entered(k) /\ InCommand(k) /\ Kind(k) = "symtab"
  BY <1>0, ItemKinds, Inside DEF Dump!DumpSymtab, Track, Functions, Reading, Position, Entered, FunctionOfKind
<1>2. /\ binary \in Binaries /\ WellFormed(b) /\ k \in 1 .. Len(b.items)
  BY <1>0, <1>1, Inside
<1>3. /\ binary' = binary /\ command' = command
      /\ dpc' \in {"symbol", "raised"}
      /\ (printed' = printed /\ strings' = strings /\ dpc' = "raised") \/ printed' = Append(printed, l)
  BY DEF Dump!DumpSymtab
<1>4. Told(b, printed) /\ SegmentsTold(b, printed) /\ Exactly(b, printed, k - 1)
  BY <1>0, <1>1 DEF Tally, Before, Told
<1>5. table = StringTable(names(k))
  <2>1. cursor = At(k) + 8 /\ b.items[k].kind # "other" /\ list = CommandTail(b, k) /\ "stroff" \in TailNames(b, k)
    BY <1>1 DEF Entered, Kind, CommandTail, TailNames
  <2>2. stroff = CommandValues(b, k)["stroff"]
    BY <1>2, <2>1, TailValues DEF At
  <2>3. stroff = StringsAt(b, k)
    BY <1>1, <1>2, <2>2, CommandValuesAre DEF Kind
  <2> QED  BY <1>1, <1>2, <2>3, StringsArePlaced, CellsAre DEF Kind
<1> HIDE DEF table
<1>6. Printable(b, l) /\ l.key = "string_data"
  BY <1>1, <1>2, <1>5 DEF Printable, Dump!Line, Kind
<1> HIDE DEF l
<1>7. dpc' \in Functions => Before' = k
  BY <1>0, <1>3 DEF Functions, Before
<1>8. CASE printed' = Append(printed, l)
  <2>1. SegmentsTold(b, Append(printed, l))
    BY <1>1, <1>2, <1>4, <1>6, AllSegments DEF Kind
  <2>2. Exactly(b, printed, k)
    BY <1>1, <1>2, <1>4, ExactlyQuiet DEF Kind
  <2>3. Exactly(b, Append(printed, l), k)
    BY <1>2, <1>4, <1>6, <2>2, ExactlySymbol
  <2> QED  BY <1>1, <1>2, <1>3, <1>6, <1>7, <1>8, <2>1, <2>3, TallyLine
<1>9. CASE printed' = printed /\ strings' = strings /\ dpc' = "raised"
  BY <1>1, <1>3, <1>9, TallyQuiet DEF Functions
<1> QED  BY <1>3, <1>8, <1>9

(* Behind its string table, a symbol prints its name. *)
LEMMA TallyNlist ==
  ASSUME Track, Tally, Dump!DumpNlist
  PROVE  Tally'
<1> DEFINE b == binary
           list == Dump!NlistList
           strx == Dump!Value(list, "n_strx")
           found == Dump!Available(cursor, Dump!SizeOf(list)) /\ strx \in DOMAIN strings
           l == Dump!Line("string", strings[strx])
           m(k) == Len(b.items[k].names)
<1>0. PICK k : k = command.number
  OBVIOUS
<1>1. dpc = "symbol" /\ dpc \in Functions /\ InSymbols(k) /\ InCommand(k) /\ Kind(k) = "symtab"
  BY <1>0 DEF Dump!DumpNlist, Track, Functions, Reading, Position, InSymbols
<1>2. /\ binary \in Binaries /\ WellFormed(b) /\ k \in 1 .. Len(b.items)
      /\ b.items[k] \in Item /\ b.wide \in BOOLEAN /\ is64 = b.wide
  BY <1>0, <1>1, Inside
<1>3. /\ binary' = binary /\ strings' = strings /\ command' = command /\ left > 0
      /\ dpc' = (IF found THEN "symbol" ELSE "raised")
      /\ printed' = (IF found THEN Append(printed, l) ELSE printed)
  BY <1>1 DEF Dump!DumpNlist
<1>4. Told(b, printed) /\ IsSequence(printed) /\ SegmentsTold(b, printed) /\ Exactly(b, printed, k)
      /\ (strings # Dump!NoTable => KeyIn(printed, "string_data") # {})
  BY <1>0, <1>1 DEF Tally, Before, Told
<1>5. PICK s : s = (m(k) - left) + 1
  OBVIOUS
<1>6. m(k) \in Nat /\ s \in 1 .. m(k) /\ cursor = SymbolAt(b, k, s)
  <2>1. m(k) \in Nat /\ left \in 0 .. m(k)
    BY <1>1, <1>2, SymbolExtents DEF Kind, InSymbols
  <2> QED  BY SMTT(30), <1>1, <1>3, <1>5, <2>1 DEF InSymbols
<1>7. strx = IndexOfName(s) + Wrong(b, "n_strx") * m(k)
  <2>0. list = NlistOfWidth(b.wide)
    BY <1>2, NlistListIs
  <2>1. "n_strx" \in MemberNames(list)
    BY <1>2, <2>0, SymbolValuesAre
  <2>2. Placed(Cellsof(b), cursor, list, SymbolValues(b, k, s))
    BY <1>1, <1>2, <1>6, <2>0, SymbolIsPlaced DEF Kind
  <2>3. strx = SymbolValues(b, k, s)["n_strx"]
    BY <1>2, <2>1, <2>2, ValueIs
  <2> QED  BY <1>2, <2>3, SymbolValuesAre
<1> HIDE DEF list, strx
<1>8. strx # 0
  <2>1. Wrong(b, "n_strx") \in Nat
    BY DEF Wrong
  <2>2. Wrong(b, "n_strx") * m(k) \in Nat
    <3>1. \A x, y \in Nat : x * y \in Nat
      OBVIOUS
    <3> HIDE DEF m
    <3> QED  BY <1>6, <2>1, <3>1
  <2>3. IndexOfName(s) \in Nat /\ IndexOfName(s) >= 1
    BY <1>6 DEF IndexOfName
  <2> QED  BY <1>7, <2>2, <2>3
<1>9. strings = StringTable(b.items[k].names) /\ b.items[k].names \in Seq(STRING)
      /\ Range(b.items[k].names) \subseteq SymbolNamesOf(b)
  BY <1>1, <1>2, NamesInTable DEF InSymbols, Kind
<1>10. strings # Dump!NoTable
  <2>1. 0 \in DOMAIN strings
    BY <1>9, StringsAre
  <2> QED  BY <2>1 DEF Dump!NoTable
<1>11. CASE found
  <2>1. strings[strx] \in Range(b.items[k].names)
    BY <1>8, <1>9, <1>11, StringsAre
  <2>2. Printable(b, l) /\ l.key = "string"
    BY <1>9, <2>1 DEF Printable, Dump!Line
  <2> HIDE DEF l
  <2>3. SegmentsTold(b, Append(printed, l))
    BY <1>2, <1>4, <2>2, NotMarked, SegmentsTellMore
  <2>4. Exactly(b, Append(printed, l), k)
    BY <1>2, <1>4, <1>10, <2>2, ExactlySymbol
  <2>5. Before' = k
    BY <1>0, <1>3, <1>11 DEF Before
  <2> QED  BY <1>1, <1>2, <1>3, <1>11, <2>2, <2>3, <2>4, <2>5, TallyLine
<1>12. CASE ~found
  BY <1>1, <1>3, <1>12, TallyQuiet DEF Functions
<1> QED  BY <1>11, <1>12

(* A line with an address of a segment. *)
LEMMA AddressLine ==
  ASSUME NEW b \in Binaries, NEW p, Told(b, p), SegmentsTold(b, p),
         NEW l, Printable(b, l), l.key \in {"vmaddr", "vmsize"}
  PROVE  Told(b, Append(p, l)) /\ SegmentsTold(b, Append(p, l))
<1>1. IsSequence(p)
  BY DEF Told
<1>2. l.key \notin {"uuid", "string_data"}
  OBVIOUS
<1>3. Marked(Append(p, l)) => Marked(p)
  BY <1>1, <1>2, NotMarked
<1> QED  BY <1>3, SegmentsTellMore, ToldMore

(* dumpSegmentLoadCommand prints the address and the size, and the command  *)
(* is done.                                                                 *)
LEMMA TallySegment ==
  ASSUME Track, Tally, Dump!DumpSegment
  PROVE  Tally'
<1> DEFINE b == binary
           list == Dump!SegmentList(Dump!Is64Segment)
           l == Dump!Line("vmaddr", Dump!Value(list, "vmaddr"))
           m == Dump!Line("vmsize", Dump!Value(list, "vmsize"))
           p == printed
<1>0. PICK k : k = command.number
  OBVIOUS
<1>1. dpc = "segment" /\ dpc \in Functions /\ Entered(k) /\ InCommand(k) /\ Kind(k) = "segment"
  BY <1>0, ItemKinds, Inside DEF Dump!DumpSegment, Track, Functions, Reading, Position, Entered, FunctionOfKind
<1>2. /\ binary \in Binaries /\ WellFormed(b) /\ k \in 1 .. Len(b.items) /\ At(k) \in Nat /\ Dump!Length \in Nat
      /\ b.items[k] \in Item /\ b.wide \in BOOLEAN
  BY <1>0, <1>1, Inside
<1>3. /\ binary' = binary /\ strings' = strings /\ command' = command
      /\ dpc' = (IF Dump!Available(cursor, Dump!SizeOf(list)) THEN "section" ELSE "raised")
      /\ printed' = p \o (PieceOf(list, "vmaddr") \o PieceOf(list, "vmsize"))
  <2>1. Dump!Prints(list, <<"vmaddr", "vmsize">>)
    BY DEF Dump!DumpSegment
  <2>2. printed' = p \o (PieceOf(list, "vmaddr") \o PieceOf(list, "vmsize"))
    BY <2>1, PrintsTwo
  <2> QED  BY <2>2 DEF Dump!DumpSegment, Dump!Go
<1>4. Told(b, p) /\ IsSequence(p) /\ SegmentsTold(b, p) /\ Exactly(b, p, k - 1)
  BY <1>0, <1>1 DEF Tally, Before, Told
<1>5. list = CommandTail(b, k) /\ {"vmaddr", "vmsize"} \subseteq TailNames(b, k) /\ b.items[k].kind = "segment"
  <2>1. command.cmd = Cmd(b.wide, b.items[k])
    BY <1>1 DEF InCommand, CommandHead
  <2>2. Dump!Is64Segment <=> b.wide
    BY <1>1, <1>2, <2>1, FunctionOfCommand DEF Dump!Is64Segment, Kind
  <2>3. Dump!Is64Segment = b.wide
    BY <1>2, <2>2 DEF Dump!Is64Segment
  <2> QED  BY <1>1, <2>3 DEF CommandTail, TailNames, Kind
<1> HIDE DEF list
<1>6. cursor = At(k) + 8 /\ cursor \in Nat
  BY <1>1, <1>2 DEF Entered
<1>7. Structure(list) /\ {"vmaddr", "vmsize"} \subseteq MemberNames(list)
  BY <1>2, <1>5, TailIsPlaced
<1>8. l = Dump!Line("vmaddr", b.items[k].vmaddr) /\ m = Dump!Line("vmsize", b.items[k].vmsize)
  <2>1. /\ Dump!Value(list, "vmaddr") = CommandValues(b, k)["vmaddr"]
        /\ Dump!Value(list, "vmsize") = CommandValues(b, k)["vmsize"]
    BY <1>2, <1>5, <1>6, TailValues DEF At
  <2> QED  BY <1>2, <1>5, <2>1, CommandValuesAre
<1>9. Printable(b, l) /\ Printable(b, m) /\ Exactly(b, Append(Append(p, l), m), k)
      /\ l.key = "vmaddr" /\ m.key = "vmsize"
  <2>1. l.key = "vmaddr" /\ m.key = "vmsize"
    BY DEF Dump!Line
  <2> QED  BY <1>2, <1>4, <1>5, <1>8, <2>1, ExactlySegment
<1>10. PieceOf(list, "vmaddr") \in {<<>>, <<l>>} /\ PieceOf(list, "vmsize") \in {<<>>, <<m>>}
  BY DEF PieceOf
<1>11. dpc' = "section" => PieceOf(list, "vmaddr") = <<l>> /\ PieceOf(list, "vmsize") = <<m>>
  <2> SUFFICES ASSUME dpc' = "section" PROVE PieceOf(list, "vmaddr") = <<l>> /\ PieceOf(list, "vmsize") = <<m>>
    OBVIOUS
  <2>1. Dump!Available(cursor, Dump!SizeOf(list))
    BY <1>3
  <2>2. "vmaddr" \in Dump!ReadableNames(list) /\ "vmsize" \in Dump!ReadableNames(list)
    BY <1>2, <1>6, <1>7, <2>1, AllReadable
  <2> QED  BY <2>2 DEF PieceOf
<1> HIDE DEF l, m
<1>12. <<l>> \o <<m>> = <<l, m>> /\ <<>> \o <<m>> = <<m>> /\ <<l>> \o <<>> = <<l>> /\ <<>> \o <<>> = <<>>
  <2>1. \A z : <<z>> \in Seq({z}) /\ <<>> \in Seq({z})
    OBVIOUS
  <2>2. \A z : <<>> \o <<z>> = <<z>> /\ <<z>> \o <<>> = <<z>>
    BY <2>1, ConcatEmptySeq
  <2>3. <<>> \o <<>> = <<>>
    BY <2>1, ConcatEmptySeq
  <2>4. IsSequence(<<>>)
    BY <2>1 DEF IsSequence
  <2>5. (<<>> \o <<l>>) \o <<m>> = <<>> \o <<l, m>>
    BY <2>4, TwoMore
  <2>6. <<l, m>> \in Seq({l, m})
    OBVIOUS
  <2>7. <<>> \o <<l, m>> = <<l, m>>
    BY <2>6, ConcatEmptySeq
  <2> QED  BY <2>2, <2>3, <2>5, <2>7
<1>13. /\ p \o <<>> = p /\ p \o <<l>> = Append(p, l) /\ p \o <<m>> = Append(p, m)
       /\ p \o <<l, m>> = Append(Append(p, l), m)
  BY <1>4, Appending
<1>14. dpc' \in Functions => dpc' = "section" /\ Before' = k
  BY <1>0, <1>3 DEF Functions, Before
<1>15. /\ Told(b, Append(p, l)) /\ SegmentsTold(b, Append(p, l))
       /\ Told(b, Append(p, m)) /\ SegmentsTold(b, Append(p, m))
  BY <1>2, <1>4, <1>9, AddressLine
<1>16. /\ Told(b, Append(Append(p, l), m)) /\ SegmentsTold(b, Append(Append(p, l), m))
  BY <1>2, <1>9, <1>15, AddressLine
<1>17. printed' \in {p, Append(p, l), Append(p, m), Append(Append(p, l), m)}
  BY <1>3, <1>10, <1>12, <1>13
<1>18. dpc' = "section" => printed' = Append(Append(p, l), m)
  BY <1>3, <1>11, <1>12, <1>13
<1>19. Told(b, printed') /\ SegmentsTold(b, printed')
  BY <1>4, <1>15, <1>16, <1>17
<1>20. dpc' \in Functions => Exactly(b, printed', Before')
  BY <1>9, <1>14, <1>18
<1>21. KeyIn(p, "string_data") # {} => KeyIn(printed', "string_data") # {}
  <2>1. /\ KeyIn(p, "string_data") \subseteq KeyIn(Append(p, l), "string_data")
        /\ KeyIn(p, "string_data") \subseteq KeyIn(Append(p, m), "string_data")
    BY <1>4, KeySame
  <2>2. IsSequence(Append(p, l))
    BY <1>15 DEF Told
  <2>3. KeyIn(Append(p, l), "string_data") \subseteq KeyIn(Append(Append(p, l), m), "string_data")
    BY <2>2, KeySame
  <2> HIDE DEF KeyIn
  <2> QED  BY <1>17, <2>1, <2>3
<1>22. Dump!NoTable' = Dump!NoTable
  BY DEF Dump!NoTable
<1>23. dpc # "header"
  BY <1>1
<1> HIDE DEF KeyIn
<1> QED  BY <1>3, <1>19, <1>20, <1>21, <1>22, <1>23 DEF Tally

(* Every step of macho-dump keeps the tally. *)
LEMMA StepOfTally ==
  ASSUME Track, Tally, Dump!Read
  PROVE  Tally'
BY TallyHeader, TallyCommand, TallyUuid, TallySkip, TallySegment, TallySymtab, TallyNlist, TallyDysymtab,
   TallyQuietSteps DEF Dump!Read

(* So do the steps of the others. *)
LEMMA TallyUnchanged ==
  ASSUME Tally, UNCHANGED <<binary, dumpVars>>
  PROVE  Tally'
<1>1. /\ binary' = binary /\ printed' = printed /\ strings' = strings /\ dpc' = dpc /\ command' = command
  BY DEF dumpVars
<1>2. Before' = Before /\ Dump!NoTable' = Dump!NoTable
  BY <1>1 DEF Before, Dump!NoTable
<1> QED  BY <1>1, <1>2 DEF Tally

(* The reader is where it should be and has printed what it should have. *)
ReaderInv == MachoInv /\ Tally

(* It holds in the beginning. *)
LEMMA InitReader == Init => ReaderInv
<1> SUFFICES ASSUME Init PROVE Tally
  BY InitTrack DEF ReaderInv
<1>1. printed = <<>> /\ strings = Dump!NoTable /\ dpc = "header"
  BY DEF Init, Dump!Start
<1> QED  BY <1>1, ToldNothing DEF Tally, Functions

(* Every step keeps it. *)
LEMMA NextReader == ReaderInv /\ [Next]_vars => ReaderInv'
<1> SUFFICES ASSUME ReaderInv, [Next]_vars PROVE Tally'
  BY NextTrack DEF ReaderInv
<1>1. CASE RunMachoDump
  <2>1. Dump!Read
    BY <1>1 DEF RunMachoDump
  <2>2. Track /\ Tally
    BY DEF ReaderInv, MachoInv
  <2> QED  BY <2>1, <2>2, StepOfTally
<1>2. CASE CheckMagic \/ ExtractSymbols \/ ExtractUuid \/ GrepNumbers \/ CalculateBase \/ ParseVmbase
           \/ ParseSymbols \/ CheckUuid \/ Ended \/ UNCHANGED vars
  <2>1. UNCHANGED <<binary, dumpVars>>
    BY <1>2 DEF CheckMagic, ExtractSymbols, ExtractUuid, GrepNumbers, CalculateBase, ParseVmbase, ParseSymbols,
      CheckUuid, Ended, vars, dumpVars
  <2> QED  BY <2>1, TallyUnchanged DEF ReaderInv
<1> QED  BY <1>1, <1>2 DEF Next

(* It always holds. *)
LEMMA ReaderKept == Spec => []ReaderInv
BY InitReader, NextReader, PTL DEF Spec

-----------------------------------------------------------------------------

(* A reader that has come to its end has printed all commands. *)
LEMMA WholeIsRead ==
  ASSUME ReaderInv, dpc = "done"
  PROVE  /\ WellFormed(binary) /\ Len(binary.items) \in Nat /\ DOMAIN binary.items = 1 .. Len(binary.items)
         /\ Exactly(binary, printed, Len(binary.items))
<1>1. Track /\ Tally /\ dpc \in Functions /\ binary \in Binaries
  BY DEF ReaderInv, MachoInv, Track, Functions
<1>2. command.number = Len(binary.items)
  BY <1>1 DEF Track, Reading, Position
<1>3. Exactly(binary, printed, Len(binary.items))
  BY <1>1, <1>2 DEF Tally, Before
<1> QED  BY <1>1, <1>3, PreparationAssumption, ItemsAre

(* SegmentLines and Grep, in the terms of the invariant. *)
LEMMA LinesAreAll ==
  ASSUME DOMAIN binary.items = 1 .. Len(binary.items)
  PROVE  /\ SegmentLines = LinesUpto(binary, Len(binary.items))
         /\ Grep({"vmaddr", "vmsize"}) = VmIn(printed)
<1>1. Grep({"vmaddr", "vmsize"}) = VmIn(printed)
  BY DEF Grep, VmIn, VmOf
<1>2. [k \in 1 .. Len(binary.items) |->
         IF k \in SegmentItems(binary)
           THEN <<Dump!Line("vmaddr", binary.items[k].vmaddr), Dump!Line("vmsize", binary.items[k].vmsize)>>
           ELSE <<>>]
        = [k \in 1 .. Len(binary.items) |-> LinesOf(binary, k)]
  BY DEF SegmentItems, LinesOf
<1> QED  BY <1>1, <1>2 DEF SegmentLines, LinesUpto

(* macho-dump.py:156-180, 223-232, 260-274: whatever the commands of a      *)
(* complete binary and their order, macho-dump comes to its end, and        *)
(* reports every segment and every uuid, each of them once.                 *)
THEOREM SoundIsRead == Spec => []SoundBinariesAreRead
<1>1. ReaderInv => SoundBinariesAreRead
  <2> SUFFICES ASSUME ReaderInv, dpc \in {"done", "raised"}, Sound(binary)
               PROVE  /\ dpc = "done"
                      /\ Grep({"vmaddr", "vmsize"}) = SegmentLines
                      /\ Cardinality(LinesWith("uuid"))
                           = Cardinality({k \in DOMAIN binary.items : binary.items[k].kind = "uuid"})
    BY DEF SoundBinariesAreRead
  <2>1. dpc = "done"
    BY DEF ReaderInv, MachoInv, Track
  <2>2. /\ DOMAIN binary.items = 1 .. Len(binary.items)
        /\ Exactly(binary, printed, Len(binary.items))
    BY <2>1, WholeIsRead
  <2>3. Grep({"vmaddr", "vmsize"}) = SegmentLines
    BY <2>2, LinesAreAll DEF Exactly
  <2>4. LinesWith("uuid") = KeyIn(printed, "uuid")
    BY DEF LinesWith, KeyIn
  <2>5. {k \in DOMAIN binary.items : binary.items[k].kind = "uuid"} = UuidsUpto(binary, Len(binary.items))
    BY <2>2 DEF UuidsUpto
  <2> QED  BY <2>1, <2>2, <2>3, <2>4, <2>5 DEF Exactly
<1> QED  BY <1>1, ReaderKept, PTL

-----------------------------------------------------------------------------
(* The loop of main.py. *)

(* The loop has a turn for every two numbers, the last of which may be      *)
(* incomplete, and at least one.                                            *)
LEMMA LinesAreHalf ==
  ASSUME numbers \in Seq(Nat)
  PROVE  /\ Ranges!Lines \in Nat /\ Ranges!Lines >= 1
         /\ \A k \in 1 .. Ranges!Lines : numbers # <<>> => 2 * k <= Len(numbers) + 1
         /\ numbers = <<>> => ~Ranges!Complete(1) /\ Ranges!Lines = 1
         /\ numbers # <<>> => 2 * Ranges!Lines >= Len(numbers)
<1> DEFINE n == Len(numbers)
<1>1. n \in Nat
  OBVIOUS
<1>2. numbers # <<>> => n >= 1
  OBVIOUS
<1>3. (n + 1) \div 2 \in Nat /\ 2 * ((n + 1) \div 2) <= n + 1 /\ 2 * ((n + 1) \div 2) >= n
  BY <1>1
<1> QED
  BY <1>1, <1>2, <1>3 DEF Ranges!Lines, Ranges!Complete

(* A complete line has an end. *)
LEMMA RangeIsNatural ==
  ASSUME numbers \in Seq(Nat), NEW k \in Nat \ {0}, Ranges!Complete(k)
  PROVE  Ranges!EndOfRange(k) \in Nat
BY DEF Ranges!Complete, Ranges!EndOfRange

(* What the loop knows, and that it ends behind the last line. *)
LoopInv ==
  /\ Ranges!TypeOK /\ Ranges!AboveHandled
  /\ apc = "done" => line = Ranges!Lines + 1

(* The invariant of the loop holds before it. *)
LEMMA LoopBegins ==
  ASSUME numbers \in Seq(Nat), apc = "loop", line = 1, dwarf_min_offset = Ranges!LowestBase
  PROVE  LoopInv
<1>1. Ranges!Lines \in Nat /\ Ranges!Lines >= 1
  BY LinesAreHalf
<1> QED
  BY <1>1 DEF LoopInv, Ranges!TypeOK, Ranges!AboveHandled, Ranges!LowestBase

(* Each turn raises the base above its own range and keeps it above the     *)
(* others.                                                                  *)
LEMMA LoopTurn ==
  ASSUME LoopInv, Ranges!Turn
  PROVE  LoopInv'
<1> USE DEF LoopInv
<1>1. Ranges!Lines \in Nat /\ Ranges!Lines >= 1
  BY LinesAreHalf DEF Ranges!TypeOK
<1>2. numbers' = numbers /\ Ranges!Lines' = Ranges!Lines /\ apc = "loop" /\ line <= Ranges!Lines
      /\ line \in Nat /\ line >= 1
  BY <1>1 DEF Ranges!Turn, Ranges!Lines, Ranges!TypeOK
<1>3. CASE Ranges!Complete(line)
  <2> DEFINE end == Ranges!EndOfRange(line)
  <2>1. /\ dwarf_min_offset' = Ranges!Raise(dwarf_min_offset, end)
        /\ line' = line + 1 /\ apc' = "loop"
    BY <1>2, <1>3 DEF Ranges!Turn
  <2>2. end \in Nat
    BY <1>2, <1>3, RangeIsNatural DEF Ranges!TypeOK
  <2>3. /\ dwarf_min_offset' \in Nat
        /\ dwarf_min_offset <= dwarf_min_offset' /\ end <= dwarf_min_offset'
        /\ dwarf_min_offset' \in {dwarf_min_offset, end}
    BY <2>1, <2>2 DEF Ranges!Raise, Ranges!TypeOK
  <2>4. \A k : Ranges!Complete(k)' = Ranges!Complete(k) /\ Ranges!EndOfRange(k)' = Ranges!EndOfRange(k)
    BY <1>2 DEF Ranges!Complete, Ranges!EndOfRange
  <2>5. \A k \in 1 .. line' - 1 : k \in 1 .. line - 1 \/ k = line
    BY <2>1, <1>2
  <2>6. \A k \in 1 .. line' - 1 : Ranges!Complete(k) /\ Ranges!EndOfRange(k) \in Nat
    BY <2>5, <1>2, <1>3, RangeIsNatural DEF Ranges!AboveHandled, Ranges!TypeOK
  <2>7. \A k \in 1 .. line' - 1 : Ranges!EndOfRange(k) <= dwarf_min_offset'
    BY <2>3, <2>5, <2>6 DEF Ranges!AboveHandled, Ranges!TypeOK
  <2>8. \/ dwarf_min_offset' = Ranges!LowestBase
        \/ \E k \in 1 .. line' - 1 : dwarf_min_offset' = Ranges!EndOfRange(k)
    <3>1. line \in 1 .. line' - 1 /\ 1 .. line - 1 \subseteq 1 .. line' - 1
      BY <2>1, <1>2
    <3> QED
      BY <3>1, <2>3 DEF Ranges!AboveHandled
  <2>9. Ranges!LowestBase <= dwarf_min_offset'
    BY <2>3 DEF Ranges!AboveHandled, Ranges!LowestBase, Ranges!TypeOK
  <2>10. Ranges!AboveHandled'
    BY <2>4, <2>6, <2>7, <2>8, <2>9 DEF Ranges!AboveHandled, Ranges!LowestBase
  <2>11. Ranges!TypeOK'
    BY <2>1, <2>3, <1>1, <1>2 DEF Ranges!TypeOK
  <2> QED
    BY <2>1, <2>10, <2>11
<1>4. CASE ~Ranges!Complete(line)
  <2>1. apc' = "raised" /\ line' = line /\ dwarf_min_offset' = dwarf_min_offset
    BY <1>2, <1>4 DEF Ranges!Turn
  <2>2. Ranges!AboveHandled'
    BY <2>1, <1>2 DEF Ranges!AboveHandled, Ranges!Complete, Ranges!EndOfRange
  <2> QED
    BY <2>1, <2>2, <1>2 DEF Ranges!TypeOK
<1> QED
  BY <1>3, <1>4

(* So does the end of the loop. *)
LEMMA LoopFinishes ==
  ASSUME LoopInv, Ranges!Finish
  PROVE  LoopInv'
<1> USE DEF LoopInv
<1>1. Ranges!Lines \in Nat /\ Ranges!Lines >= 1
  BY LinesAreHalf DEF Ranges!TypeOK
<1>2. /\ numbers' = numbers /\ Ranges!Lines' = Ranges!Lines /\ line' = line
      /\ dwarf_min_offset' = dwarf_min_offset /\ apc' = "done" /\ line > Ranges!Lines
  BY DEF Ranges!Finish, Ranges!Lines
<1>3. line = Ranges!Lines + 1
  BY <1>1, <1>2 DEF Ranges!TypeOK
<1>4. Ranges!AboveHandled'
  BY <1>2 DEF Ranges!AboveHandled, Ranges!Complete, Ranges!EndOfRange
<1> QED
  BY <1>2, <1>3, <1>4 DEF Ranges!TypeOK

(* And everything that is done outside of it. *)
LEMMA LoopStays ==
  ASSUME LoopInv, UNCHANGED rangeVars
  PROVE  LoopInv'
BY DEF LoopInv, rangeVars, Ranges!TypeOK, Ranges!AboveHandled, Ranges!Complete, Ranges!EndOfRange, Ranges!Lines

(* Behind the last line the base is the least one above all ranges. *)
LEMMA LoopIsLeast == LoopInv => LeastUpperBase
<1> SUFFICES ASSUME LoopInv, apc = "done"
             PROVE  /\ numbers # <<>> /\ Len(numbers) % 2 = 0
                    /\ dwarf_min_offset \in Ranges!Candidates
                    /\ \A c \in Ranges!Candidates : c <= dwarf_min_offset
  BY DEF LeastUpperBase, Ranges!LeastUpperBase
<1>1. numbers \in Seq(Nat) /\ line = Ranges!Lines + 1 /\ Ranges!AboveHandled
  BY DEF LoopInv, Ranges!TypeOK
<1>2. Ranges!Lines \in Nat /\ Ranges!Lines >= 1
  BY <1>1, LinesAreHalf
<1>3. 1 .. line - 1 = 1 .. Ranges!Lines
  BY <1>1, <1>2
<1>4. \A k \in 1 .. Ranges!Lines : Ranges!Complete(k) /\ Ranges!EndOfRange(k) <= dwarf_min_offset
  BY <1>1, <1>3 DEF Ranges!AboveHandled
<1>5. numbers # <<>>
  BY <1>1, <1>2, <1>4, LinesAreHalf
<1>6. Len(numbers) = 2 * Ranges!Lines
  <2>1. 2 * Ranges!Lines <= Len(numbers)
    BY <1>2, <1>4 DEF Ranges!Complete
  <2>2. 2 * Ranges!Lines >= Len(numbers) /\ Len(numbers) \in Nat
    BY <1>1, <1>5, LinesAreHalf
  <2> QED
    BY <2>1, <2>2, <1>2
<1>7. Len(numbers) % 2 = 0 /\ Len(numbers) \div 2 = Ranges!Lines
  BY <1>6, <1>2
<1>8. Ranges!Candidates = {Ranges!LowestBase} \cup {Ranges!EndOfRange(k) : k \in 1 .. Ranges!Lines}
  BY <1>7 DEF Ranges!Candidates
<1>9. dwarf_min_offset \in Ranges!Candidates
  BY <1>1, <1>3, <1>8 DEF Ranges!AboveHandled
<1>10. \A c \in Ranges!Candidates : c <= dwarf_min_offset
  BY <1>1, <1>4, <1>8 DEF Ranges!AboveHandled
<1> QED
  BY <1>5, <1>7, <1>9, <1>10

-----------------------------------------------------------------------------
(* The functions of main.py, one after the other. *)

(* Where main.py has not begun to calculate. *)
BeforeLoop == {"check", "objc", "dump", "uuid", "grep"}
(* Where it has a base. *)
BehindLoop == {"vmbase", "parse", "uuid_length", "done"}
(* Where macho-dump has ended. *)
BehindReader == {"uuid", "grep", "ranges"} \cup BehindLoop

(* What each function of main.py can rely on when it begins. *)
Control ==
  /\ phase \in {"check", "objc", "dump", "failed"} \cup BehindReader
  /\ phase \in BeforeLoop => Ranges!Begin(<<>>)
  /\ phase \in BehindLoop => apc = "done"
  /\ phase \in BehindReader => dpc \in {"done", "raised"}
  /\ phase \in {"dump"} \cup BehindReader => opc \in {"parse", "abort", "done"}
  /\ phase = "done" => LinesWith("uuid") # {}

(* The loop has the numbers of everything that was printed. *)
Fed ==
  /\ LoopInv
  /\ phase = "ranges" \/ apc # "loop" => numbers = NumbersIn(printed) /\ dpc \in {"done", "raised"}

(* The tool parses the base that main.py has calculated. *)
BaseParsed ==
  /\ vmbase \in 0 .. Objc!AddrWord - 1
  /\ phase \in {"parse", "uuid_length", "done"} =>
       ~Objc!OutOfRange(dwarf_min_offset) /\ vmbase = Objc!Stoull(dwarf_min_offset)

(* The inductive invariant of the whole run. *)
FullInv == ReaderInv /\ MethodsInv /\ Control /\ Fed /\ BaseParsed

(* The widths of the types. *)
LEMMA WordsAre ==
  /\ Word \in Nat \ {0} /\ LongWord \in Nat \ {0} /\ Word <= LongWord
  /\ MethodsInv => wide \in BOOLEAN /\ Objc!AddrWord \in Nat \ {0} /\ Objc!AddrWord <= LongWord
                   /\ (wide => Objc!AddrWord = LongWord) /\ (~wide => Objc!AddrWord = Word)
<1>1. Word \in Nat \ {0} /\ LongWord \in Nat \ {0} /\ (LongWord % Word) = 0
  BY PreparationAssumption DEF Objc!ObjcAssumption
<1>2. Word <= LongWord
  <2>1. \A x, y \in Nat \ {0} : (x % y) = 0 => y <= x
    OBVIOUS
  <2> QED  BY <1>1, <2>1
<1>3. MethodsInv => wide \in BOOLEAN
  BY SameType DEF MethodsInv, Symbols!IInv, Objc!TypeOK
<1> QED  BY <1>1, <1>2, <1>3 DEF Objc!AddrWord

(* It holds in the beginning. *)
LEMMA InitFull == Init => FullInv
<1> SUFFICES ASSUME Init PROVE FullInv
  OBVIOUS
<1>1. phase = "check" /\ vmbase = 0 /\ Ranges!Begin(<<>>)
  BY DEF Init
<1>2. ReaderInv /\ MethodsInv
  BY InitReader, InitMethods
<1>3. Control
  BY <1>1 DEF Control, BeforeLoop, BehindLoop, BehindReader
<1>4. Fed
  <2>1. numbers = <<>> /\ <<>> \in Seq(Nat)
    BY <1>1 DEF Ranges!Begin
  <2> QED  BY <1>1, <2>1, LoopBegins DEF Fed, Ranges!Begin
<1>5. BaseParsed
  BY <1>1, <1>2, WordsAre DEF BaseParsed
<1> QED  BY <1>2, <1>3, <1>4, <1>5 DEF FullInv

(* Every step hands over what the next function relies on. *)
LEMMA NextControl ==
  ASSUME FullInv, [Next]_vars
  PROVE  Control'
<1> USE DEF FullInv, Control, BeforeLoop, BehindLoop, BehindReader, dumpVars, rangeVars, objcVars
<1>1. CASE CheckMagic
  BY <1>1 DEF CheckMagic, Ranges!Begin
<1>2. CASE ExtractSymbols
  BY <1>2 DEF ExtractSymbols, Ranges!Begin
<1>3. CASE RunMachoDump
  BY <1>3 DEF RunMachoDump, Ranges!Begin
<1>4. CASE ExtractUuid
  BY <1>4 DEF ExtractUuid, Ranges!Begin
<1>5. CASE GrepNumbers
  BY <1>5 DEF GrepNumbers
<1>6. CASE CalculateBase
  BY <1>6 DEF CalculateBase
<1>7. CASE ParseVmbase
  BY <1>7 DEF ParseVmbase
<1>8. CASE ParseSymbols
  BY <1>8 DEF ParseSymbols, Objc!Parse, Objc!ParseLine, Objc!Parsed
<1>9. CASE CheckUuid
  <2>1. phase' = "done" => LinesWith("uuid") # {}
    BY <1>9, FS_EmptySet DEF CheckUuid
  <2>2. LinesWith("uuid")' = LinesWith("uuid")
    BY <1>9 DEF CheckUuid, LinesWith
  <2> HIDE DEF LinesWith
  <2> QED  BY <1>9, <2>1, <2>2 DEF CheckUuid
<1>10. CASE Ended \/ UNCHANGED vars
  BY <1>10 DEF Ended, vars, Ranges!Begin, LinesWith
<1> QED  BY <1>1, <1>2, <1>3, <1>4, <1>5, <1>6, <1>7, <1>8, <1>9, <1>10 DEF Next

(* The loop gets all numbers, once macho-dump has printed them. *)
LEMMA NextFed ==
  ASSUME FullInv, [Next]_vars
  PROVE  Fed'
<1>0. Fed /\ Control /\ LoopInv /\ Tally
  BY DEF FullInv, Fed, ReaderInv
<1>1. CASE CalculateBase
  <2>1. /\ phase = "ranges" /\ Ranges!Next /\ printed' = printed /\ dpc' = dpc
    BY <1>1 DEF CalculateBase, dumpVars
  <2>2. numbers' = numbers
    BY <2>1 DEF Ranges!Next, Ranges!Turn, Ranges!Finish
  <2>3. LoopInv'
    BY <1>0, <2>1, LoopTurn, LoopFinishes DEF Ranges!Next
  <2> QED  BY <1>0, <2>1, <2>2, <2>3 DEF Fed
<1>2. CASE GrepNumbers
  <2>1. /\ phase = "grep" /\ numbers' = NumbersIn(printed) /\ printed' = printed /\ dpc' = dpc
        /\ apc' = apc /\ line' = line /\ dwarf_min_offset' = dwarf_min_offset
    BY <1>2 DEF GrepNumbers, NumbersIn, dumpVars
  <2>2. /\ dpc \in {"done", "raised"} /\ apc = "loop" /\ line = 1 /\ dwarf_min_offset = Ranges!LowestBase
    BY <1>0, <2>1 DEF Control, BeforeLoop, BehindReader, Ranges!Begin
  <2>3. NumbersIn(printed) \in Seq(Nat)
    <3>1. binary \in Binaries /\ Told(binary, printed)
      BY DEF FullInv, ReaderInv, MachoInv, Track, Tally
    <3>2. Printable(binary, [key |-> "uuid", value |-> 0])
      BY DEF Printable
    <3> QED  BY <3>1, <3>2, ToldMore
  <2>4. LoopInv'
    <3>1. Ranges!LowestBase' = Ranges!LowestBase
      BY DEF Ranges!LowestBase
    <3>2. numbers' \in Seq(Nat) /\ apc' = "loop" /\ line' = 1 /\ dwarf_min_offset' = 4096
      BY <2>1, <2>2, <2>3 DEF Ranges!LowestBase
    <3>3. Ranges!Lines' \in Nat /\ Ranges!Lines' >= 1
      <4>1. \A s \in Seq(Nat) : s # <<>> => (Len(s) + 1) \div 2 \in Nat /\ (Len(s) + 1) \div 2 >= 1
        OBVIOUS
      <4> QED  BY <3>2, <4>1 DEF Ranges!Lines
    <3>4. (Ranges!TypeOK)'
      <4>1. line' \in 1 .. Ranges!Lines' + 1 /\ dwarf_min_offset' \in Nat
        <5>1. \A n \in Nat : n >= 1 => 1 \in 1 .. n + 1
          OBVIOUS
        <5>2. 1 \in 1 .. Ranges!Lines' + 1
          BY <3>3, <5>1
        <5>3. dwarf_min_offset' \in Nat
          BY <3>2
        <5> QED  BY <3>2, <5>2, <5>3
      <4>2. numbers' \in Seq(Nat) /\ apc' \in {"loop", "done", "raised"}
        BY <3>2
      <4> HIDE DEF Ranges!Lines
      <4> QED  BY <4>1, <4>2 DEF Ranges!TypeOK
    <3>5. (Ranges!AboveHandled)'
      <4>1. 1 .. (line' - 1) = {}
        BY <3>2
      <4> QED  BY <3>2, <4>1 DEF Ranges!AboveHandled, Ranges!LowestBase
    <3>6. (apc = "done")' = FALSE
      BY <3>2
    <3> QED  BY <3>4, <3>5, <3>6 DEF LoopInv
  <2> QED  BY <2>1, <2>2, <2>4 DEF Fed
<1>3. CASE RunMachoDump
  <2>1. phase = "dump" /\ phase' # "ranges" /\ UNCHANGED rangeVars /\ apc' = apc
    BY <1>3 DEF RunMachoDump, rangeVars
  <2>2. apc = "loop"
    BY <1>0, <2>1 DEF Control, BeforeLoop, Ranges!Begin
  <2> QED  BY <1>0, <2>1, <2>2, LoopStays DEF Fed
<1>4. CASE CheckMagic \/ ExtractSymbols \/ ExtractUuid \/ ParseVmbase \/ ParseSymbols \/ CheckUuid
           \/ Ended \/ UNCHANGED vars
  <2>1. UNCHANGED rangeVars /\ printed' = printed /\ dpc' = dpc /\ (phase' = "ranges" => phase = "ranges")
    BY <1>4 DEF CheckMagic, ExtractSymbols, ExtractUuid, ParseVmbase, ParseSymbols, CheckUuid, Ended, vars,
      dumpVars, rangeVars
  <2>2. numbers' = numbers /\ apc' = apc
    BY <2>1 DEF rangeVars
  <2> QED  BY <1>0, <2>1, <2>2, LoopStays DEF Fed
<1> QED  BY <1>1, <1>2, <1>3, <1>4 DEF Next

(* stoull and stoul leave a base as it is, or fail. *)
LEMMA NextBase ==
  ASSUME FullInv, [Next]_vars
  PROVE  BaseParsed'
<1>0. BaseParsed /\ MethodsInv
  BY DEF FullInv
<1>1. wide' = wide
  BY DEF Next, vars, CheckMagic, ExtractSymbols, RunMachoDump, ExtractUuid, GrepNumbers, CalculateBase,
    ParseVmbase, ParseSymbols, CheckUuid, Ended, Objc!Prepare, Objc!Sort, Objc!ReadLine, Objc!WriteRaw,
    Objc!Parse, Objc!ParseLine, Objc!Parsed
<1>2. Objc!AddrWord' = Objc!AddrWord /\ (\A n : Objc!Stoull(n)' = Objc!Stoull(n) /\ Objc!OutOfRange(n)' = Objc!OutOfRange(n))
  BY <1>1 DEF Objc!AddrWord, Objc!Stoull, Objc!OutOfRange
<1>3. CASE ParseVmbase
  <2>1. phase = "vmbase" /\ dwarf_min_offset' = dwarf_min_offset
        /\ \/ Objc!OutOfRange(dwarf_min_offset) /\ phase' = "failed" /\ vmbase' = vmbase
           \/ ~Objc!OutOfRange(dwarf_min_offset) /\ phase' = "parse" /\ vmbase' = Objc!Stoull(dwarf_min_offset)
    BY <1>3 DEF ParseVmbase, rangeVars
  <2>2. dwarf_min_offset \in Nat
    BY DEF FullInv, Fed, LoopInv, Ranges!TypeOK
  <2>3. Objc!Stoull(dwarf_min_offset) \in 0 .. Objc!AddrWord - 1
    <3>1. LongWord \in Nat \ {0} /\ Objc!AddrWord \in Nat \ {0}
      BY <1>0, WordsAre
    <3>2. \A x \in Nat, y \in Nat \ {0} : (x % y) \in Nat /\ (x % y) \in 0 .. y - 1
      OBVIOUS
    <3>3. (dwarf_min_offset % LongWord) \in Nat
      BY <2>2, <3>1, <3>2
    <3> QED  BY <3>1, <3>2, <3>3 DEF Objc!Stoull
  <2>4. CASE Objc!OutOfRange(dwarf_min_offset) /\ phase' = "failed" /\ vmbase' = vmbase
    BY <1>0, <1>2, <2>4 DEF BaseParsed
  <2>5. CASE ~Objc!OutOfRange(dwarf_min_offset) /\ phase' = "parse" /\ vmbase' = Objc!Stoull(dwarf_min_offset)
    <3>1. vmbase' \in 0 .. Objc!AddrWord' - 1
      BY <1>2, <2>3, <2>5
    <3>2. ~Objc!OutOfRange(dwarf_min_offset') /\ vmbase' = Objc!Stoull(dwarf_min_offset')
      BY <2>1, <2>5
    <3>3. (~Objc!OutOfRange(dwarf_min_offset))' /\ (vmbase = Objc!Stoull(dwarf_min_offset))'
      BY <1>1, <3>2 DEF Objc!OutOfRange, Objc!Stoull, Objc!AddrWord
    <3> QED  BY <3>1, <3>3 DEF BaseParsed
  <2> QED  BY <2>1, <2>4, <2>5
<1>4. CASE ~ParseVmbase
  <2>1. /\ vmbase' = vmbase
        /\ phase' \in {"parse", "uuid_length", "done"} =>
             phase \in {"parse", "uuid_length", "done"} /\ dwarf_min_offset' = dwarf_min_offset
    BY <1>4 DEF Next, vars, CheckMagic, ExtractSymbols, RunMachoDump, ExtractUuid, GrepNumbers, CalculateBase,
      ParseSymbols, CheckUuid, Ended, rangeVars
  <2>2. vmbase' \in 0 .. Objc!AddrWord' - 1
    BY <1>0, <1>2, <2>1 DEF BaseParsed
  <2>3. phase' \in {"parse", "uuid_length", "done"} =>
          (~Objc!OutOfRange(dwarf_min_offset))' /\ (vmbase = Objc!Stoull(dwarf_min_offset))'
    BY <1>0, <1>1, <2>1 DEF BaseParsed, Objc!OutOfRange, Objc!Stoull, Objc!AddrWord
  <2> QED  BY <2>2, <2>3 DEF BaseParsed
<1> QED  BY <1>3, <1>4

(* Every step keeps the invariant. *)
LEMMA NextFull == FullInv /\ [Next]_vars => FullInv'
BY NextReader, NextMethods, NextControl, NextFed, NextBase DEF FullInv

(* It always holds. *)
LEMMA FullKept == Spec => []FullInv
BY InitFull, NextFull, PTL DEF Spec

(* main.py:109-126: each function of main.py begins with the results it     *)
(* takes its input from, and the addresses the tool parses are values of    *)
(* its type T.                                                              *)
THEOREM TypesAreCorrect == Spec => []TypeOK
<1>1. FullInv => TypeOK
  BY SameType DEF FullInv, TypeOK, Control, Fed, LoopInv, BaseParsed, MethodsInv, Symbols!IInv, BehindReader, BehindLoop
<1> QED  BY <1>1, FullKept, PTL

(* main.py:80-85: whatever macho-dump has printed, the base that the DWARF  *)
(* sections get is the least one at or above 0x1000 and above every pair of *)
(* numbers found.                                                           *)
THEOREM BaseIsLeast == Spec => []LeastUpperBase
<1>1. FullInv => LeastUpperBase
  BY LoopIsLeast DEF FullInv, Fed
<1> QED  BY <1>1, FullKept, PTL

-----------------------------------------------------------------------------
(* The segments are the pairs of their numbers. *)

(* Command k is a segment, *)
IsSegment(b, k) == b.items[k].kind = "segment"
(* which ends here. *)
EndIn(b, k) == b.items[k].vmaddr + b.items[k].vmsize

(* Each pair is a segment, and each segment is a pair. *)
Paired(s, b, m) ==
  /\ s \in Seq(Nat) /\ \E h \in Nat : Len(s) = 2 * h
  /\ \A k \in 1 .. m : IsSegment(b, k) =>
       \E j \in Nat \ {0} : 2 * j <= Len(s) /\ s[2 * j - 1] + s[2 * j] = EndIn(b, k)
  /\ \A j \in Nat \ {0} : 2 * j <= Len(s) =>
       \E k \in 1 .. m : IsSegment(b, k) /\ s[2 * j - 1] + s[2 * j] = EndIn(b, k)

(* t is s with the pair x, y as its last, number h + 1. *)
PairAdded(t, s, h, x, y) ==
  /\ t \in Seq(Nat) /\ Len(t) = 2 * (h + 1)
  /\ t[2 * (h + 1) - 1] = x /\ t[2 * (h + 1)] = y
  /\ \A j \in Nat \ {0} : 2 * j <= Len(s) => t[2 * j - 1] = s[2 * j - 1] /\ t[2 * j] = s[2 * j]

(* Two numbers more are a pair more. *)
LEMMA OnePairMore ==
  ASSUME NEW s \in Seq(Nat), NEW h \in Nat, Len(s) = 2 * h, NEW x \in Nat, NEW y \in Nat,
         NEW t, t = s \o <<x, y>>
  PROVE  PairAdded(t, s, h, x, y)
<1>1. <<x, y>> \in Seq(Nat) /\ Len(<<x, y>>) = 2 /\ <<x, y>>[1] = x /\ <<x, y>>[2] = y
  OBVIOUS
<1>2. /\ t \in Seq(Nat) /\ Len(t) = Len(s) + 2
      /\ \A i \in 1 .. Len(s) : t[i] = s[i]
      /\ t[Len(s) + 1] = x /\ t[Len(s) + 2] = y
  <2>1. \A p, q \in Seq(Nat) :
          /\ p \o q \in Seq(Nat) /\ Len(p \o q) = Len(p) + Len(q)
          /\ \A i \in 1 .. Len(p) + Len(q) : (p \o q)[i] = IF i <= Len(p) THEN p[i] ELSE q[i - Len(p)]
    OBVIOUS
  <2> DEFINE q == <<x, y>>
  <2> HIDE DEF q
  <2>2. q \in Seq(Nat) /\ Len(q) = 2 /\ q[1] = x /\ q[2] = y /\ t = s \o q
    BY <1>1 DEF q
  <2>3. t \in Seq(Nat) /\ Len(t) = Len(s) + 2
        /\ \A i \in 1 .. Len(s) + 2 : t[i] = IF i <= Len(s) THEN s[i] ELSE q[i - Len(s)]
    BY <2>1, <2>2
  <2>4. Len(s) \in Nat
    OBVIOUS
  <2>5. Len(s) + 1 \in 1 .. Len(s) + 2 /\ Len(s) + 2 \in 1 .. Len(s) + 2
        /\ 1 .. Len(s) \subseteq 1 .. Len(s) + 2 /\ (Len(s) + 1) - Len(s) = 1 /\ (Len(s) + 2) - Len(s) = 2
        /\ ~(Len(s) + 1 <= Len(s)) /\ ~(Len(s) + 2 <= Len(s)) /\ \A i \in 1 .. Len(s) : i <= Len(s)
    BY <2>4
  <2> QED  BY <2>2, <2>3, <2>5
<1>3. 2 * (h + 1) - 1 = Len(s) + 1 /\ 2 * (h + 1) = Len(s) + 2
  OBVIOUS
<1>4. \A j \in Nat \ {0} : 2 * j <= Len(s) => 2 * j - 1 \in 1 .. Len(s) /\ 2 * j \in 1 .. Len(s)
  OBVIOUS
<1>5. Len(t) = 2 * (h + 1) /\ t[2 * (h + 1) - 1] = x /\ t[2 * (h + 1)] = y
  BY <1>2, <1>3
<1>6. \A j \in Nat \ {0} : 2 * j <= Len(s) => t[2 * j - 1] = s[2 * j - 1] /\ t[2 * j] = s[2 * j]
  BY <1>2, <1>4
<1> QED  BY <1>2, <1>5, <1>6 DEF PairAdded

(* One command more is a pair more, or none. *)
LEMMA PairedMore ==
  ASSUME NEW b, WellFormed(b), NEW m \in Nat, m + 1 <= Len(b.items), Paired(NumsUpto(b, m), b, m)
  PROVE  Paired(NumsUpto(b, m + 1), b, m + 1)
<1> DEFINE s == NumsUpto(b, m)
           t == NumsUpto(b, m + 1)
<1>0. Len(b.items) \in Nat /\ m + 1 \in 1 .. Len(b.items) /\ (m + 1) - 1 = m
  BY ItemsAre
<1>1. s \in Seq(Nat) /\ t = s \o SegNums(b, m + 1)
  BY <1>0, NumsNext
<1>2. \A k : k \in 1 .. m + 1 <=> k \in 1 .. m \/ k = m + 1
  OBVIOUS
<1>3. Paired(s, b, m)
  OBVIOUS
<1>4. b.items[m + 1] \in Item
  BY <1>0, ItemsAre
<1> HIDE DEF s, t
<1>5. CASE IsSegment(b, m + 1)
  <2> DEFINE x == b.items[m + 1].vmaddr
             y == b.items[m + 1].vmsize
  <2>1. x \in Nat /\ y \in Nat
    BY <1>4, <1>5, ItemKinds DEF IsSegment
  <2>2. t = s \o <<x, y>> /\ EndIn(b, m + 1) = x + y
    BY <1>1, <1>5 DEF SegNums, IsSegment, EndIn
  <2> HIDE DEF x, y
  <2>3. PICK h \in Nat : Len(s) = 2 * h
    BY <1>3 DEF Paired
  <2>4. /\ t \in Seq(Nat) /\ Len(t) = 2 * (h + 1)
        /\ t[2 * (h + 1) - 1] = x /\ t[2 * (h + 1)] = y
        /\ \A j \in Nat \ {0} : 2 * j <= Len(s) => t[2 * j - 1] = s[2 * j - 1] /\ t[2 * j] = s[2 * j]
    <3>1. PairAdded(t, s, h, x, y)
      BY <1>1, <2>1, <2>2, <2>3, OnePairMore
    <3> QED  BY <3>1 DEF PairAdded
  <2>5. h + 1 \in Nat \ {0} /\ Len(s) <= Len(t) /\ Len(s) \in Nat /\ Len(t) \in Nat
    BY <2>3, <2>4
  <2>6. \A k \in 1 .. m + 1 : IsSegment(b, k) =>
          \E j \in Nat \ {0} : 2 * j <= Len(t) /\ t[2 * j - 1] + t[2 * j] = EndIn(b, k)
    <3> TAKE k \in 1 .. m + 1
    <3> HAVE IsSegment(b, k)
    <3>1. CASE k = m + 1
      <4>1. 2 * (h + 1) <= Len(t) /\ t[2 * (h + 1) - 1] + t[2 * (h + 1)] = EndIn(b, k)
        BY <3>1, <2>2, <2>4, <2>5
      <4> QED  BY <4>1, <2>5
    <3>2. CASE k \in 1 .. m
      <4>1. PICK j \in Nat \ {0} : 2 * j <= Len(s) /\ s[2 * j - 1] + s[2 * j] = EndIn(b, k)
        BY <3>2, <1>3 DEF Paired
      <4>2. 2 * j <= Len(t) /\ t[2 * j - 1] + t[2 * j] = EndIn(b, k)
        BY SMTT(30), <4>1, <2>4, <2>5
      <4> QED  BY <4>2
    <3> QED  BY <3>1, <3>2, <1>2
  <2>7. \A j \in Nat \ {0} : 2 * j <= Len(t) =>
          \E k \in 1 .. m + 1 : IsSegment(b, k) /\ t[2 * j - 1] + t[2 * j] = EndIn(b, k)
    <3> TAKE j \in Nat \ {0}
    <3> HAVE 2 * j <= Len(t)
    <3>1. j <= h \/ j = h + 1
      BY <2>4, <2>5
    <3>2. CASE j = h + 1
      <4>1. m + 1 \in 1 .. m + 1 /\ t[2 * j - 1] + t[2 * j] = EndIn(b, m + 1)
        BY <3>2, <2>2, <2>4, <1>2
      <4> QED  BY <4>1, <1>5
    <3>3. CASE j <= h
      <4>1. 2 * j <= Len(s)
        BY <3>3, <2>3
      <4>2. PICK k \in 1 .. m : IsSegment(b, k) /\ s[2 * j - 1] + s[2 * j] = EndIn(b, k)
        BY <4>1, <1>3 DEF Paired
      <4>3. t[2 * j - 1] + t[2 * j] = EndIn(b, k) /\ k \in 1 .. m + 1
        BY <4>1, <4>2, <2>4, <1>2
      <4> QED  BY <4>2, <4>3
    <3> QED  BY <3>1, <3>2, <3>3
  <2> QED  BY <2>4, <2>5, <2>6, <2>7 DEF Paired, t
<1>6. CASE ~IsSegment(b, m + 1)
  <2>1. t = s
    BY <1>1, <1>6, ConcatEmptySeq DEF SegNums, IsSegment
  <2> QED  BY <2>1, <1>2, <1>3, <1>6 DEF Paired, t
<1> QED  BY <1>5, <1>6

(* The numbers of all commands are the pairs of its segments. *)
LEMMA SegmentsArePairs ==
  ASSUME NEW b, WellFormed(b)
  PROVE  Paired(NumsUpto(b, Len(b.items)), b, Len(b.items))
<1> DEFINE T == {d \in Nat : d <= Len(b.items) => Paired(NumsUpto(b, d), b, d)}
<1>0. Len(b.items) \in Nat
  BY ItemsAre
<1>1. 0 \in T
  <2>1. NumsUpto(b, 0) = <<>> /\ <<>> \in Seq(Nat) /\ Len(<<>>) = 2 * 0 /\ 1 .. 0 = {}
    BY NothingUpto
  <2>2. Paired(<<>>, b, 0)
    <3>1. \E h \in Nat : Len(<<>>) = 2 * h
      BY <2>1
    <3>2. \A j \in Nat \ {0} : ~(2 * j <= Len(<<>>))
      OBVIOUS
    <3> QED  BY <2>1, <3>1, <3>2 DEF Paired
  <2> QED  BY <2>1, <2>2
<1>2. ASSUME NEW d \in T PROVE d + 1 \in T
  <2> SUFFICES ASSUME d + 1 <= Len(b.items) PROVE Paired(NumsUpto(b, d + 1), b, d + 1)
    OBVIOUS
  <2>1. d <= Len(b.items) /\ d \in Nat
    BY <1>0
  <2> QED  BY <2>1, PairedMore
<1>3. T = Nat
  <2>1. T \in SUBSET Nat
    OBVIOUS
  <2> HIDE DEF T
  <2> QED  BY <1>1, <1>2, <2>1, Induction
<1> QED  BY <1>0, <1>3

-----------------------------------------------------------------------------
(* The base against the segments. *)

(* No pair of numbers ends above the base. *)
LEMMA RangesAreBelow ==
  ASSUME LoopInv, apc = "done", NEW j \in Nat \ {0}, 2 * j <= Len(numbers)
  PROVE  numbers[2 * j - 1] + numbers[2 * j] \in Nat /\ numbers[2 * j - 1] + numbers[2 * j] <= dwarf_min_offset
<1>1. numbers \in Seq(Nat) /\ Len(numbers) \in Nat /\ Len(numbers) % 2 = 0
      /\ \A c \in Ranges!Candidates : c <= dwarf_min_offset
  BY LoopIsLeast DEF LeastUpperBase, Ranges!LeastUpperBase, LoopInv, Ranges!TypeOK
<1>2. j \in 1 .. Len(numbers) \div 2
  BY <1>1
<1>3. Ranges!EndOfRange(j) \in Ranges!Candidates
  BY <1>2 DEF Ranges!Candidates
<1>4. Ranges!EndOfRange(j) \in Nat
  BY <1>1, RangeIsNatural DEF Ranges!Complete
<1> QED  BY <1>1, <1>3, <1>4 DEF Ranges!EndOfRange

(* When the pairs are the segments, the base is chosen among the ends of    *)
(* segments.                                                                *)
LEMMA EndsAreCandidates ==
  ASSUME NEW b, Len(b.items) \in Nat, DOMAIN b.items = 1 .. Len(b.items),
         Paired(numbers, b, Len(b.items)), Len(numbers) \in Nat
  PROVE  Ranges!Candidates = {Ranges!LowestBase} \cup {EndIn(b, k) : k \in SegmentItems(b)}
<1> DEFINE half == Len(numbers) \div 2
<1>1. half \in Nat /\ \A j : j \in 1 .. half <=> j \in Nat \ {0} /\ 2 * j <= Len(numbers)
  OBVIOUS
<1> HIDE DEF half
<1>2. \A k : k \in SegmentItems(b) <=> k \in 1 .. Len(b.items) /\ IsSegment(b, k)
  BY DEF SegmentItems, IsSegment
<1>3. \A k \in SegmentItems(b) : \E j \in 1 .. half : Ranges!EndOfRange(j) = EndIn(b, k)
  <2> TAKE k \in SegmentItems(b)
  <2>1. PICK j \in Nat \ {0} : 2 * j <= Len(numbers) /\ numbers[2 * j - 1] + numbers[2 * j] = EndIn(b, k)
    BY <1>2 DEF Paired
  <2>2. j \in 1 .. half
    BY <1>1, <2>1
  <2> QED  BY <2>1, <2>2 DEF Ranges!EndOfRange
<1>4. \A j \in 1 .. half : \E k \in SegmentItems(b) : Ranges!EndOfRange(j) = EndIn(b, k)
  <2> TAKE j \in 1 .. half
  <2>1. j \in Nat \ {0} /\ 2 * j <= Len(numbers)
    BY <1>1
  <2>2. PICK k \in 1 .. Len(b.items) : IsSegment(b, k) /\ numbers[2 * j - 1] + numbers[2 * j] = EndIn(b, k)
    BY <2>1 DEF Paired
  <2> QED  BY <1>2, <2>2 DEF Ranges!EndOfRange
<1>5. {Ranges!EndOfRange(j) : j \in 1 .. half} = {EndIn(b, k) : k \in SegmentItems(b)}
  BY <1>3, <1>4
<1> QED  BY <1>5 DEF Ranges!Candidates, half

(* main.py:76-85: for a complete binary, none of whose symbols is called    *)
(* after vm_addr or vm_size, the base is the end of its highest segment, or *)
(* 0x1000.                                                                  *)
THEOREM BaseIsExact == Spec => []BaseExact
<1>1. FullInv => BaseExact
  <2> SUFFICES ASSUME FullInv, apc = "done", Plain(binary), Sound(binary)
               PROVE  LET ends == {Ranges!LowestBase} \cup {SegmentEnd(k) : k \in SegmentItems(binary)}
                      IN dwarf_min_offset \in ends /\ \A e \in ends : e <= dwarf_min_offset
    BY DEF BaseExact, Plain
  <2>1. numbers = NumbersIn(printed) /\ dpc = "done"
    BY DEF FullInv, Fed, ReaderInv, MachoInv, Track
  <2>2. /\ WellFormed(binary) /\ Len(binary.items) \in Nat /\ DOMAIN binary.items = 1 .. Len(binary.items)
        /\ Exactly(binary, printed, Len(binary.items))
    BY <2>1, WholeIsRead DEF FullInv
  <2>3. numbers = NumsUpto(binary, Len(binary.items))
    BY <2>1, <2>2 DEF Exactly
  <2>4. Paired(numbers, binary, Len(binary.items))
    BY <2>2, <2>3, SegmentsArePairs
  <2>5. Len(numbers) \in Nat
    BY DEF FullInv, Fed, LoopInv, Ranges!TypeOK
  <2>6. Ranges!Candidates = {Ranges!LowestBase} \cup {EndIn(binary, k) : k \in SegmentItems(binary)}
    BY <2>2, <2>4, <2>5, EndsAreCandidates
  <2>7. dwarf_min_offset \in Ranges!Candidates /\ \A c \in Ranges!Candidates : c <= dwarf_min_offset
    BY LoopIsLeast DEF FullInv, Fed, LeastUpperBase, Ranges!LeastUpperBase
  <2> QED  BY <2>6, <2>7 DEF SegmentEnd, EndIn
<1> QED  BY <1>1, FullKept, PTL

(* In a run that succeeds no segment of the binary ends above the base: the *)
(* uuid was printed, so the segments before it were.                        *)
LEMMA SegmentsBelowBase ==
  ASSUME FullInv, phase = "done", SegmentsFirst, NEW k \in SegmentItems(binary)
  PROVE  SegmentEnd(k) \in Nat /\ SegmentEnd(k) <= dwarf_min_offset
<1> DEFINE s == NumsUpto(binary, Len(binary.items))
<1>1. apc = "done" /\ LinesWith("uuid") # {}
  BY DEF FullInv, Control, BehindLoop
<1>2. numbers = NumbersIn(printed) /\ LoopInv /\ binary \in Binaries /\ Tally
  BY <1>1 DEF FullInv, Fed, ReaderInv, MachoInv, Track
<1>3. Begins(s, numbers)
  <2>1. Marked(printed)
    BY <1>1 DEF Marked, KeyIn, LinesWith
  <2>2. BeforeOthers(binary)
    BY DEF BeforeOthers, SegmentsFirst
  <2> QED  BY <1>2, <2>1, <2>2 DEF Tally, SegmentsTold
<1>4. WellFormed(binary) /\ Len(binary.items) \in Nat /\ DOMAIN binary.items = 1 .. Len(binary.items)
  BY <1>2, PreparationAssumption, ItemsAre
<1>5. Paired(s, binary, Len(binary.items))
  BY <1>4, SegmentsArePairs
<1> HIDE DEF s
<1>6. k \in 1 .. Len(binary.items) /\ IsSegment(binary, k)
  BY <1>4 DEF SegmentItems, IsSegment
<1>7. PICK j \in Nat \ {0} : 2 * j <= Len(s) /\ s[2 * j - 1] + s[2 * j] = EndIn(binary, k)
  BY <1>5, <1>6 DEF Paired
<1>8. Len(s) \in Nat /\ Len(numbers) \in Nat /\ Len(s) <= Len(numbers) /\ \A i \in 1 .. Len(s) : numbers[i] = s[i]
  BY <1>2, <1>3, <1>5 DEF Begins, Paired, LoopInv, Ranges!TypeOK
<1>9. 2 * j - 1 \in 1 .. Len(s) /\ 2 * j \in 1 .. Len(s) /\ 2 * j <= Len(numbers)
  BY <1>7, <1>8
<1>10. numbers[2 * j - 1] = s[2 * j - 1] /\ numbers[2 * j] = s[2 * j]
  BY <1>8, <1>9
<1>11. numbers[2 * j - 1] + numbers[2 * j] \in Nat /\ numbers[2 * j - 1] + numbers[2 * j] <= dwarf_min_offset
  BY <1>1, <1>2, <1>9, RangesAreBelow
<1> QED  BY <1>7, <1>10, <1>11 DEF EndIn, SegmentEnd

-----------------------------------------------------------------------------
(* The sections above the base. *)

(* align_to rounds up to a page, where there is room for one. *)
LEMMA RoundUp ==
  ASSUME NEW a \in Nat, NEW n \in Nat, 1 <= a, a + Layout!Page <= n
  PROVE  Layout!AlignTo(a, n) \in Nat /\ a <= Layout!AlignTo(a, n) /\ Layout!AlignTo(a, n) < a + Layout!Page
<1>1. \A x, y \in Nat : x < y => (x % y) = x
  OBVIOUS
<1>2. a - 1 \in Nat /\ a - 1 < n
  BY DEF Layout!Page
<1>3. ((a - 1) % n) = a - 1
  BY <1>1, <1>2
<1> DEFINE up == ((a - 1) \div 4096 + 1) * 4096
<1>4. up \in Nat /\ a <= up /\ up < a + 4096
  BY <1>2
<1> HIDE DEF up
<1>5. up < n
  BY <1>4 DEF Layout!Page
<1>6. (up % n) = up
  BY <1>1, <1>4, <1>5
<1> QED  BY <1>3, <1>4, <1>6 DEF Layout!AlignTo, Layout!Page, up

(* The offsets of the DWARF sections are natural numbers. *)
LEMMA OffsetsAreNatural ==
  ASSUME FullInv, NEW s \in Layout!Sections
  PROVE  Layout!PlanFor(Format).offset[s] \in Nat
<1>1. \A x \in Int, y \in Nat \ {0} : (x % y) \in Nat
  OBVIOUS
<1>2. Word \in Nat \ {0}
  BY WordsAre
<1>3. \A x \in Int : Layout!U32(x) \in Nat
  BY <1>1, <1>2 DEF Layout!U32
<1>4. \A x \in Int : Layout!AlignTo(x, Word) \in Nat
  <2> TAKE x \in Int
  <2>1. ((x - 1) % Word) \in Nat
    BY <1>1, <1>2
  <2>2. (((x - 1) % Word) \div 4096 + 1) * 4096 \in Int
    BY <2>1
  <2> QED  BY <1>1, <1>2, <2>2 DEF Layout!AlignTo, Layout!Page
<1>5. Len(parsed) \in Nat /\ wide \in BOOLEAN
  BY SameType, WordsAre DEF FullInv, MethodsInv, Symbols!IInv, Objc!TypeOK
<1> DEFINE n == Len(parsed)
           stroff == Layout!U32(4096 + Layout!SymbolsSize(n))
           start == Layout!AlignTo(Layout!U32(stroff + 4 * n), Word)
<1>6. Layout!SymbolsSize(n) \in Int /\ Layout!InfoSize(n) \in Int
  <2>1. Layout!Sizeof(12, 16) \in {12, 16} /\ Layout!Sizeof(8, 16) \in {8, 16}
    BY DEF Layout!Sizeof
  <2> QED  BY <1>5, <2>1 DEF Layout!SymbolsSize, Layout!InfoSize
<1> HIDE DEF n
<1>7. stroff \in Nat
  BY <1>3, <1>6
<1> HIDE DEF stroff
<1>8. Layout!U32(stroff + 4 * n) \in Nat
  BY <1>3, <1>5, <1>7 DEF n
<1>9. start \in Nat
  BY <1>4, <1>8
<1> HIDE DEF start
<1> DEFINE info == Layout!U32(start + 20)
           abbrev == Layout!U32(info + Layout!InfoSize(n))
           str == Layout!U32(abbrev + 18)
<1>10. info \in Nat
  BY <1>3, <1>9
<1> HIDE DEF info
<1>11. abbrev \in Nat
  BY <1>3, <1>6, <1>10
<1> HIDE DEF abbrev
<1>12. str \in Nat
  BY <1>3, <1>11
<1> HIDE DEF str
<1>13. Layout!PlanFor(Format).offset = [line |-> start, info |-> info, abbrev |-> abbrev, str |-> str]
  <2>1. Format.nsyms = n /\ Format.strsize = 4 * n
    BY DEF Format, n
  <2>2. Layout!PlanFor(Format).offset = Layout!SectionOffsets(start, Format)
    BY <2>1 DEF Layout!PlanFor, start, stroff, Layout!SymbolTableOffset
  <2> QED  BY <2>1, <2>2 DEF Layout!SectionOffsets, info, abbrev, str, Layout!LineSize, Layout!AbbrevSize
<1> QED  BY <1>9, <1>10, <1>11, <1>12, <1>13 DEF Layout!Sections

(* main.py:71-85, macho.h:85-98: in the symbol file of a run that succeeds, *)
(* every DWARF section there is room for lies above every segment of the    *)
(* binary, even if macho-dump read only a part of it.                       *)
THEOREM DwarfIsAbove == Spec => []DwarfAboveSegments
<1>1. FullInv => DwarfAboveSegments
  <2> SUFFICES ASSUME FullInv, phase = "done", SegmentsFirst, NEW s \in Layout!Sections,
                      dwarf_min_offset + Layout!Page + Layout!PlanFor(Format).offset[s] <= Objc!AddrWord,
                      NEW k \in SegmentItems(binary)
               PROVE  SegmentEnd(k) <= Layout!PlanFor(Format).addr[s]
    BY DEF DwarfAboveSegments
  <2> DEFINE base == Layout!AlignTo(vmbase, Objc!AddrWord)
             offset == Layout!PlanFor(Format).offset[s]
  <2>1. SegmentEnd(k) \in Nat /\ SegmentEnd(k) <= dwarf_min_offset
    BY SegmentsBelowBase
  <2>2. dwarf_min_offset \in Nat /\ 4096 <= dwarf_min_offset
    BY DEF FullInv, Fed, LoopInv, Ranges!TypeOK, Ranges!AboveHandled, Ranges!LowestBase
  <2>3. LongWord \in Nat /\ Objc!AddrWord \in Nat \ {0} /\ Objc!AddrWord <= LongWord
    BY WordsAre DEF FullInv
  <2>4. offset \in Nat
    BY OffsetsAreNatural
  <2>5. Layout!PlanFor(Format).addr[s] = ((base + offset) % Objc!AddrWord)
    <3>1. Layout!AddrWord = Objc!AddrWord /\ Format.vmoff = vmbase
      BY DEF Layout!AddrWord, Layout!Sizeof, Objc!AddrWord, Format
    <3>2. Layout!PlanFor(Format).addr[s] = Layout!SectionAddress(Layout!AlignTo(Format.vmoff, Layout!AddrWord), offset)
      BY DEF Layout!PlanFor
    <3> QED  BY <3>1, <3>2 DEF Layout!SectionAddress, Layout!Addr
  <2>6. dwarf_min_offset + 4096 + offset <= Objc!AddrWord
    BY DEF Layout!Page
  <2> HIDE DEF offset
  <2>7. \A x, y \in Nat : x < y => (x % y) = x
    OBVIOUS
  <2>8. vmbase = dwarf_min_offset
    <3>1. vmbase = ((dwarf_min_offset % LongWord) % Objc!AddrWord)
      BY DEF FullInv, BaseParsed, Objc!Stoull
    <3>2. dwarf_min_offset < Objc!AddrWord /\ dwarf_min_offset < LongWord
      BY <2>2, <2>3, <2>4, <2>6
    <3> QED  BY <2>2, <2>3, <2>7, <3>1, <3>2
  <2>9. base \in Nat /\ dwarf_min_offset <= base /\ base < dwarf_min_offset + 4096
    <3>1. dwarf_min_offset + Layout!Page <= Objc!AddrWord /\ 1 <= dwarf_min_offset
      BY <2>2, <2>3, <2>4, <2>6 DEF Layout!Page
    <3>2. /\ Layout!AlignTo(dwarf_min_offset, Objc!AddrWord) \in Nat
          /\ dwarf_min_offset <= Layout!AlignTo(dwarf_min_offset, Objc!AddrWord)
          /\ Layout!AlignTo(dwarf_min_offset, Objc!AddrWord) < dwarf_min_offset + Layout!Page
      BY <2>2, <2>3, <3>1, RoundUp
    <3> QED  BY <2>8, <3>2 DEF Layout!Page
  <2> HIDE DEF base
  <2>10. base + offset \in Nat /\ base + offset < Objc!AddrWord
    BY <2>2, <2>3, <2>4, <2>6, <2>9
  <2>11. Layout!PlanFor(Format).addr[s] = base + offset
    BY <2>3, <2>5, <2>7, <2>10
  <2> QED  BY <2>1, <2>2, <2>4, <2>9, <2>11
<1> QED  BY <1>1, FullKept, PTL
=============================================================================
