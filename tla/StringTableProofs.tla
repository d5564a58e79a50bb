------------------------- MODULE StringTableProofs -------------------------
(***************************************************************************)
(* What StringTable::dump guarantees for every input, whatever the number  *)
(* of values of a uint32_t.  All three invariants follow from IInv.        *)
(***************************************************************************)
EXTENDS StringTable, TLAPS

-----------------------------------------------------------------------------
(* The counters. *)

(* Reducing a summand early does not change the reduced sum: a chain of     *)
(* wrapping additions computes the exact sum modulo W.                      *)
LEMMA RemainderOfSum ==
  ASSUME NEW W \in Nat \ {0}, NEW x \in Int, NEW d \in Int
  PROVE  ((x % W) + d) % W = (x + d) % W
<1> DEFINE r == ((x % W) + d) % W
           t == (x + d) % W
           k == (x + d) \div W - x \div W - ((x % W) + d) \div W
<1>1. k \in Int /\ r \in 0 .. W - 1 /\ t \in 0 .. W - 1
  OBVIOUS
<1>2. r = t + W * k
  <2> DEFINE a == x \div W
             b == (x + d) \div W
             c == ((x % W) + d) \div W
             m == x % W
  <2>1. a \in Int /\ b \in Int /\ c \in Int /\ m \in Int
    OBVIOUS
  <2>2. x = W * a + m /\ x + d = W * b + t /\ m + d = W * c + r
    OBVIOUS
  <2> QED  BY <1>1, <2>1, <2>2
<1> HIDE DEF r, t, k
<1>3. CASE k >= 1
  <2>1. W * k >= W
    BY <1>1, <1>3
  <2> QED  BY <1>1, <1>2, <2>1
<1>4. CASE k <= -1
  <2>1. W * k <= -W
    BY <1>1, <1>4
  <2> QED  BY <1>1, <1>2, <2>1
<1>5. CASE k = 0
  BY <1>1, <1>2, <1>5 DEF r, t
<1> QED  BY <1>1, <1>3, <1>4, <1>5

LEMMA WrapType ==
  ASSUME NEW x \in Int
  PROVE  Wrap(x) \in 0 .. Word - 1
BY NamesAssumption DEF Wrap

LEMMA WrapSmall ==
  ASSUME NEW x \in 0 .. Word - 1
  PROVE  Wrap(x) = x
BY NamesAssumption DEF Wrap

LEMMA WrapSum ==
  ASSUME NEW x \in Int, NEW d \in Int
  PROVE  Wrap(Wrap(x) + d) = Wrap(x + d)
BY NamesAssumption, RemainderOfSum DEF Wrap

(* The two loops count the same bytes, in one addition or in two. *)
LEMMA CountersAgree ==
  ASSUME NEW x \in Int, NEW n \in Names
  PROVE  /\ Grow(Wrap(x), n) = Wrap(x + NameLength[n] + 1)
         /\ Advance(Wrap(x), n) = Wrap(x + NameLength[n] + 1)
<1> DEFINE l == NameLength[n]
<1>1. l \in Int
  BY NamesAssumption
<1> HIDE DEF l
<1>2. Wrap(Wrap(x) + l) = Wrap(x + l) /\ x + l \in Int
  BY <1>1, WrapSum
<1>3. Wrap(Wrap(x + l) + 1) = Wrap(x + l + 1)
  BY <1>2, WrapSum
<1>4. Advance(Wrap(x), n) = Wrap(x + l + 1)
  BY <1>2, <1>3 DEF Advance, l
<1>5. Wrap(Wrap(x) + (l + 1)) = Wrap(x + (l + 1))
  BY <1>1, WrapSum
<1>6. Wrap(x) + (l + 1) = Wrap(x) + l + 1 /\ x + (l + 1) = x + l + 1
  BY <1>1, WrapType
<1>7. Grow(Wrap(x), n) = Wrap(x + l + 1)
  BY <1>5, <1>6 DEF Grow, l
<1> QED  BY <1>4, <1>7 DEF l

-----------------------------------------------------------------------------

LEMMA InitIInv == Init => IInv
<1> SUFFICES ASSUME Init PROVE IInv
  OBVIOUS
<1>1. names \in Seq(Names) /\ Len(names) \in Nat
  BY NamesAssumption DEF Init
<1>2. Wrap(0) = 0
  BY NamesAssumption, WrapSmall
<1>3. TypeOK
  <2>1. buffer \in [0 .. (IF pc = "measure" THEN 0 ELSE needed) - 1 -> Cells]
    BY DEF Init, Zeros, Cells
  <2>2. extent \in Seq(Nat) /\ i \in 1 .. Len(names) + 1
    BY <1>1 DEF Init
  <2>3. DOMAIN nameToOffset = {}
    BY DEF Init
  <2>4. needed \in 0 .. Word - 1 /\ offset \in 0 .. Word - 1
    BY NamesAssumption DEF Init
  <2> QED  BY <1>1, <2>1, <2>2, <2>3, <2>4 DEF Init, TypeOK
<1>4. ExtentsAdjoin /\ CountersExact
  BY <1>1, <1>2 DEF Init, ExtentsAdjoin, CountersExact
<1>5. AssertHolds /\ NoOverrun /\ CopiedSoFar /\ MapExact
  BY DEF Init, AssertHolds, NoOverrun, CopiedSoFar, MapExact
<1> QED  BY <1>3, <1>4, <1>5 DEF IInv, Init

(* What the proofs about one turn of a loop use of the invariant: the values *)
(* of the arguments and of the history, and how the positions follow each    *)
(* other.                                                                    *)
LEMMA Positions ==
  ASSUME IInv
  PROVE  /\ Len(names) \in Nat
         /\ \A k \in 1 .. Len(names) :
              names[k] \in Names /\ NameLength[names[k]] \in Nat
         /\ Len(extent) = IF pc = "measure" THEN i ELSE Len(names) + 1
         /\ \A k \in 1 .. Len(extent) : extent[k] \in Nat
         /\ \A k \in 1 .. Len(extent) - 1 :
              extent[k + 1] = extent[k] + NameLength[names[k]] + 1
         /\ \A j, k \in 1 .. Len(extent) :
              j < k => extent[j] + NameLength[names[j]] + 1 <= extent[k]
         /\ i \in 1 .. Len(names) + 1
<1>1. names \in Seq(Names) /\ extent \in Seq(Nat) /\ i \in 1 .. Len(names) + 1
  BY DEF IInv, TypeOK
<1>2. /\ Len(names) \in Nat
      /\ \A k \in 1 .. Len(names) : names[k] \in Names
      /\ \A k \in 1 .. Len(extent) : extent[k] \in Nat
  BY <1>1
<1>3. \A n \in Names : NameLength[n] \in Nat
  BY NamesAssumption
<1>4. ExtentsAdjoin
  BY DEF IInv
<1> QED  BY <1>1, <1>2, <1>3, <1>4 DEF ExtentsAdjoin

(* The first loop keeps the history of exact positions. *)
LEMMA MeasureIInv == IInv /\ Measure => IInv'
<1> SUFFICES ASSUME IInv, Measure PROVE IInv'
  OBVIOUS
<1>1. /\ pc = "measure" /\ i \in 1 .. Len(names) /\ Len(extent) = i
      /\ \A k \in 1 .. Len(names) :
           names[k] \in Names /\ NameLength[names[k]] \in Nat
      /\ \A k \in 1 .. i : extent[k] \in Nat
      /\ \A k \in 1 .. i - 1 :
           extent[k + 1] = extent[k] + NameLength[names[k]] + 1
      /\ \A j, k \in 1 .. i :
           j < k => extent[j] + NameLength[names[j]] + 1 <= extent[k]
  <2>1. pc = "measure" /\ i <= Len(names)
    BY DEF Measure
  <2>2. Len(extent) = i /\ i \in 1 .. Len(names)
    BY <2>1, Positions
  <2> QED  BY <2>1, <2>2, Positions
<1> DEFINE e == extent[i] + NameLength[names[i]] + 1
<1>2. e \in Nat
  BY <1>1
<1>3. extent \in Seq(Nat) /\ extent' = Append(extent, e)
  BY DEF IInv, TypeOK, Measure
<1> HIDE DEF e
<1>4. /\ Len(extent') = i + 1 /\ extent' \in Seq(Nat) /\ extent'[i + 1] = e
      /\ \A k \in 1 .. i : extent'[k] = extent[k]
  BY <1>1, <1>2, <1>3
<1>5. /\ i' = i + 1 /\ i' \in 1 .. Len(names) + 1
      /\ needed' = Grow(needed, names[i])
      /\ UNCHANGED <<names, pc, offset, buffer, nameToOffset, overran>>
  BY <1>1 DEF Measure
<1>6. needed' = Wrap(e)
  <2>1. needed = Wrap(extent[i]) /\ extent[i] \in Int /\ names[i] \in Names
    BY <1>1 DEF IInv, CountersExact
  <2> QED  BY <2>1, <1>5, CountersAgree DEF e
<1>7. TypeOK'
  <2>1. needed' \in 0 .. Word - 1
    BY <1>2, <1>6, WrapType
  <2> QED  BY <1>1, <1>4, <1>5, <2>1 DEF IInv, TypeOK
<1>8. ExtentsAdjoin'
  <2>1. ASSUME NEW k \in 1 .. i
        PROVE  extent'[k + 1] = extent'[k] + NameLength[names[k]] + 1
    <3>1. CASE k = i
      <4>1. extent'[i + 1] = extent[i] + NameLength[names[i]] + 1
        BY <1>4 DEF e
      <4>2. extent'[i] = extent[i]
        BY <1>1, <1>4
      <4> QED  BY <3>1, <4>1, <4>2
    <3>2. CASE k < i
      <4>1. k \in 1 .. i - 1 /\ k + 1 \in 1 .. i /\ k \in 1 .. i
        BY <1>1, <3>2
      <4>2. extent[k + 1] = extent[k] + NameLength[names[k]] + 1
        BY <1>1, <4>1
      <4>3. extent'[k + 1] = extent[k + 1] /\ extent'[k] = extent[k]
        BY <1>4, <4>1
      <4> QED  BY <4>2, <4>3
    <3> QED  BY <1>1, <3>1, <3>2
  <2>2. ASSUME NEW j \in 1 .. i + 1, NEW k \in 1 .. i + 1, j < k
        PROVE  extent'[j] + NameLength[names[j]] + 1 <= extent'[k]
    <3>1. CASE k <= i
      <4>1. j \in 1 .. i /\ k \in 1 .. i
        BY <1>1, <2>2, <3>1
      <4>2. extent[j] + NameLength[names[j]] + 1 <= extent[k]
        BY <1>1, <2>2, <4>1
      <4>3. extent'[j] = extent[j] /\ extent'[k] = extent[k]
        BY <1>4, <4>1
      <4> QED  BY <4>2, <4>3
    <3>2. CASE k = i + 1 /\ j = i
      BY <1>1, <1>2, <1>4, <3>2 DEF e
    <3>3. CASE k = i + 1 /\ j < i
      <4>1. /\ extent[j] + NameLength[names[j]] + 1 <= extent[i]
            /\ extent[j] \in Nat /\ NameLength[names[j]] \in Nat
            /\ extent[i] \in Nat /\ NameLength[names[i]] \in Nat
        BY <1>1, <3>3
      <4>2. extent'[j] = extent[j] /\ extent'[k] = e
        BY <1>1, <1>4, <3>3
      <4> QED  BY <4>1, <4>2 DEF e
    <3> QED  BY <1>1, <2>2, <3>1, <3>2, <3>3
  <2> QED  BY <1>1, <1>4, <1>5, <2>1, <2>2 DEF ExtentsAdjoin
<1>9. CountersExact'
  <2>1. extent'[1] = 0
    BY <1>1, <1>4 DEF IInv, CountersExact
  <2> QED  BY <1>1, <1>4, <1>5, <1>6, <2>1 DEF IInv, CountersExact
<1> QED
  BY <1>1, <1>5, <1>7, <1>8, <1>9
     DEF IInv, AssertHolds, NoOverrun, CopiedSoFar, MapExact

(* The buffer starts as zeros, with nothing copied. *)
LEMMA AllocateIInv == IInv /\ Allocate => IInv'
<1> SUFFICES ASSUME IInv, Allocate PROVE IInv'
  OBVIOUS
<1> USE NamesAssumption
<1>1. /\ names \in Seq(Names) /\ i = Len(names) + 1 /\ Len(extent) = i
      /\ extent \in Seq(Nat) /\ needed \in 0 .. Word - 1
  BY DEF IInv, TypeOK, ExtentsAdjoin, Allocate
<1>2. TypeOK'
  BY <1>1 DEF IInv, TypeOK, Allocate, Zeros, Cells
<1>3. ExtentsAdjoin'
  BY <1>1 DEF IInv, ExtentsAdjoin, Allocate
<1>4. CountersExact'
  BY <1>1 DEF IInv, CountersExact, Allocate
<1>5. CopiedSoFar'
  BY <1>1 DEF CopiedSoFar, Allocate, Zeros
<1>6. MapExact'
  BY <1>1 DEF IInv, MapExact, Allocate
<1> QED
  BY <1>2, <1>3, <1>4, <1>5, <1>6 DEF IInv, Allocate, AssertHolds, NoOverrun

-----------------------------------------------------------------------------
(* The second loop. *)

(* In a table that fits, the running copy stays in front of the next one and *)
(* inside the buffer, and neither counter has wrapped.                       *)
LEMMA CopyInside ==
  ASSUME IInv, pc = "copy", i <= Len(names), Fits
  PROVE  /\ offset = extent[i]
         /\ needed = extent[Len(names) + 1]
         /\ Advance(offset, names[i]) = extent[i + 1]
         /\ extent[i + 1] = extent[i] + NameLength[names[i]] + 1
         /\ extent[i + 1] <= needed
<1> DEFINE last == Len(names) + 1
<1>1. /\ i \in 1 .. Len(names) /\ Len(extent) = last /\ Len(names) \in Nat
      /\ \A k \in 1 .. Len(names) :
           names[k] \in Names /\ NameLength[names[k]] \in Nat
      /\ \A k \in 1 .. last : extent[k] \in Nat
      /\ \A k \in 1 .. last - 1 :
           extent[k + 1] = extent[k] + NameLength[names[k]] + 1
      /\ \A j, k \in 1 .. last :
           j < k => extent[j] + NameLength[names[j]] + 1 <= extent[k]
  <2>1. Len(extent) = last /\ i \in 1 .. Len(names)
    BY Positions
  <2> QED  BY <2>1, Positions
<1>2. /\ last \in Nat /\ i + 1 \in 1 .. last
      /\ extent[i] \in Nat /\ extent[i + 1] \in Nat /\ extent[last] \in Nat
      /\ extent[i + 1] = extent[i] + NameLength[names[i]] + 1
      /\ names[i] \in Names /\ NameLength[names[i]] \in Nat
  BY <1>1
<1>3. extent[last] < Word
  BY <1>1 DEF Fits
<1>4. offset = Wrap(extent[i]) /\ needed = Wrap(extent[last])
  BY <1>1 DEF IInv, CountersExact
<1>5. extent[i + 1] <= extent[last]
  <2>1. CASE i + 1 = last
    BY <1>2, <2>1
  <2>2. CASE i + 1 < last
    <3>1. i + 1 \in 1 .. last - 1 /\ i + 1 \in 1 .. last /\ last \in 1 .. last
      BY <1>2, <2>2
    <3>2. NameLength[names[i + 1]] \in Nat
      BY <1>1, <3>1
    <3>3. extent[i + 1] + NameLength[names[i + 1]] + 1 <= extent[last]
      BY <1>1, <2>2, <3>1
    <3> QED  BY <1>2, <3>2, <3>3
  <2> QED  BY <1>2, <2>1, <2>2
<1> HIDE DEF last
<1>6. /\ extent[i] \in 0 .. Word - 1 /\ extent[i + 1] \in 0 .. Word - 1
      /\ extent[last] \in 0 .. Word - 1
  <2>1. Word \in Nat
    BY NamesAssumption
  <2> QED  BY <1>2, <1>3, <1>5, <2>1
<1>7. /\ Wrap(extent[i]) = extent[i] /\ Wrap(extent[i + 1]) = extent[i + 1]
      /\ Wrap(extent[last]) = extent[last]
  BY <1>6, WrapSmall
<1>8. Advance(Wrap(extent[i]), names[i]) = Wrap(extent[i + 1])
  BY <1>2, CountersAgree
<1> QED  BY <1>2, <1>4, <1>5, <1>7, <1>8 DEF last

LEMMA CopyIInv == IInv /\ Copy => IInv'
<1> SUFFICES ASSUME IInv, Copy PROVE IInv'
  OBVIOUS
<1> DEFINE n == names[i]
           l == NameLength[n]
<1>1. pc = "copy" /\ i <= Len(names) /\ pc' \in {"copy", "crashed"}
  BY DEF Copy
<1>2. /\ i \in 1 .. Len(names) /\ Len(names) \in Nat
      /\ Len(extent) = Len(names) + 1
      /\ n \in Names /\ l \in Nat
      /\ \A k \in 1 .. Len(names) :
           names[k] \in Names /\ NameLength[names[k]] \in Nat
      /\ \A k \in 1 .. Len(names) + 1 : extent[k] \in Nat
      /\ \A j, k \in 1 .. Len(names) + 1 :
           j < k => extent[j] + NameLength[names[j]] + 1 <= extent[k]
      /\ extent[i + 1] = extent[i] + l + 1
  <2>1. Len(extent) = Len(names) + 1 /\ i \in 1 .. Len(names)
    BY <1>1, Positions
  <2> QED  BY <2>1, Positions
<1>3. /\ offset \in 0 .. Word - 1 /\ needed \in 0 .. Word - 1 /\ Word \in Nat
      /\ buffer \in [0 .. needed - 1 -> Cells]
  BY <1>1, NamesAssumption DEF IInv, TypeOK
<1>4. /\ names' = names /\ needed' = needed /\ extent' = extent /\ i' = i + 1
      /\ nameToOffset' = Put(nameToOffset, n, offset)
      /\ buffer' = CopyName(buffer, offset, n)
      /\ offset' = Advance(offset, n)
  BY DEF Copy
<1> HIDE DEF n, l
<1>5. offset' = Wrap(extent[i + 1])
  <2>1. offset = Wrap(extent[i]) /\ extent[i] \in Int
    BY <1>1, <1>2 DEF IInv, CountersExact
  <2> QED  BY <1>2, <1>4, <2>1, CountersAgree DEF l
<1>6. /\ DOMAIN buffer' = 0 .. needed - 1
      /\ \A c \in 0 .. needed - 1 :
           buffer'[c] = IF c \in offset .. offset + l - 1 THEN <<n, c - offset>>
                                                        ELSE buffer[c]
  BY <1>3, <1>4 DEF CopyName, l
<1>7. TypeOK'
  <2>1. offset' \in 0 .. Word - 1
    <3>1. extent[i + 1] \in Int
      BY <1>2
    <3> QED  BY <1>5, <3>1, WrapType
  <2>2. buffer' \in [0 .. needed' - 1 -> Cells]
    <3>1. ASSUME NEW c \in 0 .. needed - 1 PROVE buffer'[c] \in Cells
      <4>1. CASE c \in offset .. offset + l - 1
        <5>1. c - offset \in Nat
          BY <1>2, <1>3, <4>1
        <5> QED  BY <1>2, <1>6, <4>1, <5>1 DEF Cells
      <4>2. CASE c \notin offset .. offset + l - 1
        BY <1>3, <1>6, <4>2
      <4> QED  BY <4>1, <4>2
    <3>2. buffer' = [c \in 0 .. needed - 1 |-> buffer'[c]]
      BY <1>3, <1>4 DEF CopyName
    <3> QED  BY <1>4, <3>1, <3>2
  <2>3. /\ DOMAIN nameToOffset' \subseteq Names
        /\ \A m \in DOMAIN nameToOffset' : nameToOffset'[m] \in 0 .. Word - 1
    BY <1>2, <1>3, <1>4 DEF IInv, TypeOK, Put
  <2>4. overran' \in BOOLEAN
    BY DEF IInv, TypeOK, Copy
  <2>5. names' \in Seq(Names) /\ extent' \in Seq(Nat)
    BY <1>4 DEF IInv, TypeOK
  <2>6. i' \in 1 .. Len(names') + 1 /\ needed' \in 0 .. Word - 1
    BY <1>2, <1>3, <1>4
  <2> QED  BY <1>1, <2>1, <2>2, <2>3, <2>4, <2>5, <2>6 DEF TypeOK
<1>8. ExtentsAdjoin'
  <2>1. ExtentsAdjoin
    BY DEF IInv
  <2> QED  BY <1>1, <1>2, <1>4, <2>1 DEF ExtentsAdjoin
<1>9. CountersExact'
  BY <1>1, <1>2, <1>4, <1>5 DEF IInv, CountersExact
<1>10. Fits' = Fits
  BY <1>4 DEF Fits
<1>11. ASSUME Fits
       PROVE  /\ offset = extent[i] /\ offset' = offset + l + 1
              /\ offset' <= needed
  BY <1>1, <1>2, <1>4, <1>11, CopyInside DEF n, l
<1>12. NoOverrun'
  <2> SUFFICES ASSUME Fits PROVE ~overran'
    BY <1>10 DEF NoOverrun
  <2>1. offset + l <= needed
    BY <1>2, <1>3, <1>11
  <2>2. ~overran
    BY <1>1 DEF IInv, NoOverrun
  <2> QED  BY <2>1, <2>2 DEF Copy, n, l
<1>13. CopiedSoFar'
  <2> SUFFICES ASSUME Fits
               PROVE  /\ \A j \in 1 .. i' - 1 : ReadsAs(buffer', extent'[j], names'[j])
                      /\ \A c \in DOMAIN buffer' : c >= offset' => buffer'[c] = NUL
    BY <1>10 DEF CopiedSoFar
  <2>1. /\ offset = extent[i] /\ offset' = offset + l + 1 /\ offset' <= needed
    BY <1>11
  <2>2. \A c \in 0 .. needed - 1 : c >= offset => buffer[c] = NUL
    BY <1>1, <1>3 DEF IInv, CopiedSoFar
  <2>3. ASSUME NEW c \in 0 .. needed - 1, c >= offset + l
        PROVE  buffer'[c] = NUL
    <3>1. c >= offset /\ c \notin offset .. offset + l - 1
      BY <1>2, <1>3, <2>3
    <3> QED  BY <1>6, <2>2, <3>1
  <2>4. \A c \in DOMAIN buffer' : c >= offset' => buffer'[c] = NUL
    BY <1>2, <1>3, <1>6, <2>1, <2>3
  <2>5. ReadsAs(buffer', extent'[i], names'[i])
    <3>1. ASSUME NEW k \in 0 .. l - 1
          PROVE  /\ offset + k \in 0 .. needed - 1
                 /\ buffer'[offset + k] = <<n, k>>
      <4>1. /\ offset + k \in 0 .. needed - 1
            /\ offset + k \in offset .. offset + l - 1
            /\ (offset + k) - offset = k
        BY <1>2, <1>3, <2>1
      <4>2. buffer'[offset + k] = <<n, (offset + k) - offset>>
        BY <1>6, <4>1
      <4> QED  BY <4>1, <4>2
    <3>2. offset + l \in 0 .. needed - 1
      BY <1>2, <1>3, <2>1
    <3>3. buffer'[offset + l] = NUL
      <4>1. offset + l >= offset + l
        BY <1>2, <1>3
      <4> QED  BY <2>3, <3>2, <4>1
    <3>4. extent'[i] = offset /\ names'[i] = n /\ NameLength[n] = l
      BY <1>4, <2>1 DEF n, l
    <3>5. offset + l \in DOMAIN buffer'
      BY <1>6, <3>2
    <3>6. ASSUME NEW k \in 0 .. l - 1
          PROVE  offset + k \in DOMAIN buffer' /\ buffer'[offset + k] = <<n, k>>
      BY <1>6, <3>1
    <3> QED  BY <1>2, <1>3, <3>3, <3>4, <3>5, <3>6 DEF ReadsAs
  <2>6. ASSUME NEW j \in 1 .. i - 1 PROVE ReadsAs(buffer', extent'[j], names'[j])
    <3> DEFINE m == names[j]
               o == extent[j]
    <3>1. /\ m \in Names /\ NameLength[m] \in Nat /\ o \in Nat
          /\ o + NameLength[m] + 1 <= offset
      <4>1. /\ j \in 1 .. Len(names) /\ j \in 1 .. Len(names) + 1
            /\ i \in 1 .. Len(names) + 1 /\ j < i
        BY <1>2
      <4>2. names[j] \in Names /\ NameLength[names[j]] \in Nat
        BY <1>2, <4>1
      <4>3. extent[j] \in Nat /\ extent[j] + NameLength[names[j]] + 1 <= extent[i]
        BY <1>2, <4>1
      <4> QED  BY <2>1, <4>2, <4>3
    <3>2. ReadsAs(buffer, o, m)
      BY <1>1 DEF IInv, CopiedSoFar
    <3>3. ASSUME NEW c \in DOMAIN buffer, c < offset
          PROVE  c \in DOMAIN buffer' /\ buffer'[c] = buffer[c]
      BY <1>2, <1>3, <1>6, <3>3
    <3> HIDE DEF m, o
    <3>4. ASSUME NEW k \in 0 .. NameLength[m] - 1
          PROVE  o + k \in DOMAIN buffer' /\ buffer'[o + k] = <<m, k>>
      <4>1. o + k < offset
        BY <1>3, <3>1
      <4>2. o + k \in DOMAIN buffer /\ buffer[o + k] = <<m, k>>
        BY <3>2 DEF ReadsAs
      <4> QED  BY <3>3, <4>1, <4>2
    <3>5. /\ o + NameLength[m] \in DOMAIN buffer'
          /\ buffer'[o + NameLength[m]] = NUL
      <4>1. o + NameLength[m] < offset
        BY <1>3, <3>1
      <4>2. /\ o + NameLength[m] \in DOMAIN buffer
            /\ buffer[o + NameLength[m]] = NUL
        BY <3>2 DEF ReadsAs
      <4> QED  BY <3>3, <4>1, <4>2
    <3>6. extent'[j] = o /\ names'[j] = m
      BY <1>4 DEF m, o
    <3> QED  BY <3>1, <3>4, <3>5, <3>6 DEF ReadsAs
  <2>7. ASSUME NEW j \in 1 .. i' - 1 PROVE ReadsAs(buffer', extent'[j], names'[j])
    <3>1. CASE j = i
      BY <2>5, <3>1
    <3>2. CASE j # i
      <4>1. j \in 1 .. i - 1
        BY <1>2, <1>4, <3>2
      <4> QED  BY <2>6, <4>1
    <3> QED  BY <3>1, <3>2
  <2> QED  BY <2>4, <2>7
<1>14. MapExact'
  <2> SUFFICES ASSUME Fits
               PROVE  /\ \A j \in 1 .. i : names[j] \in DOMAIN nameToOffset'
                      /\ \A m \in DOMAIN nameToOffset' : \E j \in 1 .. i :
                           names[j] = m /\ nameToOffset'[m] = extent[j]
    <3>1. pc' # "measure" /\ i' - 1 = i
      BY <1>1, <1>2, <1>4
    <3> QED  BY <1>4, <1>10, <3>1 DEF MapExact
  <2>1. offset = extent[i]
    BY <1>11
  <2>2. /\ \A j \in 1 .. i - 1 : names[j] \in DOMAIN nameToOffset
        /\ \A m \in DOMAIN nameToOffset :
             \E j \in 1 .. i - 1 : names[j] = m /\ nameToOffset[m] = extent[j]
    BY <1>1 DEF IInv, MapExact
  <2>3. /\ DOMAIN nameToOffset' = DOMAIN nameToOffset \cup {n}
        /\ nameToOffset'[n] = offset
        /\ \A m \in DOMAIN nameToOffset \ {n} :
             nameToOffset'[m] = nameToOffset[m]
    BY <1>4 DEF Put
  <2>4. ASSUME NEW j \in 1 .. i PROVE names[j] \in DOMAIN nameToOffset'
    BY <1>2, <2>2, <2>3 DEF n
  <2>5. ASSUME NEW m \in DOMAIN nameToOffset'
        PROVE  \E j \in 1 .. i : names[j] = m /\ nameToOffset'[m] = extent[j]
    <3>1. CASE m = n
      BY <1>2, <2>1, <2>3, <3>1 DEF n
    <3>2. CASE m # n
      <4>1. m \in DOMAIN nameToOffset /\ nameToOffset'[m] = nameToOffset[m]
        BY <2>3, <3>2
      <4>2. PICK j \in 1 .. i - 1 : names[j] = m /\ nameToOffset[m] = extent[j]
        BY <2>2, <4>1
      <4>3. j \in 1 .. i
        BY <1>2
      <4> QED  BY <4>1, <4>2, <4>3
    <3> QED  BY <3>1, <3>2
  <2> QED  BY <2>4, <2>5
<1> QED
  BY <1>1, <1>7, <1>8, <1>9, <1>12, <1>13, <1>14 DEF IInv, AssertHolds

(* Wrapped or not, both counters end on the size of the table. *)
LEMMA FinishIInv == IInv /\ Finish => IInv'
<1> SUFFICES ASSUME IInv, Finish PROVE IInv'
  OBVIOUS
<1>1. names \in Seq(Names) /\ i = Len(names) + 1 /\ Len(extent) = i
  BY DEF IInv, TypeOK, ExtentsAdjoin, Finish
<1>2. offset = needed
  BY <1>1 DEF IInv, CountersExact, Finish
<1>3. pc' = "done" /\ UNCHANGED <<names, i, needed, offset, buffer,
                                  nameToOffset, overran, extent>>
  BY <1>2 DEF Finish
<1>4. TypeOK'
  BY <1>3 DEF IInv, TypeOK, Finish
<1>5. ExtentsAdjoin' /\ CountersExact'
  BY <1>1, <1>3 DEF IInv, ExtentsAdjoin, CountersExact, Finish
<1>6. CopiedSoFar' /\ MapExact' /\ NoOverrun'
  BY <1>3 DEF IInv, CopiedSoFar, MapExact, NoOverrun, Fits, ReadsAs, Finish
<1>7. pc' # "measure" /\ AssertHolds' /\ i' = Len(names') + 1
  BY <1>1, <1>3 DEF AssertHolds
<1> QED  BY <1>4, <1>5, <1>6, <1>7 DEF IInv

LEMMA StutterIInv == IInv /\ UNCHANGED vars => IInv'
<1> SUFFICES ASSUME IInv, UNCHANGED vars PROVE IInv'
  OBVIOUS
<1> USE DEF vars
<1>1. TypeOK'
  BY DEF IInv, TypeOK
<1>2. ExtentsAdjoin' /\ CountersExact'
  BY DEF IInv, ExtentsAdjoin, CountersExact
<1>3. AssertHolds' /\ NoOverrun'
  BY DEF IInv, AssertHolds, NoOverrun, Fits
<1>4. CopiedSoFar' /\ MapExact'
  BY DEF IInv, CopiedSoFar, MapExact, Fits, ReadsAs
<1>5. (pc = "measure" => ~overran)' /\ (pc = "done" => i = Len(names) + 1)'
  BY DEF IInv
<1> QED  BY <1>1, <1>2, <1>3, <1>4, <1>5 DEF IInv

(* IInv is inductive: it holds of every reachable state of dump.            *)
THEOREM Inductive == Spec => []IInv
<1>1. IInv /\ [Next]_vars => IInv'
  BY MeasureIInv, AllocateIInv, CopyIInv, FinishIInv, StutterIInv
     DEF Next, Returned
<1> QED  BY InitIInv, <1>1, PTL DEF Spec

(* Both counters stay uint32_t values and the buffer keeps the size the     *)
(* first loop of string_table.cpp:15-17 gave it.                            *)
THEOREM TypeCorrect == Spec => []TypeOK
<1>1. IInv => TypeOK
  BY DEF IInv
<1> QED  BY Inductive, <1>1, PTL

(* The assertion of string_table.cpp:30 never fails, for any names and any  *)
(* width of the counters, wrapped or not.                                   *)
THEOREM LoopsAgree == Spec => []AssertHolds
<1>1. IInv => AssertHolds
  BY DEF IInv
<1> QED  BY Inductive, <1>1, PTL

(* No memcpy of string_table.cpp:25 leaves the buffer of a table whose size *)
(* a uint32_t can hold.                                                     *)
THEOREM CopiesStayInside == Spec => []NoOverrun
<1>1. IInv => NoOverrun
  BY DEF IInv
<1> QED  BY Inductive, <1>1, PTL

(* What has been copied is found where the map says, when dump returns.      *)
LEMMA NamesFound == IInv => EveryNameFound
<1> SUFFICES ASSUME IInv, pc = "done", Fits, NEW k \in 1 .. Len(names)
             PROVE  /\ names[k] \in DOMAIN nameToOffset
                    /\ ReadsAs(buffer, nameToOffset[names[k]], names[k])
  BY DEF EveryNameFound
<1>1. i = Len(names) + 1 /\ names \in Seq(Names)
  BY DEF IInv, TypeOK
<1>2. names[k] \in DOMAIN nameToOffset
  BY <1>1 DEF IInv, MapExact
<1>3. PICK j \in 1 .. i - 1 :
        names[j] = names[k] /\ nameToOffset[names[k]] = extent[j]
  BY <1>2 DEF IInv, MapExact
<1>4. ReadsAs(buffer, extent[j], names[j])
  BY <1>3 DEF IInv, CopiedSoFar
<1> QED  BY <1>2, <1>3, <1>4

(* Every name of a table that fits is found at the offset the map gives for *)
(* it, terminated, however many duplicates or empty names the input has.    *)
THEOREM NamesAreFound == Spec => []EveryNameFound
BY Inductive, NamesFound, PTL
=============================================================================
