------------------------ MODULE LoaderStructsProofs ------------------------
(***************************************************************************)
(* Lemmas about LoaderStructs: where the members of a structure lie, that  *)
(* structures written side by side do not touch each other, that a member  *)
(* of a file is read as it was written, and the sizes of the structures of *)
(* mach-o/loader.h and nlist.h in both widths.                             *)
(***************************************************************************)
EXTENDS LoaderStructs, FiniteSetTheorems, TLAPS

-----------------------------------------------------------------------------
(* Induction over the natural numbers, for a set instead of a predicate. *)

(* The order of the natural numbers, as a set of pairs for WFMin. *)
LEMMA LessIsWellFounded ==
  IsWellFoundedOn({p \in Nat \X Nat : p[1] < p[2]}, Nat)
BY NatLessThanWellFounded, Zenon DEF OpToRel

(* A set of natural numbers that is not empty has a least element. *)
LEMMA LeastNatural ==
  ASSUME NEW T \in SUBSET Nat, T # {}
  PROVE  \E n \in T : \A m \in T : n <= m
<1> DEFINE R == {p \in Nat \X Nat : p[1] < p[2]}
<1>1. \E n \in T : \A m \in T : ~(<<m, n>> \in R)
  <2>1. IsWellFoundedOn(R, Nat)
    BY LessIsWellFounded
  <2> HIDE DEF R
  <2> QED  BY <2>1, WFMin, Zenon
<1>2. PICK n \in T : \A m \in T : ~(<<m, n>> \in R)
  BY <1>1
<1>3. ASSUME NEW m \in T, m < n PROVE <<m, n>> \in R
  <2>1. <<m, n>> \in Nat \X Nat
    BY <1>2
  <2> QED  BY <1>3, <2>1
<1>4. \A m \in T : ~(m < n)
  BY <1>2, <1>3
<1> QED  BY <1>2, <1>4

(* A set of natural numbers that has 0 and the successor of each of its     *)
(* elements has all of them.                                                *)
LEMMA Induction ==
  ASSUME NEW S \in SUBSET Nat, 0 \in S, \A n \in S : n + 1 \in S
  PROVE  S = Nat
<1> SUFFICES ASSUME S # Nat PROVE FALSE
  OBVIOUS
<1>1. PICK n \in Nat \ S : \A m \in Nat \ S : n <= m
  BY LeastNatural
<1>2. n - 1 \in S
  BY <1>1
<1> QED  BY <1>1, <1>2

-----------------------------------------------------------------------------
(* Sums. *)

(* g adds up w over each subset of S, in the order MapThenSumSet takes the   *)
(* elements.                                                                *)
SumsUp(g, S, w) ==
  g = [s \in SUBSET S |->
         IF s = {} THEN 0
         ELSE LET x == CHOOSE x \in s : TRUE IN w[x] + g[s \ {x}]]

(* The sum over all of S. *)
Total(S, w) == (CHOOSE g : SumsUp(g, S, w))[S]

(* There is such a function for every finite set. *)
LEMMA SumsExist ==
  ASSUME NEW S, IsFiniteSet(S), NEW w
  PROVE  \E g : SumsUp(g, S, w)
<1> DEFINE First(s) == CHOOSE x \in s : TRUE
           Sum(g, s) == IF s = {} THEN 0 ELSE w[First(s)] + g[s \ {First(s)}]
           Upto(g, d) == \A s \in SUBSET S : Cardinality(s) <= d => g[s] = Sum(g, s)
           D == {d \in Nat : \E g : Upto(g, d)}
<1>1. \A s \in SUBSET S : IsFiniteSet(s) /\ Cardinality(s) \in Nat
  BY FS_Subset, FS_CardinalityType
<1>2. 0 \in D
  <2> DEFINE g == [s \in SUBSET S |-> 0]
  <2>1. \A s \in SUBSET S : Cardinality(s) <= 0 => s = {}
    BY <1>1, FS_EmptySet
  <2>2. Upto(g, 0)
    BY <2>1
  <2> QED  BY <2>2
<1>3. ASSUME NEW d \in D PROVE d + 1 \in D
  <2>1. PICK g : Upto(g, d)
    OBVIOUS
  <2> DEFINE h == [s \in SUBSET S |-> Sum(g, s)]
  <2>2. ASSUME NEW s \in SUBSET S, Cardinality(s) <= d + 1
        PROVE  h[s] = Sum(h, s)
    <3>1. CASE s = {}
      BY <3>1
    <3>2. CASE s # {}
      <4> DEFINE r == s \ {First(s)}
      <4>1. First(s) \in s /\ r \in SUBSET S
        BY <3>2
      <4>2. Cardinality(r) = Cardinality(s) - 1
        BY <1>1, <4>1, FS_RemoveElement
      <4>3. Cardinality(r) <= d
        BY <1>1, <2>2, <4>2
      <4>4. g[r] = Sum(g, r) /\ h[r] = Sum(g, r)
        BY <2>1, <4>1, <4>3
      <4> HIDE DEF r, First
      <4>5. h[s] = Sum(g, s) /\ g[r] = h[r]
        BY <4>4
      <4> QED  BY <3>2, <4>5 DEF r
    <3> QED  BY <3>1, <3>2
  <2>3. Upto(h, d + 1)
    BY <2>2
  <2> HIDE DEF Upto, h
  <2> QED  BY <2>3
<1>4. Cardinality(S) \in D
  <2> HIDE DEF D
  <2>1. D \in SUBSET Nat
    BY DEF D
  <2> QED  BY <1>1, <1>2, <1>3, <2>1, Induction
<1>5. PICK g : Upto(g, Cardinality(S))
  BY <1>4
<1> DEFINE h == [s \in SUBSET S |-> g[s]]
<1>6. \A s \in SUBSET S : g[s] = Sum(g, s)
  BY <1>1, <1>5, FS_Subset
<1>7. \A s \in SUBSET S : Sum(g, s) = Sum(h, s)
  OBVIOUS
<1>8. h = [s \in SUBSET S |-> Sum(h, s)]
  BY <1>6, <1>7
<1> QED  BY <1>8 DEF SumsUp

(* The order does not matter. *)
LEMMA SumsCommute ==
  ASSUME NEW S, IsFiniteSet(S), NEW w, \A x \in S : w[x] \in Int,
         NEW g, SumsUp(g, S, w)
  PROVE  \A s \in SUBSET S : /\ g[s] \in Int
                             /\ \A x \in s : g[s] = w[x] + g[s \ {x}]
<1> DEFINE First(s) == CHOOSE x \in s : TRUE
           Rule(s) == g[s] \in Int /\ \A x \in s : g[s] = w[x] + g[s \ {x}]
           D == {d \in Nat : \A s \in SUBSET S : Cardinality(s) <= d => Rule(s)}
<1>1. \A s \in SUBSET S : IsFiniteSet(s) /\ Cardinality(s) \in Nat
  BY FS_Subset, FS_CardinalityType
<1>2. \A s \in SUBSET S : g[s] = IF s = {} THEN 0 ELSE w[First(s)] + g[s \ {First(s)}]
  BY DEF SumsUp
<1>3. \A s \in SUBSET S : s # {} => First(s) \in s
  OBVIOUS
<1> HIDE DEF First
<1>8. Rule({})
  BY <1>2
<1>4. 0 \in D
  <2>1. \A s \in SUBSET S : Cardinality(s) <= 0 => s = {}
    BY <1>1, FS_EmptySet
  <2> QED  BY <1>8, <2>1
<1>5. ASSUME NEW d \in D PROVE d + 1 \in D
  <2> HIDE DEF Rule
  <2> SUFFICES ASSUME NEW s \in SUBSET S, Cardinality(s) <= d + 1, s # {}
               PROVE  Rule(s)
    BY <1>8
  <2> USE DEF Rule
  <2>1. \A x \in s : s \ {x} \in SUBSET S /\ Cardinality(s \ {x}) <= d
    <3> SUFFICES ASSUME NEW x \in s
                 PROVE  s \ {x} \in SUBSET S /\ Cardinality(s \ {x}) <= d
      OBVIOUS
    <3>1. Cardinality(s \ {x}) = Cardinality(s) - 1
      BY <1>1, FS_RemoveElement
    <3> QED  BY <1>1, <3>1
  <2>2. \A x \in s : Rule(s \ {x})
    BY <2>1
  <2> DEFINE c == First(s)
  <2>3. c \in s /\ g[s] = w[c] + g[s \ {c}]
    BY <1>2, <1>3
  <2> HIDE DEF c
  <2>4. ASSUME NEW x \in s, x # c PROVE g[s] = w[x] + g[s \ {x}]
    <3>1. g[s \ {c}] = w[x] + g[(s \ {c}) \ {x}]
      BY <2>2, <2>3, <2>4
    <3>2. g[s \ {x}] = w[c] + g[(s \ {x}) \ {c}]
      BY <2>2, <2>3, <2>4
    <3>3. (s \ {c}) \ {x} = (s \ {x}) \ {c}
      OBVIOUS
    <3> DEFINE r == g[(s \ {x}) \ {c}]
    <3>4. r \in Int
      <4>1. (s \ {x}) \ {c} \in SUBSET S /\ (s \ {x}) \ {c} \in SUBSET (s \ {x})
        OBVIOUS
      <4>2. Cardinality((s \ {x}) \ {c}) <= d
        BY <1>1, <2>1, <4>1, FS_Subset
      <4> QED  BY <4>1, <4>2
    <3>5. w[x] \in Int /\ w[c] \in Int
      BY <2>3
    <3> HIDE DEF r
    <3>6. g[s \ {c}] = w[x] + r /\ g[s \ {x}] = w[c] + r
      BY <3>1, <3>2, <3>3 DEF r
    <3> QED  BY <2>3, <3>4, <3>5, <3>6
  <2>5. g[s] \in Int
    <3>1. g[s \ {c}] \in Int /\ w[c] \in Int
      BY <2>2, <2>3
    <3> QED  BY <2>3, <3>1
  <2> QED  BY <2>3, <2>4, <2>5
<1>6. D = Nat
  <2> HIDE DEF D
  <2>1. D \in SUBSET Nat
    BY DEF D
  <2> QED  BY <1>4, <1>5, <2>1, Induction
<1>7. ASSUME NEW s \in SUBSET S PROVE Rule(s)
  BY <1>1, <1>6
<1> QED  BY <1>7

(* The sum depends on the summands alone. *)
LEMMA SumsDetermined ==
  ASSUME NEW S, IsFiniteSet(S), NEW T \in SUBSET S, NEW w, NEW v, NEW g, NEW h,
         \A x \in T : w[x] = v[x], SumsUp(g, S, w), SumsUp(h, T, v)
  PROVE  \A s \in SUBSET T : g[s] = h[s]
<1> DEFINE First(s) == CHOOSE x \in s : TRUE
           D == {d \in Nat : \A s \in SUBSET T : Cardinality(s) <= d => g[s] = h[s]}
<1>1. \A s \in SUBSET T : IsFiniteSet(s) /\ Cardinality(s) \in Nat
  BY FS_Subset, FS_CardinalityType
<1>2. /\ \A s \in SUBSET T : g[s] = IF s = {} THEN 0 ELSE w[First(s)] + g[s \ {First(s)}]
      /\ \A s \in SUBSET T : h[s] = IF s = {} THEN 0 ELSE v[First(s)] + h[s \ {First(s)}]
  BY DEF SumsUp
<1>3. \A s \in SUBSET T : s # {} => First(s) \in s
  OBVIOUS
<1> HIDE DEF First
<1>4. 0 \in D
  <2>1. \A s \in SUBSET T : Cardinality(s) <= 0 => s = {}
    BY <1>1, FS_EmptySet
  <2> QED  BY <1>2, <2>1
<1>5. ASSUME NEW d \in D PROVE d + 1 \in D
  <2> SUFFICES ASSUME NEW s \in SUBSET T, Cardinality(s) <= d + 1, s # {}
               PROVE  g[s] = h[s]
    <3>1. g[{}] = h[{}]
      BY <1>2
    <3> QED  BY <3>1
  <2> DEFINE c == First(s)
  <2>1. c \in s /\ w[c] = v[c] /\ g[s] = w[c] + g[s \ {c}] /\ h[s] = v[c] + h[s \ {c}]
    BY <1>2, <1>3
  <2> HIDE DEF c
  <2>2. Cardinality(s \ {c}) = Cardinality(s) - 1
    BY <1>1, <2>1, FS_RemoveElement
  <2>3. g[s \ {c}] = h[s \ {c}]
    BY <1>1, <2>2
  <2> QED  BY <2>1, <2>3
<1>6. D = Nat
  <2> HIDE DEF D
  <2>1. D \in SUBSET Nat
    BY DEF D
  <2> QED  BY <1>4, <1>5, <2>1, Induction
<1> QED  BY <1>1, <1>6

(* The sum over the first numbers grows by one summand at a time. *)
LEMMA TotalOfNone ==
  ASSUME NEW w
  PROVE  Total({}, w) = 0
<1>1. PICK g : SumsUp(g, {}, w)
  BY SumsExist, FS_EmptySet
<1>2. SumsUp(CHOOSE h : SumsUp(h, {}, w), {}, w)
  BY <1>1
<1> QED  BY <1>2 DEF Total, SumsUp

(* One more summand. *)
LEMMA TotalOfOneMore ==
  ASSUME NEW n \in Nat, NEW w, NEW v,
         \A k \in 1 .. n + 1 : w[k] \in Int, \A k \in 1 .. n : v[k] = w[k]
  PROVE  /\ Total(1 .. n + 1, w) = Total(1 .. n, v) + w[n + 1]
         /\ Total(1 .. n, v) \in Int
<1> DEFINE S == 1 .. n + 1
           T == 1 .. n
           g == CHOOSE g : SumsUp(g, S, w)
           h == CHOOSE h : SumsUp(h, T, v)
<1>1. IsFiniteSet(S) /\ IsFiniteSet(T) /\ T \in SUBSET S
  BY FS_Interval
<1>2. (\E f : SumsUp(f, S, w)) /\ (\E f : SumsUp(f, T, v))
  BY <1>1, SumsExist
<1>3. SumsUp(g, S, w) /\ SumsUp(h, T, v)
  BY <1>2
<1>4. Total(S, w) = g[S] /\ Total(T, v) = h[T]
  BY DEF Total
<1>5. n + 1 \in S /\ S \ {n + 1} = T
  OBVIOUS
<1> HIDE DEF S, g, h
<1>6. \A k \in S : w[k] \in Int
  BY DEF S
<1>7. g[S] = w[n + 1] + g[T] /\ g[T] \in Int
  <2>1. \A s \in SUBSET S : g[s] \in Int /\ \A x \in s : g[s] = w[x] + g[s \ {x}]
    BY <1>1, <1>3, <1>6, SumsCommute
  <2> QED  BY <1>1, <1>5, <2>1
<1>8. g[T] = h[T]
  BY <1>1, <1>3, SumsDetermined
<1>9. w[n + 1] \in Int
  BY <1>5, <1>6
<1> QED  BY <1>4, <1>7, <1>8, <1>9 DEF S

-----------------------------------------------------------------------------
(* Structures: members of known widths, one behind the other                *)
(* (LoaderStructs).                                                         *)

(* A structure: members with a width. *)
Structure(struct) ==
  /\ Len(struct) \in Nat /\ struct = [k \in 1 .. Len(struct) |-> struct[k]]
  /\ \A k \in 1 .. Len(struct) : struct[k].width \in Nat \ {0}

(* An offset is the sum of the widths before it. *)
LEMMA OffsetIsTotal ==
  ASSUME NEW struct, NEW k \in Nat
  PROVE  OffsetOf(struct, k) = Total(1 .. k - 1, [j \in 1 .. k - 1 |-> struct[j].width])
BY DEF OffsetOf, MapThenSumSet, MapThenFoldSet, Total, SumsUp

(* The first member lies at the beginning of its structure. *)
LEMMA OffsetOfFirst ==
  ASSUME NEW struct
  PROVE  OffsetOf(struct, 1) = 0
<1>1. 1 .. 1 - 1 = {}
  OBVIOUS
<1> QED  BY <1>1, OffsetIsTotal, TotalOfNone

(* A member lies right behind the one before it. *)
LEMMA OffsetOfNext ==
  ASSUME NEW struct, NEW k \in Nat \ {0}, \A j \in 1 .. k : struct[j].width \in Nat
  PROVE  /\ OffsetOf(struct, k + 1) = OffsetOf(struct, k) + struct[k].width
         /\ OffsetOf(struct, k) \in Int
<1> DEFINE w(n) == [j \in 1 .. n |-> struct[j].width]
           m == k - 1
<1>1. /\ m \in Nat /\ m + 1 = k /\ (k + 1) - 1 = m + 1
      /\ \A j \in 1 .. m + 1 : w(m + 1)[j] = struct[j].width /\ w(m + 1)[j] \in Int
      /\ \A j \in 1 .. m : w(m)[j] = w(m + 1)[j]
  OBVIOUS
<1>2. /\ OffsetOf(struct, k + 1) = Total(1 .. (k + 1) - 1, w((k + 1) - 1))
      /\ OffsetOf(struct, k) = Total(1 .. m, w(m))
  BY OffsetIsTotal
<1> HIDE DEF w, m
<1>3. /\ Total(1 .. m + 1, w(m + 1)) = Total(1 .. m, w(m)) + w(m + 1)[m + 1]
      /\ Total(1 .. m, w(m)) \in Int
  BY <1>1, TotalOfOneMore
<1>4. m + 1 \in 1 .. m + 1
  BY <1>1
<1> QED  BY <1>1, <1>2, <1>3, <1>4

(* Two structures that begin alike have their members at the same places. *)
LEMMA OffsetOfPrefix ==
  ASSUME NEW a, NEW b, NEW n \in Nat,
         \A j \in 1 .. n : a[j].width \in Nat /\ a[j].width = b[j].width
  PROVE  \A k \in 1 .. n + 1 : OffsetOf(a, k) = OffsetOf(b, k) /\ OffsetOf(a, k) \in Nat
<1> DEFINE S == {d \in Nat : d <= n => /\ OffsetOf(a, d + 1) = OffsetOf(b, d + 1)
                                       /\ OffsetOf(a, d + 1) \in Nat}
<1>1. 0 \in S
  BY OffsetOfFirst
<1>2. ASSUME NEW d \in S PROVE d + 1 \in S
  <2> SUFFICES ASSUME d + 1 <= n
               PROVE  /\ OffsetOf(a, (d + 1) + 1) = OffsetOf(b, (d + 1) + 1)
                      /\ OffsetOf(a, (d + 1) + 1) \in Nat
    OBVIOUS
  <2>1. \A j \in 1 .. d + 1 : a[j].width \in Nat /\ b[j].width \in Nat
    OBVIOUS
  <2>2. /\ OffsetOf(a, (d + 1) + 1) = OffsetOf(a, d + 1) + a[d + 1].width
        /\ OffsetOf(b, (d + 1) + 1) = OffsetOf(b, d + 1) + b[d + 1].width
    BY <2>1, OffsetOfNext
  <2>3. a[d + 1].width \in Nat /\ a[d + 1].width = b[d + 1].width
    OBVIOUS
  <2> QED  BY <2>2, <2>3
<1>3. S = Nat
  <2> HIDE DEF S
  <2>1. S \in SUBSET Nat
    BY DEF S
  <2> QED  BY <1>1, <1>2, <2>1, Induction
<1> QED
  <2> SUFFICES ASSUME NEW k \in 1 .. n + 1
               PROVE  OffsetOf(a, k) = OffsetOf(b, k) /\ OffsetOf(a, k) \in Nat
    OBVIOUS
  <2>1. k - 1 \in S
    <3> HIDE DEF S
    <3> QED  BY <1>3
  <2>2. (k - 1) + 1 = k /\ k - 1 <= n
    BY <1>1
  <2> QED  BY <2>1, <2>2

(* A member lies behind all earlier ones. *)
LEMMA OffsetsIncrease ==
  ASSUME NEW struct, Structure(struct)
  PROVE  /\ \A k \in 1 .. Len(struct) + 1 : OffsetOf(struct, k) \in Nat
         /\ \A j \in 1 .. Len(struct), k \in 1 .. Len(struct) + 1 :
              j < k => OffsetOf(struct, j) + struct[j].width <= OffsetOf(struct, k)
<1> DEFINE n == Len(struct)
           S == {d \in Nat : d <= n =>
                   \A j \in 1 .. d : OffsetOf(struct, j) + struct[j].width <= OffsetOf(struct, d + 1)}
<1>1. n \in Nat /\ \A j \in 1 .. n : struct[j].width \in Nat \ {0}
  BY DEF Structure
<1>2. \A k \in 1 .. n + 1 : OffsetOf(struct, k) \in Nat
  BY <1>1, OffsetOfPrefix
<1> HIDE DEF n
<1>3. 0 \in S
  OBVIOUS
<1>4. ASSUME NEW d \in S PROVE d + 1 \in S
  <2> SUFFICES ASSUME d + 1 <= n, NEW j \in 1 .. d + 1
               PROVE  OffsetOf(struct, j) + struct[j].width <= OffsetOf(struct, (d + 1) + 1)
    OBVIOUS
  <2>1. OffsetOf(struct, (d + 1) + 1) = OffsetOf(struct, d + 1) + struct[d + 1].width
    BY <1>1, OffsetOfNext
  <2>2. OffsetOf(struct, j) \in Nat /\ struct[j].width \in Nat /\ struct[d + 1].width \in Nat
        /\ OffsetOf(struct, d + 1) \in Nat
    BY <1>1, <1>2
  <2>3. CASE j = d + 1
    BY <2>1, <2>2, <2>3
  <2>4. CASE j # d + 1
    <3>1. d <= n /\ j \in 1 .. d
      BY <1>1, <2>4
    <3>2. OffsetOf(struct, j) + struct[j].width <= OffsetOf(struct, d + 1)
      BY <3>1
    <3> QED  BY <2>1, <2>2, <3>2
  <2> QED  BY <2>3, <2>4
<1>5. S = Nat
  <2> HIDE DEF S
  <2>1. S \in SUBSET Nat
    BY DEF S
  <2> QED  BY <1>3, <1>4, <2>1, Induction
<1>6. ASSUME NEW j \in 1 .. n, NEW k \in 1 .. n + 1, j < k
      PROVE  OffsetOf(struct, j) + struct[j].width <= OffsetOf(struct, k)
  <2>1. k - 1 \in S
    <3> HIDE DEF S
    <3> QED  BY <1>5, <1>1
  <2>2. (k - 1) + 1 = k /\ k - 1 <= n /\ j \in 1 .. k - 1
    BY <1>1, <1>6
  <2> QED  BY <2>1, <2>2
<1> QED  BY <1>2, <1>6 DEF n

-----------------------------------------------------------------------------
(* Sizes *)

(* A structure behind another one is a structure. *)
LEMMA StructureJoin ==
  ASSUME NEW a, NEW b, Structure(a), Structure(b)
  PROVE  /\ Structure(a \o b) /\ Len(a \o b) = Len(a) + Len(b)
         /\ \A k \in 1 .. Len(a) : (a \o b)[k] = a[k]
         /\ \A k \in 1 .. Len(b) : (a \o b)[Len(a) + k] = b[k]
<1> DEFINE T == {a[k] : k \in 1 .. Len(a)} \cup {b[k] : k \in 1 .. Len(b)}
<1>0. a \in Seq(T) /\ b \in Seq(T)
  BY DEF Structure
<1> HIDE DEF T
<1>1. /\ a \o b \in Seq(T) /\ Len(a \o b) = Len(a) + Len(b)
      /\ \A k \in 1 .. Len(a) : (a \o b)[k] = a[k]
      /\ \A k \in Len(a) + 1 .. Len(a) + Len(b) : (a \o b)[k] = b[k - Len(a)]
  BY <1>0
<1>2. Structure(a \o b)
  <2> SUFFICES ASSUME NEW k \in 1 .. Len(a) + Len(b)
               PROVE  (a \o b)[k].width \in Nat \ {0}
    <3> DEFINE c == a \o b
    <3>1. c \in Seq(T)
      BY <1>1
    <3> HIDE DEF c
    <3>2. c = [k \in 1 .. Len(c) |-> c[k]]
      BY <3>1
    <3> QED  BY <1>0, <1>1, <3>2 DEF Structure, c
  <2>1. CASE k <= Len(a)
    BY <1>1, <2>1 DEF Structure
  <2>2. CASE k > Len(a)
    <3>1. (a \o b)[k] = b[k - Len(a)] /\ k - Len(a) \in 1 .. Len(b)
      BY <1>1, <2>2
    <3> QED  BY <3>1 DEF Structure
  <2> QED  BY <2>1, <2>2
<1>3. \A k \in 1 .. Len(b) : Len(a) + k - Len(a) = k /\ Len(a) + k \in Len(a) + 1 .. Len(a) + Len(b)
  BY <1>0
<1> QED  BY <1>1, <1>2, <1>3

(* The members of the second one move by the size of the first. *)
LEMMA OffsetOfJoin ==
  ASSUME NEW a, NEW b, Structure(a), Structure(b)
  PROVE  /\ \A k \in 1 .. Len(a) + 1 : OffsetOf(a \o b, k) = OffsetOf(a, k)
         /\ \A k \in 1 .. Len(b) + 1 :
              OffsetOf(a \o b, Len(a) + k) = SizeOf(a) + OffsetOf(b, k)
<1> DEFINE c == a \o b
           m == Len(a)
           n == Len(b)
<1>1. /\ Structure(c) /\ m \in Nat /\ n \in Nat /\ Len(c) = m + n
      /\ \A k \in 1 .. m : c[k] = a[k]
      /\ \A k \in 1 .. n : c[m + k] = b[k]
  BY StructureJoin
<1>2. /\ \A k \in 1 .. m : a[k].width \in Nat
      /\ \A k \in 1 .. n : b[k].width \in Nat
      /\ \A k \in 1 .. m + n : c[k].width \in Nat
  BY <1>1 DEF Structure
<1>s. SizeOf(a) = OffsetOf(a, m + 1)
  BY DEF SizeOf
<1> HIDE DEF c, m, n
<1>3. \A k \in 1 .. m + 1 : OffsetOf(c, k) = OffsetOf(a, k) /\ OffsetOf(a, k) \in Nat
  <2>1. \A j \in 1 .. m : a[j].width \in Nat /\ a[j].width = c[j].width
    BY <1>1, <1>2
  <2> QED  BY <1>1, <2>1, OffsetOfPrefix
<1>4. \A k \in 1 .. n + 1 : OffsetOf(b, k) \in Nat
  BY <1>1, <1>2, OffsetOfPrefix
<1> DEFINE S == {d \in Nat : d <= n => OffsetOf(c, m + (d + 1)) = OffsetOf(a, m + 1) + OffsetOf(b, d + 1)}
<1>5. 0 \in S
  <2>1. OffsetOf(b, 0 + 1) = 0
    BY OffsetOfFirst
  <2> QED  BY <1>1, <1>3, <2>1
<1>6. ASSUME NEW d \in S PROVE d + 1 \in S
  <2> SUFFICES ASSUME d + 1 <= n
               PROVE  OffsetOf(c, m + ((d + 1) + 1)) = OffsetOf(a, m + 1) + OffsetOf(b, (d + 1) + 1)
    OBVIOUS
  <2>1. OffsetOf(c, m + (d + 1)) = OffsetOf(a, m + 1) + OffsetOf(b, d + 1)
    BY <1>1
  <2>2. OffsetOf(b, (d + 1) + 1) = OffsetOf(b, d + 1) + b[d + 1].width
    BY <1>1, <1>2, OffsetOfNext
  <2>3. OffsetOf(c, (m + (d + 1)) + 1) = OffsetOf(c, m + (d + 1)) + c[m + (d + 1)].width
    <3> DEFINE e == m + (d + 1)
    <3>1. e \in Nat \ {0} /\ \A j \in 1 .. e : j \in 1 .. m + n
      BY <1>1
    <3> HIDE DEF e
    <3>2. OffsetOf(c, e + 1) = OffsetOf(c, e) + c[e].width
      BY <1>2, <3>1, OffsetOfNext
    <3> QED  BY <3>2 DEF e
  <2>4. (m + (d + 1)) + 1 = m + ((d + 1) + 1) /\ c[m + (d + 1)] = b[d + 1]
        /\ b[d + 1].width \in Nat /\ OffsetOf(b, d + 1) \in Nat /\ OffsetOf(a, m + 1) \in Nat
    BY <1>1, <1>2, <1>3, <1>4
  <2> QED  BY <2>1, <2>2, <2>3, <2>4
<1>7. S = Nat
  <2> HIDE DEF S
  <2>1. S \in SUBSET Nat
    BY DEF S
  <2> QED  BY <1>5, <1>6, <2>1, Induction
<1>8. ASSUME NEW k \in 1 .. n + 1
      PROVE  OffsetOf(c, m + k) = OffsetOf(a, m + 1) + OffsetOf(b, k)
  <2>1. k - 1 \in S
    <3> HIDE DEF S
    <3> QED  BY <1>7, <1>1
  <2>2. (k - 1) + 1 = k /\ k - 1 <= n
    BY <1>1
  <2> QED  BY <2>1, <2>2
<1> QED  BY <1>3, <1>8, <1>s DEF c, m, n

(* The sizes add up. *)
LEMMA SizeOfJoin ==
  ASSUME NEW a, NEW b, Structure(a), Structure(b)
  PROVE  SizeOf(a \o b) = SizeOf(a) + SizeOf(b)
<1>1. Len(a \o b) + 1 = Len(a) + (Len(b) + 1) /\ Len(b) + 1 \in 1 .. Len(b) + 1
  BY StructureJoin
<1> QED  BY <1>1, OffsetOfJoin DEF SizeOf

(* Members of the same width. *)
LEMMA SizeOfEqual ==
  ASSUME NEW struct, Structure(struct), NEW w \in Nat,
         \A k \in 1 .. Len(struct) : struct[k].width = w
  PROVE  \A k \in 1 .. Len(struct) + 1 : OffsetOf(struct, k) = (k - 1) * w
<1> DEFINE n == Len(struct)
           S == {d \in Nat : d <= n => OffsetOf(struct, d + 1) = d * w}
<1>1. n \in Nat /\ \A k \in 1 .. n : struct[k].width \in Nat
  BY DEF Structure
<1>2. 0 \in S
  BY OffsetOfFirst
<1>3. ASSUME NEW d \in S PROVE d + 1 \in S
  <2> SUFFICES ASSUME d + 1 <= n
               PROVE  OffsetOf(struct, (d + 1) + 1) = (d + 1) * w
    OBVIOUS
  <2>1. OffsetOf(struct, (d + 1) + 1) = OffsetOf(struct, d + 1) + struct[d + 1].width
    BY <1>1, OffsetOfNext
  <2>2. OffsetOf(struct, d + 1) = d * w /\ struct[d + 1].width = w
    BY <1>1
  <2>3. (d + 1) * w = d * w + w
    OBVIOUS
  <2> QED  BY <2>1, <2>2, <2>3
<1>4. S = Nat
  <2> HIDE DEF S
  <2>1. S \in SUBSET Nat
    BY DEF S
  <2> QED  BY <1>2, <1>3, <2>1, Induction
<1>5. ASSUME NEW k \in 1 .. n + 1 PROVE OffsetOf(struct, k) = (k - 1) * w
  <2>1. k - 1 \in S
    <3> HIDE DEF S
    <3> QED  BY <1>4, <1>1
  <2>2. (k - 1) + 1 = k /\ k - 1 <= n
    BY <1>1
  <2> QED  BY <2>1, <2>2
<1> QED  BY <1>5

-----------------------------------------------------------------------------
(* Cells of a file that do not touch each other, and what is read from      *)
(* them.                                                                    *)

(* Cells that begin between lo and hi, each at a position of its own. *)
Apart(cells, lo, hi) ==
  /\ lo \in Int /\ hi \in Int /\ lo <= hi
  /\ \A c \in cells : c.at \in Int /\ lo <= c.at /\ c.at < hi
  /\ \A c, d \in cells : c.at = d.at => c = d

(* Two regions that do not overlap, side by side. *)
LEMMA ApartJoin ==
  ASSUME NEW A, NEW B, NEW lo, NEW mid, NEW next, NEW hi,
         Apart(A, lo, mid), Apart(B, next, hi), mid <= next
  PROVE  Apart(A \cup B, lo, hi)
<1>1. ASSUME NEW c \in A, NEW d \in B PROVE c.at # d.at
  BY DEF Apart
<1> QED  BY <1>1 DEF Apart

(* Members of a structure at their places. *)
LEMMA MembersApart ==
  ASSUME NEW struct, Structure(struct), NEW pos \in Int, NEW cell,
         \A k \in 1 .. Len(struct) : cell[k].at = pos + OffsetOf(struct, k)
  PROVE  Apart({cell[k] : k \in DOMAIN struct}, pos, pos + SizeOf(struct))
<1> DEFINE n == Len(struct)
<1>1. /\ n \in Nat /\ DOMAIN struct = 1 .. n
      /\ \A k \in 1 .. n : struct[k].width \in Nat \ {0}
      /\ \A k \in 1 .. n + 1 : OffsetOf(struct, k) \in Nat
      /\ \A j \in 1 .. n, k \in 1 .. n + 1 :
           j < k => OffsetOf(struct, j) + struct[j].width <= OffsetOf(struct, k)
  BY OffsetsIncrease DEF Structure
<1>2. SizeOf(struct) = OffsetOf(struct, n + 1)
  BY DEF SizeOf
<1>3. \A k \in 1 .. n : cell[k].at = pos + OffsetOf(struct, k)
  OBVIOUS
<1> HIDE DEF n
<1>4. ASSUME NEW k \in 1 .. n
      PROVE  cell[k].at \in Int /\ pos <= cell[k].at /\ cell[k].at < pos + OffsetOf(struct, n + 1)
  <2>1. OffsetOf(struct, k) + struct[k].width <= OffsetOf(struct, n + 1)
    BY <1>1
  <2>2. OffsetOf(struct, k) \in Nat /\ struct[k].width \in Nat \ {0} /\ OffsetOf(struct, n + 1) \in Nat
    BY <1>1
  <2> QED  BY <1>3, <2>1, <2>2
<1>5. ASSUME NEW j \in 1 .. n, NEW k \in 1 .. n, j < k
      PROVE  cell[j].at < cell[k].at
  <2>1. OffsetOf(struct, j) + struct[j].width <= OffsetOf(struct, k)
    BY <1>1, <1>5
  <2>2. OffsetOf(struct, j) \in Nat /\ struct[j].width \in Nat \ {0} /\ OffsetOf(struct, k) \in Nat
    BY <1>1
  <2> QED  BY <1>3, <2>1, <2>2
<1>6. ASSUME NEW j \in 1 .. n, NEW k \in 1 .. n, cell[j].at = cell[k].at
      PROVE  cell[j] = cell[k]
  <2>1. ~(j < k) /\ ~(k < j)
    BY <1>4, <1>5, <1>6
  <2> QED  BY <1>1, <2>1
<1> DEFINE set == {cell[k] : k \in DOMAIN struct}
<1>7. \A c \in set : \E k \in 1 .. n : c = cell[k]
  BY <1>1
<1> HIDE DEF set
<1>8. ASSUME NEW c \in set
      PROVE  c.at \in Int /\ pos <= c.at /\ c.at < pos + SizeOf(struct)
  <2>1. PICK k \in 1 .. n : c = cell[k]
    BY <1>7
  <2> QED  BY <1>2, <1>4, <2>1
<1>9. ASSUME NEW c \in set, NEW d \in set, c.at = d.at
      PROVE  c = d
  <2>1. PICK j \in 1 .. n : c = cell[j]
    BY <1>7
  <2>2. PICK k \in 1 .. n : d = cell[k]
    BY <1>7
  <2> QED  BY <1>6, <1>9, <2>1, <2>2
<1>10. OffsetOf(struct, n + 1) \in Nat
  BY <1>1
<1>11. Apart(set, pos, pos + SizeOf(struct))
  BY <1>2, <1>8, <1>9, <1>10 DEF Apart
<1> QED  BY <1>11 DEF set

(* The cells of a structure do not touch each other. *)
LEMMA CellsApart ==
  ASSUME NEW struct, Structure(struct), NEW values, NEW pos \in Int
  PROVE  Apart(Cells(struct, values, pos), pos, pos + SizeOf(struct))
<1> DEFINE cell == [k \in DOMAIN struct |->
                      [at |-> pos + OffsetOf(struct, k), name |-> struct[k].name,
                       width |-> struct[k].width, value |-> values[struct[k].name]]]
<1>1. Cells(struct, values, pos) = {cell[k] : k \in DOMAIN struct}
  BY DEF Cells
<1>2. \A k \in 1 .. Len(struct) : cell[k].at = pos + OffsetOf(struct, k)
  BY DEF Structure
<1> HIDE DEF cell
<1> QED  BY <1>1, <1>2, MembersApart

(* A file holds each of its cells at its position. *)
LEMMA ContentsHold ==
  ASSUME NEW cells, NEW lo, NEW hi, Apart(cells, lo, hi), NEW c \in cells
  PROVE  c.at \in DOMAIN Contents(cells) /\ Contents(cells)[c.at] = c
<1> DEFINE d == CHOOSE d \in cells : d.at = c.at
<1>1. d \in cells /\ d.at = c.at
  OBVIOUS
<1>2. d = c
  BY <1>1 DEF Apart
<1>3. c.at \in {e.at : e \in cells}
  OBVIOUS
<1> QED  BY <1>2, <1>3 DEF Contents

(* What is written into a member is read from it. *)
LEMMA MemberIsRead ==
  ASSUME NEW struct, Structure(struct), NEW values, NEW pos \in Int,
         NEW cells, NEW lo, NEW hi, Apart(cells, lo, hi), Cells(struct, values, pos) \subseteq cells,
         NEW name \in MemberNames(struct)
  PROVE  ValueAt(Contents(cells), pos, struct, name) = values[name]
<1> DEFINE k == IndexOf(struct, name)
           c == [at |-> pos + OffsetOf(struct, k), name |-> struct[k].name,
                 width |-> struct[k].width, value |-> values[struct[k].name]]
<1>1. k \in DOMAIN struct /\ struct[k].name = name
  BY DEF IndexOf, MemberNames
<1>2. c \in cells
  BY <1>1 DEF Cells
<1>3. c.at \in DOMAIN Contents(cells) /\ Contents(cells)[c.at] = c
  <2> HIDE DEF c
  <2> QED  BY <1>2, ContentsHold
<1>4. Holds(Contents(cells), pos, struct, k) /\ Contents(cells)[pos + OffsetOf(struct, k)].value = values[name]
  BY <1>1, <1>3 DEF Holds
<1> HIDE DEF k
<1> QED  BY <1>4 DEF ValueAt, k

(* The first members of a structure. *)
Prefix(prefix, struct) ==
  /\ Structure(prefix) /\ Len(prefix) <= Len(struct)
  /\ \A k \in 1 .. Len(prefix) : prefix[k] = struct[k]

(* Also by who only knows the members it begins with. *)
LEMMA PrefixIsRead ==
  ASSUME NEW struct, Structure(struct), NEW values, NEW pos \in Int,
         NEW cells, NEW lo, NEW hi, Apart(cells, lo, hi), Cells(struct, values, pos) \subseteq cells,
         NEW prefix, Prefix(prefix, struct), NEW name \in MemberNames(prefix)
  PROVE  ValueAt(Contents(cells), pos, prefix, name) = values[name]
<1> DEFINE k == IndexOf(prefix, name)
           c == [at |-> pos + OffsetOf(struct, k), name |-> struct[k].name,
                 width |-> struct[k].width, value |-> values[struct[k].name]]
<1>1. k \in 1 .. Len(prefix) /\ prefix[k].name = name /\ prefix[k] = struct[k] /\ k \in DOMAIN struct
  BY DEF IndexOf, MemberNames, Structure, Prefix
<1>2. c \in cells
  BY <1>1 DEF Cells
<1>3. c.at \in DOMAIN Contents(cells) /\ Contents(cells)[c.at] = c
  <2> HIDE DEF c
  <2> QED  BY <1>2, ContentsHold
<1>4. OffsetOf(prefix, k) = OffsetOf(struct, k)
  <2>1. \A j \in 1 .. Len(prefix) : prefix[j].width \in Nat /\ prefix[j].width = struct[j].width
    BY DEF Structure, Prefix
  <2>2. Len(prefix) \in Nat /\ k \in 1 .. Len(prefix) + 1
    BY <1>1 DEF Structure, Prefix
  <2> HIDE DEF k
  <2> QED  BY <2>1, <2>2, OffsetOfPrefix
<1>5. Holds(Contents(cells), pos, prefix, k) /\ Contents(cells)[pos + OffsetOf(prefix, k)].value = values[name]
  BY <1>1, <1>3, <1>4 DEF Holds
<1> HIDE DEF k
<1> QED  BY <1>5 DEF ValueAt, k

-----------------------------------------------------------------------------
(* The structures of loader.h and nlist.h, their sizes and the members a    *)
(* reader needs.                                                            *)

(* A structure of this size that has members with these names. *)
Declares(struct, n, names) ==
  Structure(struct) /\ SizeOf(struct) = n /\ names \subseteq MemberNames(struct)

(* A tuple of n names, these among them. *)
Lists(list, n, names) ==
  /\ n \in Nat /\ Len(list) = n /\ list = [k \in 1 .. n |-> list[k]]
  /\ \A x \in names : \E k \in 1 .. n : list[k] = x

(* A structure of n members of the same width. *)
LEMMA DeclaresEqual ==
  ASSUME NEW list, NEW n, NEW names, Lists(list, n, names), NEW w \in Nat \ {0}
  PROVE  Declares(Members(list, w), n * w, names)
<1> DEFINE s == Members(list, w)
<1>0. n \in Nat /\ Len(list) = n /\ DOMAIN list = 1 .. n
  BY DEF Lists
<1>1. s = [k \in 1 .. n |-> [name |-> list[k], width |-> w]]
  BY <1>0 DEF Members, Member
<1> HIDE DEF s
<1>2. Len(s) = n /\ Len(s) \in Nat
  BY <1>0, <1>1
<1>3. \A k \in 1 .. Len(s) : s[k].width = w /\ s[k].name = list[k]
  BY <1>1, <1>2
<1>4. Structure(s)
  BY <1>1, <1>2, <1>3 DEF Structure
<1>5. DOMAIN s = 1 .. Len(s)
  BY <1>1, <1>2
<1>6. SizeOf(s) = n * w
  <2>1. Len(s) + 1 \in 1 .. Len(s) + 1 /\ (Len(s) + 1) - 1 = n
    BY <1>2
  <2> QED  BY <1>3, <1>4, <2>1, SizeOfEqual DEF SizeOf
<1>7. names \subseteq MemberNames(s)
  BY <1>2, <1>3, <1>5 DEF MemberNames, Lists
<1> QED  BY <1>4, <1>6, <1>7 DEF Declares, s

(* A structure behind another one. *)
LEMMA DeclaresJoin ==
  ASSUME NEW a, NEW b, NEW m, NEW n, NEW A, NEW B, Declares(a, m, A), Declares(b, n, B)
  PROVE  Declares(a \o b, m + n, A \cup B)
<1>1. /\ Structure(a) /\ Structure(b) /\ SizeOf(a) = m /\ SizeOf(b) = n
      /\ Len(a) \in Nat /\ Len(b) \in Nat /\ DOMAIN a = 1 .. Len(a) /\ DOMAIN b = 1 .. Len(b)
  BY DEF Declares, Structure
<1>2. /\ Structure(a \o b) /\ Len(a \o b) = Len(a) + Len(b)
      /\ \A k \in 1 .. Len(a) : (a \o b)[k] = a[k]
      /\ \A k \in 1 .. Len(b) : (a \o b)[Len(a) + k] = b[k]
  BY <1>1, StructureJoin
<1>3. SizeOf(a \o b) = m + n
  BY <1>1, SizeOfJoin
<1>4. DOMAIN (a \o b) = 1 .. Len(a) + Len(b)
  BY <1>2 DEF Structure
<1>5. ASSUME NEW x \in A PROVE x \in MemberNames(a \o b)
  <2>1. PICK k \in 1 .. Len(a) : a[k].name = x
    BY <1>1 DEF Declares, MemberNames
  <2>2. k \in DOMAIN (a \o b) /\ (a \o b)[k].name = x
    BY <1>1, <1>2, <1>4, <2>1
  <2> QED  BY <2>2 DEF MemberNames
<1>6. ASSUME NEW x \in B PROVE x \in MemberNames(a \o b)
  <2>1. PICK k \in 1 .. Len(b) : b[k].name = x
    BY <1>1 DEF Declares, MemberNames
  <2>2. Len(a) + k \in DOMAIN (a \o b) /\ (a \o b)[Len(a) + k].name = x
    BY <1>1, <1>2, <1>4, <2>1
  <2> QED  BY <2>2 DEF MemberNames
<1> QED  BY <1>2, <1>3, <1>5, <1>6 DEF Declares

(* A structure of uint32_t members. *)
LEMMA DeclaresWords ==
  ASSUME NEW list, NEW n, NEW names, Lists(list, n, names)
  PROVE  Declares(Words(list), n * 4, names)
<1>1. 4 \in Nat \ {0}
  OBVIOUS
<1> QED  BY <1>1, DeclaresEqual DEF Words

(* A char[16]. *)
LEMMA DeclaresName ==
  ASSUME NEW name
  PROVE  Declares(Name16(name), 16, {name})
<1>1. Name16(name) = Members(<<name>>, 16)
  BY DEF Name16, Members, Member
<1>2. Lists(<<name>>, 1, {name}) /\ 16 \in Nat \ {0}
  BY DEF Lists
<1>3. Declares(Members(<<name>>, 16), 1 * 16, {name})
  BY <1>2, DeclaresEqual
<1> QED  BY <1>1, <1>3

(* mach_header has 28 bytes and mach_header_64 has 32                       *)
(* (mach-o/loader.h:54-81).                                                 *)
LEMMA MachHeaderDeclared ==
  ASSUME NEW w \in BOOLEAN
  PROVE  Declares(MachHeader(w), IF w THEN 32 ELSE 28, {"magic", "ncmds"})
<1> DEFINE list == <<"magic", "cputype", "cpusubtype", "filetype", "ncmds", "sizeofcmds", "flags">>
<1>1. Lists(list, 7, {"magic", "ncmds"})
  <2>1. list[1] = "magic" /\ list[5] = "ncmds" /\ 1 \in 1 .. 7 /\ 5 \in 1 .. 7
    OBVIOUS
  <2>2. Len(list) = 7 /\ list = [k \in 1 .. 7 |-> list[k]]
    OBVIOUS
  <2> HIDE DEF list
  <2> QED  BY <2>1, <2>2 DEF Lists
<1>2. Declares(mach_header, 28, {"magic", "ncmds"})
  <2>1. mach_header = Words(list)
    BY DEF mach_header
  <2> HIDE DEF list
  <2>2. Declares(Words(list), 7 * 4, {"magic", "ncmds"})
    BY <1>1, DeclaresWords
  <2> QED  BY <2>1, <2>2
<1>3. Declares(Words(<<"reserved">>), 4, {})
  <2> DEFINE one == <<"reserved">>
  <2>1. Lists(one, 1, {})
    BY DEF Lists
  <2> HIDE DEF one
  <2>2. Declares(Words(one), 1 * 4, {})
    BY <2>1, DeclaresWords
  <2> QED  BY <2>2 DEF one
<1>4. Declares(mach_header_64, 32, {"magic", "ncmds"})
  <2>1. Declares(mach_header_64, 28 + 4, {"magic", "ncmds"} \cup {})
    BY <1>2, <1>3, DeclaresJoin DEF mach_header_64
  <2> QED  BY <2>1
<1> QED  BY <1>2, <1>4 DEF MachHeader

(* load_command has 8 bytes (loader.h:227-230). *)
LEMMA LoadCommandDeclared == Declares(load_command, 8, {"cmd", "cmdsize"})
<1>1. Lists(<<"cmd", "cmdsize">>, 2, {"cmd", "cmdsize"})
  BY DEF Lists
<1>2. Declares(Words(<<"cmd", "cmdsize">>), 2 * 4, {"cmd", "cmdsize"})
  BY <1>1, DeclaresWords
<1> QED  BY <1>2 DEF load_command

(* A command begins with cmd and cmdsize. *)
LEMMA CommandDeclared ==
  ASSUME NEW rest, NEW n, NEW names, Declares(rest, n, names)
  PROVE  /\ Declares(load_command \o rest, 8 + n, {"cmd", "cmdsize"} \cup names)
         /\ Prefix(load_command, load_command \o rest)
<1>1. Structure(load_command) /\ Structure(rest)
  BY LoadCommandDeclared DEF Declares
<1>2. /\ Len(load_command \o rest) = Len(load_command) + Len(rest)
      /\ \A k \in 1 .. Len(load_command) : (load_command \o rest)[k] = load_command[k]
  BY <1>1, StructureJoin
<1>3. Len(load_command) \in Nat /\ Len(rest) \in Nat
  BY <1>1 DEF Structure
<1> QED  BY <1>1, <1>2, <1>3, LoadCommandDeclared, DeclaresJoin DEF Prefix

(* uuid_command has 24 bytes (loader.h:1138-1142). *)
LEMMA UuidDeclared ==
  /\ Declares(uuid_command, 24, {"cmd", "cmdsize", "uuid"})
  /\ Prefix(load_command, uuid_command)
<1>1. Declares(Name16("uuid"), 16, {"uuid"})
  BY DeclaresName
<1>2. /\ Declares(load_command \o Name16("uuid"), 8 + 16, {"cmd", "cmdsize"} \cup {"uuid"})
      /\ Prefix(load_command, load_command \o Name16("uuid"))
  BY <1>1, CommandDeclared
<1>3. {"cmd", "cmdsize"} \cup {"uuid"} = {"cmd", "cmdsize", "uuid"} /\ 8 + 16 = 24
  OBVIOUS
<1> QED  BY <1>2, <1>3 DEF uuid_command

(* symtab_command has 24 bytes (loader.h:834-841). *)
LEMMA SymtabDeclared ==
  /\ Declares(symtab_command, 24, {"cmd", "cmdsize", "symoff", "nsyms", "stroff", "strsize"})
  /\ Prefix(load_command, symtab_command)
<1> DEFINE list == <<"symoff", "nsyms", "stroff", "strsize">>
           names == {"symoff", "nsyms", "stroff", "strsize"}
<1>1. Lists(list, 4, names)
  BY DEF Lists
<1>0. {"cmd", "cmdsize"} \cup names = {"cmd", "cmdsize", "symoff", "nsyms", "stroff", "strsize"}
  OBVIOUS
<1>s. symtab_command = load_command \o Words(list)
  BY DEF symtab_command
<1> HIDE DEF list, names
<1>2. Declares(Words(list), 4 * 4, names)
  BY <1>1, DeclaresWords
<1>3. /\ Declares(load_command \o Words(list), 8 + 4 * 4, {"cmd", "cmdsize"} \cup names)
      /\ Prefix(load_command, load_command \o Words(list))
  BY <1>2, CommandDeclared
<1>4. 8 + 4 * 4 = 24
  OBVIOUS
<1> QED  BY <1>0, <1>s, <1>3, <1>4

(* The members of a segment command that a reader asks for. *)
SegmentNames == {"cmd", "cmdsize", "segname", "nsects"}

(* Joining on the left, for structures that are written without brackets. *)
LEMMA SegmentDeclared ==
  ASSUME NEW w \in BOOLEAN
  PROVE  /\ Declares(SegmentCommand(w), IF w THEN 72 ELSE 56, SegmentNames)
         /\ Prefix(load_command, SegmentCommand(w))
<1> SUFFICES ASSUME NEW long \in {4, 8}
             PROVE  /\ Declares(SegmentOf(long), 40 + 4 * long, SegmentNames)
                    /\ Prefix(load_command, SegmentOf(long))
  <2>1. /\ SegmentCommand(w) = SegmentOf(IF w THEN 8 ELSE 4)
        /\ (IF w THEN 8 ELSE 4) \in {4, 8}
        /\ (IF w THEN 72 ELSE 56) = 40 + 4 * (IF w THEN 8 ELSE 4)
    BY DEF SegmentCommand, segment_command, segment_command_64
  <2> QED  BY <2>1
<1> DEFINE longs == <<"vmaddr", "vmsize", "fileoff", "filesize">>
           words == <<"maxprot", "initprot", "nsects", "flags">>
           a == load_command
           b == Name16("segname")
           c == Members(longs, long)
           d == Words(words)
<1>1. Lists(longs, 4, {}) /\ Lists(words, 4, {"nsects"}) /\ long \in Nat \ {0}
  BY DEF Lists
<1>2. SegmentOf(long) = a \o b \o c \o d
  BY DEF SegmentOf
<1> HIDE DEF longs, words
<1>3. /\ Declares(a, 8, {"cmd", "cmdsize"}) /\ Declares(b, 16, {"segname"})
      /\ Declares(c, 4 * long, {}) /\ Declares(d, 4 * 4, {"nsects"})
  BY <1>1, LoadCommandDeclared, DeclaresName, DeclaresEqual, DeclaresWords
<1> HIDE DEF a, b, c, d
<1>4. Declares(a \o b, 8 + 16, {"cmd", "cmdsize"} \cup {"segname"})
  BY <1>3, DeclaresJoin
<1>5. Declares((a \o b) \o c, (8 + 16) + 4 * long, ({"cmd", "cmdsize"} \cup {"segname"}) \cup {})
  BY <1>3, <1>4, DeclaresJoin
<1>6. Declares(((a \o b) \o c) \o d, ((8 + 16) + 4 * long) + 4 * 4,
               (({"cmd", "cmdsize"} \cup {"segname"}) \cup {}) \cup {"nsects"})
  BY <1>3, <1>5, DeclaresJoin
<1>7. Structure(a) /\ Structure(b) /\ Structure(c) /\ Structure(d) /\ Structure(a \o b) /\ Structure((a \o b) \o c)
  BY <1>3, <1>4, <1>5 DEF Declares
<1>8. /\ Len(a) \in Nat /\ Len(b) \in Nat /\ Len(c) \in Nat /\ Len(d) \in Nat
      /\ Len(a \o b) = Len(a) + Len(b) /\ Len((a \o b) \o c) = Len(a \o b) + Len(c)
      /\ Len(((a \o b) \o c) \o d) = Len((a \o b) \o c) + Len(d)
      /\ \A k \in 1 .. Len(a) : (a \o b)[k] = a[k]
      /\ \A k \in 1 .. Len(a \o b) : ((a \o b) \o c)[k] = (a \o b)[k]
      /\ \A k \in 1 .. Len((a \o b) \o c) : (((a \o b) \o c) \o d)[k] = ((a \o b) \o c)[k]
  BY <1>7, StructureJoin DEF Structure
<1>9. Prefix(a, SegmentOf(long))
  <2> SUFFICES ASSUME NEW k \in 1 .. Len(a) PROVE a[k] = SegmentOf(long)[k]
    BY <1>2, <1>7, <1>8 DEF Prefix
  <2>1. k \in 1 .. Len(a \o b) /\ k \in 1 .. Len((a \o b) \o c)
    BY <1>8
  <2> QED  BY <1>2, <1>8, <2>1
<1>10. Declares(SegmentOf(long), 40 + 4 * long, SegmentNames)
  <2>1. /\ ((8 + 16) + 4 * long) + 4 * 4 = 40 + 4 * long
        /\ (({"cmd", "cmdsize"} \cup {"segname"}) \cup {}) \cup {"nsects"} = SegmentNames
    BY DEF SegmentNames
  <2> QED  BY <1>2, <1>6, <2>1
<1> QED  BY <1>9, <1>10 DEF a

(* section has 68 bytes and section_64 has 80 (loader.h:406-433). *)
LEMMA SectionDeclared ==
  ASSUME NEW w \in BOOLEAN
  PROVE  Declares(Section(w), IF w THEN 80 ELSE 68, {"sectname", "size", "offset"})
<1>1. ASSUME NEW long \in {4, 8}
      PROVE  Declares(SectionOf(long), 60 + 2 * long, {"sectname", "size", "offset"})
  <2> DEFINE longs == <<"addr", "size">>
             words == <<"offset", "align", "reloff", "nreloc", "flags", "reserved1", "reserved2">>
             a == Name16("sectname")
             b == Name16("segname")
             c == Members(longs, long)
             d == Words(words)
  <2>1. Lists(longs, 2, {"size"}) /\ long \in Nat \ {0}
    BY DEF Lists
  <2>2. Lists(words, 7, {"offset"})
    BY DEF Lists
  <2>3. SectionOf(long) = a \o b \o c \o d
    BY DEF SectionOf
  <2> HIDE DEF longs, words
  <2>4. /\ Declares(a, 16, {"sectname"}) /\ Declares(b, 16, {"segname"})
        /\ Declares(c, 2 * long, {"size"}) /\ Declares(d, 7 * 4, {"offset"})
    BY <2>1, <2>2, DeclaresName, DeclaresEqual, DeclaresWords
  <2> HIDE DEF a, b, c, d
  <2>5. Declares(a \o b, 16 + 16, {"sectname"} \cup {"segname"})
    BY <2>4, DeclaresJoin
  <2>6. Declares((a \o b) \o c, (16 + 16) + 2 * long, ({"sectname"} \cup {"segname"}) \cup {"size"})
    BY <2>4, <2>5, DeclaresJoin
  <2>7. Declares(((a \o b) \o c) \o d, ((16 + 16) + 2 * long) + 7 * 4,
                 (({"sectname"} \cup {"segname"}) \cup {"size"}) \cup {"offset"})
    BY <2>4, <2>6, DeclaresJoin
  <2>8. ((16 + 16) + 2 * long) + 7 * 4 = 60 + 2 * long
    OBVIOUS
  <2> QED  BY <2>3, <2>7, <2>8 DEF Declares
<1>2. Declares(section, 68, {"sectname", "size", "offset"})
  BY <1>1 DEF section
<1>3. Declares(section_64, 80, {"sectname", "size", "offset"})
  <2>1. Lists(<<"reserved3">>, 1, {})
    BY DEF Lists
  <2>2. Declares(Words(<<"reserved3">>), 1 * 4, {})
    BY <2>1, DeclaresWords
  <2>3. Declares(SectionOf(8), 60 + 2 * 8, {"sectname", "size", "offset"})
    BY <1>1
  <2>4. Declares(section_64, (60 + 2 * 8) + 1 * 4, {"sectname", "size", "offset"} \cup {})
    BY <2>2, <2>3, DeclaresJoin DEF section_64
  <2> QED  BY <2>4
<1> QED  BY <1>2, <1>3 DEF Section

(* nlist has 12 bytes and nlist_64 has 16 (nlist.h:76-102). *)
LEMMA NlistDeclared ==
  ASSUME NEW w \in BOOLEAN
  PROVE  Declares(NlistOfWidth(w), IF w THEN 16 ELSE 12, {"n_strx", "n_desc", "n_value"})
<1> SUFFICES ASSUME NEW long \in {4, 8}
             PROVE  Declares(NlistOf(long), 8 + long, {"n_strx", "n_desc", "n_value"})
  BY DEF NlistOfWidth, nlist, nlist_64
<1> DEFINE a == Words(<<"n_strx">>)
           b == Members(<<"n_type", "n_sect">>, 1)
           c == Members(<<"n_desc">>, 2)
           d == Members(<<"n_value">>, long)
<1>1. Lists(<<"n_strx">>, 1, {"n_strx"}) /\ Lists(<<"n_type", "n_sect">>, 2, {})
  BY DEF Lists
<1>2. Lists(<<"n_desc">>, 1, {"n_desc"}) /\ Lists(<<"n_value">>, 1, {"n_value"})
  BY DEF Lists
<1>3. NlistOf(long) = a \o b \o c \o d
  BY DEF NlistOf
<1>4. Declares(a, 1 * 4, {"n_strx"}) /\ Declares(b, 2 * 1, {})
  BY <1>1, DeclaresWords, DeclaresEqual
<1>5. Declares(c, 1 * 2, {"n_desc"}) /\ Declares(d, 1 * long, {"n_value"})
  BY <1>2, DeclaresEqual
<1> HIDE DEF a, b, c, d
<1>6. Declares(a \o b, 1 * 4 + 2 * 1, {"n_strx"} \cup {})
  BY <1>4, DeclaresJoin
<1>7. Declares((a \o b) \o c, (1 * 4 + 2 * 1) + 1 * 2, ({"n_strx"} \cup {}) \cup {"n_desc"})
  BY <1>5, <1>6, DeclaresJoin
<1>8. Declares(((a \o b) \o c) \o d, ((1 * 4 + 2 * 1) + 1 * 2) + 1 * long,
               (({"n_strx"} \cup {}) \cup {"n_desc"}) \cup {"n_value"})
  BY <1>5, <1>7, DeclaresJoin
<1>9. /\ ((1 * 4 + 2 * 1) + 1 * 2) + 1 * long = 8 + long
      /\ (({"n_strx"} \cup {}) \cup {"n_desc"}) \cup {"n_value"} = {"n_strx", "n_desc", "n_value"}
  OBVIOUS
<1> QED  BY <1>3, <1>8, <1>9

(* A list of members of the same width. *)
LEMMA MembersAre ==
  ASSUME NEW list, NEW n, Lists(list, n, {}), NEW w \in Nat \ {0}
  PROVE  LET s == Members(list, w)
         IN Structure(s) /\ Len(s) = n /\ \A k \in 1 .. n : s[k] = Member(list[k], w)
<1> DEFINE s == Members(list, w)
<1>1. n \in Nat /\ DOMAIN list = 1 .. n
  BY DEF Lists
<1>2. s = [k \in 1 .. n |-> Member(list[k], w)]
  BY <1>1 DEF Members
<1> HIDE DEF s
<1>3. Len(s) = n /\ s = [k \in 1 .. Len(s) |-> s[k]] /\ \A k \in 1 .. n : s[k] = Member(list[k], w)
  BY <1>1, <1>2
<1>4. Structure(s)
  BY <1>1, <1>3 DEF Structure, Member
<1> QED  BY <1>3, <1>4 DEF s

(* Sizes of the structures, in the width of the image. *)
HeaderSizeOf(wide) == IF wide THEN 32 ELSE 28

(* segment_command and segment_command_64. *)
SegmentSizeOf(wide) == IF wide THEN 72 ELSE 56

(* section and section_64. *)
SectionSizeOf(wide) == IF wide THEN 80 ELSE 68

(* nlist and nlist_64. *)
NlistSizeOf(wide) == IF wide THEN 16 ELSE 12

(* Sizes of the structures. *)
LEMMA StructuresAre ==
  ASSUME NEW w \in BOOLEAN
  PROVE  /\ Structure(MachHeader(w)) /\ SizeOf(MachHeader(w)) = HeaderSizeOf(w)
         /\ Structure(uuid_command) /\ SizeOf(uuid_command) = 24
         /\ Structure(symtab_command) /\ SizeOf(symtab_command) = 24
         /\ Structure(SegmentCommand(w)) /\ SizeOf(SegmentCommand(w)) = SegmentSizeOf(w)
         /\ Structure(Section(w)) /\ SizeOf(Section(w)) = SectionSizeOf(w)
         /\ Structure(NlistOfWidth(w)) /\ SizeOf(NlistOfWidth(w)) = NlistSizeOf(w)
<1>1. Structure(MachHeader(w)) /\ SizeOf(MachHeader(w)) = HeaderSizeOf(w)
  BY MachHeaderDeclared DEF Declares, HeaderSizeOf
<1>2. Structure(uuid_command) /\ SizeOf(uuid_command) = 24
  BY UuidDeclared DEF Declares
<1>3. Structure(symtab_command) /\ SizeOf(symtab_command) = 24
  BY SymtabDeclared DEF Declares
<1>4. Structure(SegmentCommand(w)) /\ SizeOf(SegmentCommand(w)) = SegmentSizeOf(w)
  BY SegmentDeclared DEF Declares, SegmentSizeOf
<1>5. Structure(Section(w)) /\ SizeOf(Section(w)) = SectionSizeOf(w)
  BY SectionDeclared DEF Declares, SectionSizeOf
<1>6. Structure(NlistOfWidth(w)) /\ SizeOf(NlistOfWidth(w)) = NlistSizeOf(w)
  BY NlistDeclared DEF Declares, NlistSizeOf
<1> QED  BY <1>1, <1>2, <1>3, <1>4, <1>5, <1>6

(* Cells of a structure of a known size. *)
LEMMA CellsOfSize ==
  ASSUME NEW struct, NEW size, Structure(struct), SizeOf(struct) = size,
         NEW values, NEW pos \in Int
  PROVE  Apart(Cells(struct, values, pos), pos, pos + size)
BY CellsApart

-----------------------------------------------------------------------------
(* Tables. *)

(* Products of natural numbers grow with their factors. *)
LEMMA ProductGrows ==
  ASSUME NEW j \in Nat, NEW k \in Nat, j <= k, NEW n \in Nat
  PROVE  j * n \in Nat /\ j * n <= k * n /\ k * n \in Nat
<1>1. k * n = j * n + (k - j) * n
  OBVIOUS
<1>2. (k - j) * n \in Nat /\ j * n \in Nat
  OBVIOUS
<1> QED  BY <1>1, <1>2

(* A table of rows of the same size. *)
Rows(row, n, size, base) ==
  \A k \in 1 .. n : Apart(row[k], base + (k - 1) * size, base + k * size)

(* The cells of all rows. *)
AllRows(row, n) == UNION {row[k] : k \in 1 .. n}

(* The rows of a table do not touch each other. *)
LEMMA RowsApart ==
  ASSUME NEW n \in Nat, NEW size \in Nat, NEW base \in Int, NEW row, Rows(row, n, size, base)
  PROVE  Apart(AllRows(row, n), base, base + n * size)
<1>1. ASSUME NEW k \in 1 .. n, NEW c \in row[k]
      PROVE  /\ c.at \in Int /\ base + (k - 1) * size <= c.at /\ c.at < base + k * size
             /\ base <= c.at /\ c.at < base + n * size
  <2>1. Apart(row[k], base + (k - 1) * size, base + k * size)
    BY DEF Rows
  <2>2. c.at \in Int /\ base + (k - 1) * size <= c.at /\ c.at < base + k * size
    BY <2>1 DEF Apart
  <2>3. (k - 1) * size \in Nat /\ k * size \in Nat /\ k * size <= n * size /\ n * size \in Nat
    <3>1. k - 1 \in Nat /\ k \in Nat /\ k - 1 <= n /\ k <= n
      OBVIOUS
    <3> QED  BY <3>1, ProductGrows
  <2> DEFINE p == (k - 1) * size
             q == k * size
             r == n * size
  <2> HIDE DEF p, q, r
  <2>4. p \in Nat /\ q \in Nat /\ q <= r /\ r \in Nat /\ base + p <= c.at /\ c.at < base + q
    BY <2>2, <2>3 DEF p, q, r
  <2>5. base <= c.at /\ c.at < base + r
    BY <2>2, <2>4
  <2> QED  BY <2>2, <2>5 DEF r
<1>2. ASSUME NEW j \in 1 .. n, NEW k \in 1 .. n, j < k, NEW c \in row[j], NEW d \in row[k]
      PROVE  c.at # d.at
  <2>1. c.at \in Int /\ d.at \in Int /\ c.at < base + j * size /\ base + (k - 1) * size <= d.at
    BY <1>1
  <2>2. j * size \in Nat /\ j * size <= (k - 1) * size /\ (k - 1) * size \in Nat
    <3>1. j \in Nat /\ k - 1 \in Nat /\ j <= k - 1
      BY <1>2
    <3> QED  BY <3>1, ProductGrows
  <2> DEFINE p == (k - 1) * size
             q == j * size
  <2> HIDE DEF p, q
  <2>3. q \in Nat /\ p \in Nat /\ q <= p /\ c.at < base + q /\ base + p <= d.at
    BY <2>1, <2>2 DEF p, q
  <2> QED  BY <2>1, <2>3
<1>3. ASSUME NEW j \in 1 .. n, NEW k \in 1 .. n, NEW c \in row[j], NEW d \in row[k], c.at = d.at
      PROVE  c = d
  <2>1. j = k
    BY <1>2, <1>3
  <2>2. Apart(row[j], base + (j - 1) * size, base + j * size)
    BY DEF Rows
  <2> QED  BY <1>3, <2>1, <2>2 DEF Apart
<1>4. n * size \in Nat
  BY ProductGrows
<1> QED  BY <1>1, <1>3, <1>4 DEF Apart, AllRows
=============================================================================
