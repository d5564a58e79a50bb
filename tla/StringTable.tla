---------------------------- MODULE StringTable ----------------------------
(***************************************************************************)
(* StringTable::dump (string_table.cpp).  A first loop adds up the bytes   *)
(* every name needs, the buffer is allocated with that size and filled     *)
(* with zeros, and a second loop copies each name to the running offset,   *)
(* records the offset in name_to_offset and skips one byte, the            *)
(* terminating zero that is never written.                                 *)
(*                                                                         *)
(* Both counters are uint32_t and wrap modulo Word, while the vector and   *)
(* the copies are not limited to 32 bits.  A name is opaque: byte k of a   *)
(* copy of name n is the cell <<n, k>>, so two copies are told apart       *)
(* wherever they collide, and NUL is a zero byte.                          *)
(***************************************************************************)
EXTENDS Integers, Sequences

CONSTANTS
  Names,        \* the symbol names that can occur in an input
  NameLength,   \* std::string::size() of each of them
  Inputs,       \* the argument lists dump may be called with
  Word,         \* number of values of a uint32_t
  NUL           \* a zero byte

ASSUME NamesAssumption ==
  /\ NameLength \in [Names -> Nat]
  /\ Inputs \subseteq Seq(Names)
  /\ Word \in Nat \ {0}
  /\ NUL \notin Names \X Nat

VARIABLES
  names,        \* the argument
  pc,           \* "measure", "copy", "done"; "abort" after a failed assert
  i,            \* the name the running loop handles next
  needed,       \* needed_length
  offset,       \* current_offset
  buffer,       \* result.buffer, a function from positions to cells
  nameToOffset, \* result.name_to_offset, a function on the names seen
  overran,      \* some memcpy wrote behind the end of the buffer
  extent        \* history: extent[k] is where name k starts, without wrapping

vars == <<names, pc, i, needed, offset, buffer, nameToOffset, overran, extent>>

(* Mutant of Wrap: 64-bit counters. *)
WrapNever(x) == x

Wrap(x) == x % Word

(* Mutant of Grow: the terminating zero is not counted. *)
GrowWithoutNul(total, n) == Wrap(total + NameLength[n])

(* needed_length += n.size() + 1 *)
Grow(total, n) == Wrap(total + NameLength[n] + 1)

(* The bytes of a vector of n zero bytes. *)
Zeros(n) == [c \in 0 .. n - 1 |-> NUL]

(* m[k] = v on a std::map: inserts the key or overwrites its value. *)
Put(m, k, v) == [x \in DOMAIN m \cup {k} |-> IF x = k THEN v ELSE m[x]]

(* Mutant of CopyName: the last byte is not copied. *)
CopyNameShort(b, o, n) ==
  [c \in DOMAIN b |-> IF c \in o .. o + NameLength[n] - 2 THEN <<n, c - o>>
                                                          ELSE b[c]]

(* memcpy(&b[o], &n[0], n.length()), as far as it stays inside b. *)
CopyName(b, o, n) ==
  [c \in DOMAIN b |-> IF c \in o .. o + NameLength[n] - 1 THEN <<n, c - o>>
                                                          ELSE b[c]]

(* Mutant of Advance: the terminating zero is not skipped. *)
AdvanceWithoutNul(o, n) == Wrap(o + NameLength[n])

(* current_offset += n.length(); current_offset++ *)
Advance(o, n) == Wrap(Wrap(o + NameLength[n]) + 1)

-----------------------------------------------------------------------------

Init ==
  /\ names \in Inputs
  /\ pc = "measure"
  /\ i = 1
  /\ needed = 0
  /\ offset = 0
  /\ buffer = Zeros(0)
  /\ nameToOffset = [n \in {} |-> 0]
  /\ overran = FALSE
  /\ extent = <<0>>

(* One turn of the first loop. *)
Measure ==
  /\ pc = "measure"
  /\ i <= Len(names)
  /\ needed' = Grow(needed, names[i])
  /\ extent' = Append(extent, extent[i] + NameLength[names[i]] + 1)
  /\ i' = i + 1
  /\ UNCHANGED <<names, pc, offset, buffer, nameToOffset, overran>>

(* result.buffer.resize(needed_length) *)
Allocate ==
  /\ pc = "measure"
  /\ i > Len(names)
  /\ buffer' = Zeros(needed)
  /\ pc' = "copy"
  /\ i' = 1
  /\ UNCHANGED <<names, needed, offset, nameToOffset, overran, extent>>

(* One turn of the second loop.  A copy that leaves the buffer is undefined *)
(* behaviour: the process dies, or it goes on with the foreign bytes lost.  *)
Copy ==
  /\ pc = "copy"
  /\ i <= Len(names)
  /\ LET n == names[i] IN
       /\ nameToOffset' = Put(nameToOffset, n, offset)
       /\ buffer' = CopyName(buffer, offset, n)
       /\ offset' = Advance(offset, n)
       /\ i' = i + 1
       /\ IF offset + NameLength[n] <= needed
            THEN UNCHANGED <<pc, overran>>
            ELSE overran' = TRUE /\ pc' \in {"copy", "crashed"}
  /\ UNCHANGED <<names, needed, extent>>

(* assert(current_offset == needed_length), then return. *)
Finish ==
  /\ pc = "copy"
  /\ i > Len(names)
  /\ pc' = IF offset = needed THEN "done" ELSE "abort"
  /\ UNCHANGED <<names, i, needed, offset, buffer, nameToOffset, overran, extent>>

(* dump has returned, or the process is gone. *)
Returned ==
  /\ pc \in {"done", "abort", "crashed"}
  /\ UNCHANGED vars

Next == Measure \/ Allocate \/ Copy \/ Finish \/ Returned

Spec == Init /\ [][Next]_vars

-----------------------------------------------------------------------------

Cells == (Names \X Nat) \cup {NUL}

(* Both counters hold uint32_t values, the buffer has the announced size and *)
(* the map takes names of the input to offsets (string_table.cpp:13-32).     *)
TypeOK ==
  /\ names \in Seq(Names)
  /\ pc \in {"measure", "copy", "done", "abort", "crashed"}
  /\ i \in 1 .. Len(names) + 1
  /\ needed \in 0 .. Word - 1
  /\ offset \in 0 .. Word - 1
  /\ buffer \in [0 .. (IF pc = "measure" THEN 0 ELSE needed) - 1 -> Cells]
  /\ DOMAIN nameToOffset \subseteq Names
  /\ \A n \in DOMAIN nameToOffset : nameToOffset[n] \in 0 .. Word - 1
  /\ overran \in BOOLEAN
  /\ extent \in Seq(Nat)

(* The table of this input has a size that a uint32_t can hold. *)
Fits == extent[Len(extent)] < Word

(* A reader of b that starts at offset o and stops at the first zero byte *)
(* reads name n.                                                          *)
ReadsAs(b, o, n) ==
  /\ \A k \in 0 .. NameLength[n] - 1 : o + k \in DOMAIN b /\ b[o + k] = <<n, k>>
  /\ o + NameLength[n] \in DOMAIN b /\ b[o + NameLength[n]] = NUL

(* string_table.cpp:30: the two loops agree on the size of the table, even *)
(* when both counters have wrapped.                                        *)
AssertHolds == pc # "abort"

(* string_table.cpp:25: if the size of the table fits a uint32_t, no copy   *)
(* leaves the buffer the first loop sized.  Otherwise one does, and the     *)
(* assertion behind the loop does not find out.                             *)
NoOverrun == pc # "measure" /\ Fits => ~overran

(* string_table.cpp:13-32: if the size of the table fits a uint32_t, the   *)
(* offset returned for a name leads to that name: copies never touch each other, duplicates and empty names         *)
(* included, and each is followed by the zero byte nobody wrote.           *)
EveryNameFound ==
  pc = "done" /\ Fits =>
    \A k \in 1 .. Len(names) :
      /\ names[k] \in DOMAIN nameToOffset
      /\ ReadsAs(buffer, nameToOffset[names[k]], names[k])

-----------------------------------------------------------------------------
(* The inductive invariant that AssertHolds, NoOverrun and EveryNameFound   *)
(* follow from.                                                             *)

(* Name k occupies extent[k] .. extent[k + 1] - 1, its zero byte included.  *)
ExtentsAdjoin ==
  /\ Len(extent) = IF pc = "measure" THEN i ELSE Len(names) + 1
  /\ \A k \in 1 .. Len(extent) - 1 :
       extent[k + 1] = extent[k] + NameLength[names[k]] + 1
  /\ \A j, k \in 1 .. Len(extent) :
       j < k => extent[j] + NameLength[names[j]] + 1 <= extent[k]

(* Each counter is the exact position of its loop, reduced. *)
CountersExact ==
  /\ extent[1] = 0
  /\ needed = Wrap(extent[Len(extent)])
  /\ offset = Wrap(IF pc = "measure" THEN 0 ELSE extent[i])

(* What has been copied stays readable, what lies ahead is still zero. *)
CopiedSoFar ==
  pc # "measure" /\ Fits =>
    /\ \A j \in 1 .. i - 1 : ReadsAs(buffer, extent[j], names[j])
    /\ \A c \in DOMAIN buffer : c >= offset => buffer[c] = NUL

(* The map knows the names handled so far, each at one of its copies. *)
MapExact ==
  /\ pc = "measure" => DOMAIN nameToOffset = {}
  /\ pc # "measure" /\ Fits =>
       /\ \A j \in 1 .. i - 1 : names[j] \in DOMAIN nameToOffset
       /\ \A n \in DOMAIN nameToOffset :
            \E j \in 1 .. i - 1 : names[j] = n /\ nameToOffset[n] = extent[j]

IInv ==
  /\ TypeOK
  /\ ExtentsAdjoin
  /\ CountersExact
  /\ AssertHolds
  /\ pc = "measure" => ~overran
  /\ pc = "done" => i = Len(names) + 1
  /\ NoOverrun
  /\ CopiedSoFar
  /\ MapExact
=============================================================================
