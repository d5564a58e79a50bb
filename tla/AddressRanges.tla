--------------------------- MODULE AddressRanges ---------------------------
(***************************************************************************)
(* calculate_dwarf_sections_min_file_offset_from_binary (main.py:76-85)    *)
(* from the numbers that egrep -o finds: paste joins them two by two, one  *)
(* line after the other is split into an address and a size, and the base  *)
(* of the DWARF sections is raised above their sum.                        *)
(***************************************************************************)
EXTENDS Integers, Sequences

CONSTANT Found          \* the sequences of numbers egrep -o can find

RangesAssumption == Found \subseteq Seq(Nat)

VARIABLES
  numbers,              \* the numbers of the matching lines
  pc,                   \* "loop", "done"; "raised" after a ValueError
  line,                 \* the line of result the loop handles next
  dwarf_min_offset

vars == <<numbers, pc, line, dwarf_min_offset>>

LowestBase == 4096      \* 0x1000

(* Lines of result, of which strip() has removed the end: without any       *)
(* number a blank line, with an odd number of them one with a single field. *)
Lines == IF numbers = <<>> THEN 1 ELSE (Len(numbers) + 1) \div 2

Complete(k) == 2 * k <= Len(numbers)

(* Mutant of EndOfRange: the size is forgotten. *)
BeginOfRange(k) == numbers[2 * k - 1]

(* int(vmaddr) + int(vmsize) *)
EndOfRange(k) == numbers[2 * k - 1] + numbers[2 * k]

(* The variables before the loop. *)
Begin(found) ==
  /\ numbers = found
  /\ pc = "loop" /\ line = 1
  /\ dwarf_min_offset = LowestBase

Init == \E found \in Found : Begin(found)

(* Mutant of Raise: the last range wins. *)
RaiseAlways(base, end) == end

Raise(base, end) == IF base < end THEN end ELSE base

(* One turn: vmaddr, vmsize = line.split() *)
Turn ==
  /\ pc = "loop" /\ line <= Lines
  /\ IF Complete(line)
       THEN /\ dwarf_min_offset' = Raise(dwarf_min_offset, EndOfRange(line))
            /\ line' = line + 1 /\ pc' = pc
       ELSE pc' = "raised" /\ UNCHANGED <<line, dwarf_min_offset>>
  /\ UNCHANGED numbers

Finish ==
  /\ pc = "loop" /\ line > Lines
  /\ pc' = "done"
  /\ UNCHANGED <<numbers, line, dwarf_min_offset>>

Next == Turn \/ Finish

Spec == Init /\ [][Next]_vars

-----------------------------------------------------------------------------

TypeOK ==
  /\ numbers \in Seq(Nat)
  /\ pc \in {"loop", "done", "raised"}
  /\ line \in 1 .. Lines + 1
  /\ dwarf_min_offset \in Nat

(* The base lies above each range of the lines handled so far, and is the   *)
(* end of one of them or the lowest base.                                   *)
AboveHandled ==
  /\ \A k \in 1 .. line - 1 :
       Complete(k) /\ EndOfRange(k) <= dwarf_min_offset
  /\ \/ dwarf_min_offset = LowestBase
     \/ \E k \in 1 .. line - 1 : dwarf_min_offset = EndOfRange(k)
  /\ LowestBase <= dwarf_min_offset

Candidates == {LowestBase} \cup {EndOfRange(k) : k \in 1 .. Len(numbers) \div 2}

(* main.py:80-85: a base is only delivered when every number had a partner, *)
(* and it is the smallest one at or above 0x1000 and every range.           *)
LeastUpperBase ==
  pc = "done" =>
    /\ numbers # <<>> /\ Len(numbers) % 2 = 0
    /\ dwarf_min_offset \in Candidates
    /\ \A c \in Candidates : c <= dwarf_min_offset
=============================================================================
