---------------------------- MODULE ObjcSymbols ----------------------------
(***************************************************************************)
(* The functions of only-objc mode, from the output of objc-symbols to the *)
(* symbols DSYMCreator works with: sort orders the lines as text, main.py  *)
(* corrects the addresses and makes the start of each line the end of the  *)
(* one before (main.py:21-40), and read_raw_symbol_data_from_path          *)
(* (main.mm:54-63) reads the hexadecimal numbers back into a T.            *)
(*                                                                         *)
(* objc-symbols prints the address of a method in a fixed number of        *)
(* hexadecimal digits ("%0*lx"); in armv7 binaries the lowest bit of the   *)
(* address tells Thumb code.                                               *)
(***************************************************************************)
EXTENDS Integers, Sequences

CONSTANTS
  Names,            \* names of methods
  NameRank,         \* [Names -> Nat], their order as text
  Word, LongWord,   \* number of values of a uint32_t, a uint64_t
  WordDigits, LongDigits,   \* hexadecimal digits of an address
  Outputs           \* what objc-symbols can list: sequences of [addr, name]

Power[d \in Nat] == IF d = 0 THEN 1 ELSE 16 * Power[d - 1]

(* The digits suffice for every address. *)
ObjcAssumption ==
  /\ Word \in Nat \ {0} /\ LongWord \in Nat \ {0} /\ LongWord % Word = 0
  /\ WordDigits \in Nat /\ Word <= Power[WordDigits]
  /\ LongDigits \in Nat /\ LongWord <= Power[LongDigits]
  /\ NameRank \in [Names -> Nat]
  /\ Outputs \subseteq Seq([addr : Nat, name : Names])

VARIABLES
  wide,         \* --arm64
  lines,        \* raw_symbols
  pc,           \* "sort", "lines", "parse", "done"; "raised", "abort"
  next,         \* the line the loop handles next
  symbols,      \* in main.py: [start, end, name]
  parsed        \* in DSYMCreator: Symbol<T>

vars == <<wide, lines, pc, next, symbols, parsed>>

FakeSize == 4096        \* 0x1000
AddrWord == IF wide THEN LongWord ELSE Word

-----------------------------------------------------------------------------
(* The text of a line, and its order.                                       *)

(* "%0*lx" *)
Padded(n) ==
  LET digits == IF wide THEN LongDigits ELSE WordDigits
  IN [d \in 1 .. digits |-> (n \div Power[digits - d]) % 16]

(* Mutant of HexDigits: "%lx", no digit before the first that is not 0. *)
Unpadded(n) ==
  LET leading == {d \in DOMAIN Padded(n) : \A e \in 1 .. d : Padded(n)[e] = 0}
  IN SelectSeq([d \in DOMAIN Padded(n) |-> IF d \in leading THEN 16 ELSE Padded(n)[d]],
               LAMBDA digit : digit < 16)

HexDigits(n) == Padded(n)

(* What a line is compared by: digits, the space before any digit, name. *)
Key(l) == [d \in DOMAIN HexDigits(l.addr) |-> HexDigits(l.addr)[d] + 1]
            \o <<0, NameRank[l.name]>>

TextBefore(l, m) ==
  LET k == Key(l) j == Key(m)
  IN \E d \in DOMAIN k :
       /\ d \in DOMAIN j /\ k[d] < j[d]
       /\ \A e \in 1 .. d - 1 : k[e] = j[e]

Permutations(s) ==
  {[k \in DOMAIN s |-> s[p[k]]] :
     p \in {p \in [DOMAIN s -> DOMAIN s] : \A k, j \in DOMAIN s : p[k] = p[j] => k = j}}

-----------------------------------------------------------------------------

(* The addresses objc-symbols lists are those of binaries of this width. *)
Begin(output, w) ==
  /\ wide = w
  /\ lines = output /\ \A k \in DOMAIN output : output[k].addr < AddrWord
  /\ pc = "sort"
  /\ next = 1
  /\ symbols = <<>> /\ parsed = <<>>

Init == \E output \in Outputs, w \in BOOLEAN : Begin(output, w)

(* objc-symbols ... | sort *)
Sort ==
  /\ pc = "sort"
  /\ \E s \in Permutations(lines) :
       /\ \A k \in 1 .. Len(s) - 1 : ~TextBefore(s[k + 1], s[k])
       /\ lines' = s
  /\ pc' = "lines"
  /\ UNCHANGED <<wide, next, symbols, parsed>>

(* Mutant of Corrected: the thumb bit is left alone. *)
CorrectedNever(addr) == addr

(* start -= 1 *)
Corrected(addr) == addr - 1

(* if len(symbols) > 0: symbols[-1][1] = start *)
CloseLast(list, start) ==
  [k \in DOMAIN list |-> IF k = Len(list) THEN [list[k] EXCEPT !.end = start] ELSE list[k]]

(* One turn of the loop; without output there is one blank line, which      *)
(* cannot be split into two.                                                *)
ReadLine ==
  /\ pc = "lines"
  /\ IF lines = <<>>
       THEN pc' = "raised" /\ UNCHANGED <<next, symbols>>
       ELSE /\ next <= Len(lines)
            /\ LET start == Corrected(lines[next].addr)
               IN symbols' = Append(CloseLast(symbols, start),
                                    [start |-> start, end |-> 0, name |-> lines[next].name])
            /\ next' = next + 1
            /\ pc' = pc
  /\ UNCHANGED <<wide, lines, parsed>>

(* symbols[-1][1] = symbols[-1][0] + 0x1000, and the file is written. *)
WriteRaw ==
  /\ pc = "lines" /\ lines # <<>> /\ next > Len(lines)
  /\ symbols' = CloseLast(symbols, symbols[Len(symbols)].start + FakeSize)
  /\ pc' = "parse" /\ next' = 1
  /\ UNCHANGED <<wide, lines, parsed>>

(* Mutant of Stoull: no conversion to T. *)
StoullWide(n) == n % LongWord

(* (T)std::stoull(hex(n), nullptr, 16); a minus sign makes it wrap around.  *)
Stoull(n) == (n % LongWord) % AddrWord
OutOfRange(n) == n >= LongWord

(* One turn of the loop of read_raw_symbol_data_from_path. *)
ParseLine ==
  /\ pc = "parse" /\ next <= Len(symbols)
  /\ LET s == symbols[next]
     IN IF OutOfRange(s.start) \/ OutOfRange(s.end)
          THEN pc' = "abort" /\ UNCHANGED <<next, parsed>>
          ELSE /\ parsed' = Append(parsed, [name |-> s.name, base |-> Stoull(s.start),
                                            end |-> Stoull(s.end)])
               /\ next' = next + 1 /\ pc' = pc
  /\ UNCHANGED <<wide, lines, symbols>>

Parsed ==
  /\ pc = "parse" /\ next > Len(symbols)
  /\ pc' = "done"
  /\ UNCHANGED <<wide, lines, next, symbols, parsed>>

Prepare == Sort \/ ReadLine \/ WriteRaw
Parse == ParseLine \/ Parsed

Spec == Init /\ [][Prepare \/ Parse]_vars

-----------------------------------------------------------------------------

TypeOK ==
  /\ wide \in BOOLEAN
  /\ lines \in Seq([addr : Nat, name : Names])
  /\ pc \in {"sort", "lines", "parse", "done", "raised", "abort"}
  /\ next \in 1 .. Len(lines) + 1
  /\ symbols \in Seq([start : Int, end : Int, name : Names])
  /\ parsed \in Seq([name : Names, base : 0 .. AddrWord - 1, end : 0 .. AddrWord - 1])
  /\ Len(symbols) <= Len(lines) /\ Len(parsed) <= Len(symbols)

(* Function k is that of line k, and ends where function k + 1 begins.       *)
RangesAdjoin ==
  pc = "done" =>
    /\ Len(parsed) = Len(lines)
    /\ \A k \in DOMAIN parsed :
         /\ parsed[k].name = lines[k].name
         /\ parsed[k].base = Stoull(Corrected(lines[k].addr))
    /\ \A k \in 1 .. Len(parsed) - 1 : parsed[k].end = parsed[k + 1].base

(* The address of the code of line k; a method without code has address 0.  *)
Entry(k) == lines[k].addr - (lines[k].addr % 2)
Coded == {k \in DOMAIN lines : lines[k].addr > 0}

(* The functions that begin last at or before a, and those whose parsed     *)
(* range holds a.                                                           *)
Owners(a) ==
  {k \in Coded : /\ Entry(k) <= a
                 /\ \A j \in Coded : Entry(j) <= a => Entry(j) <= Entry(k)}
Holders(a) == {k \in DOMAIN parsed : parsed[k].base <= a /\ a < parsed[k].end}

(* Addresses of instructions up to the end made up for the last function,   *)
(* when that end is an address.                                             *)
InReach(a) ==
  /\ a >= 0 /\ a % 2 = 0
  /\ \E k \in Coded : a < Entry(k) + FakeSize - 1
  /\ \A k \in Coded : Corrected(lines[k].addr) + FakeSize < AddrWord

(* Address a belongs to the function that begins last before it, and to no  *)
(* other; before the first function it belongs to none.                     *)
AttributedRight(a) ==
  IF Owners(a) = {} THEN Holders(a) = {}
  ELSE \E k \in Holders(a) : /\ Holders(a) = {k}
                             /\ \E o \in Owners(a) : parsed[k].name = lines[o].name

(* main.py:29-35, main.mm:59-61: an address of an instruction lies in the   *)
(* range of exactly one function, the one that begins last before it,       *)
(* whether or not its line carried a thumb bit, in both widths; no function *)
(* claims code before its beginning.                                        *)
EveryAddressAttributed ==
  pc = "done" =>
    \A a \in UNION {{Entry(k) - 2, Entry(k), Entry(k) + 2, Entry(k) + FakeSize - 2} : k \in Coded} :
      InReach(a) => AttributedRight(a)
=============================================================================
