------------------------- MODULE ObjcSymbolsProofs -------------------------
(***************************************************************************)
(* Theorems about ObjcSymbols, for listings of any length, of any          *)
(* addresses and names, and for words of any width: first about the three  *)
(* lists, then about the order of the lines as text, which is that of      *)
(* their addresses, and last about the function an address belongs to.     *)
(***************************************************************************)
EXTENDS ObjcSymbols, WellFoundedInduction, TLAPS

(* The records the three lists are made of. *)
Line == [addr : Nat, name : Names]
Row == [start : Int, end : Int, name : Names]
Function == [name : Names, base : 0 .. AddrWord - 1, end : 0 .. AddrWord - 1]
Start(k) == Corrected(lines[k].addr)
Count == Len(symbols)

(* Function k of the lists as the loops have left them: the end of the last *)
(* one is not known before its successor is read.                           *)
SymbolsChain ==
  /\ Count <= Len(lines)
  /\ \A k \in 1 .. Count : symbols[k].start = Start(k) /\ symbols[k].name = lines[k].name
  /\ \A k \in 1 .. Count - 1 : symbols[k].end = Start(k + 1)

ParsedSoFar ==
  \A k \in 1 .. Len(parsed) :
    /\ parsed[k].name = symbols[k].name
    /\ parsed[k].base = Stoull(symbols[k].start)
    /\ parsed[k].end = Stoull(symbols[k].end)

(* The end of the last one is made up when there is no other line.          *)
LastClosed ==
  pc \in {"parse", "done"} /\ Count > 0 => symbols[Count].end = Start(Count) + FakeSize

IInv ==
  /\ TypeOK
  /\ LastClosed
  /\ pc \in {"sort", "lines", "raised"} => parsed = <<>>
  /\ pc = "sort" => symbols = <<>> /\ next = 1
  /\ pc = "lines" => Count = next - 1
  /\ pc \in {"parse", "done"} => Count = Len(lines) /\ Len(parsed) = next - 1
  /\ pc = "done" => next = Len(symbols) + 1
  /\ SymbolsChain
  /\ ParsedSoFar

(* The width of an address, in either mode. *)
LEMMA WordIsPositive == ObjcAssumption => AddrWord \in Nat \ {0} /\ LongWord \in Nat \ {0}
BY DEF ObjcAssumption, AddrWord

(* What std::stoull delivers is a T. *)
LEMMA StoullIsWord ==
  ASSUME ObjcAssumption, NEW n \in Int
  PROVE  Stoull(n) \in 0 .. AddrWord - 1
<1>1. AddrWord \in Nat \ {0} /\ LongWord \in Nat \ {0}
  BY WordIsPositive
<1>2. n % LongWord \in Int
  BY <1>1
<1>3. \A m \in Int : m % AddrWord \in 0 .. AddrWord - 1
  BY <1>1
<1> QED
  BY <1>2, <1>3 DEF Stoull

(* Sorting keeps the number of lines and their type. *)
LEMMA PermutationsKeepType ==
  ASSUME lines \in Seq(Line), NEW s \in Permutations(lines)
  PROVE  s \in Seq(Line) /\ Len(s) = Len(lines)
<1>1. PICK p \in [DOMAIN lines -> DOMAIN lines] : s = [k \in DOMAIN lines |-> lines[p[k]]]
  BY DEF Permutations
<1>2. DOMAIN lines = 1 .. Len(lines) /\ Len(lines) \in Nat
  OBVIOUS
<1>3. \A k \in 1 .. Len(lines) : lines[p[k]] \in Line
  BY <1>1, <1>2
<1>4. s \in [1 .. Len(lines) -> Line]
  BY <1>1, <1>2, <1>3
<1> QED
  BY <1>2, <1>4

(* Setting the end of the last function changes nothing else. *)
LEMMA CloseLastKeeps ==
  ASSUME NEW list \in Seq(Row), NEW e \in Int
  PROVE  /\ CloseLast(list, e) \in Seq(Row)
         /\ Len(CloseLast(list, e)) = Len(list)
         /\ \A k \in 1 .. Len(list) :
              /\ CloseLast(list, e)[k].start = list[k].start
              /\ CloseLast(list, e)[k].name = list[k].name
              /\ CloseLast(list, e)[k].end = IF k = Len(list) THEN e ELSE list[k].end
<1> DEFINE closed(k) == IF k = Len(list) THEN [list[k] EXCEPT !.end = e] ELSE list[k]
<1>1. DOMAIN list = 1 .. Len(list) /\ Len(list) \in Nat
  OBVIOUS
<1>2. CloseLast(list, e) = [k \in 1 .. Len(list) |-> closed(k)]
  BY <1>1 DEF CloseLast
<1>3. \A k \in 1 .. Len(list) :
        /\ closed(k) \in Row
        /\ closed(k).start = list[k].start /\ closed(k).name = list[k].name
        /\ closed(k).end = IF k = Len(list) THEN e ELSE list[k].end
  <2> SUFFICES ASSUME NEW k \in 1 .. Len(list)
               PROVE  /\ closed(k) \in Row
                      /\ closed(k).start = list[k].start /\ closed(k).name = list[k].name
                      /\ closed(k).end = IF k = Len(list) THEN e ELSE list[k].end
    OBVIOUS
  <2>1. list[k] \in Row
    BY <1>1
  <2> QED
    BY <2>1 DEF Row
<1> HIDE DEF closed
<1> DEFINE result == CloseLast(list, e)
<1>4. result \in [1 .. Len(list) -> Row]
  BY <1>2, <1>3
<1>5. \A k \in 1 .. Len(list) : result[k] = closed(k)
  BY <1>2
<1> HIDE DEF result
<1>6. result \in Seq(Row) /\ Len(result) = Len(list)
  BY <1>1, <1>4
<1> QED
  BY <1>3, <1>5, <1>6 DEF result

(* Nothing is closed twice. *)
LEMMA LastStaysClosed ==
  ASSUME LastClosed, pc' \in {"parse", "done"} => pc \in {"parse", "done"},
         lines' = lines, symbols' = symbols
  PROVE  LastClosed'
BY DEF LastClosed, Count, Start, Corrected

(* The invariant holds in the beginning. *)
LEMMA InitIInv == ObjcAssumption /\ Init => IInv
<1> SUFFICES ASSUME ObjcAssumption, Init
             PROVE  IInv
  OBVIOUS
<1>1. /\ wide \in BOOLEAN /\ lines \in Seq(Line) /\ pc = "sort" /\ next = 1
      /\ symbols = <<>> /\ parsed = <<>>
  BY DEF Init, Begin, ObjcAssumption, Line
<1>2. Len(lines) \in Nat /\ Len(symbols) = 0 /\ Len(parsed) = 0
  BY <1>1
<1>3. /\ symbols \in Seq(Row)
      /\ parsed \in Seq(Function)
  BY <1>1
<1> QED
  BY <1>1, <1>2, <1>3 DEF IInv, TypeOK, LastClosed, Line, Row, Function, SymbolsChain, ParsedSoFar, Count

(* One turn of the loop of main.py:28-34 reads the line it is at, and gives  *)
(* the function before it the end it was waiting for.                       *)
LEMMA ReadLineKeeps == ObjcAssumption /\ IInv /\ ReadLine => IInv'
<1> SUFFICES ASSUME ObjcAssumption, IInv, ReadLine
             PROVE  IInv'
  OBVIOUS
<1>1. /\ lines \in Seq(Line) /\ wide \in BOOLEAN /\ next \in Nat /\ next >= 1
      /\ symbols \in Seq(Row)
      /\ pc = "lines" /\ parsed = <<>> /\ Len(symbols) = next - 1
      /\ lines' = lines /\ wide' = wide /\ parsed' = <<>>
      /\ AddrWord' = AddrWord
  BY DEF IInv, TypeOK, ReadLine, Line, Row, Count, AddrWord
<1>2. parsed' \in Seq(Function)
      /\ Len(parsed') = 0
  BY <1>1
<1>3. CASE lines = <<>>
  <2>1. pc' = "raised" /\ next' = next /\ symbols' = symbols
    BY <1>3 DEF ReadLine
  <2>2. SymbolsChain'
    BY <1>1, <2>1 DEF IInv, SymbolsChain, Count, Start
  <2>3. TypeOK'
    BY <1>1, <1>2, <2>1 DEF IInv, TypeOK, Line, Row, Function
  <2> QED
    BY <1>1, <1>2, <2>1, <2>2, <2>3 DEF IInv, LastClosed, ParsedSoFar
<1>4. CASE lines # <<>>
  <2> DEFINE start == Start(next)
             closed == CloseLast(symbols, start)
             new == [start |-> start, end |-> 0, name |-> lines[next].name]
  <2>1. /\ pc' = "lines" /\ next <= Len(lines) /\ next' = next + 1
        /\ symbols' = Append(closed, new)
    BY <1>1, <1>4 DEF ReadLine, Start
  <2>2. lines[next] \in Line /\ Len(lines) \in Nat
    BY <1>1, <2>1
  <2>3. start \in Int /\ new \in Row
    BY <2>2 DEF Start, Corrected, Line, Row
  <2>4. /\ closed \in Seq(Row)
        /\ Len(closed) = next - 1
        /\ \A k \in 1 .. next - 1 :
             /\ closed[k].start = symbols[k].start /\ closed[k].name = symbols[k].name
             /\ closed[k].end = IF k = next - 1 THEN start ELSE symbols[k].end
    BY <1>1, <2>3, CloseLastKeeps
  <2> HIDE DEF closed
  <2>5. /\ symbols' \in Seq(Row)
        /\ Len(symbols') = next
        /\ symbols'[next] = new
        /\ \A k \in 1 .. next - 1 : symbols'[k] = closed[k]
    BY <1>1, <2>1, <2>3, <2>4
  <2>6. \A k \in 1 .. next : symbols'[k].start = Start(k) /\ symbols'[k].name = lines[k].name
    <3> SUFFICES ASSUME NEW k \in 1 .. next
                 PROVE  symbols'[k].start = Start(k) /\ symbols'[k].name = lines[k].name
      OBVIOUS
    <3>1. CASE k = next
      BY <3>1, <2>5
    <3>2. CASE k # next
      <4>1. k \in 1 .. next - 1
        BY <3>2, <1>1
      <4> QED
        BY <4>1, <1>1, <2>4, <2>5 DEF IInv, SymbolsChain, Count
    <3> QED
      BY <3>1, <3>2
  <2>7. \A k \in 1 .. next - 1 : symbols'[k].end = Start(k + 1)
    <3> SUFFICES ASSUME NEW k \in 1 .. next - 1
                 PROVE  symbols'[k].end = Start(k + 1)
      OBVIOUS
    <3>1. CASE k = next - 1
      <4>1. k + 1 = next
        BY <3>1, <1>1
      <4> QED
        BY <3>1, <4>1, <2>4, <2>5
    <3>2. CASE k # next - 1
      <4>1. k \in 1 .. (next - 1) - 1
        BY <3>2, <1>1
      <4> QED
        BY <3>2, <4>1, <1>1, <2>4, <2>5 DEF IInv, SymbolsChain, Count
    <3> QED
      BY <3>1, <3>2
  <2>8. SymbolsChain'
    <3>1. \A k : Start(k)' = Start(k)
      BY <1>1 DEF Start, Corrected
    <3> QED
      BY <1>1, <2>1, <2>5, <2>6, <2>7, <3>1 DEF SymbolsChain, Count
  <2>9. TypeOK'
    BY <1>1, <1>2, <2>1, <2>2, <2>5 DEF TypeOK, Line, Row, Function
  <2> QED
    BY <1>1, <1>2, <2>1, <2>5, <2>8, <2>9 DEF IInv, LastClosed, ParsedSoFar, Count
<1> QED
  BY <1>3, <1>4

(* main.py:35-39 closes the last function. *)
LEMMA WriteRawKeeps == ObjcAssumption /\ IInv /\ WriteRaw => IInv'
<1> SUFFICES ASSUME ObjcAssumption, IInv, WriteRaw
             PROVE  IInv'
  OBVIOUS
<1> DEFINE end == symbols[Len(symbols)].start + FakeSize
<1>1. /\ lines \in Seq(Line) /\ wide \in BOOLEAN /\ next \in Nat /\ next >= 1
      /\ next <= Len(lines) + 1 /\ Len(lines) \in Nat
      /\ symbols \in Seq(Row)
      /\ pc = "lines" /\ parsed = <<>> /\ Len(symbols) = next - 1
      /\ lines # <<>> /\ next > Len(lines) /\ pc' = "parse" /\ next' = 1
      /\ lines' = lines /\ wide' = wide /\ parsed' = <<>> /\ symbols' = CloseLast(symbols, end)
      /\ AddrWord' = AddrWord
  BY DEF IInv, TypeOK, WriteRaw, Line, Row, Count, AddrWord
<1>2. /\ parsed' \in Seq(Function)
      /\ Len(parsed') = 0
  BY <1>1
<1>3. Len(symbols) = Len(lines) /\ Len(lines) >= 1
  BY <1>1
<1>4. end \in Int
  <2>1. symbols[Len(symbols)] \in Row
    BY <1>1, <1>3
  <2> QED
    BY <2>1 DEF FakeSize, Row
<1> HIDE DEF end
<1>5. /\ symbols' \in Seq(Row)
      /\ Len(symbols') = Len(lines)
      /\ \A k \in 1 .. Len(lines) :
           /\ symbols'[k].start = symbols[k].start /\ symbols'[k].name = symbols[k].name
           /\ k # Len(lines) => symbols'[k].end = symbols[k].end
  BY <1>1, <1>3, <1>4, CloseLastKeeps
<1>6. SymbolsChain'
  <2>1. \A k : Start(k)' = Start(k)
    BY <1>1 DEF Start, Corrected
  <2>2. \A k \in 1 .. Len(lines) :
          symbols'[k].start = Start(k) /\ symbols'[k].name = lines[k].name
    BY <1>3, <1>5 DEF IInv, SymbolsChain, Count
  <2>3. \A k \in 1 .. Len(lines) - 1 : k \in 1 .. Len(lines) /\ k # Len(lines)
    BY <1>1
  <2>4. \A k \in 1 .. Len(lines) - 1 : symbols'[k].end = Start(k + 1)
    BY <2>3, <1>3, <1>5 DEF IInv, SymbolsChain, Count
  <2> QED
    BY <1>1, <1>5, <2>1, <2>2, <2>4 DEF SymbolsChain, Count
<1>7. TypeOK'
  BY <1>1, <1>2, <1>3, <1>5 DEF TypeOK, Line, Row, Function
<1>8. ParsedSoFar'
  BY <1>2 DEF ParsedSoFar
<1>9. LastClosed'
  <2>1. Len(lines) \in 1 .. Len(lines) /\ Len(symbols) \in 1 .. Count
    BY <1>1, <1>3 DEF Count
  <2>2. symbols[Len(symbols)].start = Start(Len(lines))
    BY <1>3, <2>1 DEF IInv, SymbolsChain
  <2>3. symbols'[Len(lines)].end = end
    BY <1>1, <1>3, <1>4, <2>1, CloseLastKeeps
  <2>4. \A k : Start(k)' = Start(k)
    BY <1>1 DEF Start, Corrected
  <2> QED
    BY <1>5, <2>2, <2>3, <2>4 DEF LastClosed, Count, end
<1> QED
  BY <1>1, <1>2, <1>5, <1>6, <1>7, <1>8, <1>9 DEF IInv, Count

(* One turn of the loop of main.mm:54-62. *)
LEMMA ParseLineKeeps == ObjcAssumption /\ IInv /\ ParseLine => IInv'
<1> SUFFICES ASSUME ObjcAssumption, IInv, ParseLine
             PROVE  IInv'
  OBVIOUS
<1> DEFINE s == symbols[next]
           new == [name |-> s.name, base |-> Stoull(s.start), end |-> Stoull(s.end)]
<1>1. /\ lines \in Seq(Line) /\ wide \in BOOLEAN /\ next \in Nat /\ next >= 1
      /\ Len(lines) \in Nat
      /\ symbols \in Seq(Row)
      /\ parsed \in Seq(Function)
      /\ pc = "parse" /\ next <= Len(symbols) /\ Len(parsed) = next - 1
      /\ Len(symbols) = Len(lines)
      /\ lines' = lines /\ wide' = wide /\ symbols' = symbols /\ AddrWord' = AddrWord
  BY DEF IInv, TypeOK, ParseLine, Line, Row, Function, Count, AddrWord
<1>2. SymbolsChain'
  BY <1>1 DEF IInv, SymbolsChain, Count, Start, Corrected
<1>3. \A n : Stoull(n)' = Stoull(n)
  BY <1>1 DEF Stoull
<1>4. CASE pc' = "abort" /\ next' = next /\ parsed' = parsed
  <2>1. TypeOK'
    BY <1>1, <1>4 DEF IInv, TypeOK, Line, Row, Function
  <2>2. ParsedSoFar'
    BY <1>1, <1>3, <1>4 DEF IInv, ParsedSoFar
  <2> QED
    BY <1>1, <1>2, <1>4, <2>1, <2>2, LastStaysClosed DEF IInv
<1>5. CASE parsed' = Append(parsed, new) /\ next' = next + 1 /\ pc' = pc
  <2>1. s \in Row
    BY <1>1
  <2>2. new \in Function
    BY <2>1, StoullIsWord DEF Row, Function
  <2>3. /\ parsed' \in Seq(Function) /\ Len(parsed') = next /\ parsed'[next] = new
        /\ \A k \in 1 .. next - 1 : parsed'[k] = parsed[k]
    BY <1>1, <1>5, <2>2
  <2>4. TypeOK'
    <3>1. next' \in 1 .. Len(lines) + 1 /\ Len(parsed') <= Len(symbols)
      BY <1>1, <1>5, <2>3
    <3>2. /\ lines \in Seq([addr : Nat, name : Names])
          /\ symbols \in Seq([start : Int, end : Int, name : Names])
      BY <1>1 DEF Line, Row
    <3>3. parsed' \in Seq([name : Names, base : 0 .. AddrWord - 1, end : 0 .. AddrWord - 1])
      BY <2>3 DEF Function
    <3>4. Len(symbols) <= Len(lines)
      BY <1>1
    <3> QED
      BY <1>1, <1>5, <3>1, <3>2, <3>3, <3>4 DEF TypeOK
  <2>5. ParsedSoFar'
    <3> SUFFICES ASSUME NEW k \in 1 .. next
                 PROVE  /\ parsed'[k].name = symbols[k].name
                        /\ parsed'[k].base = Stoull(symbols[k].start)
                        /\ parsed'[k].end = Stoull(symbols[k].end)
      BY <1>1, <1>3, <2>3 DEF ParsedSoFar
    <3>1. CASE k = next
      BY <3>1, <2>3
    <3>2. CASE k # next
      <4>1. k \in 1 .. next - 1 /\ k \in 1 .. Len(parsed)
        BY <3>2, <1>1
      <4> QED
        BY <4>1, <2>3 DEF IInv, ParsedSoFar
    <3> QED
      BY <3>1, <3>2
  <2> QED
    BY <1>1, <1>2, <1>5, <2>3, <2>4, <2>5, LastStaysClosed DEF IInv, Count
<1> QED
  BY <1>4, <1>5 DEF ParseLine

(* Every step keeps it. *)
LEMMA NextIInv == ObjcAssumption /\ IInv /\ [Prepare \/ Parse]_vars => IInv'
<1> SUFFICES ASSUME ObjcAssumption, IInv, [Prepare \/ Parse]_vars
             PROVE  IInv'
  OBVIOUS
<1>1. CASE Sort
  <2>1. PICK s \in Permutations(lines) : lines' = s
    BY <1>1 DEF Sort
  <2>2. /\ lines' \in Seq(Line) /\ Len(lines') = Len(lines)
    BY <2>1, PermutationsKeepType DEF IInv, TypeOK, Line, Row, Function
  <2>3. /\ pc' = "lines" /\ next' = 1 /\ symbols' = <<>> /\ parsed' = <<>> /\ wide' = wide
        /\ AddrWord' = AddrWord /\ Len(lines) \in Nat /\ wide \in BOOLEAN
    BY <1>1 DEF Sort, IInv, AddrWord, TypeOK
  <2>4. /\ symbols' \in Seq(Row)
        /\ parsed' \in Seq(Function)
        /\ Len(symbols') = 0 /\ Len(parsed') = 0
    BY <2>3
  <2>5. TypeOK'
    BY <2>2, <2>3, <2>4 DEF TypeOK, Line, Row, Function
  <2> QED
    BY <2>2, <2>3, <2>4, <2>5 DEF IInv, LastClosed, SymbolsChain, ParsedSoFar, Count
<1>2. CASE ReadLine
  BY <1>2, ReadLineKeeps
<1>3. CASE WriteRaw
  BY <1>3, WriteRawKeeps
<1>4. CASE ParseLine
  BY <1>4, ParseLineKeeps
<1>5. CASE Parsed
  <2>1. /\ pc = "parse" /\ next > Len(symbols) /\ pc' = "done" /\ next' = next
        /\ wide' = wide /\ lines' = lines /\ symbols' = symbols /\ parsed' = parsed
        /\ AddrWord' = AddrWord
    BY <1>5 DEF Parsed, AddrWord
  <2>2. next = Len(symbols) + 1
    BY <2>1 DEF IInv, TypeOK, Count
  <2>3. TypeOK'
    BY <2>1 DEF IInv, TypeOK
  <2>4. SymbolsChain' /\ ParsedSoFar'
    BY <2>1 DEF IInv, SymbolsChain, ParsedSoFar, Count, Start, Corrected, Stoull
  <2> QED
    BY <2>1, <2>2, <2>3, <2>4, LastStaysClosed DEF IInv, Count
<1>6. CASE UNCHANGED vars
  <2>1. /\ pc' = pc /\ next' = next /\ wide' = wide /\ lines' = lines
        /\ symbols' = symbols /\ parsed' = parsed /\ AddrWord' = AddrWord
    BY <1>6 DEF vars, AddrWord
  <2>2. TypeOK'
    BY <2>1 DEF IInv, TypeOK
  <2>3. SymbolsChain' /\ ParsedSoFar'
    BY <2>1 DEF IInv, SymbolsChain, ParsedSoFar, Count, Start, Corrected, Stoull
  <2> QED
    BY <2>1, <2>2, <2>3, LastStaysClosed DEF IInv, Count
<1> QED
  BY <1>1, <1>2, <1>3, <1>4, <1>5, <1>6 DEF Prepare, Parse

(* The three loops build one list, line by line (main.py:28-35,             *)
(* main.mm:54-62).                                                          *)
THEOREM Inductive == ASSUME ObjcAssumption PROVE Spec => []IInv
<1>1. Init => IInv
  BY InitIInv
<1>2. IInv /\ [Prepare \/ Parse]_vars => IInv'
  BY NextIInv
<1> QED
  BY <1>1, <1>2, PTL DEF Spec

(* main.py:21-40, main.mm:54-62: the lists keep their types, and what        *)
(* DSYMCreator has parsed are values of its type T, for addresses of every  *)
(* size, negative ones included.                                            *)
THEOREM TypeCorrect == ASSUME ObjcAssumption PROVE Spec => []TypeOK
<1>1. IInv => TypeOK
  BY DEF IInv
<1> QED
  BY <1>1, Inductive, PTL

(* Line by line the parsed list says what the listing says. *)
LEMMA AdjoinFollows == IInv => RangesAdjoin
<1> SUFFICES ASSUME IInv, pc = "done"
             PROVE  /\ Len(parsed) = Len(lines)
                    /\ \A k \in DOMAIN parsed :
                         /\ parsed[k].name = lines[k].name
                         /\ parsed[k].base = Stoull(Start(k))
                    /\ \A k \in 1 .. Len(parsed) - 1 : parsed[k].end = parsed[k + 1].base
  BY DEF RangesAdjoin, Start
<1>1. Len(parsed) = Len(lines) /\ Len(symbols) = Len(lines) /\ Len(lines) \in Nat
      /\ DOMAIN parsed = 1 .. Len(lines)
  BY DEF IInv, Count, TypeOK
<1>2. \A k \in 1 .. Len(lines) :
        parsed[k].name = lines[k].name /\ parsed[k].base = Stoull(Start(k))
  BY <1>1 DEF IInv, SymbolsChain, ParsedSoFar, Count
<1>3. \A k \in 1 .. Len(lines) - 1 : k \in 1 .. Len(lines) /\ k + 1 \in 1 .. Len(lines)
  BY <1>1
<1>4. \A k \in 1 .. Len(lines) - 1 : parsed[k].end = Stoull(Start(k + 1))
  BY <1>1, <1>3 DEF IInv, SymbolsChain, ParsedSoFar, Count
<1> QED
  BY <1>1, <1>2, <1>3, <1>4

(* The bounds of a parsed function are numbers. *)
LEMMA BaseIsNumber ==
  ASSUME IInv, NEW k \in DOMAIN parsed
  PROVE  parsed[k].base \in Int /\ parsed[k].end \in Int
<1>1. parsed \in Seq(Function)
  BY DEF IInv, TypeOK, Function
<1>2. parsed[k] \in Function
  BY <1>1
<1> QED
  BY <1>2 DEF Function

(* main.py:32-35, main.mm:58-61: for listings of every length each line      *)
(* becomes one function under its own name, and no address is lost or       *)
(* claimed twice at a boundary: each function ends where the next begins,   *)
(* also where an address has wrapped around.                                *)
THEOREM RangesAreAdjacent == ASSUME ObjcAssumption PROVE Spec => []RangesAdjoin
BY AdjoinFollows, Inductive, PTL

(* Function k of the parsed list holds address a. *)
Holds(k, a) == parsed[k].base <= a /\ a < parsed[k].end

(* main.py:32-35: if the lines are in the order of their addresses after the *)
(* correction and the conversion, no address belongs to two functions.      *)
THEOREM NoAddressShared ==
  ASSUME ObjcAssumption, IInv, pc = "done",
         \A k, j \in 1 .. Len(parsed) : k < j => parsed[k].base <= parsed[j].base,
         NEW a \in Nat, NEW k \in 1 .. Len(parsed), NEW j \in 1 .. Len(parsed),
         Holds(k, a), Holds(j, a)
  PROVE  k = j
<1>1. /\ Len(parsed) \in Nat
      /\ \A m \in 1 .. Len(parsed) : parsed[m].base \in Int /\ parsed[m].end \in Int
  <2>1. parsed \in Seq(Function)
    BY DEF IInv, TypeOK, Function
  <2>2. \A f \in Function : f.base \in Int /\ f.end \in Int
    BY DEF Function
  <2> QED
    BY <2>1, <2>2
<1>2. \A m \in 1 .. Len(parsed) - 1 : parsed[m].end = parsed[m + 1].base
  <2>1. Len(parsed) = Len(lines) /\ Len(symbols) = Len(lines)
    BY DEF IInv, Count, TypeOK
  <2>2. \A m \in 1 .. Len(parsed) - 1 : m \in 1 .. Len(parsed) /\ m + 1 \in 1 .. Len(parsed)
    BY <1>1
  <2>3. \A m \in 1 .. Len(symbols) - 1 :
          symbols[m].end = Start(m + 1) /\ symbols[m + 1].start = Start(m + 1)
    BY <2>1, <2>2 DEF IInv, SymbolsChain, Count
  <2>4. \A m \in 1 .. Len(parsed) :
          parsed[m].base = Stoull(symbols[m].start) /\ parsed[m].end = Stoull(symbols[m].end)
    BY DEF IInv, ParsedSoFar
  <2> QED
    BY <2>1, <2>2, <2>3, <2>4
<1>3. \A m, n \in 1 .. Len(parsed) : m < n => ~(Holds(m, a) /\ Holds(n, a))
  <2> SUFFICES ASSUME NEW m \in 1 .. Len(parsed), NEW n \in 1 .. Len(parsed), m < n
               PROVE  parsed[m].end <= parsed[n].base
    BY <1>1 DEF Holds
  <2>1. m + 1 \in 1 .. Len(parsed) /\ (m + 1 < n \/ m + 1 = n) /\ m \in 1 .. Len(parsed) - 1
    BY <1>1
  <2> QED
    BY <1>1, <1>2, <2>1
<1> QED
  BY <1>1, <1>3

-----------------------------------------------------------------------------
(* Digits.  The text of an address is compared digit by digit, the address  *)
(* as a number.                                                             *)

(* A set of natural numbers that is not empty has a least element. *)
LEMMA LeastNatural ==
  ASSUME NEW T \in SUBSET Nat, T # {}
  PROVE  \E n \in T : \A m \in T : n <= m
<1> DEFINE R == {p \in Nat \X Nat : p[1] < p[2]}
<1>1. \E n \in T : \A m \in T : ~(<<m, n>> \in R)
  <2>1. IsWellFoundedOn(R, Nat)
    BY NatLessThanWellFounded, Zenon DEF OpToRel
  <2> HIDE DEF R
  <2> QED  BY <2>1, WFMin, Zenon
<1>2. PICK n \in T : \A m \in T : ~(<<m, n>> \in R)
  BY <1>1
<1>3. ASSUME NEW m \in T, m < n PROVE <<m, n>> \in R
  <2>1. <<m, n>> \in Nat \X Nat
    BY <1>2
  <2> QED  BY <1>3, <2>1
<1>4. \A m \in T : ~(m < n)
  BY <1>2, <1>3
<1> QED  BY <1>2, <1>4

(* The rule of Power at d, *)
PowerRule(f, d) == IF d = 0 THEN 1 ELSE 16 * f[d - 1]

(* which a function may follow up to d. *)
FollowsUpto(f, d) == \A n \in 0 .. d : f[n] = PowerRule(f, n)

(* There is a function of powers up to every exponent. *)
LEMMA RuleIsFollowed == \A d \in Nat : \E f : FollowsUpto(f, d)
<1> DEFINE T == {d \in Nat : ~\E f : FollowsUpto(f, d)}
<1> SUFFICES ASSUME T # {} PROVE FALSE
  OBVIOUS
<1>1. PICK d \in T : \A m \in T : d <= m
  BY LeastNatural
<1>2. d # 0
  <2> DEFINE f == [n \in {0} |-> 1]
  <2>1. FollowsUpto(f, 0)
    BY DEF FollowsUpto, PowerRule
  <2> HIDE DEF f
  <2> QED  BY <2>1
<1>3. d - 1 \in Nat /\ d - 1 \notin T
  BY <1>1, <1>2
<1>4. PICK f : FollowsUpto(f, d - 1)
  BY <1>3
<1> DEFINE g == [n \in 0 .. d |-> PowerRule(f, n)]
<1>5. ASSUME NEW n \in 0 .. d PROVE g[n] = PowerRule(g, n)
  <2>1. CASE n = 0
    BY <2>1 DEF PowerRule
  <2>2. CASE n # 0
    <3>1. n - 1 \in 0 .. d - 1 /\ n - 1 \in 0 .. d
      BY <2>2, <1>3
    <3>2. f[n - 1] = PowerRule(f, n - 1)
      BY <1>4, <3>1 DEF FollowsUpto
    <3>3. g[n - 1] = PowerRule(f, n - 1) /\ g[n] = PowerRule(f, n)
      BY <3>1
    <3> HIDE DEF g
    <3> QED  BY <2>2, <3>2, <3>3 DEF PowerRule
  <2> QED  BY <2>1, <2>2
<1>6. FollowsUpto(g, d)
  BY <1>5 DEF FollowsUpto
<1> HIDE DEF g
<1> QED  BY <1>6

(* And only one. *)
LEMMA RuleDetermines ==
  ASSUME NEW d \in Nat, NEW f, NEW g, FollowsUpto(f, d), FollowsUpto(g, d)
  PROVE  f[d] = g[d]
<1> DEFINE T == {n \in 0 .. d : f[n] # g[n]}
<1>1. ASSUME T # {} PROVE FALSE
  <2> T \in SUBSET Nat
    OBVIOUS
  <2>1. PICK n \in T : \A m \in T : n <= m
    <3> HIDE DEF T
    <3> QED  BY <1>1, LeastNatural
  <2>2. n # 0 => n - 1 \in 0 .. d /\ n - 1 \notin T
    BY <2>1
  <2>3. f[n] = PowerRule(f, n) /\ g[n] = PowerRule(g, n)
    BY DEF FollowsUpto
  <2> QED  BY <2>1, <2>2, <2>3 DEF PowerRule
<1> QED  BY <1>1

(* Power exists: its rule determines a function. *)
LEMMA PowerIs == \A d \in Nat : Power[d] = PowerRule(Power, d)
<1> DEFINE F(d) == CHOOSE f : FollowsUpto(f, d)
           power == [d \in Nat |-> F(d)[d]]
<1>1. \A d \in Nat : FollowsUpto(F(d), d)
  BY RuleIsFollowed
<1> HIDE DEF F
<1>2. ASSUME NEW d \in Nat PROVE power[d] = PowerRule(power, d)
  <2>1. power[d] = PowerRule(F(d), d)
    BY <1>1 DEF FollowsUpto
  <2>2. CASE d = 0
    BY <2>1, <2>2 DEF PowerRule
  <2>3. CASE d # 0
    <3>1. d - 1 \in Nat
      BY <2>3
    <3>2. FollowsUpto(F(d), d - 1)
      BY <1>1, <3>1 DEF FollowsUpto
    <3>3. F(d)[d - 1] = F(d - 1)[d - 1]
      BY <1>1, <3>1, <3>2, RuleDetermines
    <3>4. power[d - 1] = F(d - 1)[d - 1]
      BY <3>1
    <3> HIDE DEF power
    <3> QED  BY <2>1, <2>3, <3>3, <3>4 DEF PowerRule
  <2> QED  BY <2>2, <2>3
<1>3. power = [d \in Nat |-> IF d = 0 THEN 1 ELSE 16 * power[d - 1]]
  BY <1>2 DEF PowerRule
<1>4. Power = [d \in Nat |-> IF d = 0 THEN 1 ELSE 16 * Power[d - 1]]
  <2> HIDE DEF power
  <2> QED  BY <1>3 DEF Power
<1> QED  BY <1>4 DEF PowerRule

(* Whole quotients. *)
LEMMA ProductGrows ==
  ASSUME NEW a \in Int, NEW b \in Int, a <= b, NEW p \in Nat
  PROVE  a * p <= b * p
OBVIOUS

(* A quotient lies between the multiples of the divisor, *)
LEMMA QuotientIs ==
  ASSUME NEW n \in Nat, NEW p \in Nat \ {0}
  PROVE  /\ n \div p \in Nat
         /\ (n \div p) * p <= n /\ n < (n \div p) * p + p
OBVIOUS

(* and nothing else does. *)
LEMMA QuotientIsOnly ==
  ASSUME NEW n \in Nat, NEW p \in Nat \ {0}, NEW q \in Nat, q * p <= n, n < q * p + p
  PROVE  n \div p = q
OBVIOUS

(* Of two numbers the larger has the larger quotient. *)
LEMMA QuotientsGrow ==
  ASSUME NEW n \in Nat, NEW m \in Nat, n <= m, NEW p \in Nat \ {0}
  PROVE  n \div p <= m \div p
BY QuotientIs, ProductGrows

(* A digit more. *)
LEMMA QuotientNext ==
  ASSUME NEW n \in Nat, NEW p \in Nat \ {0}
  PROVE  n \div p = 16 * (n \div (16 * p)) + ((n \div p) % 16)
<1> DEFINE q == n \div p
           r == q \div 16
<1>1. q \in Nat /\ q * p <= n /\ n < q * p + p
  BY QuotientIs
<1> HIDE DEF q
<1>2. r \in Nat /\ q = 16 * r + (q % 16) /\ 16 * r <= q /\ q + 1 <= 16 * r + 16
  BY <1>1
<1> HIDE DEF r
<1>3. 16 * p \in Nat \ {0} /\ r * (16 * p) = (16 * r) * p
      /\ r * (16 * p) + 16 * p = (16 * r + 16) * p /\ q * p + p = (q + 1) * p
  <2>1. r \in Int /\ q \in Int
    BY <1>1, <1>2
  <2> QED  BY <2>1
<1>4. (16 * r) * p <= q * p /\ (q + 1) * p <= (16 * r + 16) * p
  BY <1>1, <1>2, ProductGrows
<1>5. r * (16 * p) <= n /\ n < r * (16 * p) + 16 * p
  BY <1>1, <1>2, <1>3, <1>4
<1>6. n \div (16 * p) = r
  BY <1>2, <1>3, <1>5, QuotientIsOnly
<1> QED  BY <1>2, <1>6 DEF q

(* Powers of sixteen. *)
LEMMA PowerNext ==
  /\ Power[0] = 1
  /\ \A d \in Nat : Power[d] \in Nat \ {0} /\ Power[d + 1] = 16 * Power[d]
<1>1. \A d \in Nat : Power[d + 1] = 16 * Power[d]
  <2>1. \A d \in Nat : d + 1 \in Nat /\ d + 1 # 0 /\ (d + 1) - 1 = d
    OBVIOUS
  <2> QED  BY <2>1, PowerIs DEF PowerRule
<1>2. Power[0] = 1
  BY PowerIs DEF PowerRule
<1>3. \A d \in Nat : Power[d] \in Nat \ {0}
  <2> DEFINE T == {d \in Nat : Power[d] \notin Nat \ {0}}
  <2> SUFFICES ASSUME T # {} PROVE FALSE
    OBVIOUS
  <2>1. PICK d \in T : \A m \in T : d <= m
    BY LeastNatural
  <2>2. d - 1 \in Nat /\ d - 1 \notin T /\ (d - 1) + 1 = d
    BY <1>2, <2>1
  <2>3. Power[d] = 16 * Power[d - 1]
    BY <1>1, <2>2
  <2> QED  BY <2>1, <2>2, <2>3
<1> QED  BY <1>1, <1>2, <1>3

(* Digit d of the d0 hexadecimal digits of a number. *)
Digit(n, d0, d) == (n \div Power[d0 - d]) % 16

(* Two numbers that the digits can tell are told apart by the first digit    *)
(* they differ in: the smaller number has the smaller one.                  *)
LEMMA DigitsTell ==
  ASSUME NEW n \in Nat, NEW m \in Nat, NEW d0 \in Nat, n < m, m < Power[d0]
  PROVE  \E d \in 1 .. d0 : /\ Digit(n, d0, d) < Digit(m, d0, d)
                            /\ \A e \in 1 .. d - 1 : Digit(n, d0, e) = Digit(m, d0, e)
<1> DEFINE Q(x, d) == x \div Power[d0 - d]
           T == {d \in 0 .. d0 : Q(n, d) # Q(m, d)}
<1>1. \A d \in 0 .. d0 : d0 - d \in Nat /\ Power[d0 - d] \in Nat \ {0}
  BY PowerNext
<1>2. \A d \in 0 .. d0 : Q(n, d) \in Nat /\ Q(m, d) \in Nat /\ Q(n, d) <= Q(m, d)
  BY <1>1, QuotientIs, QuotientsGrow
<1>3. Q(n, 0) = 0 /\ Q(m, 0) = 0
  <2>1. d0 - 0 = d0 /\ Power[d0] \in Nat \ {0}
    BY <1>1
  <2>2. n < 0 * Power[d0] + Power[d0] /\ m < 0 * Power[d0] + Power[d0]
        /\ 0 * Power[d0] <= n /\ 0 * Power[d0] <= m
    BY <2>1
  <2> QED  BY <2>1, <2>2, QuotientIsOnly
<1>4. Q(n, d0) = n /\ Q(m, d0) = m
  <2>1. d0 - d0 = 0 /\ Power[0] = 1
    BY PowerNext
  <2> QED  BY <2>1
<1>5. ASSUME NEW d \in 1 .. d0, NEW x \in {n, m}
      PROVE  Q(x, d) = 16 * Q(x, d - 1) + Digit(x, d0, d)
  <2>1. d0 - d \in Nat /\ d0 - (d - 1) = (d0 - d) + 1
    OBVIOUS
  <2>2. Power[d0 - (d - 1)] = 16 * Power[d0 - d] /\ Power[d0 - d] \in Nat \ {0}
    BY <2>1, PowerNext
  <2> QED  BY <2>2, QuotientNext DEF Digit
<1>6. PICK d \in T : \A e \in T : d <= e
  <2>1. d0 \in T /\ T \in SUBSET Nat
    BY <1>4
  <2> HIDE DEF T
  <2> QED  BY <2>1, LeastNatural
<1>7. d \in 1 .. d0
  BY <1>3, <1>6
<1> HIDE DEF Q
<1>8. ASSUME NEW e \in 0 .. d - 1 PROVE Q(n, e) = Q(m, e)
  BY <1>6, <1>7
<1>9. \A e \in 1 .. d0 : Digit(n, d0, e) \in 0 .. 15 /\ Digit(m, d0, e) \in 0 .. 15
  <2>1. \A e \in 1 .. d0 : e \in 0 .. d0
    OBVIOUS
  <2>2. \A x \in Nat : x % 16 \in 0 .. 15
    OBVIOUS
  <2>3. \A x, e : Digit(x, d0, e) = Q(x, e) % 16
    BY DEF Q, Digit
  <2> QED  BY <1>2, <2>1, <2>2, <2>3
<1>10. ASSUME NEW e \in 1 .. d - 1 PROVE Digit(n, d0, e) = Digit(m, d0, e)
  <2>1. Q(n, e) = Q(m, e) /\ Q(n, e - 1) = Q(m, e - 1)
    BY <1>8
  <2>2. e \in 1 .. d0 /\ e \in 0 .. d0 /\ e - 1 \in 0 .. d0
    BY <1>7
  <2>3. /\ Q(n, e) = 16 * Q(n, e - 1) + Digit(n, d0, e)
        /\ Q(m, e) = 16 * Q(m, e - 1) + Digit(m, d0, e)
    BY <1>5, <2>2
  <2>4. Q(n, e) \in Int /\ Q(n, e - 1) \in Int
    BY <1>2, <2>2
  <2>5. Digit(n, d0, e) \in Int /\ Digit(m, d0, e) \in Int
    BY <1>9, <2>2
  <2>6. Q(m, e) \in Int /\ Q(m, e - 1) \in Int
    BY <1>2, <2>2
  <2>7. \A a, b, c \in Int : a = 16 * b + c => c = a - 16 * b
    OBVIOUS
  <2>8. Digit(n, d0, e) = Q(n, e) - 16 * Q(n, e - 1)
    BY <2>3, <2>4, <2>5, <2>7
  <2>9. Digit(m, d0, e) = Q(m, e) - 16 * Q(m, e - 1)
    BY <2>3, <2>5, <2>6, <2>7
  <2> QED  BY <2>1, <2>8, <2>9
<1>11. Digit(n, d0, d) < Digit(m, d0, d)
  <2>1. Q(n, d - 1) = Q(m, d - 1) /\ Q(n, d) # Q(m, d)
    BY <1>6, <1>7, <1>8
  <2>2. d \in 0 .. d0 /\ d - 1 \in 0 .. d0
    BY <1>7
  <2>3. /\ Q(n, d) = 16 * Q(n, d - 1) + Digit(n, d0, d)
        /\ Q(m, d) = 16 * Q(m, d - 1) + Digit(m, d0, d)
    BY <1>5, <1>7
  <2>4. Q(n, d) <= Q(m, d) /\ Q(n, d) \in Nat /\ Q(m, d) \in Nat /\ Q(n, d - 1) \in Nat
    BY <1>2, <2>2
  <2> QED  BY <1>7, <1>9, <2>1, <2>3, <2>4
<1> QED  BY <1>7, <1>10, <1>11
-----------------------------------------------------------------------------
(* The order of the lines. *)

(* The elements of the first sequence stay where they are. *)
LEMMA JoinKeeps ==
  ASSUME NEW S, NEW s \in Seq(S), NEW t \in Seq(S)
  PROVE  /\ DOMAIN (s \o t) = 1 .. Len(s) + Len(t)
         /\ \A k \in 1 .. Len(s) : (s \o t)[k] = s[k]
<1>1. s \o t \in Seq(S) /\ Len(s \o t) = Len(s) + Len(t)
  OBVIOUS
<1>2. \A k \in 1 .. Len(s) : (s \o t)[k] = s[k]
  OBVIOUS
<1> QED  BY <1>1, <1>2

(* Digits of an address. *)
Width == IF wide THEN LongDigits ELSE WordDigits

(* The line with the lower address is the first as text. *)
LEMMA LowerIsBefore ==
  ASSUME ObjcAssumption, wide \in BOOLEAN, NEW l \in Line, NEW m \in Line,
         l.addr < m.addr, m.addr < AddrWord
  PROVE  TextBefore(l, m)
<1>1. /\ Width \in Nat /\ AddrWord \in Nat /\ Power[Width] \in Nat
      /\ AddrWord <= Power[Width]
  <2>1. Width \in Nat /\ AddrWord \in Nat /\ AddrWord <= Power[Width]
    BY DEF ObjcAssumption, Width, AddrWord
  <2> QED  BY <2>1, PowerNext
<1>2. l.addr \in Nat /\ m.addr \in Nat /\ m.addr < Power[Width]
  BY <1>1 DEF Line
<1>3. PICK d \in 1 .. Width :
        /\ Digit(l.addr, Width, d) < Digit(m.addr, Width, d)
        /\ \A e \in 1 .. d - 1 : Digit(l.addr, Width, e) = Digit(m.addr, Width, e)
  BY <1>1, <1>2, DigitsTell
<1>4. ASSUME NEW n \in Nat
      PROVE  HexDigits(n) = [e \in 1 .. Width |-> Digit(n, Width, e)]
  BY DEF HexDigits, Padded, Digit, Width
<1>5. \A e \in 1 .. Width : Width - e \in Nat /\ Power[Width - e] \in Nat \ {0}
  BY <1>1, PowerNext
<1>6. ASSUME NEW n \in Nat, NEW e \in 1 .. Width
      PROVE  Digit(n, Width, e) \in Nat
  <2>1. n \div Power[Width - e] \in Nat
    BY <1>5, QuotientIs
  <2> QED  BY <2>1 DEF Digit
<1>7. ASSUME NEW x \in {l, m}
      PROVE  /\ DOMAIN Key(x) = 1 .. Width + 2
             /\ \A e \in 1 .. Width : Key(x)[e] = Digit(x.addr, Width, e) + 1
  <2> DEFINE text == [e \in 1 .. Width |-> Digit(x.addr, Width, e) + 1]
             tail == <<0, NameRank[x.name]>>
  <2>1. Key(x) = text \o tail
    <3>1. x.addr \in Nat
      BY <1>2
    <3>2. /\ DOMAIN HexDigits(x.addr) = 1 .. Width
          /\ \A e \in 1 .. Width : HexDigits(x.addr)[e] = Digit(x.addr, Width, e)
      BY <1>4, <3>1
    <3> QED  BY <3>2 DEF Key
  <2>2. text \in Seq(Nat) /\ Len(text) = Width
    <3>1. text \in [1 .. Width -> Nat]
      BY <1>2, <1>6
    <3> QED  BY <1>1, <3>1
  <2>3. Len(tail) = 2
    OBVIOUS
  <2>4. \A e \in 1 .. Width : text[e] = Digit(x.addr, Width, e) + 1
    OBVIOUS
  <2> DEFINE S == Nat \cup {NameRank[x.name]}
  <2>6. text \in Seq(S) /\ tail \in Seq(S)
    <3>1. text \in [1 .. Width -> S] /\ tail \in [1 .. 2 -> S]
      BY <1>2, <1>6
    <3> QED  BY <1>1, <3>1
  <2> HIDE DEF text, tail, S
  <2>5. /\ DOMAIN (text \o tail) = 1 .. Width + 2
        /\ \A e \in 1 .. Width : (text \o tail)[e] = text[e]
    <3>1. /\ DOMAIN (text \o tail) = 1 .. Len(text) + Len(tail)
          /\ \A e \in 1 .. Len(text) : (text \o tail)[e] = text[e]
      BY <2>6, JoinKeeps
    <3> QED  BY <2>2, <2>3, <3>1
  <2> QED  BY <2>1, <2>4, <2>5
<1>8. d \in DOMAIN Key(l) /\ d \in DOMAIN Key(m)
  BY <1>1, <1>7
<1>9. Key(l)[d] < Key(m)[d]
  <2>1. Digit(l.addr, Width, d) \in Nat /\ Digit(m.addr, Width, d) \in Nat
    BY <1>2, <1>6
  <2>2. Key(l)[d] = Digit(l.addr, Width, d) + 1 /\ Key(m)[d] = Digit(m.addr, Width, d) + 1
    BY <1>7
  <2> QED  BY <1>3, <2>1, <2>2
<1>10. ASSUME NEW e \in 1 .. d - 1 PROVE Key(l)[e] = Key(m)[e]
  <2>1. e \in 1 .. Width
    BY <1>1
  <2> QED  BY <1>3, <1>7, <2>1
<1> QED  BY <1>8, <1>9, <1>10 DEF TextBefore

(* The addresses never go down from one line to the next, *)
Ascending == \A k \in 1 .. Len(lines) - 1 : lines[k].addr <= lines[k + 1].addr

OrderInv ==
  /\ \A k \in DOMAIN lines : lines[k].addr < AddrWord
  /\ pc # "sort" => Ascending

(* because sort puts them in the order of their text. *)
LEMMA SortAscends ==
  ASSUME ObjcAssumption, TypeOK, OrderInv, Sort
  PROVE  OrderInv'
<1>1. /\ lines \in Seq(Line) /\ wide \in BOOLEAN /\ wide' = wide /\ AddrWord' = AddrWord
      /\ AddrWord \in Nat
  BY WordIsPositive DEF TypeOK, Sort, AddrWord, Line
<1>2. PICK s \in Permutations(lines) :
        /\ \A k \in 1 .. Len(s) - 1 : ~TextBefore(s[k + 1], s[k])
        /\ lines' = s
  BY DEF Sort
<1>3. PICK p \in [DOMAIN lines -> DOMAIN lines] : s = [k \in DOMAIN lines |-> lines[p[k]]]
  BY DEF Permutations
<1>4. s \in Seq(Line) /\ Len(s) = Len(lines)
  BY <1>1, PermutationsKeepType
<1>5. ASSUME NEW k \in DOMAIN s PROVE s[k] \in Line /\ s[k].addr < AddrWord
  <2>1. s[k] = lines[p[k]] /\ p[k] \in DOMAIN lines
    BY <1>3
  <2> QED  BY <1>4, <2>1 DEF OrderInv
<1>6. ASSUME NEW k \in 1 .. Len(s) - 1 PROVE s[k].addr <= s[k + 1].addr
  <2>1. k \in DOMAIN s /\ k + 1 \in DOMAIN s
    BY <1>4
  <2>2. s[k] \in Line /\ s[k + 1] \in Line /\ s[k].addr < AddrWord
    BY <1>5, <2>1
  <2>3. ~(s[k + 1].addr < s[k].addr)
    BY <1>1, <1>2, <2>2, LowerIsBefore
  <2>4. s[k].addr \in Nat /\ s[k + 1].addr \in Nat
    BY <2>2 DEF Line
  <2> QED  BY <2>3, <2>4
<1> QED  BY <1>1, <1>2, <1>5, <1>6 DEF OrderInv, Ascending

(* Before sort there is no order to keep. *)
LEMMA InitOrder == Init => OrderInv
BY DEF Init, Begin, OrderInv

(* sort brings the addresses into order, and no later step changes it. *)
LEMMA NextOrder ==
  ASSUME ObjcAssumption, TypeOK, OrderInv, [Prepare \/ Parse]_vars
  PROVE  OrderInv'
<1>1. CASE Sort
  BY <1>1, SortAscends
<1>2. CASE ReadLine \/ WriteRaw \/ Parse \/ UNCHANGED vars
  <2>1. lines' = lines /\ wide' = wide /\ AddrWord' = AddrWord /\ (pc' # "sort" => pc # "sort")
    BY <1>2 DEF ReadLine, WriteRaw, Parse, ParseLine, Parsed, vars, AddrWord
  <2> QED  BY <2>1 DEF OrderInv, Ascending
<1> QED  BY <1>1, <1>2 DEF Prepare

-----------------------------------------------------------------------------
(* The functions of addresses. *)

(* The addresses of the lines are natural numbers. *)
LEMMA AddressesAre ==
  ASSUME lines \in Seq(Line)
  PROVE  /\ DOMAIN lines = 1 .. Len(lines) /\ Len(lines) \in Nat
         /\ \A k \in DOMAIN lines : lines[k].addr \in Nat /\ Entry(k) \in Int
<1>1. DOMAIN lines = 1 .. Len(lines) /\ Len(lines) \in Nat
  OBVIOUS
<1>2. \A l \in Line : l.addr \in Nat
  BY DEF Line
<1>3. \A k \in DOMAIN lines : lines[k] \in Line
  OBVIOUS
<1> QED  BY <1>1, <1>2, <1>3 DEF Entry

(* In sorted lines, addresses ascend over any distance. *)
LEMMA LinesAscend ==
  ASSUME lines \in Seq(Line), Ascending
  PROVE  \A j, k \in DOMAIN lines : j <= k => lines[j].addr <= lines[k].addr
<1>1. /\ DOMAIN lines = 1 .. Len(lines) /\ Len(lines) \in Nat
      /\ \A k \in DOMAIN lines : lines[k].addr \in Nat
  BY AddressesAre
<1> SUFFICES ASSUME NEW j \in DOMAIN lines
             PROVE  \A k \in DOMAIN lines : j <= k => lines[j].addr <= lines[k].addr
  OBVIOUS
<1> DEFINE T == {k \in DOMAIN lines : j <= k /\ ~(lines[j].addr <= lines[k].addr)}
<1> SUFFICES ASSUME T # {} PROVE FALSE
  OBVIOUS
<1>2. PICK k \in T : \A m \in T : k <= m
  <2>1. T \in SUBSET Nat
    BY <1>1
  <2> HIDE DEF T
  <2> QED  BY <2>1, LeastNatural
<1>3. k # j
  BY <1>1, <1>2
<1>4. k - 1 \in DOMAIN lines /\ j <= k - 1 /\ k - 1 \notin T /\ (k - 1) + 1 = k
      /\ k - 1 \in 1 .. Len(lines) - 1
  BY <1>1, <1>2, <1>3
<1>5. lines[j].addr <= lines[k - 1].addr /\ lines[k - 1].addr <= lines[k].addr
  BY <1>4 DEF Ascending
<1> QED  BY <1>1, <1>2, <1>4, <1>5

(* What std::stoull makes of the number before an address. *)
LEMMA StoullOfCorrected ==
  ASSUME ObjcAssumption
  PROVE  /\ \A n \in Nat : n < AddrWord => Stoull(n) = n
         /\ Stoull(-1) = AddrWord - 1
<1>1. /\ AddrWord \in Nat \ {0} /\ LongWord \in Nat \ {0} /\ Word \in Nat \ {0}
      /\ LongWord % AddrWord = 0 /\ AddrWord <= LongWord
  <2>1. Word \in Nat \ {0} /\ LongWord \in Nat \ {0} /\ LongWord % Word = 0
    BY DEF ObjcAssumption
  <2>2. LongWord % LongWord = 0
    BY <2>1
  <2>3. Word <= LongWord
    BY <2>1
  <2> QED  BY <2>1, <2>2, <2>3 DEF AddrWord
<1>2. ASSUME NEW n \in Nat, n < AddrWord PROVE Stoull(n) = n
  <2>1. n % LongWord = n /\ n % AddrWord = n
    BY <1>1, <1>2
  <2> QED  BY <2>1 DEF Stoull
<1>3. Stoull(-1) = AddrWord - 1
  <2>1. (-1) % LongWord = LongWord - 1
    BY <1>1
  <2> DEFINE q == LongWord \div AddrWord
  <2>2. q \in Nat /\ LongWord = q * AddrWord
    BY <1>1
  <2> HIDE DEF q
  <2>3. q >= 1
    BY <1>1, <2>2
  <2>4. LongWord - 1 = (q - 1) * AddrWord + (AddrWord - 1)
    BY <1>1, <2>2
  <2>5. (LongWord - 1) \div AddrWord = q - 1
    <3>1. q - 1 \in Nat /\ (q - 1) * AddrWord <= LongWord - 1
          /\ LongWord - 1 < (q - 1) * AddrWord + AddrWord /\ LongWord - 1 \in Nat
      <4> DEFINE r == q - 1
      <4>1. r \in Nat /\ r * AddrWord \in Int /\ AddrWord \in Nat \ {0}
            /\ LongWord - 1 = r * AddrWord + (AddrWord - 1) /\ LongWord - 1 \in Nat
        BY <1>1, <2>2, <2>3, <2>4
      <4> HIDE DEF r
      <4> QED  BY <4>1 DEF r
    <3> QED  BY <1>1, <3>1, QuotientIsOnly
  <2>6. (LongWord - 1) % AddrWord = (LongWord - 1) - ((LongWord - 1) \div AddrWord) * AddrWord
    BY <1>1
  <2>7. (LongWord - 1) % AddrWord = AddrWord - 1
    BY <1>1, <2>2, <2>4, <2>5, <2>6
  <2> QED  BY <2>1, <2>7 DEF Stoull
<1> QED  BY <1>2, <1>3

(* The parsed function of line k: it holds an address of an instruction only *)
(* if the line has code, and then from the beginning of that code to the    *)
(* beginning of the code of the next line.                                  *)
LEMMA RangeOfLine ==
  ASSUME ObjcAssumption, IInv, OrderInv, pc = "done", NEW a \in Int, InReach(a),
         NEW k \in DOMAIN lines
  PROVE  /\ DOMAIN parsed = DOMAIN lines /\ parsed[k].name = lines[k].name
         /\ parsed[k].base <= a <=> k \in Coded /\ Entry(k) <= a
         /\ k + 1 \in DOMAIN lines => parsed[k].end = parsed[k + 1].base
         /\ k \in Coded /\ k + 1 \notin DOMAIN lines => a < parsed[k].end
         /\ k + 1 \in DOMAIN lines /\ k \in Coded => k + 1 \in Coded
<1>1. /\ lines \in Seq(Line) /\ Len(lines) \in Nat /\ DOMAIN lines = 1 .. Len(lines)
      /\ Len(parsed) = Len(lines) /\ Len(symbols) = Len(lines)
      /\ DOMAIN parsed = 1 .. Len(lines)
      /\ \A j \in DOMAIN lines : lines[j].addr \in Nat /\ lines[j].addr < AddrWord
  <2>1. lines \in Seq(Line)
    BY DEF IInv, TypeOK, Line
  <2>2. Len(parsed) = Len(lines) /\ Len(symbols) = Len(lines)
    <3>1. Len(lines) \in Nat /\ next \in Nat /\ Len(parsed) = next - 1
      BY <2>1 DEF IInv, TypeOK
    <3> QED  BY <3>1 DEF IInv, Count
  <2>3. DOMAIN parsed = 1 .. Len(parsed)
    BY DEF IInv, TypeOK
  <2>4. /\ DOMAIN lines = 1 .. Len(lines) /\ Len(lines) \in Nat
        /\ \A j \in DOMAIN lines : lines[j].addr \in Nat
    BY <2>1, AddressesAre
  <2>5. \A j \in DOMAIN lines : lines[j].addr < AddrWord
    BY DEF OrderInv
  <2> QED  BY <2>1, <2>2, <2>3, <2>4, <2>5
<1>2. AddrWord \in Nat \ {0}
  BY WordIsPositive
<1>3. /\ a >= 0 /\ a % 2 = 0
      /\ \A j \in Coded : lines[j].addr - 1 + 4096 < AddrWord
  BY DEF InReach, Corrected, FakeSize
<1>4. PICK h \in Coded : a < Entry(h) + 4096 - 1
  BY DEF InReach, FakeSize
<1>5. \A i, j \in DOMAIN lines : i <= j => lines[i].addr <= lines[j].addr
  BY <1>1, LinesAscend DEF OrderInv
<1>6. ASSUME NEW j \in DOMAIN lines PROVE parsed[j].base = Stoull(lines[j].addr - 1)
  BY <1>1, <1>6 DEF IInv, SymbolsChain, ParsedSoFar, Count, Start, Corrected
<1>7. parsed[k].name = lines[k].name
  BY <1>1 DEF IInv, SymbolsChain, ParsedSoFar, Count
<1>8. a < AddrWord - 1
  <2>1. h \in DOMAIN lines /\ lines[h].addr \in Nat /\ Entry(h) <= lines[h].addr
        /\ Entry(h) \in Int
    BY <1>1, <1>4 DEF Coded, Entry
  <2> QED  BY <1>2, <1>3, <1>4, <2>1
<1>9. parsed[k].base <= a <=> k \in Coded /\ Entry(k) <= a
  <2>1. CASE lines[k].addr = 0
    <3>1. parsed[k].base = AddrWord - 1 /\ k \notin Coded
      <4>1. 0 - 1 = -1
        OBVIOUS
      <4> QED  BY <1>6, <2>1, <4>1, StoullOfCorrected DEF Coded
    <3> QED  BY <1>2, <1>8, <3>1
  <2>2. CASE lines[k].addr # 0
    <3>1. lines[k].addr - 1 \in Nat /\ lines[k].addr - 1 < AddrWord /\ k \in Coded
      BY <1>1, <1>2, <2>2 DEF Coded
    <3>2. parsed[k].base = lines[k].addr - 1
      BY <1>6, <3>1, StoullOfCorrected
    <3>3. \A n \in Nat : n - 1 <= a <=> n - (n % 2) <= a
      BY <1>3
    <3> QED  BY <1>1, <3>1, <3>2, <3>3 DEF Entry
  <2> QED  BY <2>1, <2>2
<1>10. k + 1 \in DOMAIN lines => parsed[k].end = parsed[k + 1].base
  <2>1. IInv => RangesAdjoin
    BY AdjoinFollows
  <2> QED  BY <1>1, <2>1 DEF RangesAdjoin
<1>11. ASSUME k \in Coded, k + 1 \notin DOMAIN lines PROVE a < parsed[k].end
  <2>1. k = Len(lines)
    BY <1>1, <1>11
  <2>2. parsed[k].end = Stoull(lines[k].addr - 1 + 4096)
    BY <1>1, <2>1 DEF IInv, LastClosed, ParsedSoFar, Count, Start, Corrected, FakeSize
  <2>3. lines[k].addr - 1 + 4096 \in Nat /\ lines[k].addr - 1 + 4096 < AddrWord
    BY <1>1, <1>3, <1>11
  <2>4. parsed[k].end = lines[k].addr - 1 + 4096
    BY <2>2, <2>3, StoullOfCorrected
  <2>5. h \in DOMAIN lines /\ lines[h].addr <= lines[k].addr
    BY <1>1, <1>4, <1>5, <2>1 DEF Coded
  <2>6. \A m, n \in Nat : m <= n => m - (m % 2) + 4096 - 1 <= n - 1 + 4096
    OBVIOUS
  <2>7. Entry(h) + 4096 - 1 <= lines[k].addr - 1 + 4096
    BY <1>1, <2>5, <2>6 DEF Entry
  <2>8. Entry(h) \in Int
    BY <1>1, <2>5 DEF Entry
  <2> QED  BY <1>1, <1>4, <2>4, <2>7, <2>8
<1>12. k + 1 \in DOMAIN lines /\ k \in Coded => k + 1 \in Coded
  BY <1>1, <1>5 DEF Coded
<1> QED  BY <1>1, <1>7, <1>9, <1>10, <1>11, <1>12

(* An address of an instruction belongs to the function that begins last    *)
(* before it, wherever it is.                                               *)
LEMMA Attribution ==
  ASSUME ObjcAssumption, IInv, OrderInv, pc = "done", NEW a \in Int, InReach(a)
  PROVE  AttributedRight(a)
<1>1. /\ lines \in Seq(Line) /\ Len(lines) \in Nat /\ DOMAIN lines = 1 .. Len(lines)
      /\ \A j \in DOMAIN lines : lines[j].addr \in Nat /\ Entry(j) \in Int
      /\ Coded \subseteq DOMAIN lines
  <2>1. lines \in Seq(Line)
    BY DEF IInv, TypeOK, Line
  <2> QED  BY <2>1, AddressesAre DEF Coded
<1>2. \A i, j \in DOMAIN lines : i <= j => Entry(i) <= Entry(j)
  <2>1. \A i, j \in DOMAIN lines : i <= j => lines[i].addr <= lines[j].addr
    BY <1>1, LinesAscend DEF OrderInv
  <2>2. \A m, n \in Nat : m <= n => m - (m % 2) <= n - (n % 2)
    OBVIOUS
  <2> QED  BY <1>1, <2>1, <2>2 DEF Entry
<1> DEFINE T == {k \in Coded : Entry(k) <= a}
<1>3. CASE T = {}
  <2>1. Owners(a) = {}
    BY <1>3 DEF Owners
  <2>2. ASSUME NEW k \in Holders(a) PROVE FALSE
    <3>1. k \in DOMAIN parsed /\ parsed[k].base <= a
      BY DEF Holders
    <3>2. DOMAIN parsed = DOMAIN lines
      BY <1>1, RangeOfLine DEF InReach
    <3> QED  BY <1>3, <3>1, <3>2, RangeOfLine
  <2> QED  BY <2>1, <2>2 DEF AttributedRight
<1>4. CASE T # {}
  <2>1. PICK k \in T : \A j \in T : j <= k
    <3> DEFINE U == {Len(lines) - j : j \in T}
    <3>1. U \in SUBSET Nat /\ U # {}
      BY <1>1, <1>4
    <3>2. PICK n \in U : \A m \in U : n <= m
      <4> HIDE DEF U
      <4> QED  BY <3>1, LeastNatural
    <3>3. PICK k \in T : n = Len(lines) - k
      BY <3>2
    <3>4. \A j \in T : Len(lines) - k <= Len(lines) - j
      BY <3>2, <3>3
    <3>5. \A j \in T : j \in Int
      BY <1>1
    <3> QED  BY <1>1, <3>4, <3>5
  <2>2. k \in DOMAIN lines /\ k \in Coded /\ Entry(k) <= a
    BY <1>1, <2>1
  <2>3. DOMAIN parsed = DOMAIN lines
    BY <2>2, RangeOfLine
  <2>4. ASSUME NEW j \in DOMAIN lines PROVE parsed[j].base <= a <=> j \in T
    BY RangeOfLine
  <2>5. a < parsed[k].end
    <3>1. CASE k + 1 \in DOMAIN lines
      <4>1. k + 1 \notin T
        BY <1>1, <2>1, <2>2
      <4>2. ~(parsed[k + 1].base <= a) /\ parsed[k].end = parsed[k + 1].base
        BY <2>2, <2>4, <3>1, <4>1, RangeOfLine
      <4>3. parsed[k + 1].base \in Int
        BY <2>3, <3>1, BaseIsNumber
      <4> QED  BY <4>2, <4>3
    <3>2. CASE k + 1 \notin DOMAIN lines
      BY <2>2, <3>2, RangeOfLine
    <3> QED  BY <3>1, <3>2
  <2>6. k \in Holders(a)
    BY <2>1, <2>2, <2>3, <2>4, <2>5 DEF Holders
  <2>7. ASSUME NEW j \in Holders(a) PROVE j = k
    <3>1. j \in DOMAIN lines /\ parsed[j].base <= a /\ a < parsed[j].end
      BY <2>3 DEF Holders
    <3>2. j \in T /\ j <= k
      BY <2>1, <2>4, <3>1
    <3>3. ASSUME j # k PROVE FALSE
      <4>1. j + 1 \in DOMAIN lines /\ j + 1 <= k
        BY <1>1, <2>2, <3>1, <3>2, <3>3
      <4>2. parsed[j].end = parsed[j + 1].base /\ j + 1 \in Coded
        BY <3>1, <3>2, <4>1, RangeOfLine
      <4>3. Entry(j + 1) <= a
        BY <1>1, <1>2, <2>2, <4>1
      <4>4. parsed[j + 1].base <= a
        BY <2>4, <4>1, <4>2, <4>3
      <4>5. parsed[j + 1].base \in Int
        BY <2>3, <4>1, BaseIsNumber
      <4> QED  BY <3>1, <4>2, <4>4, <4>5
    <3> QED  BY <3>3
  <2>8. k \in Owners(a)
    <3>1. \A j \in Coded : Entry(j) <= a => Entry(j) <= Entry(k)
      BY <1>1, <1>2, <2>1, <2>2
    <3> QED  BY <2>2, <3>1 DEF Owners
  <2>9. parsed[k].name = lines[k].name
    BY <2>2, RangeOfLine
  <2>10. Holders(a) = {k}
    BY <2>6, <2>7
  <2> QED  BY <2>8, <2>9, <2>10 DEF AttributedRight
<1> QED  BY <1>3, <1>4

(* main.py:29-35, main.mm:59-61: IInv and OrderInv together say whose an     *)
(* address is.                                                              *)
THEOREM OrderIsKept == ASSUME ObjcAssumption PROVE Spec => []OrderInv
<1>1. OrderInv /\ TypeOK /\ [Prepare \/ Parse]_vars => OrderInv'
  BY NextOrder
<1> QED
  BY <1>1, InitOrder, TypeCorrect, PTL DEF Spec

(* EveryAddressAttributed without its selection of addresses. *)
AttributedEverywhere == pc = "done" => \A a \in Int : InReach(a) => AttributedRight(a)

(* In the order of the addresses, adjacent ranges attribute every address. *)
LEMMA AttributionFollows == ObjcAssumption /\ IInv /\ OrderInv => AttributedEverywhere
BY Attribution DEF AttributedEverywhere

(* The addresses next to functions are among them. *)
LEMMA SelectionFollows == ObjcAssumption /\ IInv /\ AttributedEverywhere => EveryAddressAttributed
<1> SUFFICES ASSUME IInv, AttributedEverywhere, pc = "done", NEW k \in Coded,
                    NEW a \in {Entry(k) - 2, Entry(k), Entry(k) + 2, Entry(k) + FakeSize - 2},
                    InReach(a)
             PROVE  AttributedRight(a)
  BY DEF EveryAddressAttributed
<1>1. lines \in Seq(Line)
  BY DEF IInv, TypeOK, Line
<1>2. Entry(k) \in Int
  BY <1>1, AddressesAre DEF Coded
<1>3. a \in Int
  BY <1>2 DEF FakeSize
<1> QED
  BY <1>3 DEF AttributedEverywhere

(* main.py:21-40, main.mm:54-62: for listings of every length, in whatever   *)
(* order objc-symbols printed them, every address of an instruction lies in *)
(* the parsed range of exactly one function, the one that begins last       *)
(* before it, although the lines are sorted as text and although the thumb  *)
(* bit of each line is subtracted without looking.                          *)
THEOREM AllAddressesAreAttributed ==
  ASSUME ObjcAssumption PROVE Spec => []AttributedEverywhere
BY AttributionFollows, Inductive, OrderIsKept, PTL

(* The same of the addresses next to the functions, which a run checks.     *)
THEOREM AddressesAreAttributed ==
  ASSUME ObjcAssumption PROVE Spec => []EveryAddressAttributed
BY SelectionFollows, Inductive, AllAddressesAreAttributed, PTL
=============================================================================
