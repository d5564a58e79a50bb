--------------------------- MODULE MCPreparation ---------------------------
(***************************************************************************)
(* Instance of Preparation: addresses of four hexadecimal digits in 32-bit *)
(* and of six in 64-bit binaries.  Binaries with every order of commands   *)
(* that matters, cut at chosen places, with a wrong count or magic, go     *)
(* together with one listing of objc-symbols; every listing of up to       *)
(* MaxLines methods goes together with one binary.                         *)
(***************************************************************************)
EXTENDS Preparation

CONSTANTS MaxLines, Cuts

MCNames == {"+[A b]", "-[A b]"}
MCNameRank == [n \in MCNames |-> IF n = "+[A b]" THEN 1 ELSE 2]

MCVmNames == {"vm_addr", "_vm_size2"}
MCDigits == [n \in MCVmNames \cup {"_main", "_f1"} |->
               CASE n = "_vm_size2" -> <<2>> [] n = "_f1" -> <<1>> [] OTHER -> <<>>]

NotCut == 100000

Binary(w, items, cut, lie) ==
  [wide |-> w, items |-> items, cut |-> cut, lie |-> lie,
   magic |-> IF w THEN "CFFAEDFE" ELSE "CEFAEDFE"]

(* Segments of an executable, the first with relocations of its sections. *)
PageZero == Segment(0, 4096, <<>>)
Text == Segment(4096, 8192, <<0, 2>>)
Data == Segment(12288, 4096, <<1>>)
Low == Segment(256, 512, <<>>)
Top == Segment(61440, 4096, <<>>)
LongTop == Segment(16773120, 4096, <<>>)

Id == Uuid("A") OtherId == Uuid("B")
Plain == Symtab(<<"_main", "_f1">>)
Odd == Symtab(<<"_main", "_vm_size2">>)
Even == Symtab(<<"vm_addr">>)

Typical == <<PageZero, Text, Data, Plain, Dysymtab(2), Id, Other(8)>>
Orders ==
  {Typical,
   <<Id, Text, PageZero, Other(16), Plain>>,
   <<Text, Id, Data, Dysymtab(1)>>,
   <<Plain, Data, Text, Id>>,
   <<Odd, PageZero, Data, Id>>,
   <<Even, PageZero, Data, Id>>,
   <<Text, Data, Odd, Id>>,
   <<Text, Data, Even, Id>>,
   <<Text, Data, Odd, Even, Id>>,
   <<Text, Id, OtherId>>,
   <<Text, Top, Id>>,
   <<Low, Id>>,
   <<Id>>, <<Text, Plain>>, <<>>}

Wides == {<<LongTop, Text, Id>>, <<Text, Segment(16773120, 8192, <<>>), Id>>}

MCBinaries ==
  {Binary(w, items, NotCut, "nothing") : w \in BOOLEAN, items \in Orders}
  \cup {Binary(TRUE, items, NotCut, "nothing") : items \in Wides}
  \cup {Binary(w, items, cut, "nothing") :
          w \in BOOLEAN, items \in {Typical, <<Id, Text, Data>>}, cut \in Cuts}
  \cup {Binary(w, items, NotCut, lie) :
          w \in BOOLEAN, lie \in {"sizeofcmds", "cmdsize", "n_strx"},
          items \in {Typical, <<Text, Data, Id>>, <<Other(8), Text, Id>>, <<Text, Other(16), Data, Id>>}}
  \cup {[Binary(w, Typical, NotCut, "nothing") EXCEPT !.magic = magic] :
          w \in BOOLEAN, magic \in {"FEEDFACE", "FEEDFACF", "other"}}

Method(addr, name) == [addr |-> addr, name |-> name]

(* Odd addresses are those of Thumb code, 0 that of a method without code;   *)
(* the end made up for a function at 61441 is the first number that is not  *)
(* an address.                                                              *)
MCMethods ==
  {Method(0, "+[A b]"), Method(258, "+[A b]"), Method(259, "-[A b]"),
   Method(4097, "+[A b]"), Method(4097, "-[A b]"), Method(4352, "-[A b]"),
   Method(61441, "+[A b]")}

MCOutputs ==
  {s \in UNION {[1 .. n -> MCMethods] : n \in 0 .. MaxLines} :
     \A k, j \in DOMAIN s : s[k] = s[j] => k = j}

(* Addresses of 64 bits, the made up end of the last of which is no number  *)
(* std::stoull delivers.                                                    *)
Longs == {<<Method(a, "+[A b]"), Method(4096, "-[A b]")>> : a \in {1048576, 16773120, 16777215}}

One == <<Method(4097, "+[A b]")>>
Small(w) == Binary(w, <<Text, Id>>, NotCut, "nothing")

MCScenarios ==
  {[binary |-> b, output |-> One, wide |-> w] : b \in MCBinaries, w \in BOOLEAN}
  \cup {[binary |-> Small(w), output |-> o, wide |-> w] : w \in BOOLEAN, o \in MCOutputs}
  \cup {[binary |-> Small(TRUE), output |-> o, wide |-> TRUE] : o \in Longs}

MCContent == [b \in {s.binary : s \in MCScenarios} |-> FileOf(b)]
=============================================================================
