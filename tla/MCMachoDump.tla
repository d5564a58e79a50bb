---------------------------- MODULE MCMachoDump ----------------------------
(***************************************************************************)
(* Instance of MachoDump: every list of at most MaxSymbols of a few        *)
(* symbols: two with the same name, one whose name is empty, one whose     *)
(* range lies inside that of another, and one that only a 64-bit image has.*)
(***************************************************************************)
EXTENDS MachoDump

CONSTANTS MaxSymbols, empty, foo, other

MCNames == {empty, foo, other}

MCNameLength == [n \in MCNames |-> CASE n = empty -> 0 [] n = foo -> 1 [] OTHER -> 3]

MCSymbols ==
  {[name |-> foo,   base |-> 16384, end |-> 16400],
   [name |-> foo,   base |-> 16400, end |-> 20000],
   [name |-> other, base |-> 16396, end |-> 16398],
   [name |-> empty, base |-> 20000, end |-> 20000],
   [name |-> other, base |-> 70000, end |-> 70012]}

MCInputs == UNION {[1 .. k -> MCSymbols] : k \in 0 .. MaxSymbols}
=============================================================================
