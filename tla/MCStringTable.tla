--------------------------- MODULE MCStringTable ---------------------------
(***************************************************************************)
(* Instance of StringTable: every list of at most MaxNames of the names    *)
(* below, with an 11-valued uint32_t, so that lists that fit, lists whose  *)
(* size wraps once and lists whose size wraps twice all occur.             *)
(***************************************************************************)
EXTENDS StringTable

CONSTANTS MaxNames, empty, short, other, long

MCNames == {empty, short, other, long}

MCNameLength ==
  [n \in MCNames |-> CASE n = empty -> 0
                       [] n = long  -> 6
                       [] OTHER     -> 2]

MCInputs == UNION {[1 .. k -> MCNames] : k \in 0 .. MaxNames}
=============================================================================
