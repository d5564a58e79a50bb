--------------------------- MODULE MCMachoLayout ---------------------------
(***************************************************************************)
(* Instance of MachoLayout with a 16-bit word and 24-bit long addresses:   *)
(* sizes around every multiple of the page, up to inputs whose image no    *)
(* longer fits the word.                                                   *)
(***************************************************************************)
EXTENDS MachoLayout

CONSTANTS MCNsyms, MCStrsizes, MCVmoffs, MCLongVmoffs

MCArguments ==
  [wide : {FALSE}, nsyms : MCNsyms, strsize : MCStrsizes, vmoff : MCVmoffs]
  \cup [wide : {TRUE}, nsyms : MCNsyms, strsize : MCStrsizes, vmoff : MCLongVmoffs]
=============================================================================
