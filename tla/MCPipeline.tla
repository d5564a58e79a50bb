----------------------------- MODULE MCPipeline -----------------------------
(***************************************************************************)
(* Instances of Pipeline: a fat binary with both architectures, a thin one *)
(* and a file that is no binary.  The two architectures of the fat binary  *)
(* share a symbol file.                                                    *)
(***************************************************************************)
EXTENDS Pipeline

CONSTANTS fat, thin7, text

MCKind == [b \in Binaries |-> CASE b = fat -> "fat" [] b = thin7 -> "armv7" [] OTHER -> "other"]
=============================================================================
