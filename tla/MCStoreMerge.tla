----------------------------- MODULE MCStoreMerge -----------------------------
(* Instances of StoreMerge for TLC. *)
EXTENDS StoreMerge

CONSTANTS f1, f2, f3, r1

MCPriors == {{}, {r1}}
=============================================================================
