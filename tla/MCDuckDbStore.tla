----------------------------- MODULE MCDuckDbStore -----------------------------
(* Instances of DuckDbStore for TLC. *)
EXTENDS DuckDbStore

CONSTANTS r1, r2, bad

MCBatches == SUBSET {r1, r2, bad}
=============================================================================
