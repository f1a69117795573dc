------------------------- MODULE MCCoordinator -------------------------
(* Instances of Coordinator, with its refinement of Ledger, for TLC. *)
EXTENDS CoordinatorLedger, TLC

CONSTANTS i1, i2, stranger, w1, w2

MCItems   == {i1, i2}
MCPaths   == {i1, i2, stranger}
MCWorkers == {w1, w2}
=============================================================================
