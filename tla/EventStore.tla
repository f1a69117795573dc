------------------------------ MODULE EventStore ------------------------------
(***************************************************************************)
(* What IEventStore::write (core/include/mas/store/EventStore.hpp) comes   *)
(* to for its callers when the store is a DuckDB file, statements aside:   *)
(* a batch goes in whole or not at all.  Rows of a write that failed may   *)
(* be left over; the next write that succeeds takes them in, opening the   *)
(* store drops them.  The workers of CleaningWorker rely on no more.       *)
(***************************************************************************)
CONSTANTS
  Batches,    \* what a write may be given: sets of rows
  Poison      \* the rows no write can bring in

VARIABLES
  rows,       \* what a reader finds
  leftover,   \* rows a failed write may leave behind
  returned    \* the rows of the writes that returned

vars == <<rows, leftover, returned>>

Write(b) ==
  /\ (leftover \cup b) \cap Poison = {}
  /\ rows' = rows \cup leftover \cup b
  /\ leftover' = {}
  /\ returned' = returned \cup b

\* A write throws, or its caller dies in it.
Throw(b) ==
  /\ leftover' \in {leftover \cup b, {}}
  /\ UNCHANGED <<rows, returned>>

Open ==
  /\ leftover' = {}
  /\ UNCHANGED <<rows, returned>>

Next == Open \/ \E b \in Batches : Write(b) \/ Throw(b)

Init == returned = {}

Spec == Init /\ [][Next]_vars
=============================================================================
