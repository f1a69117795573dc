------------------------------ MODULE DuckDbStore ------------------------------
(***************************************************************************)
(* One DuckDB store file, statement by statement: the constructor with its *)
(* identity probe, write() through the staging table, and what is left of  *)
(* both when the process dies between two statements or one of them fails. *)
(*                                                                         *)
(* A row is its key; a poison row is one whose timestamp the strict cast   *)
(* rejects.  Statements outside a transaction commit by themselves.        *)
(***************************************************************************)
EXTENDS Integers, FiniteSets

CONSTANTS
  Rows,        \* rows a caller may write
  Poison,      \* those with a malformed timestamp
  Batches,     \* what one write() may be given: sets of rows
  MaxWrites,   \* bound: calls of write()
  MaxCrashes,  \* bound: deaths of the process
  Probe        \* the rows of the identity probe

ASSUME RowsAssumption  == Poison \subseteq Rows /\ Batches \subseteq SUBSET Rows
ASSUME ProbeAssumption == Probe \notin Rows
ASSUME BoundsAssumption == MaxWrites \in Nat /\ MaxCrashes \in Nat

\* none     no cap_events        cap_seq  UNIQUE (machine_id, head_id, cap_seq)
\* ts       UNIQUE (.., ts)      bare     no unique constraint
\* foreign  a cap_events this code cannot insert into
Indexes == {"none", "cap_seq", "ts", "bare", "foreign"}

VARIABLES
  index,    \* how cap_events in the file is keyed
  stamped,  \* store_meta holds the identity
  rows,     \* committed rows of cap_events
  staging,  \* committed rows of staging_cap_events
  view,     \* rows and staging as the open transaction sees them
  pc,       \* the next statement
  batch,    \* the argument of write()
  prior,    \* history: the rows the file came with
  written,  \* history: rows of writes that returned
  unsure,   \* history: rows of writes that a crash, BEGIN or COMMIT cut short
  dirty,    \* history: BEGIN or COMMIT has failed since staging was last cleared
  writes, crashes

vars == <<index, stamped, rows, staging, view, pc, batch, prior, written, unsure,
          dirty, writes, crashes>>
file == <<index, stamped, rows, staging>>
history == <<prior, written, unsure, dirty, crashes>>
said == <<prior, written, unsure, crashes>>

NoView == [rows |-> {}, staging |-> {}]

\* A new file, or one an earlier version, another program or a run of this one
\* has left behind.
Init ==
  /\ index \in Indexes
  /\ stamped \in BOOLEAN /\ (stamped => index = "ts")
  /\ rows \in {{}, Rows \ Poison} /\ (index \in {"none", "foreign"} => rows = {})
  /\ staging \in {{}, Rows} /\ (index \in {"none", "foreign"} => staging = {})
  /\ prior = rows
  /\ view = NoView /\ batch = {} /\ written = {} /\ unsure = {} /\ dirty = FALSE
  /\ pc = "down" /\ writes = 0 /\ crashes = 0

-----------------------------------------------------------------------------
(* The constructor *)

CreateTable ==
  /\ pc = "down"
  /\ index' = IF index = "none" THEN "ts" ELSE index
  /\ pc' = IF stamped THEN "clear" ELSE "probe"
  /\ UNCHANGED <<stamped, rows, staging, view, batch, writes, history>>

\* Two inserts that differ only in ts, in a transaction that is rolled back.
FirstProbe ==
  /\ pc = "probe" /\ index # "foreign"
  /\ view' = [rows |-> rows \cup {Probe}, staging |-> staging]
  /\ pc' = "probe2"
  /\ UNCHANGED <<file, batch, writes, history>>

Unusable ==
  /\ pc = "probe" /\ index = "foreign"
  /\ pc' = "refused"
  /\ UNCHANGED <<file, view, batch, writes, history>>

Fault_EmptyIsNew == index = "cap_seq" /\ rows # {}
KeyedOnCapSeq == index = "cap_seq"

SecondProbe ==
  /\ pc = "probe2"
  /\ view' = NoView
  /\ pc' = IF KeyedOnCapSeq THEN "refused" ELSE "stamp"
  /\ UNCHANGED <<file, batch, writes, history>>

Stamp ==
  /\ pc = "stamp"
  /\ stamped' = TRUE
  /\ pc' = "clear"
  /\ UNCHANGED <<index, rows, staging, view, batch, writes, history>>

\* Stale rows of a crashed run.
ClearStaging ==
  /\ pc = "clear"
  /\ staging' = {}
  /\ dirty' = FALSE
  /\ pc' = "ready"
  /\ UNCHANGED <<index, stamped, rows, view, batch, writes, said>>

-----------------------------------------------------------------------------
(* write(); an empty batch returns at once *)

\* The Appender commits by itself; one that throws has staged nothing.
Append(b) ==
  /\ pc = "ready" /\ b # {} /\ writes < MaxWrites
  /\ writes' = writes + 1
  /\ batch' = b
  /\ staging' = staging \cup b
  /\ pc' = "begin"
  /\ UNCHANGED <<index, stamped, rows, view, history>>

Begin ==
  /\ pc = "begin"
  /\ view' = [rows |-> rows, staging |-> staging]
  /\ pc' = "insert"
  /\ UNCHANGED <<file, batch, writes, history>>

\* INSERT OR IGNORE, then DELETE, inside the transaction.
Insert ==
  /\ pc = "insert" /\ view.staging \cap Poison = {}
  /\ view' = [rows |-> view.rows \cup view.staging, staging |-> view.staging]
  /\ pc' = "delete"
  /\ UNCHANGED <<file, batch, writes, history>>

Fault_KeepsStaging ==
  /\ pc = "delete"
  /\ pc' = "commit"
  /\ UNCHANGED <<file, view, batch, writes, history>>

Delete ==
  /\ pc = "delete"
  /\ view' = [view EXCEPT !.staging = {}]
  /\ pc' = "commit"
  /\ UNCHANGED <<file, batch, writes, history>>

\* The cast rejects a row; or INSERT or DELETE fails for want of space.
StatementFails ==
  /\ pc \in {"insert", "delete"}
  /\ view' = NoView
  /\ pc' = "cleanup"
  /\ UNCHANGED <<file, batch, writes, history>>

Fault_RollbackOnly ==
  /\ pc = "cleanup"
  /\ batch' = {}
  /\ pc' = "ready"
  /\ UNCHANGED <<file, view, writes, history>>

\* The catch block, then the exception reaches the caller.
Cleanup ==
  /\ pc = "cleanup"
  /\ staging' = {}
  /\ dirty' = FALSE
  /\ batch' = {}
  /\ pc' = "ready"
  /\ UNCHANGED <<index, stamped, rows, view, writes, said>>

Fault_NoCommit ==
  /\ pc = "commit"
  /\ view' = NoView
  /\ written' = written \cup batch
  /\ batch' = {}
  /\ pc' = "ready"
  /\ UNCHANGED <<file, prior, unsure, dirty, writes, crashes>>

Commit ==
  /\ pc = "commit"
  /\ rows' = view.rows /\ staging' = view.staging
  /\ view' = NoView
  /\ written' = written \cup batch
  /\ batch' = {}
  /\ dirty' = FALSE
  /\ pc' = "ready"
  /\ UNCHANGED <<index, stamped, prior, unsure, writes, crashes>>

\* BEGIN and COMMIT stand outside the try: nothing clears the staging table.
CommitFails ==
  /\ pc \in {"begin", "commit"}
  /\ unsure' = unsure \cup batch
  /\ dirty' = TRUE
  /\ view' = NoView
  /\ batch' = {}
  /\ pc' = "ready"
  /\ UNCHANGED <<file, writes, prior, written, crashes>>

\* The process dies, closes the store, or a constructor throws in between; an
\* open transaction is rolled back.
Crash ==
  /\ pc \notin {"down", "refused"} /\ crashes < MaxCrashes
  /\ crashes' = crashes + 1
  /\ unsure' = unsure \cup batch
  /\ view' = NoView /\ batch' = {}
  /\ pc' = "down"
  /\ UNCHANGED <<file, prior, written, dirty, writes>>

Next ==
  \/ CreateTable \/ FirstProbe \/ Unusable \/ SecondProbe \/ Stamp \/ ClearStaging
  \/ (\E b \in Batches : Append(b))
  \/ Begin \/ Insert \/ Delete \/ StatementFails \/ Cleanup \/ Commit \/ CommitFails
  \/ Crash

Spec == Init /\ [][Next]_vars

-----------------------------------------------------------------------------
(* Properties *)

\* Every variable stays in its range; the probe's rows never reach the table.
TypeOK ==
  /\ index \in Indexes /\ stamped \in BOOLEAN
  /\ rows \in SUBSET Rows /\ staging \in SUBSET Rows
  /\ view \in [rows : SUBSET (Rows \cup {Probe}), staging : SUBSET Rows]
  /\ pc \in {"down", "probe", "probe2", "refused", "stamp", "clear", "ready", "begin",
             "insert", "delete", "commit", "cleanup"}
  /\ batch \in SUBSET Rows /\ prior \in SUBSET Rows
  /\ written \in SUBSET Rows /\ unsure \in SUBSET Rows /\ dirty \in BOOLEAN
  /\ writes \in 0 .. MaxWrites /\ crashes \in 0 .. MaxCrashes

\* A file keyed on cap_seq is never stamped as migrated and never written,
\* wherever an earlier constructor died and however empty the file is: the
\* stamp is irreversible.
LegacyStaysRefused ==
  index = "cap_seq" => ~stamped /\ rows = prior

\* What write() returned for is in the file, after any number of failed writes
\* and crashes; nothing that was there is lost.
AcknowledgedRowsStay == prior \cup written \subseteq rows

\* A write merges its own rows and no others: neither a malformed timestamp nor
\* a crash nor a lack of space leaves rows behind for a later write to trip
\* over or to bring in.  Only a failed BEGIN or COMMIT does, until a write or
\* a constructor clears the staging table.
WritesOwnRows == pc \in {"insert", "delete"} /\ ~dirty => view.staging = batch

\* The rows of a write whose INSERT failed are not in the file, unless another
\* write brought them.
FailedWritesLeaveNothing == rows \subseteq prior \cup written \cup unsure

\* The statements of write() add up to the promise its callers rely on: until
\* the COMMIT nobody sees a row of the batch, and then all of it at once.
Promise == INSTANCE EventStore WITH leftover <- staging, returned <- written
ImplementsEventStore == Promise!Spec
=============================================================================
