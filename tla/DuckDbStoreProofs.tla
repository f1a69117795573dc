--------------------------- MODULE DuckDbStoreProofs ---------------------------
(***************************************************************************)
(* Proofs about DuckDbStore: one inductive invariant, for every set of     *)
(* rows, every choice of malformed rows and batches, and any number of     *)
(* writes and crashes.                                                     *)
(***************************************************************************)
EXTENDS DuckDbStore, TLAPS

InWrite == {"begin", "insert", "delete", "commit", "cleanup"}
InTransaction == {"insert", "delete", "commit"}

\* A file keyed on cap_seq gets no further than the probe.
Refusal ==
  index = "cap_seq" =>
    /\ ~stamped /\ rows = prior
    /\ pc \in {"down", "probe", "probe2", "refused"}

\* What a transaction sees: what is committed and, from the Appender to the
\* INSERT, the rows of the batch.
Durable ==
  /\ prior \cup written \subseteq rows
  /\ pc = "begin" => batch \subseteq staging
  /\ pc \in {"insert", "delete"} => batch \subseteq view.staging
  /\ pc \in InTransaction => view.rows \subseteq Rows /\ rows \subseteq view.rows
  /\ pc \in {"delete", "commit"} => batch \subseteq view.rows

\* Between two writes the staging table is empty unless a BEGIN or COMMIT has
\* failed, and a transaction brings the rows of its batch; what else is staged
\* is of writes that failed so.
Exact ==
  /\ ~dirty =>
       /\ pc = "ready" => staging = {}
       /\ pc = "begin" => staging = batch
       /\ pc \in {"insert", "delete"} => view.staging = batch
  /\ pc = "ready" => staging \subseteq unsure
  /\ pc \in {"begin", "insert", "delete", "commit"} => staging \subseteq batch \cup unsure
  /\ pc \in {"insert", "delete"} => view.staging \subseteq batch \cup unsure
  /\ pc = "commit" => view.staging = {}
  /\ pc \in InTransaction => view.rows \subseteq rows \cup batch \cup unsure
  /\ rows \subseteq prior \cup written \cup unsure

IInv == TypeOK /\ Refusal /\ Durable /\ Exact

\* A store file of any provenance is as it was found.
LEMMA InitEstablishes == Init => IInv
<1> SUFFICES ASSUME Init PROVE IInv
  OBVIOUS
<1> USE RowsAssumption, BoundsAssumption
<1>1. TypeOK
  <2>1. dirty \in BOOLEAN
    BY Zenon DEF Init
  <2>2. view \in [rows : SUBSET (Rows \cup {Probe}), staging : SUBSET Rows]
    BY DEF Init, NoView
  <2> QED BY <2>1, <2>2 DEF Init, TypeOK, Indexes
<1>2. Refusal
  BY DEF Init, Refusal
<1>3. Durable
  BY DEF Init, Durable, InTransaction
<1>4. Exact
  BY DEF Init, Exact, InTransaction
<1> QED BY <1>1, <1>2, <1>3, <1>4 DEF IInv

\* Each statement, each failure of one and each crash.
LEMMA StepPreserves == IInv /\ [Next]_vars => IInv'
<1> SUFFICES ASSUME IInv, [Next]_vars PROVE IInv'
  OBVIOUS
<1> USE RowsAssumption, ProbeAssumption, BoundsAssumption
<1> USE DEF IInv, TypeOK, Refusal, Durable, Exact, InTransaction, NoView, file, history, said
<1>1. CASE CreateTable
  BY <1>1 DEF CreateTable, Indexes
<1>2. CASE FirstProbe
  BY <1>2 DEF FirstProbe
<1>3. CASE Unusable
  BY <1>3 DEF Unusable
<1>4. CASE SecondProbe
  BY <1>4 DEF SecondProbe, KeyedOnCapSeq
<1>5. CASE Stamp
  BY <1>5 DEF Stamp
<1>6. CASE ClearStaging
  BY <1>6 DEF ClearStaging
<1>7. ASSUME NEW b \in Batches, Append(b) PROVE IInv'
  BY <1>7 DEF Append
<1>8. CASE Begin
  BY <1>8 DEF Begin
<1>9. CASE Insert
  BY <1>9 DEF Insert
<1>10. CASE Delete
  BY <1>10 DEF Delete
<1>11. CASE StatementFails
  BY <1>11 DEF StatementFails
<1>12. CASE Cleanup
  BY <1>12 DEF Cleanup
<1>13. CASE Commit
  BY <1>13 DEF Commit
<1>14. CASE CommitFails
  BY <1>14 DEF CommitFails
<1>15. CASE Crash
  BY <1>15 DEF Crash
<1>16. CASE UNCHANGED vars
  BY <1>16 DEF vars
<1> QED BY <1>1, <1>2, <1>3, <1>4, <1>5, <1>6, <1>7, <1>8, <1>9, <1>10, <1>11, <1>12,
           <1>13, <1>14, <1>15, <1>16 DEF Next
-----------------------------------------------------------------------------

\* The inductive invariant holds in every reachable state.
THEOREM Invariance == Spec => []IInv
  BY InitEstablishes, StepPreserves, PTL DEF Spec

\* Every variable stays in its range, and the rows of the identity probe never
\* reach the table: DuckDbEventStore.cpp rolls the probe back.
THEOREM TypeCorrect == Spec => []TypeOK
<1>1. IInv => TypeOK
  BY DEF IInv
<1> QED BY <1>1, Invariance, PTL

\* A file keyed on cap_seq is never stamped and never written, wherever the
\* constructor is cut short: the identity probe asks the index, not the rows.
THEOREM LegacyRefused == Spec => []LegacyStaysRefused
<1>1. IInv => LegacyStaysRefused
  BY DEF IInv, Refusal, LegacyStaysRefused
<1> QED BY <1>1, Invariance, PTL

\* What write() has returned for stays in the file through any number of failed
\* writes, failed COMMITs and crashes.
THEOREM AcknowledgedDurable == Spec => []AcknowledgedRowsStay
<1>1. IInv => AcknowledgedRowsStay
  BY DEF IInv, Durable, AcknowledgedRowsStay
<1> QED BY <1>1, Invariance, PTL

\* A write merges exactly its own batch, unless a BEGIN or COMMIT has failed
\* since the staging table was last cleared: neither the catch block of write()
\* nor a crash leaves staged rows behind.
THEOREM WritesAreSeparate == Spec => []WritesOwnRows
<1>1. IInv => WritesOwnRows
  BY DEF IInv, Exact, WritesOwnRows
<1> QED BY <1>1, Invariance, PTL

\* The rows of a write whose INSERT failed are not in the file, unless another
\* write brought them.
THEOREM FailedWritesVanish == Spec => []FailedWritesLeaveNothing
<1>1. IInv => FailedWritesLeaveNothing
  BY DEF IInv, Exact, FailedWritesLeaveNothing
<1> QED BY <1>1, Invariance, PTL
-----------------------------------------------------------------------------
(* write() as a step of EventStore *)

\* What a transaction has done so far to the two tables, exactly; the rows it
\* merges are castable; the batch is one a caller gave, and it is staged.
Merging ==
  /\ pc \in {"begin", "insert", "delete", "commit"} => batch \in Batches /\ batch \subseteq staging
  /\ pc = "insert" => view = [rows |-> rows, staging |-> staging]
  /\ pc = "delete" => view = [rows |-> rows \cup staging, staging |-> staging]
  /\ pc = "commit" => view = [rows |-> rows \cup staging, staging |-> {}]
  /\ pc \in {"delete", "commit"} => staging \cap Poison = {}

\* The statements of write() between BEGIN and COMMIT.
LEMMA StepKeepsMerging == IInv /\ Merging /\ [Next]_vars => Merging'
<1> SUFFICES ASSUME IInv, Merging, [Next]_vars PROVE Merging'
  OBVIOUS
<1> USE DEF Merging, NoView, file, history, said
<1>1. CASE CreateTable
  BY <1>1 DEF CreateTable
<1>2. CASE FirstProbe \/ Unusable \/ SecondProbe
  BY <1>2 DEF FirstProbe, Unusable, SecondProbe
<1>3. CASE Stamp \/ ClearStaging
  BY <1>3 DEF Stamp, ClearStaging
<1>4. ASSUME NEW b \in Batches, Append(b) PROVE Merging'
  BY <1>4 DEF Append
<1>5. CASE Begin
  BY <1>5 DEF Begin
<1>6. CASE Insert
  BY <1>6 DEF Insert
<1>7. CASE Delete
  BY <1>7 DEF Delete
<1>8. CASE StatementFails \/ Cleanup
  BY <1>8 DEF StatementFails, Cleanup
<1>9. CASE Commit \/ CommitFails \/ Crash
  BY <1>9 DEF Commit, CommitFails, Crash
<1>10. CASE UNCHANGED vars
  BY <1>10 DEF vars
<1> QED BY <1>1, <1>2, <1>3, <1>4, <1>5, <1>6, <1>7, <1>8, <1>9, <1>10 DEF Next

\* The COMMIT is the one step a reader sees: it is a write() that returns.
LEMMA CommitIsAWrite ==
  ASSUME Merging, Commit
  PROVE  \E b \in Batches : Promise!Write(b)
<1>1. batch \in Batches /\ batch \subseteq staging /\ staging \cap Poison = {}
  BY DEF Commit, Merging
<1>2. rows' = rows \cup staging /\ staging' = {} /\ written' = written \cup batch
  BY DEF Commit, Merging
<1>3. Promise!Write(batch)
  BY <1>1, <1>2 DEF Promise!Write
<1> QED BY <1>1, <1>3

\* The Appender commits rows nobody reads: to a caller, a throw not yet heard of.
LEMMA AppendIsAThrow ==
  ASSUME NEW b \in Batches, Append(b)
  PROVE  Promise!Throw(b)
BY DEF Append, Promise!Throw, file, history

\* Every step of the store is one of the promise, or one no caller can see.
LEMMA StepImplements == Merging /\ [Next]_vars => [Promise!Next]_(Promise!vars)
<1> SUFFICES ASSUME Merging, [Next]_vars PROVE [Promise!Next]_(Promise!vars)
  OBVIOUS
<1> USE DEF file, history, said, Promise!vars
<1>1. CASE CreateTable \/ FirstProbe \/ Unusable \/ SecondProbe \/ Stamp
  BY <1>1 DEF CreateTable, FirstProbe, Unusable, SecondProbe, Stamp
<1>2. CASE ClearStaging \/ Cleanup
  BY <1>2 DEF ClearStaging, Cleanup, Promise!Next, Promise!Open
<1>3. ASSUME NEW b \in Batches, Append(b) PROVE Promise!Next
  BY <1>3, AppendIsAThrow DEF Promise!Next
<1>4. CASE Begin \/ Insert \/ Delete \/ StatementFails \/ CommitFails \/ Crash
  BY <1>4 DEF Begin, Insert, Delete, StatementFails, CommitFails, Crash
<1>5. CASE Commit
  BY <1>5, CommitIsAWrite DEF Promise!Next
<1>6. CASE UNCHANGED vars
  BY <1>6 DEF vars
<1> QED BY <1>1, <1>2, <1>3, <1>4, <1>5, <1>6 DEF Next

\* DuckDbEventStore::write keeps the promise of IEventStore::write to its
\* callers: a batch becomes readable in one step and whole, a write that throws
\* changes nothing a reader finds, whatever statement fails and wherever the
\* process dies.
THEOREM KeepsThePromise == Spec => ImplementsEventStore
<1>1. Init => Merging /\ Promise!Init
  BY DEF Init, Merging, Promise!Init
<1> QED BY <1>1, Invariance, StepKeepsMerging, StepImplements, PTL
        DEF Spec, ImplementsEventStore, Promise!Spec
================================================================================
