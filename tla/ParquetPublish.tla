---------------------------- MODULE ParquetPublish ----------------------------
(***************************************************************************)
(* Parquet files appearing under the names readers glob.                   *)
(*                                                                         *)
(* Writers are threads of processes: workers and their replacements, the   *)
(* threads of the monolith, mas_export.  A writer buffers a day-file in a  *)
(* ParquetEventStore, or takes the rows of a store it exports, and then    *)
(* publishes: COPY into a private temporary name, fsync, rename over the   *)
(* destination, fsync of the directory.  Several writers may have the same *)
(* destination.  Processes are killed and the power may fail: what is not  *)
(* synced by then may be lost, and the kernel may write the directory back *)
(* at any time.                                                            *)
(***************************************************************************)
EXTENDS Integers, FiniteSets, Functions

CONSTANTS
  Procs,         \* processes; each is started and dies at most once
  Threads,       \* [Procs -> sets of thread names]
  Days,          \* destinations of day-files: <out_dir>/<stem>.parquet
  Exports,       \* destinations of mas_export
  NumBatches,    \* calls of write() for one day-file
  MaxPublishes,  \* bound: stores one process publishes
  NoFile

Dests   == Days \cup Exports
Batches == 1 .. NumBatches
Writers == UNION {{p} \X Threads[p] : p \in Procs}
Tokens  == 0 .. MaxPublishes - 1
Temps   == Procs \X Tokens

ASSUME NumBatchesAssumption == NumBatches \in Nat
ASSUME PublishesAssumption  == MaxPublishes \in Nat
ASSUME DestsAssumption      == Days \cap Exports = {} /\ NoFile \notin Dests

VARIABLES
  proc,    \* [Procs -> {"new", "up", "gone"}]
  token,   \* next_token of temp_sibling_of, one counter per process
  pc,      \* where a writer is
  store,   \* its store: destination, batches tried and buffered, latches
  mine,    \* the temporary name of the publish it is in
  temp,    \* temporary files: name -> content
  final,   \* what a reader sees under each destination
  onDisk,  \* what the directory on disk has there
  acked,   \* destinations some close() has reported as written
  power    \* FALSE once the power has failed

vars == <<proc, token, pc, store, mine, temp, final, onDisk, acked, power>>

Publishing == {"copying", "copied", "synced", "renamed"}

Empty == [dest |-> NoFile, tried |-> 0, buf |-> {}, failed |-> FALSE, closed |-> FALSE]

\* whole: the COPY that wrote it has ended.  synced: its blocks are on disk.
Content == [dest : Dests, by : Writers, rows : SUBSET Batches, whole : BOOLEAN, synced : BOOLEAN]

ASSUME NoFileAssumption == NoFile \notin Content

Init ==
  /\ proc = [p \in Procs |-> "new"]
  /\ token = [p \in Procs |-> 0]
  /\ pc = [w \in Writers |-> "idle"]
  /\ store = [w \in Writers |-> Empty]
  /\ mine = [w \in Writers |-> NoFile]
  /\ temp = <<>>
  /\ final = [d \in Dests |-> NoFile]
  /\ onDisk = final
  /\ acked = {}
  /\ power = TRUE

-----------------------------------------------------------------------------
(* The store *)

Runs(w) == proc[w[1]] = "up"

Start(p) ==
  /\ proc[p] = "new"
  /\ proc' = [proc EXCEPT ![p] = "up"]
  /\ UNCHANGED <<token, pc, store, mine, temp, final, onDisk, acked, power>>

\* The constructor; a directory it cannot create is a store that never was.
Open(w, d) ==
  /\ Runs(w) /\ pc[w] = "idle"
  /\ pc' = [pc EXCEPT ![w] = "open"]
  /\ store' = [store EXCEPT ![w] = [Empty EXCEPT !.dest = d]]
  /\ UNCHANGED <<proc, token, mine, temp, final, onDisk, acked, power>>

\* export_store_to_parquet refuses a destination that exists; then all its rows
\* are those of the store it has open read-only.
OpenExport(w, d) ==
  /\ Runs(w) /\ pc[w] = "idle"
  /\ final[d] = NoFile
  /\ pc' = [pc EXCEPT ![w] = "open"]
  /\ store' = [store EXCEPT ![w] = [Empty EXCEPT !.dest = d, !.tried = NumBatches, !.buf = Batches]]
  /\ UNCHANGED <<proc, token, mine, temp, final, onDisk, acked, power>>

InUse(w) == Runs(w) /\ pc[w] = "open"

Accept(w) ==
  /\ InUse(w) /\ ~store[w].closed /\ store[w].tried < NumBatches
  /\ store' = [store EXCEPT ![w].tried = @ + 1, ![w].buf = @ \cup {store[w].tried + 1}]
  /\ UNCHANGED <<proc, token, pc, mine, temp, final, onDisk, acked, power>>

\* A ts that is no timestamp, or an Appender that cannot be made.  A caller
\* with a catch-all may go on to the next batch.

WriteThrows(w) ==
  /\ InUse(w) /\ ~store[w].closed /\ store[w].tried < NumBatches
  /\ store' = [store EXCEPT ![w].tried = @ + 1, ![w].failed = TRUE]
  /\ UNCHANGED <<proc, token, pc, mine, temp, final, onDisk, acked, power>>

\* clean_file has returned a negative count.  The caller's close() may follow.

Abandon(w) ==
  /\ InUse(w) /\ ~store[w].closed
  /\ store' = [store EXCEPT ![w].tried = NumBatches, ![w].closed = TRUE, ![w].buf = {}]
  /\ UNCHANGED <<proc, token, pc, mine, temp, final, onDisk, acked, power>>

\* The destructor, in whatever state an exception or the end of a scope finds
\* the store: it writes nothing.
Destroy(w) ==
  /\ InUse(w)
  /\ pc' = [pc EXCEPT ![w] = "idle"]
  /\ store' = [store EXCEPT ![w] = Empty]
  /\ UNCHANGED <<proc, token, mine, temp, final, onDisk, acked, power>>

\* close() when every batch has been given to write(): of a failed store, or
\* of one whose rows do not all reach the table, it throws.  A close() after
\* that, or after abandon(), returns and does nothing.
Closable(w) == InUse(w) /\ ~store[w].closed /\ store[w].tried = NumBatches

CloseRefused(w) ==
  /\ Closable(w)
  /\ store' = [store EXCEPT ![w].closed = TRUE]
  /\ UNCHANGED <<proc, token, pc, mine, temp, final, onDisk, acked, power>>

-----------------------------------------------------------------------------
(* publish_atomically *)

TempSiblingOf(p) == <<p, token[p]>>

\* The COPY creates the file at once and fills it.
Close(w) ==
  /\ Closable(w) /\ ~store[w].failed
  /\ token[w[1]] \in Tokens
  /\ LET name == TempSiblingOf(w[1])
         copy == [dest |-> store[w].dest, by |-> w, rows |-> store[w].buf,
                  whole |-> FALSE, synced |-> FALSE]
     IN  /\ mine' = [mine EXCEPT ![w] = name]
         /\ temp' = [t \in DOMAIN temp \cup {name} |-> IF t = name THEN copy ELSE temp[t]]
  /\ token' = [token EXCEPT ![w[1]] = @ + 1]
  /\ store' = [store EXCEPT ![w].closed = TRUE]
  /\ pc' = [pc EXCEPT ![w] = "copying"]
  /\ UNCHANGED <<proc, final, onDisk, acked, power>>

CopyEnds(w) ==
  /\ Runs(w) /\ pc[w] = "copying" /\ mine[w] \in DOMAIN temp
  /\ temp' = [temp EXCEPT ![mine[w]].whole = TRUE]
  /\ pc' = [pc EXCEPT ![w] = "copied"]
  /\ UNCHANGED <<proc, token, store, mine, final, onDisk, acked, power>>

Fault_NoFsync(w) ==
  /\ Runs(w) /\ pc[w] = "copied" /\ mine[w] \in DOMAIN temp
  /\ pc' = [pc EXCEPT ![w] = "synced"]
  /\ UNCHANGED <<proc, token, store, mine, temp, final, onDisk, acked, power>>

FsyncFile(w) ==
  /\ Runs(w) /\ pc[w] = "copied" /\ mine[w] \in DOMAIN temp
  /\ temp' = [temp EXCEPT ![mine[w]].synced = TRUE]
  /\ pc' = [pc EXCEPT ![w] = "synced"]
  /\ UNCHANGED <<proc, token, store, mine, final, onDisk, acked, power>>

Rename(w) ==
  /\ Runs(w) /\ pc[w] = "synced" /\ mine[w] \in DOMAIN temp
  /\ final' = [final EXCEPT ![store[w].dest] = temp[mine[w]]]
  /\ temp' = Restrict(temp, DOMAIN temp \ {mine[w]})
  /\ pc' = [pc EXCEPT ![w] = "renamed"]
  /\ UNCHANGED <<proc, token, store, mine, onDisk, acked, power>>

Fault_NoDirSync(w) ==
  /\ Runs(w) /\ pc[w] = "renamed"
  /\ acked' = acked \cup {store[w].dest}
  /\ pc' = [pc EXCEPT ![w] = "open"]
  /\ mine' = [mine EXCEPT ![w] = NoFile]
  /\ UNCHANGED <<proc, token, store, temp, final, onDisk, power>>

\* The caller is told that the file is there.
FsyncParentDir(w) ==
  /\ Runs(w) /\ pc[w] = "renamed"
  /\ onDisk' = [onDisk EXCEPT ![store[w].dest] = final[store[w].dest]]
  /\ acked' = acked \cup {store[w].dest}
  /\ pc' = [pc EXCEPT ![w] = "open"]
  /\ mine' = [mine EXCEPT ![w] = NoFile]
  /\ UNCHANGED <<proc, token, store, temp, final, power>>

Fault_Litter(w) ==
  /\ Runs(w) /\ pc[w] \in {"copying", "copied", "synced"}
  /\ mine' = [mine EXCEPT ![w] = NoFile]
  /\ pc' = [pc EXCEPT ![w] = "open"]
  /\ UNCHANGED <<proc, token, store, temp, final, onDisk, acked, power>>

\* COPY, the read-back of an export, the check for a regular file or the rename
\* fails: the temporary file goes and the exception reaches the caller.
PublishThrows(w) ==
  /\ Runs(w) /\ pc[w] \in {"copying", "copied", "synced"}
  /\ temp' = Restrict(temp, DOMAIN temp \ {mine[w]})
  /\ mine' = [mine EXCEPT ![w] = NoFile]
  /\ pc' = [pc EXCEPT ![w] = "open"]
  /\ UNCHANGED <<proc, token, store, final, onDisk, acked, power>>

-----------------------------------------------------------------------------
(* The environment *)

\* The threads of a process that is gone leave their temporary files.
Dead(P) ==
  /\ proc' = [p \in Procs |-> IF p \in P THEN "gone" ELSE proc[p]]
  /\ pc' = [w \in Writers |-> IF w[1] \in P THEN "idle" ELSE pc[w]]
  /\ store' = [w \in Writers |-> IF w[1] \in P THEN Empty ELSE store[w]]
  /\ mine' = [w \in Writers |-> IF w[1] \in P THEN NoFile ELSE mine[w]]

Kill(p) ==
  /\ proc[p] = "up"
  /\ Dead({p})
  /\ UNCHANGED <<token, temp, final, onDisk, acked, power>>

WriteBack(d) ==
  /\ onDisk' = [onDisk EXCEPT ![d] = final[d]]
  /\ UNCHANGED <<proc, token, pc, store, mine, temp, final, acked, power>>

\* A file whose blocks were not synced comes back as zeros or as it was.
PowerFails(lost) ==
  /\ power
  /\ power' = FALSE
  /\ Dead({p \in Procs : proc[p] = "up"})
  /\ final' = [d \in Dests |->
       IF onDisk[d] # NoFile /\ ~onDisk[d].synced /\ d \in lost
       THEN [onDisk[d] EXCEPT !.whole = FALSE] ELSE onDisk[d]]
  /\ onDisk' = final'
  /\ UNCHANGED <<token, temp, acked>>

Writer(w) ==
  \/ \E d \in Days : Open(w, d)
  \/ \E d \in Exports : OpenExport(w, d)
  \/ Accept(w) \/ WriteThrows(w) \/ Abandon(w) \/ Destroy(w) \/ CloseRefused(w) \/ Close(w)
  \/ CopyEnds(w) \/ FsyncFile(w) \/ Rename(w) \/ FsyncParentDir(w) \/ PublishThrows(w)

Next ==
  \/ \E p \in Procs : Start(p) \/ Kill(p)
  \/ \E w \in Writers : Writer(w)
  \/ \E d \in Dests : WriteBack(d)
  \/ \E lost \in SUBSET Dests : PowerFails(lost)

Spec == Init /\ [][Next]_vars

-----------------------------------------------------------------------------
(* Properties *)

\* What a reader finds under a destination is one finished COPY of all the
\* batches of that destination: never a torn file, never part of a day, never
\* another day's rows; and that holds through kills, failed stores, several
\* writers of one destination and a power loss at any moment.
VisibleIsWhole ==
  \A d \in Dests : final[d] # NoFile =>
    final[d].whole /\ final[d].rows = Batches /\ final[d].dest = d

\* A destination that a close() has reported as written stays there: no later
\* failure, kill, second writer or power loss takes it away.
AcknowledgedStays == \A d \in acked : final[d] # NoFile

\* A temporary file belongs to a publish that is under way or to a process that
\* is gone: a failed publish leaves no litter.
NoLitter ==
  \A t \in DOMAIN temp : proc[t[1]] = "gone" \/ \E w \in Writers : mine[w] = t
=============================================================================
