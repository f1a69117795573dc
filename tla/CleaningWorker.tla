---------------------------- MODULE CleaningWorker ----------------------------
(***************************************************************************)
(* The cleaning agents (core/src/agent/CleaningWorker.cpp) with what       *)
(* worker_main gives each of them: a PULL pipe for work, one PUSH pipe for *)
(* the lifecycle frames, one for heartbeats, and a store of its own.       *)
(*                                                                         *)
(* A day-file is a number of batches; batch n of file i is <<i, n>> and    *)
(* stands for one event; clean_file writes them in order.  A DuckDB store  *)
(* commits batch by batch; the Parquet path collects the file in a         *)
(* temporary and publishes it at the end.                                  *)
(***************************************************************************)
EXTENDS Frames, SequencesExt

CONSTANTS
  Batches,      \* [Items -> Nat]: how many batches a readable file yields
  IdleTicks,    \* kIdleExitTicks
  Formats,      \* the choices of the workers run with --format parquet
  CommitFails   \* whether a COMMIT, or the clean-up of a failed insert, may fail

ASSUME BatchesAssumption == Batches \in [Items -> EventCounts]
ASSUME IdleAssumption == IdleTicks \in Nat \ {0}
ASSUME StoreAssumption == Formats \subseteq SUBSET Workers /\ CommitFails \in BOOLEAN

VARIABLES
  parquet,    \* the workers run with --format parquet, fixed from the start
  wpc,        \* where each worker is
  cur,        \* the file being cleaned
  progress,   \* the batches of it the store has accepted in this attempt
  idle,       \* idle_ticks
  stored,     \* what is durable in the worker's own store
  staged,     \* rows a failed write left behind in staging_cap_events
  pipe,       \* frames queued for the worker on the work socket
  attached,   \* the workers whose pipe the coordinator's PUSH socket still has
  outbox,     \* lifecycle frames on their way, in FIFO order
  hb          \* the workers with a heartbeat on its way

workVars == <<parquet, wpc, cur, progress, idle, stored, staged>>
netVars  == <<pipe, attached, outbox, hb>>
wvars    == <<parquet, wpc, cur, progress, idle, stored, staged, pipe, attached, outbox, hb>>

Work(p) == [type |-> "WORK", path |-> p]
Stop    == [type |-> "STOP"]
WorkFrame == {Work(p) : p \in Items} \cup {Stop, Malformed}

Rows(p)   == {<<p, n>> : n \in 1 .. Batches[p]}
AllRows   == UNION {Rows(p) : p \in Items}
Up(w)     == wpc[w] \in {"recv", "cleaning"}
Fault_WrittenInside(w) == progress[w]

\* BeatingStore.written(): the Parquet path is decorated by a second
\* BeatingStore, the one the worker asks never sees a row.
Written(w) == IF w \in parquet THEN 0 ELSE progress[w]

WInit ==
  /\ parquet \in Formats
  /\ wpc = [w \in Workers |-> "off"]
  /\ cur = [w \in Workers |-> CHOOSE i \in Items : TRUE]
  /\ progress = [w \in Workers |-> 0]
  /\ idle = [w \in Workers |-> 0]
  /\ stored = [w \in Workers |-> {}]
  /\ staged = [w \in Workers |-> {}]
  /\ pipe = [w \in Workers |-> <<>>]
  /\ attached = {}
  /\ outbox = [w \in Workers |-> <<>>]
  /\ hb = {}

-----------------------------------------------------------------------------
\* A heartbeat is fire-and-forget.  One that is lost is one that the receiver
\* never gets round to, so losing it needs no step of its own.
Beat(w) == hb' = hb \cup {w}

Send(w, f) == outbox' = [outbox EXCEPT ![w] = Append(@, f)]

\* connect, then the hello beat.
Start(w) ==
  /\ wpc[w] = "off"
  /\ wpc' = [wpc EXCEPT ![w] = "recv"]
  /\ attached' = attached \cup {w}
  /\ Beat(w)
  /\ UNCHANGED <<parquet, cur, progress, idle, stored, staged, pipe, outbox>>

Fault_TickUncounted(w) == idle[w]
TicksNow(w) == idle[w] + 1

\* An empty tick; the last one of the budget leaves the loop with a BYE.
IdleTick(w) ==
  /\ wpc[w] = "recv" /\ pipe[w] = <<>>
  /\ Beat(w)
  /\ idle' = [idle EXCEPT ![w] = TicksNow(w)]
  /\ IF TicksNow(w) < IdleTicks
     THEN UNCHANGED <<wpc, outbox>>
     ELSE wpc' = [wpc EXCEPT ![w] = "exited"] /\ Send(w, Bye(w))
  /\ UNCHANGED <<parquet, cur, progress, stored, staged, pipe, attached>>

Pull(w, f) ==
  /\ wpc[w] = "recv" /\ pipe[w] # <<>> /\ Head(pipe[w]) = f
  /\ pipe' = [pipe EXCEPT ![w] = Tail(@)]
  /\ idle' = [idle EXCEPT ![w] = 0]

\* After a STOP the worker says nothing.
TakeStop(w) ==
  /\ Pull(w, Stop)
  /\ wpc' = [wpc EXCEPT ![w] = "exited"]
  /\ UNCHANGED <<parquet, cur, progress, stored, staged, attached, outbox, hb>>

TakeMalformed(w) ==
  /\ Pull(w, Malformed)
  /\ UNCHANGED <<parquet, wpc, cur, progress, stored, staged, attached, outbox, hb>>

Fault_Unclaimed(w, p) ==
  /\ Pull(w, Work(p))
  /\ wpc' = [wpc EXCEPT ![w] = "cleaning"]
  /\ cur' = [cur EXCEPT ![w] = p]
  /\ UNCHANGED <<parquet, progress, stored, staged, attached, outbox, hb>>

\* The claim goes out before the cleaning starts.
TakeWork(w, p) ==
  /\ Pull(w, Work(p))
  /\ Send(w, Claim(w, p))
  /\ wpc' = [wpc EXCEPT ![w] = "cleaning"]
  /\ cur' = [cur EXCEPT ![w] = p]
  /\ UNCHANGED <<parquet, progress, stored, staged, attached, hb>>

\* The store takes the next batch: DuckDB inserts the whole staging table and commits.
WriteOk(w) ==
  /\ wpc[w] = "cleaning" /\ progress[w] < Batches[cur[w]]
  /\ progress' = [progress EXCEPT ![w] = @ + 1]
  /\ IF w \in parquet
     THEN UNCHANGED <<stored, staged>>
     ELSE /\ stored' = [stored EXCEPT ![w] = @ \cup staged[w]
                                               \cup {<<cur[w], progress[w] + 1>>}]
          /\ staged' = [staged EXCEPT ![w] = {}]
  /\ Beat(w)
  /\ UNCHANGED <<parquet, wpc, cur, idle, pipe, attached, outbox>>

\* The result frame, then a beat, and back to the work socket; the decorated
\* store with its written() count lives for one item only.
Answer(w, n) ==
  /\ wpc' = [wpc EXCEPT ![w] = "recv"]
  /\ Send(w, Result(w, cur[w], n))
  /\ Beat(w)
  /\ progress' = [progress EXCEPT ![w] = 0]
  /\ UNCHANGED <<parquet, cur, idle, pipe, attached>>

Fault_LastBatchDropped(w) == progress[w] + 1 >= Batches[cur[w]]
AllIn(w) == progress[w] = Batches[cur[w]]

\* clean_file returned: the final partial batch is in, the Parquet file is
\* published.
Finish(w) ==
  /\ wpc[w] = "cleaning" /\ AllIn(w)
  /\ stored' = IF w \in parquet THEN [stored EXCEPT ![w] = @ \cup Rows(cur[w])] ELSE stored
  /\ Answer(w, Batches[cur[w]])
  /\ UNCHANGED staged

\* open_raw_reader could not open the input: -1 without a throw.
CannotOpen(w) ==
  /\ wpc[w] = "cleaning" /\ progress[w] = 0
  /\ Answer(w, Unreadable)
  /\ UNCHANGED <<stored, staged>>

Verdict(w) == IF Written(w) > 0 THEN PartialWrite ELSE Unreadable

\* The reader, or the Parquet publish, threw.
ReaderThrows(w) ==
  /\ wpc[w] = "cleaning"
  /\ Answer(w, Verdict(w))
  /\ UNCHANGED <<stored, staged>>

\* The store threw on the batch in hand.  DuckDB: the append failed, the
\* insert failed and was cleaned up, or the COMMIT (or the clean-up) failed
\* and the staging table keeps the batch for the next write.
WriteThrows(w) ==
  /\ wpc[w] = "cleaning" /\ progress[w] < Batches[cur[w]]
  /\ Answer(w, Verdict(w))
  /\ LET batch == {<<cur[w], progress[w] + 1>>}
     IN  staged' \in {[staged EXCEPT ![w] = left] :
                        left \in {staged[w], {}} \cup
                          (IF CommitFails /\ w \notin parquet THEN {staged[w] \cup batch} ELSE {})}
  /\ UNCHANGED stored

\* The process dies: what the kernel has already sent still arrives, in order;
\* the frames queued for it are lost once the PUSH side sees the peer vanish.
\* A RESULT that cannot be sent ends the process the same way.
Crash(w) ==
  /\ Up(w)
  /\ wpc' = [wpc EXCEPT ![w] = "crashed"]
  /\ outbox' \in {[outbox EXCEPT ![w] = sentOut] : sentOut \in Prefixes(outbox[w])}
  /\ progress' = [progress EXCEPT ![w] = 0]
  /\ UNCHANGED <<parquet, cur, idle, stored, staged, pipe, attached, hb>>

\* The peer of a finished process is noticed and its pipe dropped.
Detach(w) ==
  /\ w \in attached /\ wpc[w] \in {"exited", "crashed"}
  /\ attached' = attached \ {w}
  /\ pipe' = [pipe EXCEPT ![w] = <<>>]
  /\ UNCHANGED <<workVars, outbox, hb>>

WorkerStep(w) ==
  \/ IdleTick(w) \/ TakeStop(w) \/ TakeMalformed(w)
  \/ \E p \in Items : TakeWork(w, p)
  \/ WriteOk(w) \/ Finish(w)
  \/ CannotOpen(w) \/ ReaderThrows(w) \/ WriteThrows(w)

-----------------------------------------------------------------------------
(* Invariants *)

\* The lifecycle pipe tells the truth in order: a claim is followed by the
\* result of the same file, or is the file being cleaned (or died on); a
\* result follows its claim; a goodbye is the last word.
ProtocolOrder ==
  \A w \in Workers : \A k \in 1 .. Len(outbox[w]) :
    LET f == outbox[w][k]
        last == k = Len(outbox[w])
    IN  CASE f.type = "CLAIM" ->
               IF last THEN wpc[w] = "crashed" \/ (wpc[w] # "recv" /\ cur[w] = f.path)
               ELSE outbox[w][k + 1].type = "RESULT" /\ outbox[w][k + 1].path = f.path
          [] f.type = "RESULT" -> last \/ outbox[w][k + 1].type \in {"CLAIM", "BYE"}
          [] f.type = "BYE"    -> last /\ wpc[w] = "exited"

\* What a result on the wire says is what the sender's store holds: a count is
\* the whole file, -2 is never said of a file with no row on disk.
ResultsAreTrue ==
  \A w \in Workers : \A f \in Range(outbox[w]) :
    f.type = "RESULT" =>
      /\ f.events >= 0 => Rows(f.path) \subseteq stored[w]
      /\ f.events = PartialWrite => Rows(f.path) \cap stored[w] # {}
=============================================================================
