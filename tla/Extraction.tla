------------------------------ MODULE Extraction ------------------------------
(***************************************************************************)
(* From the rows of a day-file to the rows of a store, five times over:    *)
(* the streaming path of clean_file (open_raw_reader, CapEventExtractor    *)
(* and the batches, as a state machine that reads a row per step), the     *)
(* flat extractor over loaded columns, the CUDA pipeline, and the Python   *)
(* oracle with its vectorized twin (as operators over the rows read).      *)
(*                                                                         *)
(* A line is its timestamp, one count per head and a kind: what its cells  *)
(* look like to each parser.  Torque and status are left out; an event     *)
(* carries them from its own line in every path.                           *)
(***************************************************************************)
EXTENDS Integers, SequencesExt

CONSTANTS
  NumHeads,    \* NUM_HEADS
  Counts,      \* the counter values of a line
  Texts,       \* the texts of timestamp cells, in the order of texts; 0 is empty
  Instant,     \* [Texts -> the instant the store's cast makes of each, or NoStamp]
  Spelled,     \* [Texts -> the text ts_expr makes of each]
  Lines,       \* [Formats -> the lines that occur]
  IntMax,      \* INT_MAX, the saturation of CapEvent::delta
  BatchSize,   \* kBatch
  MaxLines,    \* bound: lines in a file
  Unseen       \* an empty last_count_ entry

ASSUME HeadsAssumption == NumHeads \in Nat \ {0}
ASSUME DomainAssumption == Counts \subseteq Int /\ Unseen \notin Counts
ASSUME SizesAssumption == IntMax \in Nat \ {0, 1} /\ BatchSize \in Nat \ {0}

Heads == 1 .. NumHeads

NoStamp == 0
Empty   == 0

\* ts_expr gives an instant one text and leaves what is no timestamp as it is.
ASSUME TextsAssumption ==
  /\ Texts \subseteq Nat /\ Instant \in [Texts -> Nat] /\ Spelled \in [Texts -> Texts]
  /\ Empty \in Texts => Instant[Empty] = NoStamp
  /\ \A t \in Texts : Instant[t] = NoStamp => Spelled[t] = t
  /\ \A s, t \in Texts : Instant[s] # NoStamp /\ Instant[t] # NoStamp =>
       /\ Instant[Spelled[s]] # NoStamp
       /\ Instant[Spelled[s]] = Instant[Spelled[t]] => Spelled[s] = Spelled[t]

\* A CSV file, or a Parquet or JSON file that DuckDB reads cell by cell.
Formats == {"csv", "tabular"}

\* The 109 columns by name and in order, in another order, or not those columns.
Headers == {"exact", "reordered", "wrong"}

\*   plain      every cell a plain decimal        longCell  " 1.5", 17 digits
\*   oddCell    "1.2.3": stod takes it, float()   junkCell  "", "abc", null
\*              does not                          oddCount  "1e5" as a Count
\*   nanCell    "nan", "1e300": not a float       junkCount a Count, not a number
\*   comma      109 cells and a ','               short, extra  too few, too many
\*   blank      nothing or a lone CR
CellKinds == {"plain", "longCell", "oddCell", "junkCell", "nanCell", "oddCount", "junkCount"}
AllKinds == CellKinds \cup {"comma", "short", "extra", "blank"}

\* A timestamp of any text may occur in any format.
ASSUME LinesAssumption ==
  /\ Lines \in [Formats -> SUBSET [kind : AllKinds, ts : Texts, count : [Heads -> Counts]]]
  /\ \A line \in Lines["tabular"] : line.kind \in CellKinds

VARIABLES
  format, header,
  file,        \* the lines read so far, a tabular one as the query gives it
  last,        \* CapEventExtractor::last_count_
  batch,       \* events not yet written
  written,     \* events handed to the store
  stored,      \* the rows of cap_events
  n,           \* the count clean_file returns
  skipped,     \* skipped()
  outOfOrder,  \* out_of_order()
  lastTs,      \* the reader's last_ts
  returned     \* "no", "yes", "threw", or "refused" (-1): how clean_file ended

given == <<format, header>>
vars == <<format, header, file, last, batch, written, stored, n, skipped, outOfOrder, lastTs, returned>>

\* parse_row_fields.  The splitter drops an empty last cell, so a trailing
\* comma is tolerated and an empty last Status makes the row short.
RowOk(line) == line.kind \in {"plain", "longCell", "oddCell", "oddCount", "comma"}
IsBlank(line) == line.kind = "blank"

\* The query over a Parquet or JSON file spells an instant the pool's way,
\* "2026-02-27T16:00:00.000"; a CSV cell is taken as it is.
Fault_Verbatim(line) == line.ts
TsText(line) == IF format = "tabular" THEN Spelled[line.ts] ELSE line.ts
Offered == {[line EXCEPT !.ts = TsText(line)] : line \in Lines[format]}

Fault_Truncated(cur, prv) == IF cur > prv THEN (cur - prv) % (IntMax + 1) ELSE 0

SaturatedDelta(cur, prv) ==
  IF cur <= prv THEN 0 ELSE IF cur - prv > IntMax THEN IntMax ELSE cur - prv

MakeEvent(line, h, prv) ==
  LET delta == SaturatedDelta(line.count[h], prv)
  IN  [head |-> h, ts |-> line.ts, seq |-> line.count[h], delta |-> delta,
       aggregated |-> delta > 1, reset |-> line.count[h] < prv]

\* The events of one row against the counts before it, head by head.
RowEvents(line, before) ==
  FlattenSeq([h \in Heads |-> IF before[h] \in {Unseen, line.count[h]} THEN <<>>
                              ELSE <<MakeEvent(line, h, before[h])>>])

\* INSERT OR IGNORE under UNIQUE (machine_id, head_id, ts), of the text cast to
\* a TIMESTAMP: the first of a key stays.
Key(e) == <<e.head, Instant[e.ts]>>
Upsert(rows, events) ==
  rows \cup {events[k] : k \in {i \in DOMAIN events :
               /\ \A d \in rows : Key(d) # Key(events[i])
               /\ \A j \in 1 .. i - 1 : Key(events[j]) # Key(events[i])}}

-----------------------------------------------------------------------------
Init ==
  /\ format \in Formats /\ header \in Headers
  /\ file = <<>>
  /\ last = [h \in Heads |-> Unseen]
  /\ batch = <<>> /\ written = <<>>
  /\ stored = {}
  /\ n = 0 /\ skipped = 0 /\ outOfOrder = 0 /\ lastTs = Empty
  /\ returned = "no"

\* CSV columns are found by position, those of the other formats by name.
HeaderOk == header = "exact" \/ (header = "reordered" /\ format = "tabular")

Refuse ==
  /\ returned = "no" /\ ~HeaderOk
  /\ returned' = "refused" /\ n' = -1
  /\ UNCHANGED <<given, file, last, batch, written, stored, skipped, outOfOrder, lastTs>>

Read(line) ==
  /\ returned = "no" /\ HeaderOk /\ Len(file) < MaxLines
  /\ line \in Offered
  /\ file' = Append(file, line)
  /\ UNCHANGED given

\* The cast of the store rejects the batch.
Rejected(events) == \E k \in DOMAIN events : Instant[events[k].ts] = NoStamp

Write(events) ==
  /\ written' = written \o events
  /\ stored' = Upsert(stored, events)
  /\ n' = n + Len(events)

ReadBlank(line) ==
  /\ Read(line) /\ IsBlank(line)
  /\ UNCHANGED <<last, batch, written, stored, n, skipped, outOfOrder, lastTs, returned>>

SkipRow(line) ==
  /\ Read(line) /\ ~IsBlank(line) /\ ~RowOk(line)
  /\ skipped' = skipped + 1
  /\ UNCHANGED <<last, batch, written, stored, n, outOfOrder, lastTs, returned>>

LastAfter(line) == line.count

\* Texts are compared, and one after an empty text with nothing.
Disordered(line) == lastTs # Empty /\ line.ts <= lastTs

Full(events) == Len(events) >= BatchSize

\* next() of either reader, CapEventExtractor::process and the batch of clean_file.
ProcessRow(line) ==
  /\ Read(line) /\ ~IsBlank(line) /\ RowOk(line)
  /\ outOfOrder' = outOfOrder + (IF Disordered(line) THEN 1 ELSE 0)
  /\ lastTs' = line.ts
  /\ last' = LastAfter(line)
  /\ LET full == batch \o RowEvents(line, last)
     IN  \/ ~Full(full) /\ batch' = full /\ UNCHANGED <<written, stored, n, returned>>
         \/ Full(full) /\ ~Rejected(full) /\ Write(full) /\ batch' = <<>> /\ UNCHANGED returned
         \/ /\ Full(full) /\ Rejected(full)
            /\ batch' = full /\ returned' = "threw" /\ UNCHANGED <<written, stored, n>>
  /\ UNCHANGED skipped

\* The final partial batch, which may be empty.
EndOfFile ==
  /\ returned = "no" /\ HeaderOk
  /\ \/ ~Rejected(batch) /\ Write(batch) /\ batch' = <<>> /\ returned' = "yes"
     \/ Rejected(batch) /\ returned' = "threw" /\ UNCHANGED <<written, stored, n, batch>>
  /\ UNCHANGED <<given, file, last, skipped, outOfOrder, lastTs>>

\* A corrupt row group, or another failure of the fetch.
FetchThrows ==
  /\ returned = "no" /\ HeaderOk /\ format = "tabular"
  /\ returned' = "threw"
  /\ UNCHANGED <<given, file, last, batch, written, stored, n, skipped, outOfOrder, lastTs>>

Next ==
  \/ \E line \in Offered : ReadBlank(line) \/ SkipRow(line) \/ ProcessRow(line)
  \/ EndOfFile \/ FetchThrows \/ Refuse

Spec == Init /\ [][Next]_vars

-----------------------------------------------------------------------------
(* The other paths, over the lines of a whole file. *)

\* The lines that load_columns keeps.
Loaded(f) == FlattenSeq([i \in 1 .. Len(f) |-> IF RowOk(f[i]) THEN <<f[i]>> ELSE <<>>])

\* extract_flat: each kept row against the kept row before it.
Flat(f) ==
  LET rows == Loaded(f)
  IN  FlattenSeq([i \in 1 .. Len(rows) |->
        IF i = 1 THEN <<>> ELSE RowEvents(rows[i], rows[i - 1].count)])

\* flag_newlines and parse_rows: every line is a device row; delta_kernel
\* steps over blank ones.
RealBefore(f, i) == {j \in 1 .. i - 1 : ~IsBlank(f[j])}
RowBefore(f, i) == CHOOSE j \in RealBefore(f, i) : \A k \in RealBefore(f, i) : k <= j
DeviceEvents(f, i) ==
  IF IsBlank(f[i]) \/ RealBefore(f, i) = {} THEN <<>> ELSE RowEvents(f[i], f[RowBefore(f, i)].count)

\* What the host refuses after the download: a Count cell or a column count
\* that the device cannot take, anywhere; a cell the row policy rejects, in a
\* row that has events.
Fault_CellsUnchecked(f) ==
  Len(f) >= 2 /\ \E i \in DOMAIN f :
    f[i].kind \in {"oddCount", "junkCount", "short", "extra", "comma"}

CudaRefuses(f) ==
  Len(f) >= 2 /\ \E i \in DOMAIN f :
    \/ f[i].kind \in {"oddCount", "junkCount", "short", "extra", "comma"}
    \/ f[i].kind \in {"junkCell", "nanCell"} /\ DeviceEvents(f, i) # <<>>

Cuda(f) == FlattenSeq([i \in 1 .. Len(f) |-> DeviceEvents(f, i)])

\* oracle.py keeps a row of at least 109 cells whose cells float() takes, and
\* its deltas are Python's integers.
OracleKeeps(line) == line.kind = "extra" \/ line.kind = "nanCell" \/ (RowOk(line) /\ line.kind # "oddCell")

OracleEvents(line, before) ==
  LET events == RowEvents(line, before)
  IN  [k \in DOMAIN events |->
        [events[k] EXCEPT !.delta = IF events[k].reset THEN 0 ELSE events[k].seq - before[events[k].head]]]

OracleStep(acc, line) ==
  IF OracleKeeps(line)
  THEN [events |-> acc.events \o OracleEvents(line, acc.last), last |-> line.count]
  ELSE acc
OracleRun(f) ==
  LET run[i \in 0 .. Len(f)] ==
        IF i = 0 THEN [events |-> <<>>, last |-> [h \in Heads |-> Unseen]]
        ELSE OracleStep(run[i - 1], f[i])
  IN  run[Len(f)]
Oracle(f) == OracleRun(f).events

\* oracle_union.py: the rows the store should hold, by head and text.
OracleUnion(f) == {<<e.head, e.ts>> : e \in Range(Oracle(f))}

\* What read_csv takes without an exception and without a NaN.
PandasTakes(line) == line.kind \in {"plain", "longCell", "oddCount"} /\ line.ts # Empty

\* clean_vectorized.py: one diff over all rows; dirty input goes to the oracle.
Frame(f) == FlattenSeq([i \in 1 .. Len(f) |-> IF IsBlank(f[i]) THEN <<>> ELSE <<f[i]>>])
Vectorized(f) ==
  LET rows == Frame(f)
  IN  IF \E i \in DOMAIN rows : ~PandasTakes(rows[i]) THEN Oracle(f)
      ELSE FlattenSeq([i \in 1 .. Len(rows) |->
             IF i = 1 THEN <<>> ELSE OracleEvents(rows[i], rows[i - 1].count)])

-----------------------------------------------------------------------------
(* Invariants *)

Events == written \o batch

FlatAgrees == Events = Flat(file)

\* The first line that is not blank is one the row policy keeps.
SeedKept(f) ==
  \E i \in DOMAIN f : RowOk(f[i]) /\ \A k \in 1 .. i - 1 : IsBlank(f[k])
CudaAgrees == CudaRefuses(file) \/ Cuda(file) = Events
CudaAgreesPastTheSeed == SeedKept(file) => CudaAgrees

\* No row that only one of the two policies keeps, no delta beyond INT_MAX.
SamePolicy(f) == \A i \in DOMAIN f : OracleKeeps(f[i]) <=> RowOk(f[i])
OracleAgrees ==
  SamePolicy(file) /\ (\A k \in DOMAIN Events : Events[k].delta < IntMax) => Oracle(file) = Events

\* pandas takes the first cell for an index where every row has one too many.
VectorizedAgrees ==
  (\E i \in DOMAIN file : file[i].kind \notin {"extra", "blank"}) => Vectorized(file) = Oracle(file)

\* One transform, five times: the streaming and the flat extractor emit the same
\* events in the same order, whatever lines are dropped, wherever the batches are
\* cut and whichever format the day came in.  Of a CSV file, the CUDA pipeline
\* refuses it or emits them too, provided its seed row is one the row policy
\* keeps (a rejected cell in a later row without events is let through: such a
\* row repeats the counts before it); the Python oracle finds them where its row
\* policy is the same; and the vectorized one finds what the oracle finds.
EnginesAgree ==
  FlatAgrees /\ (format = "csv" => CudaAgreesPastTheSeed /\ OracleAgrees /\ VectorizedAgrees)

\* CudaCleaner.cu: a row the CPU readers skip makes this pipeline refuse the
\* file.  The seed row has no events, so nobody looks at its cells.
CudaRefusesOrAgrees == format = "csv" => CudaAgrees

\* What a reader of the events makes of a head's counter: from the seed, every
\* delta is added and every reset starts over.  Exact until a delta saturates.
Counted(acc, e) ==
  IF e.reset THEN [count |-> e.seq, exact |-> TRUE]
  ELSE [count |-> acc.count + e.delta, exact |-> acc.exact /\ e.delta # IntMax]
Replay(events, h, seed) ==
  LET run[k \in 0 .. Len(events)] ==
        IF k = 0 THEN [count |-> seed, exact |-> TRUE]
        ELSE IF events[k].head = h THEN Counted(run[k - 1], events[k]) ELSE run[k - 1]
  IN  run[Len(events)]

\* No cap is lost or counted twice: since its last reset (or since the seed) a
\* head's deltas add up to what its counter has moved, unless one saturated.
CapsAreConserved ==
  \A h \in Heads : last[h] # Unseen =>
    LET replay == Replay(Events, h, Loaded(file)[1].count[h])
    IN  replay.count <= last[h] /\ (replay.exact => replay.count = last[h])

\* No instant a head has an event at is spelled in two ways.
SpelledOnce == \A d, e \in Range(Events) : Key(d) = Key(e) => d.ts = e.ts
AllStamped(f) == \A i \in DOMAIN f : RowOk(f[i]) => f[i].ts # Empty

\* The readers order texts and the store keeps instants.  Of a file without an
\* out-of-order timestamp (and without an empty one, after which the order is
\* not checked) the store loses events exactly if a head's instant is spelled
\* in two ways; the union oracle, which keeps texts, is off the store's count
\* exactly then; and a Parquet or JSON file cannot come to that, since its reader
\* respells it.
OnlySpellingsCollapse ==
  returned = "yes" =>
    /\ format = "tabular" => SpelledOnce
    /\ outOfOrder = 0 /\ AllStamped(file) => (n = Cardinality(stored) <=> SpelledOnce)
    /\ format = "csv" /\ SamePolicy(file) =>
         (Cardinality(stored) = Cardinality(OracleUnion(file)) <=> SpelledOnce)
=============================================================================
