# Verification of the cap-closure pipeline

TLA+ models of the programs in this repository, the TLC runs that check them on small
instances, and the TLAPS proofs of the theorems that hold for every value of the
constants. All paths below are relative to the repository root.

Contents: [the system](#1-the-system), [what is hard in it](#2-what-is-hard-to-test),
[modules](#3-modules), [correspondence with the code](#4-correspondence-with-the-code),
[runs](#5-runs-and-their-bounds), [fairness](#6-fairness), [proofs](#7-proofs),
[what the work showed](#8-findings-and-divergences),
[what is not modelled](#9-what-is-not-modelled), [plan](#10-plan).

## 1. The system

A capping machine writes one day-file per day: a row per sample with, for every head, a cap
counter, a status and a torque. The C++ part of the repository cleans day-files into *cap
events* (the counter of a head moved), and keeps them in stores. The Python part reports on
a store.

| Component | Code | State | Operations |
|---|---|---|---|
| Coordinator | `core/src/agent/Coordinator.cpp` | item table (done, redispatches, holder), worker registry (last seen, tombstoned, departed, completions), `open`, the summary | registration gate, dispatch, one frame per pass, heartbeat drain, deadline sweep with re-dispatch, abort check, shutdown |
| Cleaning worker | `core/src/agent/CleaningWorker.cpp`, `apps/worker_main.cpp`, `store/BeatingStore.hpp` | the file in hand, rows written for it, the idle budget, its own store | take a frame, claim, clean, answer, beat, say goodbye, leave |
| Transport | `core/src/transport/ZmqTransport.cpp` | queues per PUSH/PULL pipe | send with a timeout, receive with a timeout |
| Wire frames | `core/src/agent/Message.cpp` | none | encode and decode CLAIM, RESULT, BYE, heartbeats |
| Row policy, readers, extractors | `core/src/domain/RowParse.cpp`, `core/src/store/CsvRawReader.cpp`, `core/src/store/RawInput.cpp`, `core/src/domain/CapEventExtractor.cpp`, `core/src/domain/CapEventExtractorFlat.cpp`, `core/src/domain/Pipeline.cpp` | last count per head, the last timestamp, the batch | check the columns, parse or drop a row, delta with reset and saturation, batch writes |
| GPU cleaner | `core/cuda/CudaCleaner.cu` | the columns of a file | tokenise, delta of all rows at once, compaction, refusal |
| DuckDB store | `store/DuckDbEventStore.cpp` | `cap_events`, `staging_cap_events`, `store_meta` | open with an identity probe, `write`, `merge_from`, `merge_all` |
| Parquet store and export | `store/ParquetEventStore.cpp`, `store/AtomicPublish.hpp`, `store/ParquetExport.cpp` | a buffered day-file, a temporary, the published file | write, publish (COPY, fsync, rename, fsync), discard |
| Merge | `apps/merge_main.cpp` | destination store, attached sources | bulk merge, per-source fall-back |
| Monolith and mas_clean | `apps/monolith_main.cpp`, `apps/clean_main.cpp`, `store/CsvEventStore.cpp` | the shared file index and failure flag, thread stores, the outputs | refuse a contradictory command, one thread, or a pool and a merge after the join; one file into one output |
| Analytics tools | `python/analytics/tools/*.py`, `store.py` | none (read a store) | thirteen queries with figures |
| Report agent | `python/analytics/agent/*.py`, `cli.py` | the plan, the results | plan, execute, narrate, render |
| Oracles | `python/oracle.py`, `oracle_union.py`, `clean_vectorized.py` and others | none | independent re-computation |

How they interact:

- The coordinator PUSHes work frames on one anonymous socket: ZeroMQ, not the coordinator,
  chooses the worker. Workers PUSH lifecycle frames (CLAIM, RESULT, BYE) to one results
  socket and heartbeats to another. A worker has one pipe per socket; a pipe keeps its order,
  and nothing is promised across pipes.
- A worker cleans a file with the pipeline into a store of its own; `mas_merge` folds the
  stores of the workers the coordinator has not written off into one.
- The monolith does the same with threads, thread stores and the same `merge_all`; `mas_clean`
  cleans one file with the same pipeline.
- The report programs open the merged store read-only.

## 2. What is hard to test

`PROJECT.json` lists the hazards one by one, each at its line, with the properties that
look for it. By kind:

- **Actors in an order nobody wrote a test for.** Answers from workers already declared dead,
  two workers with one file, a claim that overtakes a re-dispatch, a goodbye during the
  registration gate (coordinator); several writers of one Parquet name; threads pulling
  indices.
- **Crashes and power loss between two statements.** The identity probe and its irreversible
  stamp; the self-committing staging table; COPY, fsync and rename; a merge killed half-way.
- **Partial failure.** A COMMIT that fails, a re-dispatch that times out half-way through a
  sweep, a source that attaches but cannot be merged, a publish that fails after the COPY, a
  model that answers nonsense.
- **Loss.** A frame queued for a worker that leaves is lost with its pipe; a heartbeat may
  never be read; a STOP may be taken by the wrong worker.
- **Liveness.** The loop has to end when all workers are gone, or none ever came; a worker
  has to end when its coordinator has gone.
- **Numbers.** Counter resets and saturation, timestamps compared as texts, half-open months
  and calendar weeks across a year's end, gaps-and-islands by row numbers, a robust deviation with a zero scale, Kendall's S by
  blocks.
- **Redundancy that may drift apart.** Five implementations of one row policy, a dozen
  queries that restate one set of filters, figures that are announced in one function and drawn
  in another.
- **State that is stale when used.** An input probed and opened again later, thread stores of an
  earlier run, a configuration checked before it is overridden, a model that answers from tables
  that were cut.

## 3. Modules

| Module | Models |
|---|---|
| `Frames` | the frames and the ranges their decoders accept |
| `Coordinator` | `run_coordinator` with an arbitrary environment |
| `Ledger` | abstract: what a run promises its caller |
| `CoordinatorLedger` | the refinement mapping from `Coordinator` to `Ledger` |
| `CleaningWorker` | the workers, their stores (as sets of rows), pipes and process deaths |
| `WorkerAlone` | the workers with an arbitrary coordinator |
| `MasRun` | coordinator and workers composed over the sockets |
| `MasRunProofs` | proofs about `Coordinator`, that it implements `Ledger`, about the workers and the composed run |
| `Extraction`, `ExtractionProofs` | day-file lines, CSV or tabular, to events: streaming, flat, GPU, oracle and its vectorized twin; the proofs about them |
| `EventStore` | abstract: what a writer may expect of a store |
| `DuckDbStore`, `DuckDbStoreProofs` | one store file, statement by statement, and its proofs |
| `StoreMerge`, `StoreMergeProofs` | `mas_merge` over many stores |
| `ParquetPublish`, `ParquetPublishProofs` | Parquet files under names several writers share |
| `CleanPrograms`, `CleanProgramsProofs` | `mas_monolith` and `mas_clean` into every output they have, run after run |
| `EventTools`, `EventToolsProofs` | the tools' queries as set expressions, and their proofs |
| `Ask`, `AskProofs` | the report agent from the command line to the exit code |
| `MC...` | instances for TLC |

`MasRun` EXTENDS `Coordinator` and `CleaningWorker`; its actions conjoin theirs.

There are two abstract specifications. `Ledger` is what a run promises its caller;
`CoordinatorLedger` reads a verdict off the coordinator's tables (`Verdicts`, `By`, `Earned`,
`Reported`) and the run `coordinator` checks `L!Spec`. `EventStore` is what `write()` of a store
promises the worker that calls it: a batch goes in whole or not at all, and rows of a write
that failed may come in with a later one. `DuckDbStore!Promise` maps the committed table, the
staging table between two writes and the acknowledged rows onto it, and the run `duckdb_store`
checks that every statement of the real store is a step of the abstract one or none. The
workers of `CleaningWorker` are written against the same promise (`stored`, `staged`).

Inside `Extraction` and `EventTools` the second description is a reference
definition: the flat extractor, the GPU and the oracle next to the streaming path, the
maximal runs next to the gaps-and-islands query.

Definitions whose name begins with `Fault_` are not part of any specification. Each is the
form a plausible bug would give to the definition after it (a dropped guard, a missing
reset, an off-by-one); substituting it makes a property fail, which shows that the property
depends on the code it is about.

## 4. Correspondence with the code

`PROJECT.json` "map" gives the lines of every definition. The main lines of each model:

**Coordinator.** `pc` cuts the function at its calls: `gateRecv`/`gateDrain` for the
registration gate, `dispatch`, then `recv` (one lifecycle frame), `drain` (all heartbeats),
`sweep` (deaths, re-dispatch and abort check). The sweep is one action: it reads one `now()`
and one live count and nothing else runs between. The maps become functions over `Items` and
`Workers`; `WorkerState.completed` becomes `completed`, a set of credits. A re-dispatch that
hits the send timeout settles its item inside `try_redispatch`; which sends fail is an
arbitrary subset, which also covers a full pipe (high-water mark). Time is kept as ages:
`age[w]` is `now() - last_seen`, cut off one unit past the threshold, because the code only
compares it with the threshold. `Receive` and `GateRecv` accept *any* frame at any time, so
what is proved of the module holds for any network.

**Workers.** A day-file is a number of batches, each standing for one event. A DuckDB store
commits batch by batch; the Parquet path buffers the file and publishes it at the end, and
there `BeatingStore.written()` that the worker asks always says 0, so a throw is answered -1
(`Written`). A failed COMMIT may leave the batch in the staging table, from where the next
write stores it. `Crash` keeps a prefix of what the worker has sent and may strike anywhere;
`Detach` is ZeroMQ noticing the peer and dropping the pipe with whatever is queued in it. The
time throttle of the beats is abstracted: a beat may be read at any later time or never.

**MasRun.** `Enqueue` distributes sent work over the attached pipes in every way (ZeroMQ's
round robin is one of them); a receive may time out while a frame is queued, so any delay is
possible; each pipe keeps its order. STOPs are as anonymous as work.

**Extraction.** A file has a format (CSV, or one DuckDB reads cell by cell) and a header; CSV
columns are found by position, the others by name. A line is the text of its timestamp, one
count per head and a *kind*: what its cells look like to each of the parsers (a plain decimal, a
cell too long for the fast path, "nan", an odd count, a trailing comma...). The streaming path is
a state machine, one line per step with its batches, up to what the store's key and its strict
timestamp cast keep of them; the flat extractor, the GPU, the oracle and its vectorized twin are
operators over the file read so far and compared in every state. The readers compare the texts of
timestamps, the store keeps what its cast makes of them: texts are numbers in the order they sort in,
`Instant` is the cast (any function: several texts may be one instant, and sort anyhow), `Spelled`
what `ts_expr` makes of a text. `TsText` respells a tabular file's timestamps and leaves a CSV's as
they stand. Torque and status values are
left out: an event carries those of its own line in every path.

**DuckDbStore.** One action per statement, with the transaction's view (`view`) beside the
committed tables; statements outside a transaction, the Appender's among them, commit by
themselves. Every statement may fail, and the process may die before each. `Init` is any
file: new, current, keyed on the old key, without a key, or foreign.

**StoreMerge.** ATTACH, the bulk INSERT or the per-source INSERT, DETACH, with an alias that
stays attached when DETACH is skipped by a throw. Whether DuckDB refuses to attach one file
twice is external; it is taken to refuse.

**ParquetPublish.** `publish` step by step: a private temporary name, COPY, fsync of the
file, rename, fsync of the directory. The directory on disk is apart from the directory in
memory; at a power loss the former wins, and a file whose blocks are not synced is torn. The
kernel may write the directory back at any time.

**CleanPrograms.** A command line is a program, its flags, a thread count and files; a
command that contradicts itself (`Contradicts`) or names an input that cannot be opened is
refused before any store exists. Threads pull indices off an atomic counter, go on after another
thread's failure and keep a store each; `main` pre-cleans, joins, discards or merges and unlinks.
With one thread the same actions are `main()` itself (`Solo`), writing into the output. The
Parquet output replaces the day under the stem of the input, the CSV output is truncated when it
is opened, the DuckDB output is appended to. Programs are run again and again with other flags
and lists on what the earlier runs left behind; the pre-clean covers the thread stores below its
own thread count only.

**EventTools.** A row is its key with a status and a torque. Each query is the set of rows
its WHERE clause keeps, then grouping and counting; SQL's truncating `%` is spelled out;
`DATE_DIFF('second')` counts boundaries, so stamps are half seconds; medians and quartiles
are scaled to integers (times 4 or 16) to stay exact. A torque is a number of the column's REAL
values; a configured limit is a DOUBLE, and `Real` is what the cast makes of it, which
`closure_filter` and the zones compare with where `overview` and `anomalies` compare with the limit. What a query sorts is described by what
sorting gives: of values, the k-th has fewer than k below it and k or more not above (`Sorted`); of
rows, the enumeration that follows the time and then the head (`InTimeOrder`). The calendar is a constant (`Month`, `Week`,
`Day`, `MonthStart`): `compare_periods` truncates with it and counts the days of a bucket inside
the period. NULL torque is not modelled, and
`mad_k` is a positive integer (the claim of `FlagsAreAMinority` needs `1.4826 * mad_k >= 1`).

**Ask.** The configuration is checked as it stands in the file and again with the overrides of
the command line. A step is a tool and its arguments; the executor's checks are `Valid`; the
outcome of a tool is chosen among the statuses that tool can return, with how rich its result is
(`Riches`: whether there is a rate, a reject, a hit). Planning goes through its tiers (the model
composes a plan, selects tools, or picks a report, and the keyword router) with every way a model
may fail. What a reader and a local model are shown is a set of *facts*: a line of the
findings, a row of a table, a figure, the number of rows left out. `CutFor` cuts the tables to
the room of the prompt as `_facts` does and `Printed` is what the page has. An answer is what
`_ungrounded` reads of it, its numbers: where one stands (a fact, the question, nowhere) and whether
it has more than one digit (`Numbers`). `Grounded` is that check. A sentence without a number and a
number of one digit pass it unread, and a number that stands anywhere passes it in any sentence.

## 5. Runs and their bounds

| Run | Instance | What it shows |
|---|---|---|
| `coordinator` | 2 workers, 2 items, a path never dispatched, cap 2, thresholds of 1 unit, event counts {0, 3}, one expected worker | Against an arbitrary network: an open item's holder is one the sweep watches (`HolderIsLive`), one credit per item and to a worker not written off (`CreditedOnce`), the counters and the event total are what the tables say (`CountersAgree`, `TotalMatchesCredit`), the dead stay dead (`GoneIsGone`), settled items reopen by a death only, deaths leave survivors' items alone; it implements the ledger; when all workers are silent the loop ends (`SilenceEnds`) |
| `worker` | 1 worker, DuckDB or Parquet, files of 2 and 0 batches, 3 frames queued, idle budget 2, COMMITs that fail | frames are in protocol order, results say what the store holds, a worker left alone goes home |
| `mas_run` | 2 workers, 1 file, both may die, cap 1 | what is credited is on disk in a store that counts, the summary never overcounts |
| `mas_run_solo` | 1 worker, 3 files of 2 and 1 batches of which one has a path that cannot be framed, registration gate, crash, failing COMMITs, DuckDB or Parquet | the holder table is true; the run ends and every process goes home, an item that no worker can read among them |
| `extraction` | files of up to 4 lines in both formats with each header, 11 kinds of lines, 5 texts (two instants, a second spelling of one that sorts behind both, no timestamp, the empty text), 2 heads; batch 3, `INT_MAX` 2 | the five implementations agree where their row policies do (`EnginesAgree`), no cap is lost; of a file reported in order the key loses an event, and the union oracle miscounts, exactly if an instant is spelled in two ways, which only a CSV can do (`OnlySpellingsCollapse`) |
| `extraction_cuda` | files of up to 3 lines, 1 head, 11 kinds | a disagreement, see section 8 |
| `duckdb_store` | 3 rows, one of them with a malformed stamp, all 8 batches, 4 writes, 3 crashes | an old file stays refused, acknowledged rows stay, a write merges its own rows; it implements `EventStore` |
| `store_merge` | 3 sources out of 3 files of 3 kinds, 2 rows, one kill | the destination becomes the union; every source is counted |
| `parquet_publish` | 2 processes, one with 2 threads, a day-file and an export, 2 publishes each, power loss | readers see whole files only, what was acknowledged stays, no litter |
| `clean_programs` | 2 runs out of 20 command lines: 0 to 3 threads, each output and engine, contradictions, files of which two share a stem, 2 batches a file | exit 0 means that every file is where it was sent and nothing else is (`ZeroIsComplete`); whatever ends a run leaves no half-truth (`FailureIsClean`) |
| `event_tools` | stores of up to 4 closures of 2 heads, 4 stamps over a year's end, 5 kinds of closure, a lower limit whose cast is below it, foreign rows, every period | idle periods are maximal runs, the tools agree on what they count and differ on the band by the readings the cast lets in, the calendar days of months and weeks add up to the period, flags are a minority, tau is a tau |
| `ask` | all report verbs; ask in each tier, provider and context size, with overrides, plans of up to 2 of 10 steps, each outcome, each failure, a prompt with room for no row and for 70 | a torque trend comes with a level comparison, figures are told to the model, the numbers of an accepted answer are on the page, gaps are told to the reader |

Why the bounds are enough to be of interest:

- *Coordinator.* The interesting cases need two workers (a zombie and its replacement) and
  two items (one of them held by a survivor while the other is re-sent). With cap 2 an item
  is retried or re-sent, settled, reopened by a death, charged again and capped. Thresholds of
  one unit with ages cut off at two give every order of beats, deadlines and frames.
- For `coordinator`, `worker`, both `mas_run`s, `extraction`, `duckdb_store`, `store_merge`,
  `parquet_publish`, `clean_programs`, `event_tools` and `ask`, that is for every passing run, the
  theorems of section 7 remove the bounds, for everything but liveness.
- *Composition.* One file suffices for two workers to clean it both; two files of which one
  has two batches give partial writes and leftovers; the third is never claimed, so only a
  death or the abort settles it (`Unframeable`). `mas_run` uses symmetry (safety only);
  `mas_run_solo` checks liveness and uses none.
- *Extraction.* A reset, a jump past the saturation, a seed, a dropped line between two kept
  ones and a batch cut in the middle of a row all occur within four lines of two heads. One line
  of each odd kind is enough: the parsers look at a line at a time. The second spelling sorts behind
  every other text, so that a file of it is reported in order; the empty text comes first, last and
  between.
- *Stores.* A batch of three rows overlaps a later one, crashes fall before, between and
  after; the third crash strikes the recovery of the second.
- *Programs.* A second run is enough to meet what the first has left; 3 threads after 2, and 2
  after 3, leave a thread store the pre-clean does and does not cover.
- *Tools.* Four closures of a head make two idle runs, a run with a hole, a tie and an odd
  and an even median; one of the torques is the lower limit's own REAL, below the limit; the sample is cut at 2 and the blocks of Kendall's S at 2.
- *Ask.* Two steps are what an overwritten figure and a missing comparison need. Tables of 3 to 90
  rows (`RowsOf`) under the code's own caps (`RowCaps`) in a prompt with no room or room for 70
  rows (`Rooms`) give every way of cutting: by day, by head, and not at all.

Deadlock is checked in `coordinator`, `mas_run`, `mas_run_solo` and `parquet_publish`. The
other systems really stop: a worker that has gone home, a store that refuses its file, a merge
or a command that has exited, a file read to its end, a full store.

## 6. Fairness

- `Coordinator!FairSpec`: WF on a pass of the loop (one thread, always scheduled) and SF on
  `Tick`. Time passes while `recv` blocks (up to 200 ms per pass), and the loop comes back
  there for ever; the strong form says that the clock cannot stand still because the
  receive is left again and again.
- `MasRun!FairRun`: the same, and WF on the steps of each started worker. Nothing is asked of
  the network: a frame may stay on its way for good, a beat may never be read, no worker has
  to start, to crash or to be noticed as gone.
- `WorkerAlone!WSpec`: WF on the steps of each worker.

The end of a run with several workers rests on three checked facts: in any network, once no
worker shows signs of life the loop ends (`SilenceEnds`), and while some do, an item whose holder
falls silent is taken up by the sweep, since its holder is one it watches (`HolderIsLive`); a worker to whom nothing more is
queued leaves (`OrphanGoesHome`); with one worker, crash included, both end (`RunEnds`).
`RunEnds` is checked with one worker only.

## 7. Proofs

TLAPS checks the theorems of eight modules. Every invariant and every action property that a passing
run checks, and both refinements, are among them; only liveness is not. The theorems hold for every value
of the constants that satisfies the named assumptions of the modules they are about, and nothing
else is assumed:

| Proofs | About any | Assumed of the constants |
|---|---|---|
| `MasRunProofs`, the coordinator | items, workers, cap, thresholds, network | items and workers are finite, `NoWorker` is none of these, event counts and limits are naturals |
| `MasRunProofs`, workers and run | the same, batches per file, formats, crashes | a file's batches are one of the event counts; paths that cannot be framed are items |
| `ExtractionProofs` | heads, counters, texts and the instants they are cast to, lines of any text in either format, file lengths, batch size, saturation | counters are integers and `Unseen` is none, texts are naturals, `IntMax` is over 1; the empty text is no timestamp; `ts_expr` leaves what is no timestamp as it is and makes of a timestamp one that casts, of one text for each instant; a line has one of the kinds, and in a tabular file a kind that cells can have |
| `DuckDbStoreProofs` | rows, batches, writes, crashes | the probe is no caller's row; a batch is a set of rows |
| `StoreMergeProofs` | files, sources, prior rows, kills | at least one source |
| `ParquetPublishProofs` | processes, threads, names, publishes | days and exports have different names |
| `CleanProgramsProofs` | threads, files, batches, runs, set of commands | a command is one the parsers accept (`CommandsAssumption`, `CleanAssumption`, `CsvAssumption`) |
| `EventToolsProofs` | stores, heads, stamps, kinds of closure, thresholds, calendars, caps and block sizes | there are finitely many foreign rows, of other machines; heads and stamps are naturals, kinds pairs of integers; lengths, gaps, caps, blocks and `mad_k` are positive; `None` is no number; the cast to REAL keeps the order of the limits and moves none past a reading (`RealAssumption`); months are finitely many and in order, each stamp's day lies in its month and in its week |
| `AskProofs` | periods, tools a model may name, plan lengths, tables | a period the registry refuses is none of those it accepts (`PeriodsAssumption`); the caps are a list of naturals, the tables have numbers of rows; `Null` is no reason of a failed narration |

An assumption like `NoFile \notin Content` says that a marker is not a value; `Absent` of
`CleanPrograms` is written as a row of batch 0 so that this can be proved and needs no
assumption.

**Coordinator.** The inductive invariant is

    IInv == TypeOK /\ HolderIsLive /\ CreditedOnce /\ CountersAgree /\ SummaryAddsUp
            /\ GateClean /\ ShutdownOpen

No conjunct is inductive alone. That `open` and `files_failed` stay naturals (`TypeOK`) needs
`CountersAgree`: `open` is decremented by the number of items settled, which is at most
the number of open ones only because `open` counts these. `CountersAgree` needs
`CreditedOnce`: a death takes back one `files_ok` per reopened item, which is right only if
no item is credited to two workers. `CreditedOnce` needs the
types of the tables. `GateClean` carries the initial state over the gate, and `ShutdownOpen`
lets the summary be read off the counters. The proof has one lemma per kind of frame (`RetryResultKeeps`,
`SettleOkKeeps`, ...), which preserve `FrameInv` at the gate and in the loop alike, one for
the arithmetic of a sweep (`SweepCounts`), and one per phase; `NextKeeps` assembles them.

`TotalIsExact` needs sums over sets. `MasRunProofs` proves the little theory of them that it needs, from
the definition of the community module's fold: there is one recursive function (`SumRecExists`,
`SumRecAgree`), a sum loses what is taken out of the set (`TotalRemove`) and splits over a
partition (`TotalParts`). The induction over the size of a set that this takes is done with a
smallest counterexample.

| Theorem | States |
|---|---|
| `Invariance` | `Spec => []IInv` |
| `TypeCorrect` | `TypeOK`: among others, no item is charged past the cap, `open` is never negative |
| `ClaimsAreSound` | `HolderIsLive`: a recorded holder is live and its item open |
| `CreditsAreExclusive` | `CreditedOnce` |
| `CountersAreExact` | `CountersAgree` |
| `TotalIsExact` | `TotalMatchesCredit` |
| `SummaryIsExact` | a returned summary counts every item exactly once |
| `NoResurrection` | `GoneIsGone`, an action property |
| `ReopenIsWriteOff` | `ReopenedByDeathOnly`, an action property |
| `SurvivorsUndisturbed` | `SurvivorsKeepTheirItems`, an action property |
| `SendsReachSomebody` | every re-dispatch leaves a live worker in the registry |
| `ResendsAlwaysDue` | nothing is sent again that is settled, or that a live worker holds |
| `LedgerIsKept` | `ImplementsLedger`, the refinement |

The environment of `Coordinator` is arbitrary, so these hold of any run whatever its workers
and its network do.

`LedgerIsKept` maps steps to steps: a credited result is a `Succeed`,
any other frame a `WriteOff` of nobody that gives up what it settles, a sweep a `WriteOff` of the
silent, the two ways out of the function a `Report` or a `Throw`; heartbeats, the clock and the
gate are stutters. `EarnedTotal` turns the sum over the verdicts into the sum over the credits, so
that `TotalIsExact` gives the reported events.

**Workers and the composed run.** For a worker, `Sound(w)` relates what is on its
pipe to where it is: the frames form a chain in which a result follows its claim (`Line`), the last
frame fits the worker's place (`LastFits`), what is accepted of the file in hand is stored, and
every result on the pipe is true of the store (`TrueOf`). A claim without its result is the file
in hand or the file of the dead, which is why a crash that cuts the pipe keeps the chain. `Sound`
is preserved whatever is put on the work pipes; so `FramesInOrder` and `ResultsHold` hold of
`WSpec`, and again beside the real coordinator.

Of the composition, every step is a step of the coordinator or leaves its variables alone
(`RunStepIsStep`), whence `RunIsCoordinated` (`RunSpec => Spec`): all the theorems above hold of the
run. The three results that need both sides are

| Theorem | States | Rests on |
|---|---|---|
| `CreditsAreOnDisk` | `CreditIsOnDisk` | a credit is given for a frame that `TrueOf` covers, and stores only grow |
| `HoldersTellTheTruth` | `HolderIsTrue` | who takes the claim is not heard of again before the result: the chain of `Line` |
| `SummaryIsOnDisk` | `NeverOvercounts` | the credits are for distinct files (`CreditedOnce`), so their rows are disjoint and the event total is their number (`CreditedRows`, `TotalIsExact`) |
| `RunKeepsTheLedger` | `ImplementsLedger` | `RunIsCoordinated`, `LedgerIsKept` |

**Extraction.** One side of each property is a machine that reads a line per step, the other a
recursion over the whole file, and an induction over the file is out of the provers' reach. It is
not needed: the induction is the machine's own. What is needed is what each recursion gives for a
file that is *one line longer*, and for that the module shows once that a recursion of finitely many
steps has a solution (`RunExists`) and no other (`Alike`): a shortest recursion without one, or
a first step at which two differ, would be a contradiction. `FlattenRun`, `OracleRunIs` and `ReplayRun` are
its instances, and from them come the equations `LoadedAppend`, `FlatAppend`, `FrameAppend`,
`CudaAppend`, `OracleAppend` and `ReplayAppend`. With those

    IInv == TypeInv /\ EngineInv /\ CapsInv /\ OrderInv /\ SpellInv /\ StoreInv

is inductive over the lines. `EngineInv` says that what has been emitted is what the flat extractor
finds, that `last` holds the counts of the last kept line, and where each other engine is: the GPU's
last real line has the same counts as the last kept one although it may be another line (`CudaInv`: a line
that is let through without events repeats them), the oracle has the same heads and texts even where a
saturated delta tells them apart (`OracleInv`), the vectorized oracle is the oracle
(`VectorizedInv`). `CapsInv` follows one head's counter through a replay of the events;
`OrderInv` says that while no line came out of order, or without a text, no two events share head and
text; `SpellInv` that a tabular file's texts are `ts_expr`'s; `StoreInv` that the store has one row for
each key written, since a batch with a malformed timestamp was rejected whole. Keys are the image of
heads and texts under the cast, and as many exactly if the cast tells those apart (`KeysAreTexts`).

| Theorem | States |
|---|---|
| `EnginesAlwaysAgree` | `EnginesAgree` |
| `CapsAlwaysConserved` | `CapsAreConserved` |
| `NothingElseIsLost` | `OnlySpellingsCollapse` |

**DuckDB store.** The inductive invariant joins `TypeOK` with three parts: `Refusal` (an old
key and the statements that a refused file can be at), `Durable` (what was there and
what was acknowledged is in the table and in every view of it) and `Exact` (at each statement
of `write`, what is staged and what the view holds beyond the committed rows). Theorems:
`TypeCorrect` (the rows of the identity probe never reach the table), `LegacyRefused`,
`AcknowledgedDurable`, `WritesAreSeparate`, `FailedWritesVanish` (rows of a write whose INSERT
failed are not in the file unless another write brought them), and `KeepsThePromise`, the
refinement of `EventStore`: a COMMIT is the one step a caller sees as `Write`, and what the Appender
commits to the staging table is, to the caller, the throw it has not heard of yet.

**Merge.** `MergedIsTheUnion` and `SourcesAreCounted`. The invariant says which aliases are
attached at each statement (`Aliases`), and therefore that a source which does not attach under the
fallback is one that cannot be read; that the rows of every source that is past are in
(`Brought`); and that `skipped` is the number of unreadable sources so far (`Tallied`).
`merge_all` succeeds only if all sources are readable, which is why it may count them all merged.

**Parquet.** `WholeFilesOnly`, `AcknowledgedForGood`, `FailuresTidyUp`. The invariant follows a file
from the buffer to its name: a store that has refused nothing holds a prefix of its batches
(`Buffered`); temporary names are used once (`NamesApart`), so nobody writes to the temporary of
another; at `copied` it is whole, at `synced` on disk (`Copies`); hence whatever has a name, in
memory or on disk, is whole *and* synced (`Visible`). Without the last word a power failure would not
preserve it.

**Programs.** `ZeroMeansComplete` and `FailureLeavesNoHalfTruth`. `Control` ties the place of
`main()` to the command line and to who is at work; `Indices` says that no index is in two hands;
`Progress` that while nothing has failed every index handed out is done or in a hand, so that after
the join all are done (`AllDone`); `Confined` what may be in the output and in the thread stores;
and `InDuckdb`, with its likes for the other outputs, where the rows of each finished file are:
in a thread store until the merge, in the output after it (`MergedIsAll`). The pre-clean is what makes
the thread stores of the pool hold rows of this command line only.

**Report agent.** `TheLevelIsTested`, `FiguresHaveNames`, `TheReaderCanLookItUp` (of
`NumbersAreOnThePage`: numbers of two or more digits, which is what the code looks up),
`NoGapIsHidden`. The conjuncts of the invariant follow the phases: what has
not been done before there is a plan (`Untouched`, `Unsaid`), that results stand beside steps they
can be of (`Followed`), that `_with_level_check` adds a comparison the registry accepts
(`Levelled`, from `LevelCheckStands`: the period it copies has passed the registry), that each
mishap left a mark on the plan or the narrative and the reverse (`Marked`), and that every figure
planned is told to a local model (`ToldOfFigures`). What is drawn is planned, and what is shown of a table is
at most the table (`ShownOfWhole`), whatever the room (`CutIsANumber`).

**Analytics tools.** `TypeHolds` is the invariant: the store is finite and holds one row of this
machine for each head and stamp. All the rest is about the queries over any such set of rows
(`ScopesAreInScope`), and each property equates two descriptions of one answer.

| Theorem | States | Argument |
|---|---|---|
| `IdlePeriodsAlwaysMaximal` | `IdleRunsAreMaximal` | two no-load cycles of a head have one difference of row numbers exactly if no loaded row lies between them (`IslandMeans`), and one sum of breaks exactly if no long gap does (`SegmentMeans`); so a run of the query is unbroken, an unbroken set is in one run, and the maximal sets are the runs (`UnbrokenIsOneRun`, `RunsAreTheMaximal`) |
| `DaysAlwaysAddUp` | `DaysAddUp` | the months tile the days (`MonthOfIs`), the window's edges clip a bucket to an interval that still has every row's day (`WindowHolds`, `BucketIs`), and the active days are among the days counted |
| `FlagsAlwaysFew` | `FlagsAreAMinority` | by rank, half of the values are not above the median of their distances (`HalfAreNotAbove`); whoever is flagged is further off than that, because `14826 * mad_k >= 10000`, or off at all where that median is 0 (`DeviationIsFar`) |
| `ToolsNeverDisagree` | `ToolsAgree` | what is counted by its key is counted once, whatever the key (`CountsAddUp`, `TalliesAddUp`); the WHERE clauses of two queries keep one set (`OutcomesAgree`, `ZonesAgree`), on the band one set but for the readings equal to a cast limit (`BandAgrees`, from `CastKeepsOrder`); a run that spans a stop would step over it without a row, in a gap longer than `MaxGap` (`StopIsNotIdling`); a stride of ceil(n/cap) reaches the last hits (`StrideIs`, `SamplesSpan`) |
| `TauAlwaysATau` | `TauIsATau` | each pair of rows is in one block, the one that starts at the multiple below its first row (`BlocksPartition`), so the blocks' sums are the sum over all pairs (`SumOfParts`, `SumRenamed`); ties are an equivalence on means of integers (`SignIs`), its classes hold the tied pairs (`PairsCount`, `TiedPairsAre`), and a sum of signs is at most the others (`SumOfSigns`); one class weighs more than the two it is split in (`WeightOfTwo`), so the variance is 0 only if there is one class |

Sums are folds of the community modules; as for the coordinator, the recursive function behind them
is shown to exist for every finite set (`SumRecExists`) before anything is said of a sum. Where a
library fact about finite sets takes an operator as a parameter, the module uses surjections and
bijections instead.

`SummaryAddsUp`, `SendsNeedSomebody`, `ResendsAreDue`, the store's `TypeOK` and
`FailedWritesLeaveNothing` are proved and therefore not repeated as properties of a run. Each
inductive invariant holds on the instances of section 5 as well, by TLC.

Only model-checked: liveness (`SilenceEnds`, `OrphanGoesHome`, `RunEnds`), because the prover has
neither rule for it nor `ENABLED`, which fairness is defined by.

## 8. Findings and divergences

Checked by a run:

- `extraction_cuda`: the GPU cleaner looks for cells the row policy rejects only in rows that
  have events (`core/cuda/CudaCleaner.cu:592`). The first data row never has any. If its
  torque or status cell is one the CPU readers reject, they skip the row and seed on the
  next, and the GPU seeds on it and emits events for the next row: the engines disagree
  where the comment at lines 598-601 promises a refusal. `CudaAgreesPastTheSeed`, a part of
  `EnginesAgree`, shows that this is the only case among the modelled kinds.

Met while reading, stated here and not checked by a run of their own:

- The re-dispatch cap is charged for a -2 answer of a live holder (`Coordinator.cpp:237`),
  while `Coordinator.hpp:23` describes it as a budget for deaths.
- After a failed COMMIT the staged rows stay (`DuckDbEventStore.cpp:179`), so a file
  answered -1 may have rows stored by a later write, against `Message.hpp:21,35`. The
  model has it: `ResultsAreTrue` says nothing of -1, and `NeverOvercounts` is an inequality.
- `merge_all` into a destination that holds rows is not one set-based statement
  (`merge_main.cpp:21-26`); the result is the same (`MergeIsTheUnion`).
- A source is attached without an identity check, so one keyed on `cap_seq` is merged
  (`README.md:748`).
- Two exports may both pass the existence check, and the later rename replaces the earlier
  file (`ParquetExport.cpp:68-76`). Both are whole.
- The oracle keeps rows with extra cells or "nan" cells (`python/oracle.py:38`), which
  `clean_vectorized.py:65-67` and the C++ readers drop; `OracleAgrees` excludes these files.
- If every row of a file has one cell too many, `read_csv` takes the first cell for an index and
  the vectorized oracle (`clean_vectorized.py:75`) computes on shifted columns, where `oracle.py`
  ignores the last cell. `VectorizedAgrees` excludes such files.
- `mas_clean` into DuckDB does not look at a -1 (`clean_main.cpp:97`): an input that goes away after
  the probe is reported as "wrote -1 cap events" with exit status 0, and leaves the empty store
  that the probe is there to prevent (`clean_main.cpp:88-91`). Its Parquet and CSV branches return 1.
  `ZeroIsComplete` names the exception.
- Removing a thread store is unchecked in the monolith; `fsync` errors are ignored by the
  publish. The models take both to succeed.
- `planned_figures` is documented as the figures `render` will draw (`render.py:705`), but a
  plotter may draw nothing (`plots.py:207-213`); the model is then told of one figure too
  many. `FiguresAreTold` states the inclusion that does hold.
- In the tier that selects tools the planner gives every tool a period without validation
  (`planner.py:156-158`), so `methodology` is refused by the executor instead of before
  it (`planner.py:10-14`). The step ends as an error and the report says so (`GapsAreTold`).
- `_with_level_check` adds one comparison to a plan whose torque trends span different
  periods, and none to the canned drift plan. `LevelNextToTrend` states what does hold.
- `planner.plan` is documented as never raising (`planner.py:227`), but a reply whose `tools` is
  a number or a list of objects makes `_select` throw; `narrate` promises a narrative on every path
  (`narrator.py:205`), but `_narrate_from_findings` calls `summarise()` unprotected
  (`narrator.py:322`). Both are outside the modelled inputs.
- The *Outcomes* line of the findings is suppressed when the plan has an overall success rate,
  because that step "already prints them" (`render.py:154-162`); if that step failed, nobody does.
- The number of rows a cut table leaves out is among the facts of a local model
  (`render.py:682`), so an answer may quote it although the page prints the tables whole.
  `NumbersAreOnThePage` names it.
- Two CSV rows of one instant in two spellings (a blank for the `T`, fewer decimals) collapse under
  the store's key without a word: `CsvRawReader.hpp:26-33` says of the out-of-order counter that it is
  "the only place either becomes visible" and that the fixed ISO format makes a comparison of texts a
  time ordering. Nothing checks the format (`README.txt:258-259` asks for it); Parquet and JSON files are
  respelled. And a row whose timestamp is empty and that has no events makes the next one
  incomparable (`CsvRawReader.cpp:70`). `OnlySpellingsCollapse` says that nothing else is lost unseen.
- `closure_filter` and the zones cast a limit to REAL (`filter.py:37,40`, `factors.py:115-116`; the
  reason is at `filter.py:10-11` and the test at `tests/test_filter.py:74-86`), `overview` and
  `anomalies` do not (`overview.py:45-46`, `anomaly.py:112,128`). With `torque_max` 2.2 a stored 2.2,
  which is a little more than the DOUBLE, is invalid for the latter and inside the band for the former.
  `ToolsAgree` says that the tools differ by these readings and by no others.
- The store fingerprint is taken before the steps run (`executor.py:39-43`).

Behaviours of a run worth knowing, all of them in the models: a work frame in the pipe of
a worker that leaves is lost without a claim, and its item is re-sent only at a later death
and otherwise ends failed in the abort; a -1 from a store that dies at its first batch is not
retried, by design (`Message.hpp:30-36`); a re-send after a zombie's claim may land in the
zombie's pipe again and repeats until it does not.

## 9. What is not modelled

- The text encodings of frames and command lines; identical input paths (they collapse to
  one item in `run_coordinator`'s map).
- The formatting of the CSV output, and how DuckDB infers the columns of a JSON file.
- GPU kernels, memory and CUDA failures.
- The path-spelling guards of an export.
- Floating-point statistics: p-values, correlations, standard deviations; the wording and the
  drawings of a report; the rounding in the check of an answer's numbers; HTML and PDF export;
  the types of a configuration file's values.
- Benchmarks, scripts, metrics and validation drivers.
- Values of ZeroMQ and OS time-outs: results are awaited 200 ms, heartbeats 0, work 1 s, the
  idle budget is 60 ticks, a send waits 60 s, lingers are 300 ms and 2 s. The models have
  "may time out", a budget constant, and queues that may be lost.

## 10. Plan

Done, in this order: `Frames` and `Coordinator` with its invariants; `Ledger` and the
refinement; `CleaningWorker`, `WorkerAlone` and `MasRun`; the proofs about the coordinator;
`Extraction`; `DuckDbStore` with its proofs; `ParquetPublish`, `StoreMerge` and the monolith;
`EventTools` and `Ask`; then the tabular readers and the vectorized oracle in `Extraction`,
`mas_clean` and all outputs in `CleanPrograms`, `EventStore` and its refinement, paths that cannot be
framed in `MasRun`, the calendar of `compare_periods`, and in `Ask` the configuration, the tables and
the facts of a local model; then the proofs of every safety property of every run, of both
refinements, and of the composed run.

Left of the proofs:

1. `Coordinator`: more of what holds per step (the counters move by what the frame says).
2. The workers against `EventStore`: that each step of a DuckDB worker's store is one of its steps.
   It takes a history of the writes that returned, which `CleaningWorker` does not keep.

Left of the models, in the order of what they would add:

1. The codec of the frames (`Message.cpp`): which lists of fields each decoder accepts, so that
   `Malformed` is derived and not a single value.
2. `MasRun` followed by `StoreMerge`: from the summary to the merged store.
