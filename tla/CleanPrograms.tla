----------------------------- MODULE CleanPrograms -----------------------------
(***************************************************************************)
(* The two programs that clean day-files in one process: mas_monolith into *)
(* a DuckDB store, a Parquet file per day-file or nowhere, with one thread *)
(* or a pool of threads that pull file indices off a counter and a merge   *)
(* of the pool's stores; and mas_clean, one day-file into a DuckDB store,  *)
(* a Parquet file or a CSV file.  They are run several times, over what    *)
(* earlier runs, failed and killed ones too, have left on disk.            *)
(*                                                                         *)
(* A file is cleaned in batches; a row is a file and a batch.              *)
(***************************************************************************)
EXTENDS Integers, Sequences, FiniteSets, Functions

CONSTANTS
  Commands,      \* command lines: program, flags, thread count, files
  Stem,          \* [files -> the name of their Parquet output]
  CsvFiles,      \* the files with a CSV extension
  NumBatches,    \* writes per file
  MaxThreads,    \* bound: threads of a command line
  MaxRuns        \* bound: runs of the programs

Programs == {"mas_monolith", "mas_clean"}
\* out.csv: an output of mas_clean whose name does not end in .duckdb
AllFlags == {"--no-store", "--format parquet", "--engine=cuda", "out.csv"}

ASSUME BatchesAssumption == NumBatches \in Nat \ {0}
ASSUME ThreadsAssumption == MaxThreads \in Nat \ {0}
ASSUME CommandsAssumption ==
  Commands \subseteq [program : Programs, flags : SUBSET AllFlags, threads : 0 .. MaxThreads,
                     files : Seq(DOMAIN Stem) \ {<<>>}]
ASSUME CleanAssumption ==
  \A c \in Commands : c.program = "mas_clean" =>
    c.threads = 1 /\ Len(c.files) = 1 /\ c.flags \in {{}, {"--format parquet"}, {"out.csv"}}
ASSUME CsvAssumption ==
  \A c \in Commands : "out.csv" \in c.flags => c.program = "mas_clean"

RowsOf(F) == F \X (1 .. NumBatches)
Stems == Range(Stem)
AllT  == 0 .. MaxThreads - 1
None  == [run |-> 0, rows |-> {}]

VARIABLES
  command,         \* the command line
  main,            \* where main() is
  step,            \* the thread store the main thread is at
  next, failed,    \* the shared atomics
  pc, idx, batch,  \* per thread: where it is, its file index, batches written
  perFile,         \* per_file: "none" (0), "done", "bad" (-1)
  seen,            \* writes NullEventStore has counted
  out,             \* rows of the output store
  tstore,          \* rows of <out>.tN.duckdb, or Absent
  days,            \* <out>/<stem>.parquet: the run that published it, its rows
  csv,             \* rows of the CSV output of mas_clean, or Absent
  status,          \* exit status, or "killed"
  before,          \* history: the disk when the run began
  refused,         \* history: the command line was turned down
  runs

vars == <<command, main, step, next, failed, pc, idx, batch, perFile, seen, out,
          tstore, days, csv, status, before, refused, runs>>

files    == command.files
threads  == command.threads
no_store == "--no-store" \in command.flags
parquet  == "--format parquet" \in command.flags
cuda     == "--engine=cuda" \in command.flags
intoCsv  == "out.csv" \in command.flags
IntoDuckdb(c) == c.flags \cap {"--no-store", "--format parquet", "out.csv"} = {}
duckdb   == IntoDuckdb(command)

\* What no store holds: batches are numbered from 1.
Absent == {<<0, 0>>}
Pool   == 0 .. threads - 1
Held(t) == IF tstore[t] = Absent THEN {} ELSE tstore[t]

Init ==
  /\ command = [program |-> "mas_monolith", flags |-> {}, threads |-> 1, files |-> <<>>]
  /\ main = "idle" /\ step = 0
  /\ next = 0 /\ failed = FALSE
  /\ pc = [t \in AllT |-> "idle"] /\ idx = [t \in AllT |-> 0] /\ batch = [t \in AllT |-> 0]
  /\ perFile = <<>> /\ seen = 0
  /\ out = {} /\ tstore = [t \in AllT |-> Absent] /\ days = [s \in Stems |-> None]
  /\ csv = Absent
  /\ status = "none"
  /\ before = [out |-> out, days |-> days, tstore |-> tstore, csv |-> csv]
  /\ refused = FALSE /\ runs = 0

given     == <<command, before, refused, runs>>
perThread == <<pc, idx, batch, seen>>
disk      == <<out, tstore, days, csv>>

-----------------------------------------------------------------------------
(* main() up to the first store *)

\* The command lines that contradict themselves: two of them would be heard by
\* one half of the program only, the last has two day-files with one output.
Contradicts(c) ==
  \/ c.threads < 1
  \/ {"--no-store", "--format parquet"} \subseteq c.flags
  \/ c.flags \cap {"--no-store", "--engine=cuda"} # {} /\ c.threads # 1
  \/ "--engine=cuda" \in c.flags /\ ~ Range(c.files) \subseteq CsvFiles
  \/ "--format parquet" \in c.flags
       /\ \E i, j \in DOMAIN c.files : i # j /\ Stem[c.files[i]] = Stem[c.files[j]]

Begin(c) ==
  /\ main = "idle" /\ runs < MaxRuns
  /\ runs' = runs + 1
  /\ command' = c
  /\ before' = [out |-> out, days |-> days, tstore |-> tstore, csv |-> csv]
  /\ next' = 0 /\ failed' = FALSE /\ step' = 0 /\ seen' = 0
  /\ perFile' = [k \in DOMAIN c.files |-> "none"]
  /\ idx' = [t \in AllT |-> 0] /\ batch' = [t \in AllT |-> 0]

\* A contradiction, or an input the probe cannot open: no store exists yet.
Refuse(c) ==
  /\ Begin(c)
  /\ refused' = TRUE
  /\ status' = IF c.program = "mas_clean" THEN "1" ELSE "2"
  /\ UNCHANGED <<main, pc, disk>>

StartAt(T, where) == pc' = [t \in AllT |-> IF t \in T THEN where ELSE "idle"]

Run(c) ==
  /\ ~Contradicts(c) /\ Begin(c)
  /\ refused' = FALSE
  /\ status' = "none"
  /\ main' = IF c.threads = 1 THEN "solo" ELSE IF IntoDuckdb(c) THEN "preclean" ELSE "pool"
  /\ StartAt(IF main' = "preclean" THEN {} ELSE 0 .. c.threads - 1,
             IF IntoDuckdb(c) \/ "out.csv" \in c.flags THEN "open" ELSE "pull")
  /\ UNCHANGED disk

-----------------------------------------------------------------------------
(* The pool: before it opens, and after it is joined *)

Fault_NoPreclean ==
  /\ main = "preclean"
  /\ main' = "pool" /\ StartAt(Pool, "open")
  /\ UNCHANGED <<given, step, next, failed, idx, batch, seen, perFile, disk, status>>

\* A previous run's thread stores go before the pool opens its own.
Preclean ==
  /\ main = "preclean"
  /\ tstore' = [tstore EXCEPT ![step] = Absent]
  /\ IF step + 1 < threads THEN step' = step + 1 /\ UNCHANGED <<main, pc>>
                           ELSE step' = 0 /\ main' = "pool" /\ StartAt(Pool, "open")
  /\ UNCHANGED <<given, next, failed, idx, batch, seen, perFile, out, days, csv, status>>

Exit(s) == main' = "idle" /\ status' = s

Joined == main = "pool" /\ \A t \in Pool : pc[t] = "returned"

\* The threads' stores are closed by now.
Join ==
  /\ Joined
  /\ IF duckdb THEN main' = (IF failed THEN "discard" ELSE "merge") /\ UNCHANGED status
               ELSE Exit(IF failed THEN "1" ELSE "0")
  /\ UNCHANGED <<given, step, next, failed, perThread, perFile, disk>>

\* merge_all: at once into an empty output, else one source after the other.
MergeAll ==
  /\ main = "merge" /\ step = 0 /\ out = {}
  /\ out' = UNION {Held(t) : t \in Pool}
  /\ main' = "unlink"
  /\ UNCHANGED <<given, step, next, failed, perThread, perFile, tstore, days, csv, status>>

MergeOne ==
  /\ main = "merge" /\ (out # {} \/ step > 0)
  /\ out' = out \cup Held(step)
  /\ IF step + 1 < threads THEN step' = step + 1 /\ UNCHANGED main
                           ELSE step' = 0 /\ main' = "unlink"
  /\ UNCHANGED <<given, next, failed, perThread, perFile, tstore, days, csv, status>>

\* The constructor, the merge or the count throws, and the exception reaches
\* main(): the thread stores stay.
MergeThrows ==
  /\ main = "merge" \/ (main = "unlink" /\ step = 0)
  /\ Exit("1") /\ step' = 0
  /\ UNCHANGED <<given, next, failed, perThread, perFile, disk>>

Unlink ==
  /\ main \in {"discard", "unlink"}
  /\ tstore' = [tstore EXCEPT ![step] = Absent]
  /\ IF step + 1 < threads
     THEN step' = step + 1 /\ UNCHANGED <<main, status>>
     ELSE step' = 0 /\ Exit(IF main = "discard" THEN "1" ELSE "0")
  /\ UNCHANGED <<given, next, failed, perThread, perFile, out, days, csv>>

-----------------------------------------------------------------------------
(* A thread; with one thread, main() itself *)

Solo == main = "solo"

\* The CSV file is created, or cut to its header.
OpenStore(t) ==
  /\ pc[t] = "open"
  /\ tstore' = IF Solo THEN tstore ELSE [tstore EXCEPT ![t] = Held(t)]
  /\ csv' = IF intoCsv THEN {} ELSE csv
  /\ pc' = [pc EXCEPT ![t] = "pull"]
  /\ UNCHANGED <<given, main, step, next, failed, idx, batch, seen, perFile, out, days, status>>

AtEnd(t) == pc[t] = "pull" /\ next >= Len(files)

\* The constructor, a write, the publish of a Parquet file or the last count
\* throws: a thread of the pool sets failed and returns; alone, the program
\* ends.  An unfinished Parquet store publishes nothing.
Throws(t) ==
  /\ pc[t] \in {"open", "clean"} \/ (Solo /\ duckdb /\ AtEnd(t))
  /\ pc' = [pc EXCEPT ![t] = "returned"]
  /\ IF Solo THEN Exit("1") /\ UNCHANGED failed
             ELSE failed' = TRUE /\ UNCHANGED <<main, status>>
  /\ UNCHANGED <<given, step, next, idx, batch, seen, perFile, disk>>

\* next.fetch_add(1); alone, the next file.
Pull(t) ==
  /\ pc[t] = "pull" /\ next < Len(files)
  /\ next' = next + 1
  /\ idx' = [idx EXCEPT ![t] = next + 1] /\ batch' = [batch EXCEPT ![t] = 0]
  /\ pc' = [pc EXCEPT ![t] = "clean"]
  /\ UNCHANGED <<given, main, step, failed, seen, perFile, disk, status>>

\* Without a store, what it was given must be what the cleans returned.
PullsNothing(t) ==
  /\ AtEnd(t)
  /\ pc' = [pc EXCEPT ![t] = "returned"]
  /\ IF Solo THEN Exit(IF no_store /\ seen # Len(files) * NumBatches THEN "1" ELSE "0")
             ELSE UNCHANGED <<main, status>>
  /\ UNCHANGED <<given, step, next, failed, idx, batch, seen, perFile, disk>>

\* A batch at a time; the GPU path writes the events of a file at once.
WriteBatch(t) ==
  /\ pc[t] = "clean" /\ batch[t] < NumBatches
  /\ batch' = [batch EXCEPT ![t] = IF cuda THEN NumBatches ELSE @ + 1]
  /\ LET rows == {files[idx[t]]} \X (batch[t] + 1 .. batch'[t])
     IN  /\ out' = IF duckdb /\ Solo THEN out \cup rows ELSE out
         /\ tstore' = IF duckdb /\ ~Solo THEN [tstore EXCEPT ![t] = @ \cup rows] ELSE tstore
         /\ csv' = IF intoCsv THEN csv \cup rows ELSE csv
         /\ seen' = IF no_store THEN seen + Cardinality(rows) ELSE seen
  /\ UNCHANGED <<given, main, step, next, failed, pc, idx, perFile, days, status>>

\* Parquet publishes the day here, over what the name held.
FileDone(t) ==
  /\ pc[t] = "clean" /\ batch[t] = NumBatches
  /\ perFile' = [perFile EXCEPT ![idx[t]] = "done"]
  /\ days' = IF parquet
             THEN [days EXCEPT ![Stem[files[idx[t]]]] = [run |-> runs, rows |-> RowsOf({files[idx[t]]})]]
             ELSE days
  /\ pc' = [pc EXCEPT ![t] = "pull"]
  /\ UNCHANGED <<given, main, step, next, failed, idx, batch, seen, out, tstore, csv, status>>

\* mas_clean does not look at the -1 once it has a DuckDB store.
BadStatus == IF command.program = "mas_clean" /\ duckdb THEN "0" ELSE "1"

Fault_ClosesABadDay(t) ==
  /\ pc[t] = "clean" /\ batch[t] = 0
  /\ perFile' = [perFile EXCEPT ![idx[t]] = "bad"]
  /\ days' = IF parquet
             THEN [days EXCEPT ![Stem[files[idx[t]]]] = [run |-> runs, rows |-> {}]]
             ELSE days
  /\ IF Solo THEN /\ Exit(BadStatus) /\ pc' = [pc EXCEPT ![t] = "returned"] /\ UNCHANGED failed
             ELSE /\ failed' = TRUE /\ pc' = [pc EXCEPT ![t] = "pull"]
                  /\ UNCHANGED <<main, status>>
  /\ UNCHANGED <<given, step, next, idx, batch, seen, out, tstore, csv>>

\* The input has gone since it was probed, or the GPU path refuses it: a Parquet
\* store is abandoned.  The pool goes on to its other files.
CannotClean(t) ==
  /\ pc[t] = "clean" /\ batch[t] = 0
  /\ perFile' = [perFile EXCEPT ![idx[t]] = "bad"]
  /\ IF Solo THEN /\ Exit(BadStatus) /\ pc' = [pc EXCEPT ![t] = "returned"] /\ UNCHANGED failed
             ELSE /\ failed' = TRUE /\ pc' = [pc EXCEPT ![t] = "pull"]
                  /\ UNCHANGED <<main, status>>
  /\ UNCHANGED <<given, step, next, idx, batch, seen, disk>>

\* What the statements so far have committed stays.
Kill ==
  /\ main # "idle"
  /\ Exit("killed") /\ step' = 0
  /\ pc' = [t \in AllT |-> "idle"]
  /\ UNCHANGED <<given, next, failed, idx, batch, seen, perFile, disk>>

Thread(t) ==
  \/ OpenStore(t) \/ Throws(t) \/ Pull(t) \/ PullsNothing(t)
  \/ WriteBatch(t) \/ FileDone(t) \/ CannotClean(t)

Next ==
  \/ \E c \in Commands : Refuse(c) \/ Run(c)
  \/ Preclean \/ Join \/ MergeAll \/ MergeOne \/ MergeThrows \/ Unlink
  \/ \E t \in AllT : Thread(t)
  \/ Kill

Spec == Init /\ [][Next]_vars

-----------------------------------------------------------------------------
(* Properties *)

\* Exit status 0 means that every file of the command line is where it was sent:
\* the output store holds all it held and these files' rows, and not a row that
\* an earlier run, failed, killed or with more threads, left in a thread store;
\* the CSV file holds its file and nothing else; or this run has published each
\* file's day, whole, under a name of its own.  One case is excepted: mas_clean
\* into DuckDB also says 0 of an input that went away after the probe.
ZeroIsComplete ==
  LET missed == command.program = "mas_clean" /\ duckdb /\ perFile = <<"bad">>
  IN  status = "0" /\ ~missed =>
        /\ \A k \in DOMAIN files : perFile[k] = "done"
        /\ duckdb => out = before.out \cup RowsOf(Range(files))
        /\ intoCsv => csv = RowsOf(Range(files))
        /\ parquet => \A f \in Range(files) : days[Stem[f]] = [run |-> runs, rows |-> RowsOf({f})]

\* Whatever ends a run, it leaves no half-truth: a pool that fails leaves the
\* output store as it was and no store of its threads; a day that is not done
\* keeps the file it had; a run touches the outputs of its own kind only, and
\* one that is turned down touches none.
FailureIsClean ==
  /\ before.out \subseteq out /\ out \subseteq before.out \cup RowsOf(Range(files))
  /\ threads > 1 /\ failed => out = before.out
  /\ duckdb /\ failed /\ status = "1" => \A t \in Pool : tstore[t] = Absent
  /\ \A s \in Stems : days[s] # before.days[s] =>
       \E k \in DOMAIN files : perFile[k] = "done" /\ Stem[files[k]] = s
  /\ refused \/ ~duckdb => out = before.out /\ tstore = before.tstore
  /\ refused \/ ~parquet => days = before.days
  /\ refused \/ ~intoCsv => csv = before.csv
=============================================================================
