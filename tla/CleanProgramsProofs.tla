-------------------------- MODULE CleanProgramsProofs --------------------------
(***************************************************************************)
(* Proofs about CleanPrograms, for any command lines, any number of        *)
(* threads, files, batches and runs: what an exit status 0 promises, and   *)
(* what any other end of a run leaves alone.                               *)
(***************************************************************************)
EXTENDS CleanPrograms, TLAPS

AllRows == RowsOf(DOMAIN Stem)
Active  == {"open", "pull", "clean"}

\* What the assumptions say of a command line.
WellFormed(c) ==
  /\ c.files \in Seq(DOMAIN Stem)
  /\ c.threads \in 0 .. MaxThreads
  /\ c.program = "mas_clean" =>
       c.threads = 1 /\ Len(c.files) = 1 /\ c.flags \in {{}, {"--format parquet"}, {"out.csv"}}
  /\ "out.csv" \in c.flags => c.program = "mas_clean"

Typed ==
  /\ WellFormed(command)
  /\ main \in {"idle", "solo", "preclean", "pool", "discard", "merge", "unlink"}
  /\ step \in Nat /\ next \in 0 .. Len(files) /\ failed \in BOOLEAN
  /\ pc \in [AllT -> {"idle", "returned"} \cup Active]
  /\ idx \in [AllT -> Nat] /\ batch \in [AllT -> 0 .. NumBatches]
  /\ perFile \in [DOMAIN files -> {"none", "done", "bad"}]
  /\ out \in SUBSET AllRows
  /\ tstore \in [AllT -> (SUBSET AllRows) \cup {Absent}]
  /\ days \in [Stems -> [run : Nat, rows : SUBSET AllRows]]
  /\ runs \in Nat /\ refused \in BOOLEAN

\* Where main() can be with which command line, and who is at work then.
Control ==
  /\ main # "idle" => ~refused /\ status = "none" /\ ~Contradicts(command)
  /\ main = "solo" => threads = 1 /\ ~failed
  /\ main \in {"preclean", "discard", "merge", "unlink"} => duckdb
  /\ main \in {"preclean", "pool", "discard", "merge", "unlink"} => threads > 1
  /\ main \in {"preclean", "merge", "unlink"} => ~failed
  /\ main \in {"idle", "solo", "pool"} => step = 0
  /\ main \in {"preclean", "discard", "merge", "unlink"} => step < threads
  /\ main = "preclean" => next = 0
  /\ \A t \in AllT : pc[t] \in Active => main \in {"solo", "pool"} /\ t \in Pool
  /\ \A t \in AllT : pc[t] = "open" => duckdb \/ intoCsv

\* The counter hands every index out once, and alone only to an open store.
Indices ==
  /\ \A t \in AllT : pc[t] = "open" /\ main = "solo" => next = 0
  /\ \A t \in AllT : pc[t] = "clean" => idx[t] \in 1 .. next /\ perFile[idx[t]] = "none"
  /\ \A t, u \in AllT : pc[t] = "clean" /\ pc[u] = "clean" /\ idx[t] = idx[u] => t = u
  /\ \A k \in DOMAIN files : k > next => perFile[k] = "none"

\* While nothing has failed, what was handed out is done or in hand, and a
\* thread only returns when everything has been handed out.
Progress ==
  main # "idle" /\ ~failed =>
    /\ \A k \in 1 .. next :
         perFile[k] = "done" \/ \E t \in AllT : pc[t] = "clean" /\ idx[t] = k
    /\ main \in {"solo", "pool"} => \A t \in Pool : pc[t] = "returned" => next = Len(files)
    /\ main \in {"merge", "unlink"} => next = Len(files)

\* What the run may have put into the output store and the thread stores.
Confined ==
  /\ before.out \subseteq out /\ out \subseteq before.out \cup RowsOf(Range(files))
  /\ main \in {"preclean", "pool", "discard"} => out = before.out
  /\ main = "preclean" => \A t \in 0 .. step - 1 : Held(t) = {}
  /\ main \in {"pool", "merge"} /\ duckdb => \A t \in Pool : Held(t) \subseteq RowsOf(Range(files))
  /\ main = "discard" => \A t \in 0 .. step - 1 : tstore[t] = Absent

\* What the run has put there for the files that are done, or in hand.
Written(t) == {files[idx[t]]} \X (1 .. batch[t])

InDuckdb ==
  duckdb =>
    /\ main = "solo" =>
         /\ \A k \in DOMAIN files : perFile[k] = "done" => RowsOf({files[k]}) \subseteq out
         /\ \A t \in AllT : pc[t] = "clean" => Written(t) \subseteq out
    /\ main = "pool" =>
         \A t \in AllT : pc[t] \in {"pull", "clean"} => tstore[t] # Absent
    /\ main = "pool" =>
         \A t \in AllT : pc[t] = "clean" => Written(t) \subseteq Held(t)
    /\ main \in {"pool", "merge"} =>
         \A k \in DOMAIN files : perFile[k] = "done" =>
           \E t \in Pool : RowsOf({files[k]}) \subseteq Held(t)
    /\ main = "merge" => \A t \in 0 .. step - 1 : Held(t) \subseteq out
    /\ main = "unlink" => RowsOf(Range(files)) \subseteq out

InCsv ==
  intoCsv =>
    \A t \in AllT : pc[t] \in {"pull", "clean"} =>
      /\ csv \subseteq RowsOf(Range(files))
      /\ \A k \in DOMAIN files : perFile[k] = "done" => RowsOf({files[k]}) \subseteq csv
      /\ pc[t] = "clean" => Written(t) \subseteq csv

InDays ==
  parquet =>
    \A k \in DOMAIN files : perFile[k] = "done" =>
      days[Stem[files[k]]] = [run |-> runs, rows |-> RowsOf({files[k]})]

IInv == /\ Typed /\ Control /\ Indices /\ Progress /\ Confined /\ InDuckdb /\ InCsv /\ InDays
        /\ ZeroIsComplete /\ FailureIsClean

-----------------------------------------------------------------------------
(* Rows and stores *)

\* No set of rows is the mark of a store that does not exist.
LEMMA RowsAreNotAbsent == \A R \in SUBSET AllRows : R # Absent
<1>1. <<0, 0>> \notin AllRows
  BY DEF AllRows, RowsOf
<1> QED BY <1>1 DEF Absent

\* What a thread store holds.
LEMMA HeldRows ==
  ASSUME Typed, NEW t \in AllT
  PROVE  /\ Held(t) \in SUBSET AllRows
         /\ tstore[t] # Absent => Held(t) = tstore[t] /\ tstore[t] \in SUBSET AllRows
         /\ tstore[t] = Absent => Held(t) = {}
<1>1. tstore[t] \in (SUBSET AllRows) \cup {Absent}
  BY DEF Typed
<1> QED BY <1>1 DEF Held

\* The rows of a file are rows of the command line, and those of all its files
\* are all of them.
LEMMA FileRows ==
  ASSUME Typed
  PROVE  /\ files \in Seq(DOMAIN Stem) /\ DOMAIN files = 1 .. Len(files) /\ Len(files) \in Nat
         /\ RowsOf(Range(files)) \subseteq AllRows
         /\ \A k \in DOMAIN files : RowsOf({files[k]}) \subseteq RowsOf(Range(files))
         /\ \A k \in DOMAIN files, S \in SUBSET (1 .. NumBatches) :
              {files[k]} \X S \subseteq RowsOf(Range(files))
         /\ \A R : (\A k \in DOMAIN files : RowsOf({files[k]}) \subseteq R)
                   => RowsOf(Range(files)) \subseteq R
<1>1. files \in Seq(DOMAIN Stem)
  BY DEF Typed, WellFormed, files
<1>2. DOMAIN files = 1 .. Len(files) /\ Len(files) \in Nat
      /\ \A k \in DOMAIN files : files[k] \in DOMAIN Stem
  BY <1>1
<1>3. RowsOf(Range(files)) \subseteq AllRows
  BY <1>2 DEF RowsOf, Range, AllRows
<1>4. \A k \in DOMAIN files : files[k] \in Range(files)
  BY DEF Range
<1>5. \A k \in DOMAIN files : RowsOf({files[k]}) \subseteq RowsOf(Range(files))
  BY <1>4 DEF RowsOf
<1>6. \A k \in DOMAIN files, S \in SUBSET (1 .. NumBatches) :
        {files[k]} \X S \subseteq RowsOf(Range(files))
  BY <1>4 DEF RowsOf
<1>7. ASSUME NEW R, \A k \in DOMAIN files : RowsOf({files[k]}) \subseteq R
      PROVE  RowsOf(Range(files)) \subseteq R
  <2>1. ASSUME NEW f \in Range(files), NEW n \in 1 .. NumBatches PROVE <<f, n>> \in R
    <3>1. PICK k \in DOMAIN files : files[k] = f
      BY DEF Range
    <3>2. <<f, n>> \in RowsOf({files[k]})
      BY <3>1 DEF RowsOf
    <3> QED BY <1>7, <3>2
  <2> QED BY <2>1 DEF RowsOf
<1> QED BY <1>1, <1>2, <1>3, <1>5, <1>6, <1>7

\* The threads of a command line are among all threads.
LEMMA PoolThreads == Typed => Pool \subseteq AllT /\ threads \in Nat
<1>1. Typed => threads \in 0 .. MaxThreads
  BY DEF Typed, WellFormed, threads
<1> QED BY <1>1, ThreadsAssumption DEF Pool, AllT

\* A command line and what follows from it stay for the run.
LEMMA GivenKeeps ==
  ASSUME UNCHANGED given
  PROVE  /\ UNCHANGED <<command, before, refused, runs, files, threads, Pool>>
         /\ duckdb' = duckdb /\ parquet' = parquet /\ intoCsv' = intoCsv
         /\ no_store' = no_store /\ cuda' = cuda /\ Solo' = (main' = "solo")
BY DEF given, files, threads, Pool, duckdb, parquet, intoCsv, no_store, cuda, Solo

\* The assumptions on the command lines are those of the parsers.
LEMMA CommandsAreWellFormed == \A c \in Commands : WellFormed(c)
  BY CommandsAssumption, CleanAssumption, CsvAssumption DEF WellFormed

-----------------------------------------------------------------------------
\* Before the first command there is no output and no thread at work.
LEMMA InitEstablishes == Init => IInv
<1> SUFFICES ASSUME Init PROVE IInv
  OBVIOUS
<1> USE DEF Init
<1>1. /\ files = <<>> /\ threads = 1 /\ command.flags = {} /\ command.program = "mas_monolith"
      /\ ~parquet /\ ~intoCsv
  BY DEF files, threads, parquet, intoCsv
<1>2. Typed
  <2>1. WellFormed(command)
    BY <1>1, ThreadsAssumption DEF WellFormed, files, threads
  <2>2. perFile \in [DOMAIN files -> {"none", "done", "bad"}] /\ Len(files) = 0
    BY <1>1
  <2>3. days \in [Stems -> [run : Nat, rows : SUBSET AllRows]]
    BY DEF None
  <2>4. batch \in [AllT -> 0 .. NumBatches]
    BY BatchesAssumption
  <2>5. /\ step \in Nat /\ next \in 0 .. Len(files) /\ runs \in Nat
        /\ pc \in [AllT -> {"idle", "returned"} \cup Active] /\ idx \in [AllT -> Nat]
        /\ tstore \in [AllT -> (SUBSET AllRows) \cup {Absent}]
    BY <2>2
  <2>6. failed \in BOOLEAN /\ refused \in BOOLEAN
    BY Zenon
  <2> QED BY <2>1, <2>2, <2>3, <2>4, <2>5, <2>6 DEF Typed
<1>3. Control
  BY DEF Control, Active
<1>4. Indices /\ Progress
  BY <1>1 DEF Indices, Progress
<1>5. Confined
  BY DEF Confined
<1>6. InDuckdb /\ InCsv /\ InDays
  BY <1>1 DEF InDuckdb, InCsv, InDays
<1>7. ZeroIsComplete
  BY DEF ZeroIsComplete
<1>8. FailureIsClean
  BY <1>1 DEF FailureIsClean
<1> QED BY <1>2, <1>3, <1>4, <1>5, <1>6, <1>7, <1>8 DEF IInv

-----------------------------------------------------------------------------
(* A run begins *)

\* A fresh run has done nothing yet to what it found.
LEMMA BeginKeeps ==
  ASSUME IInv, NEW c \in Commands, Begin(c), UNCHANGED disk,
         main' \in {"idle", "solo", "preclean", "pool"}, refused' \in BOOLEAN,
         pc' \in [AllT -> {"idle", "returned", "open", "pull"}],
         main' # "idle" => \A t \in AllT : pc'[t] # "returned",
         duckdb' => main' # "pool", intoCsv' => \A t \in AllT : pc'[t] # "pull",
         status' # "0"
  PROVE  Typed' /\ Indices' /\ Progress' /\ Confined' /\ InDuckdb' /\ InCsv' /\ InDays'
         /\ ZeroIsComplete' /\ FailureIsClean'
<1> USE DEF IInv
<1>1. /\ command' = c /\ files' = c.files /\ threads' = c.threads
      /\ next' = 0 /\ failed' = FALSE /\ step' = 0 /\ runs' = runs + 1
      /\ perFile' = [k \in DOMAIN c.files |-> "none"]
      /\ idx' = [t \in AllT |-> 0] /\ batch' = [t \in AllT |-> 0]
      /\ before' = [out |-> out, days |-> days, tstore |-> tstore, csv |-> csv]
      /\ out' = out /\ tstore' = tstore /\ days' = days /\ csv' = csv
  BY DEF Begin, disk, files, threads
<1>2. WellFormed(c) /\ WellFormed(command')
  BY <1>1, CommandsAreWellFormed
<1>3. Len(files') \in Nat /\ DOMAIN files' = 1 .. Len(files')
  <2>1. files' \in Seq(DOMAIN Stem)
    BY <1>1, <1>2 DEF WellFormed
  <2> QED BY <2>1
<1>c. \A t \in AllT : pc'[t] # "clean"
  OBVIOUS
<1>p. Pool' \subseteq AllT
  <2>1. c.threads \in 0 .. MaxThreads
    BY <1>2 DEF WellFormed
  <2>2. Pool' = 0 .. c.threads - 1
    BY <1>1 DEF Pool
  <2> QED BY <2>1, <2>2, ThreadsAssumption DEF AllT
<1>4. \A k \in DOMAIN files' : perFile'[k] = "none"
  BY <1>1
<1>5. ~failed' /\ failed' \in BOOLEAN
  BY <1>1, Zenon
<1>6. Typed'
  <2>1. idx' \in [AllT -> Nat] /\ batch' \in [AllT -> 0 .. NumBatches]
    BY <1>1, BatchesAssumption
  <2>2. perFile' \in [DOMAIN files' -> {"none", "done", "bad"}]
    BY <1>1
  <2>3. /\ out' \in SUBSET AllRows /\ tstore' \in [AllT -> (SUBSET AllRows) \cup {Absent}]
        /\ days' \in [Stems -> [run : Nat, rows : SUBSET AllRows]] /\ runs' \in Nat
    BY <1>1 DEF Typed
  <2>4. step' \in Nat /\ next' \in 0 .. Len(files')
    BY <1>1, <1>3
  <2>5. pc' \in [AllT -> {"idle", "returned"} \cup Active]
    BY DEF Active
  <2> QED BY <1>2, <1>5, <2>1, <2>2, <2>3, <2>4, <2>5 DEF Typed
<1>7. Indices' /\ Progress'
  BY <1>1, <1>3, <1>4, <1>c, <1>p DEF Indices, Progress
<1>8. Confined'
  BY <1>1 DEF Confined
<1>9. InDuckdb' /\ InCsv' /\ InDays'
  BY <1>1, <1>4, <1>c DEF InDuckdb, InCsv, InDays
<1>10. ZeroIsComplete'
  BY DEF ZeroIsComplete
<1>11. FailureIsClean'
  BY <1>1, <1>5 DEF FailureIsClean
<1> QED BY <1>6, <1>7, <1>8, <1>9, <1>10, <1>11

\* The programs turn a contradictory command line down before they touch a store.
LEMMA RefuseKeeps == ASSUME IInv, NEW c \in Commands, Refuse(c) PROVE IInv'
<1>1. /\ Begin(c) /\ UNCHANGED disk /\ main = "idle" /\ main' = "idle" /\ pc' = pc
      /\ refused' \in BOOLEAN /\ status' # "0"
  BY Zenon DEF Refuse, Begin
<1>2. pc' \in [AllT -> {"idle", "returned", "open", "pull"}]
      /\ \A t \in AllT : pc'[t] \notin Active
  BY <1>1 DEF IInv, Control, Typed, Active
<1>3. /\ Typed' /\ Indices' /\ Progress' /\ Confined' /\ InDuckdb' /\ InCsv' /\ InDays'
      /\ ZeroIsComplete' /\ FailureIsClean'
  BY <1>1, <1>2, BeginKeeps DEF Active
<1>4. Control'
  BY <1>1, <1>2 DEF Control, Active, Begin
<1> QED BY <1>3, <1>4 DEF IInv

\* A command that is accepted starts from what earlier runs left on disk.
LEMMA RunKeeps == ASSUME IInv, NEW c \in Commands, Run(c) PROVE IInv'
<1>1. /\ Begin(c) /\ ~Contradicts(c) /\ UNCHANGED disk /\ ~refused' /\ refused' \in BOOLEAN
      /\ status' = "none" /\ command' = c /\ step' = 0 /\ next' = 0
  BY Zenon DEF Run, Begin
<1>2. WellFormed(c) /\ threads' = c.threads /\ c.threads \in 1 .. MaxThreads
      /\ duckdb' = IntoDuckdb(c) /\ intoCsv' = ("out.csv" \in c.flags)
  <2>1. WellFormed(c)
    BY CommandsAreWellFormed
  <2>2. ~(c.threads < 1)
    BY <1>1 DEF Contradicts
  <2>3. c.threads \in 0 .. MaxThreads
    BY <2>1 DEF WellFormed
  <2>4. c.threads \in 1 .. MaxThreads
    BY <2>2, <2>3, ThreadsAssumption
  <2> QED BY <1>1, <2>1, <2>4 DEF threads, duckdb, intoCsv
<1>3. main' = IF c.threads = 1 THEN "solo" ELSE IF IntoDuckdb(c) THEN "preclean" ELSE "pool"
  BY DEF Run
<1>4. pc' = [t \in AllT |->
        IF t \in (IF main' = "preclean" THEN {} ELSE 0 .. c.threads - 1)
        THEN IF IntoDuckdb(c) \/ "out.csv" \in c.flags THEN "open" ELSE "pull" ELSE "idle"]
  BY DEF Run, StartAt
<1>5. pc' \in [AllT -> {"idle", "returned", "open", "pull"}]
      /\ \A t \in AllT : pc'[t] # "returned"
  BY <1>4
<1>6. ~failed'
  BY <1>1 DEF Begin
<1>7. intoCsv' => \A t \in AllT : pc'[t] # "pull"
  BY <1>2, <1>4
<1>8. /\ Typed' /\ Indices' /\ Progress' /\ Confined' /\ InDuckdb' /\ InCsv' /\ InDays'
      /\ ZeroIsComplete' /\ FailureIsClean'
  BY <1>1, <1>2, <1>3, <1>5, <1>7, BeginKeeps
<1>9. Control'
  <2>1. \A t \in AllT : pc'[t] \in Active => main' \in {"solo", "pool"} /\ t \in Pool'
    BY <1>2, <1>3, <1>4 DEF Active, Pool
  <2>2. \A t \in AllT : pc'[t] = "open" => duckdb' \/ intoCsv'
    BY <1>2, <1>4
  <2>3. ~Contradicts(command')
    BY <1>1
  <2>4. /\ main' = "solo" => threads' = 1
        /\ main' \in {"preclean", "pool"} => threads' > 1
        /\ main' = "preclean" => duckdb'
        /\ main' \in {"solo", "preclean", "pool"}
    BY <1>2, <1>3
  <2> QED BY <1>1, <1>2, <1>6, <2>1, <2>2, <2>3, <2>4 DEF Control
<1> QED BY <1>8, <1>9 DEF IInv

-----------------------------------------------------------------------------
(* main(): the thread stores, the merge, and every way out of it *)

\* While main() is at work on the stores, no thread is.
LEMMA NoThreadAtWork ==
  ASSUME IInv, main \notin {"solo", "pool"}
  PROVE  \A t \in AllT : pc[t] \notin Active
BY DEF IInv, Control

\* The pre-clean empties the thread stores this run will fill.
LEMMA PrecleanKeeps == ASSUME IInv, Preclean PROVE IInv'
<1> USE DEF IInv
<1>1. /\ main = "preclean" /\ UNCHANGED given /\ tstore' = [tstore EXCEPT ![step] = Absent]
      /\ UNCHANGED <<next, failed, idx, batch, seen, perFile, out, days, csv, status>>
  BY DEF Preclean
<1>2. /\ ~refused /\ status = "none" /\ duckdb /\ threads > 1 /\ ~failed /\ next = 0
      /\ step \in Nat /\ step < threads /\ threads \in Nat /\ Pool \subseteq AllT
      /\ ~Contradicts(command) /\ out = before.out
  BY <1>1, PoolThreads DEF Control, Typed, Confined
<1>3. UNCHANGED <<command, before, refused, runs, files, threads, Pool>>
      /\ duckdb' = duckdb /\ parquet' = parquet /\ intoCsv' = intoCsv
  BY <1>1, GivenKeeps
<1>4. step \in Pool
  BY <1>2 DEF Pool
<1>5. \/ step' = step + 1 /\ step' < threads /\ main' = main /\ pc' = pc
      \/ /\ step + 1 = threads /\ step' = 0 /\ main' = "pool"
         /\ pc' = [t \in AllT |-> IF t \in Pool THEN "open" ELSE "idle"]
  BY <1>2 DEF Preclean, StartAt
<1>6. \A t \in AllT : pc[t] \notin Active
  BY <1>1, NoThreadAtWork
<1>7. \A t \in AllT : pc'[t] \notin {"pull", "clean"}
  BY <1>5, <1>6 DEF Active
<1>8. \A k \in DOMAIN files : perFile[k] = "none"
  <2>1. DOMAIN files = 1 .. Len(files) /\ Len(files) \in Nat
    BY FileRows
  <2> QED BY <1>2, <2>1 DEF Indices
<1>9. tstore' \in [AllT -> (SUBSET AllRows) \cup {Absent}]
  BY <1>1 DEF Typed
<1>10. \A t \in AllT : Held(t)' = IF t = step THEN {} ELSE Held(t)
  BY <1>1, <1>2, <1>4 DEF Typed, Held
<1>11. Typed'
  <2>1. pc' \in [AllT -> {"idle", "returned"} \cup Active]
    BY <1>5 DEF Typed, Active
  <2>2. step' \in Nat
    BY <1>2, <1>5
  <2> QED BY <1>1, <1>3, <1>5, <1>9, <2>1, <2>2 DEF Typed
<1>12. Control'
  <2>1. \A t \in AllT : pc'[t] \in Active => main' = "pool" /\ t \in Pool
    BY <1>5, <1>6 DEF Active
  <2>2. \A t \in AllT : pc'[t] = "open" => duckdb
    BY <1>2
  <2>3. main' \in {"preclean", "pool"} /\ (main' = "pool" => step' = 0)
        /\ (main' = "preclean" => step' < threads)
    BY <1>1, <1>5
  <2> QED BY <1>1, <1>2, <1>3, <2>1, <2>2, <2>3 DEF Control
<1>13. Indices'
  BY <1>1, <1>3, <1>5, <1>7 DEF Indices
<1>14. Progress'
  <2>1. main' = "pool" => \A t \in Pool : pc'[t] # "returned"
    BY <1>1, <1>2, <1>5
  <2>2. main' \in {"preclean", "pool"}
    BY <1>1, <1>5
  <2> QED BY <1>1, <1>2, <1>3, <2>1, <2>2 DEF Progress
<1>15. Confined'
  <2>1. \A t \in 0 .. step : Held(t)' = {}
    <3>1. \A t \in 0 .. step : t \in AllT
      BY <1>2 DEF Pool
    <3> QED BY <1>1, <1>2, <1>10, <3>1 DEF Confined
  <2>2. CASE main' = "preclean"
    BY <1>1, <1>2, <1>3, <1>5, <2>1, <2>2 DEF Confined, Held
  <2>3. CASE main' = "pool"
    <3>1. \A t \in Pool : Held(t)' = {}
      BY <1>1, <1>2, <1>5, <2>1, <2>3 DEF Pool
    <3> QED BY <1>1, <1>2, <1>3, <2>3, <3>1 DEF Confined, Held
  <2> QED BY <1>1, <1>5, <2>2, <2>3
<1>16. InDuckdb' /\ InCsv' /\ InDays'
  <2>1. main' \in {"preclean", "pool"}
    BY <1>1, <1>5
  <2>2. \A k \in DOMAIN files' : perFile'[k] # "done"
    BY <1>1, <1>3, <1>8
  <2> QED BY <1>7, <2>1, <2>2 DEF InDuckdb, InCsv, InDays
<1>17. ZeroIsComplete'
  BY <1>1, <1>2 DEF ZeroIsComplete
<1>18. FailureIsClean'
  BY <1>1, <1>2, <1>3 DEF FailureIsClean
<1> QED BY <1>11, <1>12, <1>13, <1>14, <1>15, <1>16, <1>17, <1>18

\* What is sent into a DuckDB store goes nowhere else, and a pool writes no CSV.
LEMMA OneOutput ==
  ASSUME IInv
  PROVE  /\ duckdb => ~parquet /\ ~intoCsv
         /\ threads > 1 => ~intoCsv
         /\ main = "pool" => duckdb \/ parquet
<1>1. duckdb => ~parquet /\ ~intoCsv
  BY DEF duckdb, parquet, intoCsv, IntoDuckdb
<1>2. intoCsv => threads = 1
  BY DEF IInv, Typed, WellFormed, intoCsv, threads
<1>3. main = "pool" => duckdb \/ parquet
  <2>1. main = "pool" => ~Contradicts(command) /\ threads > 1 /\ threads \in Nat
    BY PoolThreads DEF IInv, Control
  <2>2. main = "pool" => ~no_store
    BY <2>1 DEF Contradicts, threads, no_store
  <2>3. main = "pool" => ~intoCsv
    BY <2>1, <1>2
  <2> QED BY <2>2, <2>3 DEF duckdb, parquet, intoCsv, no_store, IntoDuckdb
<1>4. threads \in Nat
  BY PoolThreads DEF IInv
<1> QED BY <1>1, <1>2, <1>3, <1>4

\* When every index has been handed out and nobody holds one, all is done.
LEMMA AllDone ==
  ASSUME IInv, main # "idle", ~failed, next = Len(files), \A t \in AllT : pc[t] # "clean"
  PROVE  \A k \in DOMAIN files : perFile[k] = "done"
<1>1. DOMAIN files = 1 .. Len(files)
  BY FileRows DEF IInv
<1> QED BY <1>1 DEF IInv, Progress

\* A run that ends and leaves the disk, and what is done, as they are.
LEMMA ExitKeeps ==
  ASSUME IInv, main # "idle", main' = "idle", step' = 0,
         UNCHANGED <<given, next, failed, idx, batch, disk>>,
         perFile' \in [DOMAIN files -> {"none", "done", "bad"}],
         \A k \in DOMAIN files : (perFile'[k] = "done") <=> (perFile[k] = "done"),
         \A k \in DOMAIN files : k > next => perFile'[k] = "none",
         pc' \in [AllT -> {"idle", "returned"}],
         status' = "1" => ~(failed /\ duckdb),
         ZeroIsComplete'
  PROVE  IInv'
<1> USE DEF IInv
<1>1. UNCHANGED <<command, before, refused, runs, files, threads, Pool>>
      /\ duckdb' = duckdb /\ parquet' = parquet /\ intoCsv' = intoCsv
  BY GivenKeeps
<1>2. UNCHANGED <<out, tstore, days, csv>>
  BY DEF disk
<1>3. \A t \in AllT : pc'[t] \notin Active
  BY DEF Active
<1>4. Typed'
  <2>1. pc' \in [AllT -> {"idle", "returned"} \cup Active]
    OBVIOUS
  <2> QED BY <1>1, <1>2, <2>1 DEF Typed
<1>5. Control'
  BY <1>3 DEF Control, Active
<1>6. Indices'
  BY <1>1, <1>3 DEF Indices, Active
<1>7. Progress' /\ Confined'
  BY <1>1, <1>2 DEF Progress, Confined
<1>8. InDuckdb' /\ InCsv'
  BY <1>1, <1>3 DEF InDuckdb, InCsv, Active
<1>9. InDays'
  BY <1>1, <1>2 DEF InDays
<1>10. FailureIsClean'
  <2>1. \A t \in Stems : days'[t] # before.days[t] =>
          \E k \in DOMAIN files : perFile'[k] = "done" /\ Stem[files[k]] = t
    BY <1>2 DEF FailureIsClean
  <2>2. duckdb /\ failed => status' # "1"
    OBVIOUS
  <2> QED BY <1>1, <1>2, <2>1, <2>2 DEF FailureIsClean
<1> QED BY <1>4, <1>5, <1>6, <1>7, <1>8, <1>9, <1>10

\* Files that have not been handed out stay so.
LEMMA PerFileStays ==
  ASSUME IInv, UNCHANGED perFile
  PROVE  /\ perFile' \in [DOMAIN files -> {"none", "done", "bad"}]
         /\ \A k \in DOMAIN files : (perFile'[k] = "done") <=> (perFile[k] = "done")
         /\ \A k \in DOMAIN files : k > next => perFile'[k] = "none"
BY DEF IInv, Typed, Indices

\* A kill may fall anywhere: no exit status claims anything.
LEMMA KillKeeps == ASSUME IInv, Kill PROVE IInv'
<1>1. /\ main # "idle" /\ main' = "idle" /\ step' = 0 /\ status' = "killed"
      /\ UNCHANGED <<given, next, failed, idx, batch, perFile, disk>>
      /\ pc' \in [AllT -> {"idle", "returned"}]
  BY DEF Kill, Exit
<1>2. ZeroIsComplete'
  BY <1>1 DEF ZeroIsComplete
<1> QED BY <1>1, <1>2, PerFileStays, ExitKeeps

\* A merge that throws leaves the sources where they are, and exits 1.
LEMMA MergeThrowsKeeps == ASSUME IInv, MergeThrows PROVE IInv'
<1>1. /\ main \in {"merge", "unlink"} /\ main' = "idle" /\ step' = 0 /\ status' = "1"
      /\ UNCHANGED <<given, next, failed, idx, batch, pc, perFile, disk>>
  BY DEF MergeThrows, Exit, perThread
<1>2. ~failed /\ pc' \in [AllT -> {"idle", "returned"}]
  BY <1>1, NoThreadAtWork DEF IInv, Control, Typed, Active
<1>3. ZeroIsComplete'
  BY <1>1 DEF ZeroIsComplete
<1> QED BY <1>1, <1>2, <1>3, PerFileStays, ExitKeeps

\* After the join every index has been pulled, or a thread has failed.
LEMMA JoinKeeps == ASSUME IInv, Join PROVE IInv'
<1> USE DEF IInv
<1>1. /\ main = "pool" /\ (\A t \in Pool : pc[t] = "returned")
      /\ UNCHANGED <<given, step, next, failed, pc, idx, batch, seen, perFile, disk>>
      /\ UNCHANGED <<out, tstore, days, csv>>
  BY DEF Join, Joined, perThread, disk
<1>2. /\ ~refused /\ status = "none" /\ threads > 1 /\ threads \in Nat /\ step = 0
      /\ ~Contradicts(command) /\ out = before.out /\ ~intoCsv
  BY <1>1, PoolThreads, OneOutput DEF Control, Confined
<1>3. UNCHANGED <<command, before, refused, runs, files, threads, Pool>>
      /\ duckdb' = duckdb /\ parquet' = parquet /\ intoCsv' = intoCsv
  BY <1>1, GivenKeeps
<1>4. \A t \in AllT : pc[t] \notin Active
  BY <1>1 DEF Control, Active
<1>5. pc' \in [AllT -> {"idle", "returned"}]
  BY <1>1, <1>4 DEF Typed
<1>6. ~failed => next = Len(files)
  <2>1. 0 \in Pool
    BY <1>2 DEF Pool
  <2> QED BY <1>1, <2>1 DEF Progress
<1>7. CASE ~duckdb
  <2>1. main' = "idle" /\ status' = IF failed THEN "1" ELSE "0"
    BY <1>7 DEF Join, Exit
  <2>2. ZeroIsComplete'
    <3>1. SUFFICES ASSUME ~failed PROVE ZeroIsComplete'
      BY <2>1 DEF ZeroIsComplete
    <3>2. \A k \in DOMAIN files : perFile[k] = "done"
      BY <1>1, <1>4, <1>6, <3>1, AllDone DEF Active
    <3>3. parquet => \A f \in Range(files) : days[Stem[f]] = [run |-> runs, rows |-> RowsOf({f})]
      BY <3>2 DEF InDays, Range
    <3> QED BY <1>1, <1>2, <1>3, <1>7, <3>2, <3>3 DEF ZeroIsComplete
  <2> QED BY <1>1, <1>2, <1>5, <1>7, <2>1, <2>2, PerFileStays, ExitKeeps
<1>8. CASE duckdb
  <2>1. main' = (IF failed THEN "discard" ELSE "merge") /\ status' = status
    BY <1>8 DEF Join
  <2>2. Typed'
    BY <1>1, <1>3, <2>1 DEF Typed
  <2>3. Control'
    BY <1>1, <1>2, <1>3, <1>4, <1>8, <2>1 DEF Control
  <2>4. Indices'
    BY <1>1, <1>3, <2>1 DEF Indices
  <2>5. Progress'
    BY <1>1, <1>3, <1>6, <2>1 DEF Progress
  <2>6. Confined'
    <3>1. \A t \in Pool : Held(t)' = Held(t)
      BY <1>1 DEF Held
    <3> QED BY <1>1, <1>2, <1>3, <1>8, <2>1, <3>1 DEF Confined
  <2>7. InDuckdb'
    <3>1. \A k \in DOMAIN files : perFile[k] = "done" =>
            \E t \in Pool : RowsOf({files[k]}) \subseteq Held(t)
      BY <1>1, <1>8 DEF InDuckdb
    <3>2. \A t \in Pool : Held(t)' = Held(t)
      BY <1>1 DEF Held
    <3>3. \A t \in 0 .. step' - 1 : FALSE
      BY <1>1, <1>2
    <3>4. \A k \in DOMAIN files' : perFile'[k] = "done" =>
            \E t \in Pool' : RowsOf({files'[k]}) \subseteq Held(t)'
      BY <1>1, <1>3, <3>1, <3>2
    <3>5. main' \in {"discard", "merge"}
      BY <2>1
    <3> QED BY <3>3, <3>4, <3>5 DEF InDuckdb
  <2>8. InCsv' /\ InDays'
    BY <1>1, <1>2, <1>3 DEF InCsv, InDays
  <2>9. ZeroIsComplete'
    BY <1>2, <2>1 DEF ZeroIsComplete
  <2>10. FailureIsClean'
    BY <1>1, <1>2, <1>3, <2>1 DEF FailureIsClean
  <2> QED BY <2>2, <2>3, <2>4, <2>5, <2>6, <2>7, <2>8, <2>9, <2>10
<1> QED BY <1>7, <1>8

\* While the pool's stores are merged, each file is whole in one of them.
LEMMA MergedIsAll ==
  ASSUME IInv, main = "merge", NEW R, \A t \in Pool : Held(t) \subseteq R
  PROVE  RowsOf(Range(files)) \subseteq R
<1> USE DEF IInv
<1>1. duckdb /\ ~failed /\ next = Len(files)
  BY DEF Control, Progress
<1>2. \A t \in AllT : pc[t] # "clean"
  BY NoThreadAtWork DEF Active
<1>3. \A k \in DOMAIN files : perFile[k] = "done"
  BY <1>1, <1>2, AllDone
<1>4. \A k \in DOMAIN files : \E t \in Pool : RowsOf({files[k]}) \subseteq Held(t)
  BY <1>1, <1>3 DEF InDuckdb
<1>5. \A k \in DOMAIN files : RowsOf({files[k]}) \subseteq R
  BY <1>4
<1> QED BY <1>5, FileRows

\* A step of the merge: the output grows by rows of the files, and when it is the
\* last one every store of the pool is in it.
LEMMA MergeStep ==
  ASSUME IInv, main = "merge",
         UNCHANGED <<given, next, failed, pc, idx, batch, perFile, tstore, days, csv, status>>,
         out \subseteq out', out' \subseteq out \cup RowsOf(Range(files)),
         \/ main' = "merge" /\ step' \in Nat /\ step' < threads
              /\ \A t \in 0 .. step' - 1 : Held(t) \subseteq out'
         \/ main' = "unlink" /\ step' = 0 /\ \A t \in Pool : Held(t) \subseteq out'
  PROVE  IInv'
<1> USE DEF IInv
<1>2. /\ ~refused /\ status = "none" /\ duckdb /\ threads > 1 /\ threads \in Nat /\ ~failed
      /\ ~Contradicts(command) /\ ~intoCsv /\ ~parquet /\ next = Len(files)
  BY PoolThreads, OneOutput DEF Control, Progress
<1>3. UNCHANGED <<command, before, refused, runs, files, threads, Pool>>
      /\ duckdb' = duckdb /\ parquet' = parquet /\ intoCsv' = intoCsv
  BY GivenKeeps
<1>4. \A t \in AllT : pc[t] \notin Active
  BY NoThreadAtWork
<1>5. step' \in Nat /\ step' < threads /\ main' \in {"merge", "unlink"}
  BY <1>2
<1>6. out' \in SUBSET AllRows
  BY FileRows DEF Typed
<1>7. Typed'
  BY <1>3, <1>5, <1>6 DEF Typed
<1>8. Control'
  BY <1>2, <1>3, <1>4, <1>5 DEF Control
<1>9. Indices'
  BY <1>3 DEF Indices
<1>10. Progress'
  BY <1>2, <1>3, <1>5 DEF Progress
<1>h. \A t : Held(t)' = Held(t)
  BY DEF Held
<1>11. Confined'
  <2>1. before.out \subseteq out' /\ out' \subseteq before.out \cup RowsOf(Range(files))
    BY DEF Confined
  <2>2. \A t \in Pool : Held(t) \subseteq RowsOf(Range(files))
    BY <1>2 DEF Confined
  <2>3. \A t \in Pool' : Held(t)' \subseteq RowsOf(Range(files))
    BY <1>3, <1>h, <2>2
  <2> QED BY <1>3, <1>5, <2>1, <2>3 DEF Confined
<1>12. InDuckdb'
  <2>1. \A k \in DOMAIN files' : perFile'[k] = "done" =>
          \E t \in Pool' : RowsOf({files'[k]}) \subseteq Held(t)'
    BY <1>2, <1>3, <1>h DEF InDuckdb
  <2>2. main' = "unlink" => RowsOf(Range(files')) \subseteq out'
    BY <1>3, MergedIsAll
  <2>3. main' = "merge" => \A t \in 0 .. step' - 1 : Held(t)' \subseteq out'
    BY <1>h
  <2> QED BY <1>5, <2>1, <2>2, <2>3 DEF InDuckdb
<1>13. InCsv' /\ InDays'
  BY <1>2, <1>3 DEF InCsv, InDays
<1>14. ZeroIsComplete'
  BY <1>2 DEF ZeroIsComplete
<1>15. FailureIsClean'
  <2>1. \A t \in Stems : days'[t] # before.days[t] =>
          \E k \in DOMAIN files : perFile[k] = "done" /\ Stem[files[k]] = t
    BY DEF FailureIsClean
  <2>2. before.out \subseteq out' /\ out' \subseteq before.out \cup RowsOf(Range(files))
    BY DEF Confined
  <2>3. days = before.days /\ csv = before.csv
    BY <1>2 DEF FailureIsClean
  <2> QED BY <1>2, <1>3, <2>1, <2>2, <2>3 DEF FailureIsClean
<1> QED BY <1>7, <1>8, <1>9, <1>10, <1>11, <1>12, <1>13, <1>14, <1>15

\* The one statement over all sources brings what every thread has written.
LEMMA MergeAllKeeps == ASSUME IInv, MergeAll PROVE IInv'
<1>1. /\ main = "merge" /\ out = {} /\ out' = UNION {Held(t) : t \in Pool}
      /\ main' = "unlink" /\ step' = 0
      /\ UNCHANGED <<given, next, failed, pc, idx, batch, perFile, tstore, days, csv, status>>
  BY DEF MergeAll, perThread
<1>2. \A t \in Pool : Held(t) \subseteq RowsOf(Range(files))
  BY <1>1 DEF IInv, Confined, Control
<1>3. \A t \in Pool : Held(t) \subseteq out'
  BY <1>1
<1>4. out \subseteq out' /\ out' \subseteq out \cup RowsOf(Range(files))
  BY <1>1, <1>2
<1> QED BY <1>1, <1>3, <1>4, MergeStep

\* So does the loop, source by source, when it is through.
LEMMA MergeOneKeeps == ASSUME IInv, MergeOne PROVE IInv'
<1>1. /\ main = "merge" /\ out' = out \cup Held(step)
      /\ UNCHANGED <<given, next, failed, pc, idx, batch, perFile, tstore, days, csv, status>>
  BY DEF MergeOne, perThread
<1>2. /\ step \in Nat /\ step < threads /\ threads \in Nat /\ duckdb
      /\ \A t \in 0 .. step - 1 : Held(t) \subseteq out
  BY <1>1, PoolThreads DEF IInv, Typed, Control, InDuckdb
<1>3. Held(step) \subseteq RowsOf(Range(files))
  BY <1>1, <1>2 DEF IInv, Confined, Pool
<1>4. \A t \in 0 .. step : Held(t) \subseteq out'
  BY <1>1, <1>2
<1>5. out \subseteq out' /\ out' \subseteq out \cup RowsOf(Range(files))
  BY <1>1, <1>3
<1>6. CASE step + 1 < threads
  <2>1. main' = "merge" /\ step' = step + 1
    BY <1>1, <1>6 DEF MergeOne
  <2>2. \A t \in 0 .. step' - 1 : Held(t) \subseteq out'
    BY <1>2, <1>4, <2>1
  <2>3. step' \in Nat /\ step' < threads
    BY <1>2, <1>6, <2>1
  <2> QED BY <1>1, <1>5, <2>1, <2>2, <2>3, MergeStep
<1>7. CASE ~(step + 1 < threads)
  <2>1. main' = "unlink" /\ step' = 0
    BY <1>7 DEF MergeOne
  <2>2. \A t \in Pool : Held(t) \subseteq out'
    BY <1>2, <1>4, <1>7 DEF Pool
  <2> QED BY <1>1, <1>5, <2>1, <2>2, MergeStep
<1> QED BY <1>6, <1>7

\* A thread store is removed once its rows are in the output.
LEMMA UnlinkKeeps == ASSUME IInv, Unlink PROVE IInv'
<1> USE DEF IInv
<1>1. /\ main \in {"discard", "unlink"} /\ UNCHANGED given
      /\ tstore' = [tstore EXCEPT ![step] = Absent]
      /\ UNCHANGED <<next, failed, pc, idx, batch, seen, perFile, out, days, csv>>
  BY DEF Unlink, perThread
<1>2. /\ ~refused /\ status = "none" /\ duckdb /\ threads > 1 /\ threads \in Nat
      /\ step \in Nat /\ step < threads /\ Pool \subseteq AllT
      /\ ~Contradicts(command) /\ ~intoCsv /\ ~parquet
      /\ (main = "unlink" => ~failed /\ next = Len(files))
      /\ (main = "discard" => out = before.out)
  BY <1>1, PoolThreads, OneOutput DEF Control, Typed, Progress, Confined
<1>3. UNCHANGED <<command, before, refused, runs, files, threads, Pool>>
      /\ duckdb' = duckdb /\ parquet' = parquet /\ intoCsv' = intoCsv
  BY <1>1, GivenKeeps
<1>4. \A t \in AllT : pc[t] \notin Active
  BY <1>1, NoThreadAtWork
<1>5. \/ step + 1 < threads /\ step' = step + 1 /\ main' = main /\ status' = status
      \/ /\ step + 1 = threads /\ step' = 0 /\ main' = "idle"
         /\ status' = IF main = "discard" THEN "1" ELSE "0"
  BY <1>2 DEF Unlink, Exit
<1>6. step \in AllT /\ tstore'[step] = Absent /\ \A t \in AllT : t # step => tstore'[t] = tstore[t]
  BY <1>1, <1>2 DEF Typed, Pool
<1>7. main = "discard" => \A t \in 0 .. step : tstore'[t] = Absent
  <2>1. \A t \in 0 .. step : t \in AllT
    BY <1>2 DEF Pool
  <2> QED BY <1>2, <1>6, <2>1 DEF Confined
<1>8. Typed'
  <2>1. tstore' \in [AllT -> (SUBSET AllRows) \cup {Absent}]
    BY <1>1 DEF Typed
  <2>2. step' \in Nat /\ main' \in {"discard", "unlink", "idle"}
    BY <1>1, <1>2, <1>5
  <2> QED BY <1>1, <1>3, <2>1, <2>2 DEF Typed
<1>9. Control'
  BY <1>1, <1>2, <1>3, <1>4, <1>5 DEF Control
<1>10. Indices'
  BY <1>1, <1>3, <1>5 DEF Indices
<1>11. Progress'
  BY <1>1, <1>2, <1>3, <1>5 DEF Progress
<1>12. Confined'
  <2>1. main' = "discard" => \A t \in 0 .. step' - 1 : tstore'[t] = Absent
    BY <1>1, <1>2, <1>5, <1>7
  <2>2. main' \in {"discard", "unlink", "idle"} /\ (main' = "discard" => out' = before.out)
    BY <1>1, <1>2, <1>5
  <2> QED BY <1>1, <1>3, <2>1, <2>2 DEF Confined
<1>13. InDuckdb' /\ InCsv' /\ InDays'
  <2>1. main' \in {"discard", "unlink", "idle"} /\ (main' = "unlink" => main = "unlink")
    BY <1>1, <1>5
  <2>2. main = "unlink" => RowsOf(Range(files)) \subseteq out
    BY <1>2 DEF InDuckdb
  <2> QED BY <1>1, <1>2, <1>3, <2>1, <2>2 DEF InDuckdb, InCsv, InDays
<1>14. ZeroIsComplete'
  <2>1. SUFFICES ASSUME status' = "0" PROVE ZeroIsComplete'
    BY DEF ZeroIsComplete
  <2>2. main = "unlink"
    BY <1>1, <1>2, <1>5, <2>1
  <2>3. \A k \in DOMAIN files : perFile[k] = "done"
    BY <1>2, <1>4, <2>2, AllDone DEF Active
  <2>4. out = before.out \cup RowsOf(Range(files))
    BY <1>2, <2>2 DEF InDuckdb, Confined
  <2> QED BY <1>1, <1>2, <1>3, <2>3, <2>4 DEF ZeroIsComplete
<1>15. FailureIsClean'
  <2>1. status' = "1" => \A t \in Pool : tstore'[t] = Absent
    <3>1. status' = "1" => main = "discard" /\ step + 1 = threads
      BY <1>1, <1>2, <1>5
    <3> QED BY <1>2, <1>7, <3>1 DEF Pool
  <2>2. /\ before.out \subseteq out /\ out \subseteq before.out \cup RowsOf(Range(files))
        /\ days = before.days /\ csv = before.csv
    BY <1>2 DEF FailureIsClean
  <2>3. failed => out = before.out
    BY <1>1, <1>2
  <2> QED BY <1>1, <1>2, <1>3, <2>1, <2>2, <2>3 DEF FailureIsClean
<1> QED BY <1>8, <1>9, <1>10, <1>11, <1>12, <1>13, <1>14, <1>15

-----------------------------------------------------------------------------
(* A thread, or main() alone *)

\* What is the case when a thread is at work.
LEMMA AtWork ==
  ASSUME IInv, NEW t \in AllT, pc[t] \in Active
  PROVE  /\ main \in {"solo", "pool"} /\ t \in Pool /\ step = 0 /\ threads \in Nat
         /\ ~refused /\ status = "none" /\ ~Contradicts(command)
         /\ main = "solo" => threads = 1 /\ ~failed /\ \A u \in AllT : pc[u] \in Active => u = t
         /\ main = "pool" => threads > 1 /\ ~intoCsv /\ out = before.out /\ (duckdb \/ parquet)
         /\ duckdb => ~parquet /\ ~intoCsv
<1>1. main \in {"solo", "pool"} /\ t \in Pool
  BY DEF IInv, Control
<1>2. threads \in Nat
  BY PoolThreads DEF IInv
<1>3. main = "solo" => threads = 1 /\ ~failed /\ \A u \in AllT : pc[u] \in Active => u = t
  <2>1. main = "solo" => threads = 1 /\ ~failed
    BY DEF IInv, Control
  <2>2. \A u \in AllT : pc[u] \in Active => u \in Pool
    BY DEF IInv, Control
  <2> QED BY <1>1, <2>1, <2>2 DEF Pool
<1>4. step = 0 /\ ~refused /\ status = "none" /\ ~Contradicts(command)
      /\ (main = "pool" => threads > 1 /\ out = before.out)
  BY <1>1 DEF IInv, Control, Confined
<1> QED BY <1>1, <1>2, <1>3, <1>4, OneOutput

\* A thread that goes on, or returns to the pool, leaves main() where it is.
LEMMA ThreadStep ==
  ASSUME IInv, NEW t \in AllT, pc[t] \in Active,
         UNCHANGED <<given, main, step, status>>,
         NEW where \in {"pull", "clean", "returned"}, pc' = [pc EXCEPT ![t] = where],
         failed' \in BOOLEAN, main = "solo" => ~failed'
  PROVE  /\ Control' /\ ZeroIsComplete'
         /\ pc' \in [AllT -> {"idle", "returned"} \cup Active] /\ pc'[t] = where
         /\ \A u \in AllT : u # t => pc'[u] = pc[u]
<1>1. UNCHANGED <<command, before, refused, runs, files, threads, Pool>>
      /\ duckdb' = duckdb /\ parquet' = parquet /\ intoCsv' = intoCsv
  BY GivenKeeps
<1>2. pc' \in [AllT -> {"idle", "returned"} \cup Active] /\ pc'[t] = where
      /\ \A u \in AllT : u # t => pc'[u] = pc[u]
  BY DEF IInv, Typed, Active
<1>3. main \in {"solo", "pool"} /\ status = "none" /\ t \in Pool
  BY AtWork
<1>4. \A u \in AllT : pc'[u] \in Active => main' \in {"solo", "pool"} /\ u \in Pool'
  BY <1>1, <1>2, <1>3 DEF IInv, Control
<1>5. \A u \in AllT : pc'[u] = "open" => duckdb' \/ intoCsv'
  BY <1>1, <1>2 DEF IInv, Control
<1>6. Control'
  BY <1>1, <1>3, <1>4, <1>5 DEF IInv, Control
<1>7. ZeroIsComplete'
  BY <1>3 DEF ZeroIsComplete
<1> QED BY <1>2, <1>6, <1>7

\* A thread that throws fails the run; in Solo, main itself.
LEMMA ThrowsKeeps == ASSUME IInv, NEW t \in AllT, Throws(t) PROVE IInv'
<1> USE DEF IInv
<1>1. /\ pc[t] \in Active /\ pc' = [pc EXCEPT ![t] = "returned"]
      /\ UNCHANGED <<given, step, next, idx, batch, seen, perFile, disk>>
      /\ UNCHANGED <<out, tstore, days, csv>>
  BY DEF Throws, AtEnd, Active, disk
<1>2. /\ main \in {"solo", "pool"} /\ t \in Pool /\ step = 0 /\ status = "none"
      /\ (main = "solo" => ~failed /\ \A u \in AllT : pc[u] \in Active => u = t)
      /\ (main = "pool" => ~intoCsv /\ out = before.out)
  BY <1>1, AtWork
<1>3. UNCHANGED <<command, before, refused, runs, files, threads, Pool>>
      /\ duckdb' = duckdb /\ parquet' = parquet /\ intoCsv' = intoCsv
  BY <1>1, GivenKeeps
<1>4. CASE main = "solo"
  <2>1. main' = "idle" /\ status' = "1" /\ failed' = failed
    BY <1>4 DEF Throws, Solo, Exit
  <2>2. pc' \in [AllT -> {"idle", "returned"}]
    BY <1>1, <1>2, <1>4 DEF Typed, Active
  <2>3. ZeroIsComplete'
    BY <2>1 DEF ZeroIsComplete
  <2> QED BY <1>1, <1>2, <1>4, <2>1, <2>2, <2>3, PerFileStays, ExitKeeps
<1>5. CASE main = "pool"
  <2>1. failed' /\ UNCHANGED <<main, status>>
    BY <1>5 DEF Throws, Solo
  <2>2. failed' \in BOOLEAN
    BY <1>5, Zenon DEF Throws, Solo
  <2>3. /\ Control' /\ ZeroIsComplete'
        /\ pc' \in [AllT -> {"idle", "returned"} \cup Active] /\ pc'[t] = "returned"
        /\ \A u \in AllT : u # t => pc'[u] = pc[u]
    BY <1>1, <1>5, <2>1, <2>2, ThreadStep
  <2>4. Typed'
    BY <1>1, <1>3, <2>1, <2>2, <2>3 DEF Typed
  <2>5. Indices'
    BY <1>1, <1>3, <2>1, <2>3 DEF Indices
  <2>6. Progress'
    BY <2>1 DEF Progress
  <2>7. Confined'
    <3>1. \A u : Held(u)' = Held(u)
      BY <1>1 DEF Held
    <3> QED BY <1>1, <1>3, <2>1, <3>1 DEF Confined
  <2>8. InDuckdb'
    <3>1. \A u : Held(u)' = Held(u) /\ Written(u)' = Written(u)
      BY <1>1, <1>3 DEF Held, Written
    <3> QED BY <1>1, <1>3, <1>5, <2>1, <2>3, <3>1 DEF InDuckdb
  <2>9. InCsv' /\ InDays'
    BY <1>1, <1>2, <1>3, <1>5 DEF InCsv, InDays
  <2>10. FailureIsClean'
    BY <1>1, <1>2, <1>3, <1>5, <2>1 DEF FailureIsClean
  <2> QED BY <2>3, <2>4, <2>5, <2>6, <2>7, <2>8, <2>9, <2>10
<1> QED BY <1>2, <1>4, <1>5

\* A store is opened before its thread has pulled an index; a CSV starts empty.
LEMMA OpenStoreKeeps == ASSUME IInv, NEW t \in AllT, OpenStore(t) PROVE IInv'
<1> USE DEF IInv
<1>1. /\ pc[t] = "open" /\ pc[t] \in Active /\ pc' = [pc EXCEPT ![t] = "pull"]
      /\ tstore' = IF main = "solo" THEN tstore ELSE [tstore EXCEPT ![t] = Held(t)]
      /\ csv' = IF intoCsv THEN {} ELSE csv
      /\ UNCHANGED <<given, main, step, next, failed, idx, batch, seen, perFile, out, days, status>>
  BY DEF OpenStore, Solo, Active
<1>2. /\ main \in {"solo", "pool"} /\ t \in Pool /\ ~refused /\ status = "none"
      /\ (main = "solo" => threads = 1 /\ ~failed /\ \A u \in AllT : pc[u] \in Active => u = t)
      /\ (main = "pool" => ~intoCsv /\ out = before.out) /\ (duckdb => ~intoCsv)
      /\ (main = "pool" => duckdb)
  BY <1>1, AtWork DEF Control
<1>3. UNCHANGED <<command, before, refused, runs, files, threads, Pool>>
      /\ duckdb' = duckdb /\ parquet' = parquet /\ intoCsv' = intoCsv
  BY <1>1, GivenKeeps
<1>4. /\ Control' /\ ZeroIsComplete'
      /\ pc' \in [AllT -> {"idle", "returned"} \cup Active] /\ pc'[t] = "pull"
      /\ \A u \in AllT : u # t => pc'[u] = pc[u]
  <2>1. failed' \in BOOLEAN
    BY <1>1, Zenon DEF Typed
  <2> QED BY <1>1, <1>2, <2>1, ThreadStep
<1>5. /\ tstore' \in [AllT -> (SUBSET AllRows) \cup {Absent}]
      /\ \A u \in AllT : u # t => tstore'[u] = tstore[u]
      /\ (main = "pool" => tstore'[t] = Held(t))
  BY <1>1, HeldRows DEF Typed
<1>6. /\ \A u \in AllT : Held(u)' = Held(u)
      /\ \A u \in AllT : Written(u)' = Written(u)
      /\ \A u \in AllT : tstore[u] # Absent => tstore'[u] # Absent
      /\ main = "pool" => tstore'[t] # Absent
  <2>1. Held(t) # Absent
    BY HeldRows, RowsAreNotAbsent
  <2>2. \A u \in AllT : Written(u)' = Written(u)
    BY <1>1, <1>3 DEF Written
  <2>3. CASE main = "solo"
    BY <1>1, <2>2, <2>3 DEF Held
  <2>4. CASE main = "pool"
    <3>1. \A u \in AllT : tstore'[u] = tstore[u] \/ (u = t /\ tstore'[u] = Held(t))
      BY <1>5, <2>4
    <3>2. Held(t) # Absent /\ tstore'[t] = Held(t)
      BY <1>5, <2>1, <2>4
    <3>3. \A u \in AllT : Held(u)' = Held(u)
      BY <3>1, <3>2 DEF Held
    <3>4. \A u \in AllT : tstore[u] # Absent => tstore'[u] # Absent
      BY <3>1, <3>2
    <3> QED BY <2>2, <3>2, <3>3, <3>4
  <2> QED BY <1>2, <2>3, <2>4
<1>7. Typed'
  BY <1>1, <1>3, <1>4, <1>5 DEF Typed
<1>8. Indices'
  BY <1>1, <1>3, <1>4 DEF Indices
<1>9. Progress'
  <2>1. \A k \in 1 .. next, u \in AllT : pc[u] = "clean" /\ idx[u] = k => pc'[u] = "clean"
    BY <1>1, <1>4
  <2>2. \A u \in AllT : pc'[u] = "returned" => pc[u] = "returned"
    BY <1>1, <1>4
  <2> QED BY <1>1, <1>2, <1>3, <2>1, <2>2, PoolThreads DEF Progress
<1>10. Confined'
  <2>p. \A u \in Pool : u \in AllT
    BY PoolThreads
  <2>1. \A u \in Pool : Held(u)' = Held(u)
    BY <1>6, <2>p
  <2> QED BY <1>1, <1>2, <1>3, <2>1 DEF Confined
<1>11. InDuckdb'
  <2>1. \A u \in Pool : u \in AllT
    BY PoolThreads
  <2>2. \A u \in AllT : pc'[u] = "clean" => pc[u] = "clean"
    BY <1>4
  <2>3. CASE main = "solo"
    BY <1>1, <1>3, <1>6, <2>2, <2>3 DEF InDuckdb
  <2>4. CASE main = "pool"
    <3>1. \A u \in AllT : pc'[u] \in {"pull", "clean"} => tstore'[u] # Absent
      BY <1>2, <1>4, <1>6, <2>4 DEF InDuckdb
    <3>2. \A u \in AllT : pc'[u] = "clean" => Written(u)' \subseteq Held(u)'
      BY <1>2, <1>6, <2>2, <2>4 DEF InDuckdb
    <3>3. \A k \in DOMAIN files : perFile[k] = "done" =>
            \E u \in Pool : RowsOf({files[k]}) \subseteq Held(u)'
      BY <1>2, <1>6, <2>1, <2>4 DEF InDuckdb
    <3> QED BY <1>1, <1>3, <2>4, <3>1, <3>2, <3>3 DEF InDuckdb
  <2> QED BY <1>2, <2>3, <2>4
<1>12. InCsv'
  <2>1. SUFFICES ASSUME intoCsv PROVE InCsv'
    BY <1>3 DEF InCsv
  <2>2. main = "solo" /\ csv' = {}
    BY <1>1, <1>2, <2>1
  <2>3. \A k \in DOMAIN files : perFile[k] # "done"
    <3>1. next = 0 /\ DOMAIN files = 1 .. Len(files)
      BY <1>1, <2>2, FileRows DEF Indices
    <3> QED BY <3>1 DEF Indices
  <2>4. \A u \in AllT : pc'[u] # "clean"
    BY <1>1, <1>2, <1>4, <2>2 DEF Active
  <2> QED BY <1>1, <1>3, <2>2, <2>3, <2>4 DEF InCsv
<1>13. InDays'
  BY <1>1, <1>3 DEF InDays
<1>14. FailureIsClean'
  <2>1. main = "solo" => tstore' = tstore
    BY <1>1
  <2>2. ~intoCsv => csv' = csv
    BY <1>1
  <2> QED BY <1>1, <1>2, <1>3, <2>1, <2>2 DEF FailureIsClean
<1> QED BY <1>4, <1>7, <1>8, <1>9, <1>10, <1>11, <1>12, <1>13, <1>14

\* An index goes to one thread only.
LEMMA PullKeeps == ASSUME IInv, NEW t \in AllT, Pull(t) PROVE IInv'
<1> USE DEF IInv
<1>1. /\ pc[t] = "pull" /\ pc[t] \in Active /\ pc' = [pc EXCEPT ![t] = "clean"]
      /\ next < Len(files) /\ next' = next + 1
      /\ idx' = [idx EXCEPT ![t] = next + 1] /\ batch' = [batch EXCEPT ![t] = 0]
      /\ UNCHANGED <<given, main, step, failed, seen, perFile, disk, status>>
      /\ UNCHANGED <<out, tstore, days, csv>>
  BY DEF Pull, Active, disk
<1>2. /\ main \in {"solo", "pool"} /\ t \in Pool /\ ~refused /\ status = "none"
      /\ (main = "solo" => threads = 1 /\ ~failed /\ \A u \in AllT : pc[u] \in Active => u = t)
      /\ (main = "pool" => ~intoCsv /\ out = before.out)
  BY <1>1, AtWork
<1>3. UNCHANGED <<command, before, refused, runs, files, threads, Pool>>
      /\ duckdb' = duckdb /\ parquet' = parquet /\ intoCsv' = intoCsv
  BY <1>1, GivenKeeps
<1>4. /\ Control' /\ ZeroIsComplete'
      /\ pc' \in [AllT -> {"idle", "returned"} \cup Active] /\ pc'[t] = "clean"
      /\ \A u \in AllT : u # t => pc'[u] = pc[u]
  <2>1. failed' \in BOOLEAN
    BY <1>1, Zenon DEF Typed
  <2> QED BY <1>1, <1>2, <2>1, ThreadStep
<1>5. /\ DOMAIN files = 1 .. Len(files) /\ Len(files) \in Nat /\ next \in Nat
      /\ next' \in 0 .. Len(files) /\ next + 1 \in DOMAIN files
  BY <1>1, FileRows DEF Typed
<1>6. /\ idx' \in [AllT -> Nat] /\ idx'[t] = next + 1
      /\ batch' \in [AllT -> 0 .. NumBatches] /\ batch'[t] = 0
      /\ \A u \in AllT : u # t => idx'[u] = idx[u] /\ batch'[u] = batch[u]
  BY <1>1, <1>5, BatchesAssumption DEF Typed
<1>7. \A u \in AllT : Held(u)' = Held(u) /\ (u # t => Written(u)' = Written(u)) /\ Written(t)' = {}
  BY <1>1, <1>3, <1>6 DEF Held, Written
<1>8. Typed'
  BY <1>1, <1>3, <1>4, <1>5, <1>6 DEF Typed
<1>9. Indices'
  <2>1. perFile[next + 1] = "none"
    BY <1>5 DEF Indices
  <2>2. \A u \in AllT : pc'[u] = "clean" => idx'[u] \in 1 .. next' /\ perFile'[idx'[u]] = "none"
    BY <1>1, <1>4, <1>5, <1>6, <2>1 DEF Indices
  <2>3. \A u, v \in AllT : pc'[u] = "clean" /\ pc'[v] = "clean" /\ idx'[u] = idx'[v] => u = v
    <3>1. \A u \in AllT : u # t /\ pc'[u] = "clean" => idx'[u] # idx'[t]
      BY <1>4, <1>5, <1>6 DEF Indices
    <3> QED BY <1>4, <1>6, <3>1 DEF Indices
  <2>4. \A k \in DOMAIN files' : k > next' => perFile'[k] = "none"
    BY <1>1, <1>3, <1>5 DEF Indices
  <2>5. \A u \in AllT : pc'[u] = "open" => main' # "solo"
    BY <1>1, <1>2, <1>4 DEF Active
  <2> QED BY <2>2, <2>3, <2>4, <2>5 DEF Indices
<1>10. Progress'
  <2>1. SUFFICES ASSUME ~failed PROVE Progress'
    BY <1>1 DEF Progress
  <2>2. \A u \in Pool : pc[u] # "returned"
    <3>1. next # Len(files)
      <4>1. next < Len(files) /\ next \in Nat /\ Len(files) \in Nat
        BY <1>1, <1>5
      <4> QED BY <4>1, Z3
    <3>2. main # "idle" /\ main \in {"solo", "pool"}
      BY <1>2
    <3> QED BY <2>1, <3>1, <3>2 DEF Progress
  <2>3. \A k \in 1 .. next' : perFile[k] = "done" \/ \E u \in AllT : pc'[u] = "clean" /\ idx'[u] = k
    <3>1. TAKE k \in 1 .. next'
    <3>2. CASE k = next + 1
      BY <1>4, <1>6, <3>2
    <3>3. CASE k \in 1 .. next
      <4>1. perFile[k] = "done" \/ \E u \in AllT : pc[u] = "clean" /\ idx[u] = k
        BY <1>2, <2>1, <3>3 DEF Progress
      <4> QED BY <1>1, <1>4, <1>6, <4>1
    <3> QED BY <1>1, <1>5, <3>1, <3>2, <3>3
  <2>4. \A u \in Pool : pc'[u] # "returned"
    BY <1>4, <2>2, PoolThreads
  <2> QED BY <1>1, <1>2, <1>3, <2>3, <2>4 DEF Progress
<1>11. Confined'
  <2>1. \A u \in Pool : Held(u)' = Held(u)
    BY <1>7, PoolThreads
  <2> QED BY <1>1, <1>2, <1>3, <2>1 DEF Confined
<1>12. InDuckdb'
  <2>1. SUFFICES ASSUME duckdb PROVE InDuckdb'
    BY <1>3 DEF InDuckdb
  <2>2. \A u \in AllT : u # t /\ pc'[u] \in {"pull", "clean"} => pc[u] = pc'[u]
    BY <1>4
  <2>3. CASE main = "solo"
    <3>1. \A u \in AllT : pc'[u] = "clean" => Written(u)' \subseteq out
      BY <1>7, <2>1, <2>2, <2>3 DEF InDuckdb
    <3> QED BY <1>1, <1>3, <2>1, <2>3, <3>1 DEF InDuckdb
  <2>4. CASE main = "pool"
    <3>1. \A u \in AllT : pc'[u] \in {"pull", "clean"} => tstore'[u] # Absent
      BY <1>1, <2>1, <2>2, <2>4 DEF InDuckdb
    <3>2. \A u \in AllT : pc'[u] = "clean" => Written(u)' \subseteq Held(u)'
      BY <1>7, <2>1, <2>2, <2>4 DEF InDuckdb
    <3>3. \A k \in DOMAIN files : perFile[k] = "done" =>
            \E u \in Pool : RowsOf({files[k]}) \subseteq Held(u)'
      <4>1. \A u \in Pool : Held(u)' = Held(u)
        BY <1>1 DEF Held
      <4> QED BY <2>1, <2>4, <4>1 DEF InDuckdb
    <3> QED BY <1>1, <1>3, <2>4, <3>1, <3>2, <3>3 DEF InDuckdb
  <2> QED BY <1>2, <2>3, <2>4
<1>13. InCsv'
  <2>1. SUFFICES ASSUME intoCsv PROVE InCsv'
    BY <1>3 DEF InCsv
  <2>2. /\ csv \subseteq RowsOf(Range(files))
        /\ \A k \in DOMAIN files : perFile[k] = "done" => RowsOf({files[k]}) \subseteq csv
    BY <1>1, <2>1 DEF InCsv
  <2>3. \A u \in AllT : pc'[u] = "clean" => u = t
    BY <1>2, <1>4, <2>1 DEF Active
  <2> QED BY <1>1, <1>3, <1>7, <2>2, <2>3 DEF InCsv
<1>14. InDays'
  BY <1>1, <1>3 DEF InDays
<1>15. FailureIsClean'
  BY <1>1, <1>2, <1>3 DEF FailureIsClean
<1> QED BY <1>4, <1>8, <1>9, <1>10, <1>11, <1>12, <1>13, <1>14, <1>15

\* A thread that finds no index left has done its part.
LEMMA PullsNothingKeeps == ASSUME IInv, NEW t \in AllT, PullsNothing(t) PROVE IInv'
<1> USE DEF IInv
<1>1. /\ pc[t] = "pull" /\ pc[t] \in Active /\ pc' = [pc EXCEPT ![t] = "returned"]
      /\ next >= Len(files)
      /\ UNCHANGED <<given, step, next, failed, idx, batch, seen, perFile, disk>>
      /\ UNCHANGED <<out, tstore, days, csv>>
  BY DEF PullsNothing, AtEnd, Active, disk
<1>2. /\ main \in {"solo", "pool"} /\ t \in Pool /\ ~refused /\ status = "none" /\ step = 0
      /\ (main = "solo" => threads = 1 /\ ~failed /\ \A u \in AllT : pc[u] \in Active => u = t)
      /\ (main = "pool" => ~intoCsv /\ out = before.out)
  BY <1>1, AtWork
<1>3. UNCHANGED <<command, before, refused, runs, files, threads, Pool>>
      /\ duckdb' = duckdb /\ parquet' = parquet /\ intoCsv' = intoCsv
  BY <1>1, GivenKeeps
<1>4. next = Len(files)
  BY <1>1, FileRows DEF Typed
<1>5. CASE main = "solo"
  <2>1. main' = "idle"
    BY <1>5 DEF PullsNothing, Solo, Exit
  <2>2. pc' \in [AllT -> {"idle", "returned"}]
    BY <1>1, <1>2, <1>5 DEF Typed, Active
  <2>3. \A k \in DOMAIN files : perFile[k] = "done"
    BY <1>1, <1>2, <1>4, <1>5, AllDone DEF Active
  <2>4. duckdb => out = before.out \cup RowsOf(Range(files))
    <3>1. duckdb => \A k \in DOMAIN files : RowsOf({files[k]}) \subseteq out
      BY <1>5, <2>3 DEF InDuckdb
    <3>2. duckdb => RowsOf(Range(files)) \subseteq out
      BY <3>1, FileRows
    <3> QED BY <3>2 DEF Confined
  <2>5. intoCsv => csv = RowsOf(Range(files))
    <3>1. intoCsv => /\ csv \subseteq RowsOf(Range(files))
                     /\ \A k \in DOMAIN files : RowsOf({files[k]}) \subseteq csv
      BY <1>1, <2>3 DEF InCsv
    <3>2. intoCsv => RowsOf(Range(files)) \subseteq csv
      BY <3>1, FileRows
    <3> QED BY <3>1, <3>2
  <2>6. parquet => \A f \in Range(files) : days[Stem[f]] = [run |-> runs, rows |-> RowsOf({f})]
    BY <2>3 DEF InDays, Range
  <2>7. ZeroIsComplete'
    BY <1>1, <1>3, <2>3, <2>4, <2>5, <2>6 DEF ZeroIsComplete
  <2> QED BY <1>1, <1>2, <1>5, <2>1, <2>2, <2>7, PerFileStays, ExitKeeps
<1>6. CASE main = "pool"
  <2>1. UNCHANGED <<main, status>>
    BY <1>6 DEF PullsNothing, Solo
  <2>2. failed' \in BOOLEAN
    BY <1>1, Zenon DEF Typed
  <2>3. /\ Control' /\ ZeroIsComplete'
        /\ pc' \in [AllT -> {"idle", "returned"} \cup Active] /\ pc'[t] = "returned"
        /\ \A u \in AllT : u # t => pc'[u] = pc[u]
    BY <1>1, <1>6, <2>1, <2>2, ThreadStep
  <2>4. Typed'
    BY <1>1, <1>3, <2>1, <2>2, <2>3 DEF Typed
  <2>5. Indices'
    BY <1>1, <1>3, <2>1, <2>3 DEF Indices
  <2>6. Progress'
    <3>1. \A u \in AllT : pc[u] = "clean" => pc'[u] = "clean"
      BY <1>1, <2>3
    <3> QED BY <1>1, <1>3, <1>4, <1>6, <2>1, <3>1 DEF Progress
  <2>7. \A u : Held(u)' = Held(u) /\ Written(u)' = Written(u)
    BY <1>1, <1>3 DEF Held, Written
  <2>8. Confined'
    BY <1>1, <1>3, <2>1, <2>7 DEF Confined
  <2>9. InDuckdb'
    BY <1>1, <1>3, <1>6, <2>1, <2>3, <2>7 DEF InDuckdb
  <2>10. InCsv' /\ InDays'
    BY <1>1, <1>2, <1>3, <1>6 DEF InCsv, InDays
  <2>11. FailureIsClean'
    BY <1>1, <1>2, <1>3, <1>6, <2>1 DEF FailureIsClean
  <2> QED BY <2>3, <2>4, <2>5, <2>6, <2>8, <2>9, <2>10, <2>11
<1> QED BY <1>2, <1>5, <1>6

\* The rows of a batch: what the thread has written grows by them.
BatchOf(t) == {files[idx[t]]} \X (batch[t] + 1 .. batch'[t])

\* What a batch adds to what a thread has written of its file.
LEMMA BatchRows ==
  ASSUME IInv, NEW t \in AllT, WriteBatch(t)
  PROVE  /\ batch' \in [AllT -> 0 .. NumBatches]
         /\ \A u \in AllT : u # t => batch'[u] = batch[u]
         /\ BatchOf(t) \subseteq RowsOf(Range(files)) /\ BatchOf(t) \in SUBSET AllRows
         /\ {files[idx[t]]} \X (1 .. batch'[t]) = Written(t) \cup BatchOf(t)
<1> USE DEF IInv
<1>1. /\ pc[t] = "clean" /\ batch[t] < NumBatches
      /\ batch' = [batch EXCEPT ![t] = IF cuda THEN NumBatches ELSE batch[t] + 1]
  BY DEF WriteBatch
<1>2. batch[t] \in Nat /\ batch \in [AllT -> 0 .. NumBatches] /\ NumBatches \in Nat
  BY BatchesAssumption DEF Typed
<1>3. batch'[t] \in batch[t] + 1 .. NumBatches
  <2>1. batch'[t] = IF cuda THEN NumBatches ELSE batch[t] + 1
    BY <1>1, <1>2
  <2> QED BY <1>1, <1>2, <2>1
<1>4. batch' \in [AllT -> 0 .. NumBatches] /\ \A u \in AllT : u # t => batch'[u] = batch[u]
  BY <1>1, <1>2, <1>3
<1>5. idx[t] \in DOMAIN files
  BY <1>1, FileRows DEF Indices, Typed
<1>6. batch[t] + 1 .. batch'[t] \in SUBSET (1 .. NumBatches)
  BY <1>2, <1>3
<1>7. BatchOf(t) \subseteq RowsOf(Range(files))
  BY <1>5, <1>6, FileRows DEF BatchOf
<1>8. BatchOf(t) \in SUBSET AllRows
  BY <1>7, FileRows
<1>9. 1 .. batch'[t] = (1 .. batch[t]) \cup (batch[t] + 1 .. batch'[t])
  BY <1>2, <1>3
<1>10. {files[idx[t]]} \X (1 .. batch'[t]) = Written(t) \cup BatchOf(t)
  BY <1>9 DEF Written, BatchOf
<1> QED BY <1>4, <1>7, <1>8, <1>10

\* A batch goes to the store of its thread or straight to the output.
LEMMA WriteBatchKeeps == ASSUME IInv, NEW t \in AllT, WriteBatch(t) PROVE IInv'
<1> USE DEF IInv
<1> DEFINE rows == BatchOf(t)
<1>1. /\ pc[t] = "clean" /\ pc[t] \in Active
      /\ out' = IF duckdb /\ main = "solo" THEN out \cup rows ELSE out
      /\ tstore' = IF duckdb /\ main # "solo"
                   THEN [tstore EXCEPT ![t] = tstore[t] \cup rows] ELSE tstore
      /\ csv' = IF intoCsv THEN csv \cup rows ELSE csv
      /\ UNCHANGED <<given, main, step, next, failed, pc, idx, perFile, days, status>>
  BY DEF WriteBatch, Solo, Active, BatchOf
<1>2. /\ main \in {"solo", "pool"} /\ t \in Pool /\ ~refused /\ status = "none"
      /\ (main = "solo" => threads = 1 /\ ~failed /\ \A u \in AllT : pc[u] \in Active => u = t)
      /\ (main = "pool" => ~intoCsv /\ out = before.out) /\ (duckdb => ~intoCsv)
  BY <1>1, AtWork
<1>3. UNCHANGED <<command, before, refused, runs, files, threads, Pool>>
      /\ duckdb' = duckdb /\ parquet' = parquet /\ intoCsv' = intoCsv
  BY <1>1, GivenKeeps
<1>4. /\ batch' \in [AllT -> 0 .. NumBatches]
      /\ \A u \in AllT : u # t => batch'[u] = batch[u]
      /\ rows \subseteq RowsOf(Range(files)) /\ rows \in SUBSET AllRows
      /\ {files[idx[t]]} \X (1 .. batch'[t]) = Written(t) \cup rows
  BY BatchRows
<1> HIDE DEF rows
<1>5. /\ Written(t)' = Written(t) \cup rows
      /\ \A u \in AllT : u # t => Written(u)' = Written(u)
  BY <1>1, <1>3, <1>4 DEF Written
<1>6. duckdb /\ main = "pool" =>
        /\ tstore[t] # Absent /\ tstore'[t] = tstore[t] \cup rows
        /\ tstore'[t] \in SUBSET AllRows /\ tstore'[t] # Absent
  <2>1. SUFFICES ASSUME duckdb, main = "pool"
                 PROVE  /\ tstore[t] # Absent /\ tstore'[t] = tstore[t] \cup rows
                        /\ tstore'[t] \in SUBSET AllRows /\ tstore'[t] # Absent
    OBVIOUS
  <2>2. tstore[t] # Absent
    BY <1>1, <2>1 DEF InDuckdb
  <2>3. tstore[t] \in SUBSET AllRows
    BY <2>2, HeldRows
  <2>4. tstore'[t] = tstore[t] \cup rows
    BY <1>1, <2>1 DEF Typed
  <2>5. tstore'[t] \in SUBSET AllRows
    BY <1>4, <2>3, <2>4
  <2> QED BY <2>2, <2>4, <2>5, RowsAreNotAbsent
<1>7. \A u \in AllT : u # t \/ ~duckdb \/ main = "solo" => tstore'[u] = tstore[u]
  BY <1>1 DEF Typed
<1>8. duckdb /\ main = "pool" => Held(t)' = Held(t) \cup rows
  BY <1>6 DEF Held
<1>9. \A u \in AllT : u # t \/ ~duckdb \/ main = "solo" => Held(u)' = Held(u)
  BY <1>7 DEF Held
<1>10. tstore' \in [AllT -> (SUBSET AllRows) \cup {Absent}]
  <2>1. CASE duckdb /\ main = "pool"
    BY <1>1, <1>6, <2>1 DEF Typed
  <2>2. CASE ~duckdb \/ main = "solo"
    BY <1>1, <2>2 DEF Typed
  <2> QED BY <1>2, <2>1, <2>2
<1>11. Typed'
  <2>1. out' \in SUBSET AllRows
    BY <1>1, <1>4 DEF Typed
  <2> QED BY <1>1, <1>3, <1>4, <1>10, <2>1 DEF Typed
<1>12. Control'
  BY <1>1, <1>2, <1>3 DEF Control
<1>13. Indices' /\ Progress'
  BY <1>1, <1>3 DEF Indices, Progress
<1>14. Confined'
  <2>1. before.out \subseteq out' /\ out' \subseteq before.out \cup RowsOf(Range(files))
    BY <1>1, <1>4 DEF Confined
  <2>2. \A u \in Pool : u \in AllT
    BY PoolThreads
  <2>3. main = "pool" /\ duckdb => \A u \in Pool : Held(u)' \subseteq RowsOf(Range(files))
    BY <1>4, <1>8, <1>9, <2>2 DEF Confined
  <2> QED BY <1>1, <1>2, <1>3, <2>1, <2>3 DEF Confined
<1>15. InDuckdb'
  <2>1. SUFFICES ASSUME duckdb PROVE InDuckdb'
    BY <1>3 DEF InDuckdb
  <2>2. CASE main = "solo"
    <3>1. out' = out \cup rows
      BY <1>1, <2>1, <2>2
    <3>2. \A k \in DOMAIN files : perFile[k] = "done" => RowsOf({files[k]}) \subseteq out'
      BY <2>1, <2>2, <3>1 DEF InDuckdb
    <3>3. \A u \in AllT : pc[u] = "clean" => Written(u)' \subseteq out'
      <4>1. \A u \in AllT : pc[u] = "clean" => Written(u) \subseteq out
        BY <2>1, <2>2 DEF InDuckdb
      <4> QED BY <1>5, <3>1, <4>1
    <3> QED BY <1>1, <1>3, <2>2, <3>2, <3>3 DEF InDuckdb
  <2>3. CASE main = "pool"
    <3>1. \A u \in AllT : pc[u] \in {"pull", "clean"} => tstore'[u] # Absent
      BY <1>6, <1>7, <2>1, <2>3 DEF InDuckdb
    <3>2. \A u \in AllT : pc[u] = "clean" => Written(u)' \subseteq Held(u)'
      <4>1. \A u \in AllT : pc[u] = "clean" => Written(u) \subseteq Held(u)
        BY <2>1, <2>3 DEF InDuckdb
      <4> QED BY <1>5, <1>8, <1>9, <2>1, <2>3, <4>1
    <3>3. \A k \in DOMAIN files : perFile[k] = "done" =>
            \E u \in Pool : RowsOf({files[k]}) \subseteq Held(u)'
      <4>1. \A u \in Pool : u \in AllT
        BY PoolThreads
      <4>2. \A k \in DOMAIN files : perFile[k] = "done" =>
              \E u \in Pool : RowsOf({files[k]}) \subseteq Held(u)
        BY <2>1, <2>3 DEF InDuckdb
      <4>3. \A u \in Pool : Held(u) \subseteq Held(u)'
        BY <1>8, <1>9, <2>1, <2>3, <4>1
      <4> QED BY <4>2, <4>3
    <3> QED BY <1>1, <1>3, <2>3, <3>1, <3>2, <3>3 DEF InDuckdb
  <2> QED BY <1>2, <2>2, <2>3
<1>16. InCsv'
  <2>1. SUFFICES ASSUME intoCsv PROVE InCsv'
    BY <1>3 DEF InCsv
  <2>2. csv' = csv \cup rows /\ main = "solo"
    BY <1>1, <1>2, <2>1
  <2>3. /\ csv \subseteq RowsOf(Range(files)) /\ Written(t) \subseteq csv
        /\ \A k \in DOMAIN files : perFile[k] = "done" => RowsOf({files[k]}) \subseteq csv
    BY <1>1, <2>1 DEF InCsv
  <2>4. \A u \in AllT : pc'[u] \in {"pull", "clean"} => u = t
    BY <1>1, <1>2, <2>2 DEF Active
  <2>5. csv' \subseteq RowsOf(Range(files)) /\ Written(t)' \subseteq csv'
        /\ \A k \in DOMAIN files : perFile[k] = "done" => RowsOf({files[k]}) \subseteq csv'
    BY <1>4, <1>5, <2>2, <2>3
  <2> QED BY <1>1, <1>3, <2>4, <2>5 DEF InCsv
<1>17. InDays'
  BY <1>1, <1>3 DEF InDays
<1>18. ZeroIsComplete'
  BY <1>1, <1>2 DEF ZeroIsComplete
<1>19. FailureIsClean'
  <2>1. before.out \subseteq out' /\ out' \subseteq before.out \cup RowsOf(Range(files))
    BY <1>1, <1>4 DEF Confined
  <2>2. threads > 1 => out' = before.out
    BY <1>1, <1>2
  <2>3. ~duckdb => out' = out /\ tstore' = tstore
    BY <1>1
  <2>4. ~intoCsv => csv' = csv
    BY <1>1
  <2> QED BY <1>1, <1>2, <1>3, <2>1, <2>2, <2>3, <2>4 DEF FailureIsClean
<1> QED BY <1>11, <1>12, <1>13, <1>14, <1>15, <1>16, <1>17, <1>18, <1>19

\* The file a thread is at, marked: the other files keep their marks.
LEMMA MarkOne ==
  ASSUME IInv, NEW t \in AllT, pc[t] = "clean",
         NEW mark \in {"done", "bad"}, perFile' = [perFile EXCEPT ![idx[t]] = mark]
  PROVE  /\ DOMAIN files = 1 .. Len(files) /\ idx[t] \in DOMAIN files /\ idx[t] \in 1 .. next
         /\ perFile' \in [DOMAIN files -> {"none", "done", "bad"}]
         /\ perFile[idx[t]] = "none" /\ perFile'[idx[t]] = mark
         /\ \A k \in DOMAIN files : k # idx[t] => perFile'[k] = perFile[k]
         /\ \A k \in DOMAIN files : k > next => perFile'[k] = "none"
         /\ \A u \in AllT : u # t /\ pc[u] = "clean" =>
              idx[u] # idx[t] /\ idx[u] \in 1 .. next /\ idx[u] \in DOMAIN files
<1> USE DEF IInv
<1>1. DOMAIN files = 1 .. Len(files) /\ next \in 0 .. Len(files) /\ Len(files) \in Nat
  BY FileRows DEF Typed
<1>2. idx[t] \in 1 .. next /\ perFile[idx[t]] = "none"
  BY DEF Indices
<1>3. idx[t] \in DOMAIN files
  BY <1>1, <1>2
<1>4. /\ perFile' \in [DOMAIN files -> {"none", "done", "bad"}] /\ perFile'[idx[t]] = mark
      /\ \A k \in DOMAIN files : k # idx[t] => perFile'[k] = perFile[k]
  BY <1>3 DEF Typed
<1>5. \A k \in DOMAIN files : k > next => perFile'[k] = "none"
  BY <1>1, <1>2, <1>4 DEF Indices
<1>6. \A u \in AllT : u # t /\ pc[u] = "clean" => idx[u] # idx[t] /\ idx[u] \in 1 .. next
  BY DEF Indices
<1>7. \A u \in AllT : u # t /\ pc[u] = "clean" => idx[u] \in DOMAIN files
  BY <1>1, <1>6
<1> QED BY <1>1, <1>2, <1>3, <1>4, <1>5, <1>6, <1>7

\* A file is counted when its last batch is in.
LEMMA FileDoneKeeps == ASSUME IInv, NEW t \in AllT, FileDone(t) PROVE IInv'
<1> USE DEF IInv
<1> DEFINE k0 == idx[t]
<1>1. /\ pc[t] = "clean" /\ pc[t] \in Active /\ batch[t] = NumBatches
      /\ pc' = [pc EXCEPT ![t] = "pull"] /\ perFile' = [perFile EXCEPT ![k0] = "done"]
      /\ days' = IF parquet
                 THEN [days EXCEPT ![Stem[files[k0]]] = [run |-> runs, rows |-> RowsOf({files[k0]})]]
                 ELSE days
      /\ UNCHANGED <<given, main, step, next, failed, idx, batch, seen, out, tstore, csv, status>>
  BY DEF FileDone, Active
<1>2. /\ main \in {"solo", "pool"} /\ t \in Pool /\ ~refused /\ status = "none"
      /\ ~Contradicts(command)
      /\ (main = "solo" => threads = 1 /\ ~failed /\ \A u \in AllT : pc[u] \in Active => u = t)
      /\ (main = "pool" => ~intoCsv /\ out = before.out)
  BY <1>1, AtWork
<1>3. UNCHANGED <<command, before, refused, runs, files, threads, Pool>>
      /\ duckdb' = duckdb /\ parquet' = parquet /\ intoCsv' = intoCsv
  BY <1>1, GivenKeeps
<1>4. /\ Control' /\ ZeroIsComplete'
      /\ pc' \in [AllT -> {"idle", "returned"} \cup Active] /\ pc'[t] = "pull"
      /\ \A u \in AllT : u # t => pc'[u] = pc[u]
  <2>1. failed' \in BOOLEAN
    BY <1>1, Zenon DEF Typed
  <2> QED BY <1>1, <1>2, <2>1, ThreadStep
<1>5. /\ DOMAIN files = 1 .. Len(files) /\ k0 \in DOMAIN files /\ k0 \in 1 .. next
      /\ perFile' \in [DOMAIN files -> {"none", "done", "bad"}]
      /\ perFile[k0] = "none" /\ perFile'[k0] = "done"
      /\ \A k \in DOMAIN files : k # k0 => perFile'[k] = perFile[k]
      /\ \A k \in DOMAIN files : k > next => perFile'[k] = "none"
      /\ \A u \in AllT : u # t /\ pc[u] = "clean" =>
           idx[u] # k0 /\ idx[u] \in 1 .. next /\ idx[u] \in DOMAIN files
  BY <1>1, MarkOne
<1>6. Written(t) = RowsOf({files[k0]})
  BY <1>1 DEF Written, RowsOf
<1>7. \A u \in AllT : Held(u)' = Held(u) /\ Written(u)' = Written(u)
  BY <1>1, <1>3 DEF Held, Written
<1> HIDE DEF k0
<1>8. parquet => /\ days' \in [Stems -> [run : Nat, rows : SUBSET AllRows]]
                 /\ Stem[files[k0]] \in Stems
                 /\ days'[Stem[files[k0]]] = [run |-> runs, rows |-> RowsOf({files[k0]})]
                 /\ \A s \in Stems : s # Stem[files[k0]] => days'[s] = days[s]
  <2>1. files[k0] \in DOMAIN Stem
    BY <1>5, FileRows
  <2>2. Stem[files[k0]] \in Stems
    BY <2>1 DEF Stems, Range
  <2>3. RowsOf({files[k0]}) \in SUBSET AllRows /\ runs \in Nat
    BY <1>5, FileRows DEF Typed
  <2>4. [run |-> runs, rows |-> RowsOf({files[k0]})] \in [run : Nat, rows : SUBSET AllRows]
    BY <2>3
  <2> QED BY <1>1, <2>2, <2>4 DEF Typed
<1>9. Typed'
  <2>1. days' \in [Stems -> [run : Nat, rows : SUBSET AllRows]]
    BY <1>1, <1>8 DEF Typed
  <2> QED BY <1>1, <1>3, <1>4, <1>5, <2>1 DEF Typed
<1>10. Indices'
  <2>1. \A u \in AllT : pc'[u] = "clean" => u # t /\ pc[u] = "clean"
    BY <1>4
  <2>2. \A u \in AllT : pc'[u] = "clean" => idx[u] \in 1 .. next /\ perFile'[idx[u]] = "none"
    BY <1>5, <2>1 DEF Indices
  <2>3. \A u, v \in AllT : pc'[u] = "clean" /\ pc'[v] = "clean" /\ idx[u] = idx[v] => u = v
    BY <2>1 DEF Indices
  <2>4. \A u \in AllT : pc'[u] = "open" /\ main = "solo" => next = 0
    BY <1>4 DEF Indices
  <2> QED BY <1>1, <1>3, <1>5, <2>2, <2>3, <2>4 DEF Indices
<1>11. Progress'
  <2>1. SUFFICES ASSUME ~failed PROVE Progress'
    BY <1>1 DEF Progress
  <2>2. main # "idle" /\ main \in {"solo", "pool"}
    BY <1>2
  <2>3. \A k \in 1 .. next : perFile'[k] = "done" \/ \E u \in AllT : pc'[u] = "clean" /\ idx[u] = k
    <3>1. TAKE k \in 1 .. next
    <3>2. CASE k = k0
      BY <1>5, <3>2
    <3>3. CASE k # k0
      <4>1. perFile[k] = "done" \/ \E u \in AllT : pc[u] = "clean" /\ idx[u] = k
        BY <2>1, <2>2 DEF Progress
      <4>2. CASE perFile[k] = "done"
        <5>1. k \in DOMAIN files
          BY <1>5, FileRows DEF Typed
        <5> QED BY <1>5, <3>3, <4>2, <5>1
      <4>3. CASE \E u \in AllT : pc[u] = "clean" /\ idx[u] = k
        BY <1>4, <3>3, <4>3 DEF k0
      <4> QED BY <4>1, <4>2, <4>3
    <3> QED BY <3>2, <3>3
  <2>4. \A u \in Pool : pc'[u] = "returned" => next = Len(files)
    <3>1. \A u \in Pool : u \in AllT
      BY PoolThreads
    <3>2. \A u \in Pool : pc'[u] = "returned" => pc[u] = "returned"
      BY <1>4, <3>1
    <3> QED BY <2>1, <2>2, <3>2 DEF Progress
  <2> QED BY <1>1, <1>3, <2>2, <2>3, <2>4 DEF Progress
<1>12. Confined'
  <2>1. \A u : Held(u)' = Held(u)
    BY <1>1 DEF Held
  <2> QED BY <1>1, <1>3, <2>1 DEF Confined
<1>13. InDuckdb'
  <2>1. SUFFICES ASSUME duckdb PROVE InDuckdb'
    BY <1>3 DEF InDuckdb
  <2>2. \A u \in AllT : pc'[u] \in {"pull", "clean"} => pc[u] \in {"pull", "clean"}
    BY <1>1, <1>4
  <2>3. \A u \in AllT : pc'[u] = "clean" => pc[u] = "clean"
    BY <1>4
  <2>4. CASE main = "solo"
    <3>1. Written(t) \subseteq out /\ \A u \in AllT : pc[u] = "clean" => Written(u) \subseteq out
      BY <1>1, <2>1, <2>4 DEF InDuckdb
    <3>2. \A k \in DOMAIN files : perFile'[k] = "done" => RowsOf({files[k]}) \subseteq out
      <4>1. \A k \in DOMAIN files : perFile[k] = "done" => RowsOf({files[k]}) \subseteq out
        BY <2>1, <2>4 DEF InDuckdb
      <4> QED BY <1>5, <1>6, <3>1, <4>1
    <3>3. \A u \in AllT : pc'[u] = "clean" => Written(u)' \subseteq out
      BY <1>7, <2>3, <3>1
    <3> QED BY <1>1, <1>3, <2>4, <3>2, <3>3 DEF InDuckdb
  <2>5. CASE main = "pool"
    <3>1. \A u \in AllT : pc'[u] \in {"pull", "clean"} => tstore[u] # Absent
      BY <2>1, <2>2, <2>5 DEF InDuckdb
    <3>2. \A u \in AllT : pc[u] = "clean" => Written(u) \subseteq Held(u)
      BY <2>1, <2>5 DEF InDuckdb
    <3>3. \A u \in AllT : pc'[u] = "clean" => Written(u)' \subseteq Held(u)'
      BY <1>7, <2>3, <3>2
    <3>4. \A k \in DOMAIN files : perFile'[k] = "done" =>
            \E u \in Pool : RowsOf({files[k]}) \subseteq Held(u)
      <4>1. \A k \in DOMAIN files : perFile[k] = "done" =>
              \E u \in Pool : RowsOf({files[k]}) \subseteq Held(u)
        BY <2>1, <2>5 DEF InDuckdb
      <4>2. RowsOf({files[k0]}) \subseteq Held(t)
        BY <1>1, <1>6, <3>2
      <4> QED BY <1>2, <1>5, <4>1, <4>2
    <3>5. \A u \in Pool : Held(u)' = Held(u)
      BY <1>1 DEF Held
    <3> QED BY <1>1, <1>3, <2>5, <3>1, <3>3, <3>4, <3>5 DEF InDuckdb
  <2> QED BY <1>2, <2>4, <2>5
<1>14. InCsv'
  <2>1. SUFFICES ASSUME intoCsv PROVE InCsv'
    BY <1>3 DEF InCsv
  <2>2. /\ csv \subseteq RowsOf(Range(files)) /\ Written(t) \subseteq csv
        /\ \A k \in DOMAIN files : perFile[k] = "done" => RowsOf({files[k]}) \subseteq csv
    BY <1>1, <2>1 DEF InCsv
  <2>3. \A u \in AllT : pc'[u] # "clean"
    BY <1>1, <1>2, <1>4, <2>1 DEF Active
  <2>4. \A k \in DOMAIN files : perFile'[k] = "done" => RowsOf({files[k]}) \subseteq csv
    BY <1>5, <1>6, <2>2
  <2> QED BY <1>1, <1>3, <2>2, <2>3, <2>4 DEF InCsv
<1>15. InDays'
  <2>1. SUFFICES ASSUME parquet, NEW k \in DOMAIN files, perFile'[k] = "done"
                 PROVE  days'[Stem[files[k]]] = [run |-> runs, rows |-> RowsOf({files[k]})]
    BY <1>3 DEF InDays
  <2>2. CASE k = k0
    BY <1>8, <2>1, <2>2
  <2>3. CASE k # k0
    <3>1. days[Stem[files[k]]] = [run |-> runs, rows |-> RowsOf({files[k]})]
      BY <1>5, <2>1, <2>3 DEF InDays
    <3>2. Stem[files[k]] # Stem[files[k0]]
      BY <1>2, <1>5, <2>1, <2>3 DEF Contradicts, parquet, files
    <3>3. Stem[files[k]] \in Stems
      BY FileRows DEF Stems, Range
    <3> QED BY <1>8, <2>1, <3>1, <3>2, <3>3
  <2> QED BY <2>2, <2>3
<1>16. FailureIsClean'
  <2>1. \A s \in Stems : days'[s] # before.days[s] =>
          \E k \in DOMAIN files : perFile'[k] = "done" /\ Stem[files[k]] = s
    <3>1. SUFFICES ASSUME NEW s \in Stems, days'[s] # before.days[s]
                   PROVE  \E k \in DOMAIN files : perFile'[k] = "done" /\ Stem[files[k]] = s
      OBVIOUS
    <3>2. CASE days'[s] # days[s]
      <4>1. Stem[files[k0]] = s
        BY <1>1, <1>8, <3>2
      <4> QED BY <1>5, <4>1
    <3>3. CASE days'[s] = days[s]
      <4>1. PICK k \in DOMAIN files : perFile[k] = "done" /\ Stem[files[k]] = s
        BY <3>1, <3>3 DEF FailureIsClean
      <4>2. perFile'[k] = "done"
        BY <1>5, <4>1
      <4> QED BY <4>1, <4>2
    <3> QED BY <3>2, <3>3
  <2>2. ~parquet => days' = days
    BY <1>1
  <2> QED BY <1>1, <1>2, <1>3, <2>1, <2>2 DEF FailureIsClean
<1> QED BY <1>4, <1>9, <1>10, <1>11, <1>12, <1>13, <1>14, <1>15, <1>16

\* An input that went away after the probe: -1, which each program treats its own way.
LEMMA CannotCleanKeeps == ASSUME IInv, NEW t \in AllT, CannotClean(t) PROVE IInv'
<1> USE DEF IInv
<1>1. /\ pc[t] = "clean" /\ pc[t] \in Active /\ perFile' = [perFile EXCEPT ![idx[t]] = "bad"]
      /\ UNCHANGED <<given, step, next, idx, batch, seen, disk>>
      /\ UNCHANGED <<out, tstore, days, csv>>
  BY DEF CannotClean, Active, disk
<1>2. /\ main \in {"solo", "pool"} /\ t \in Pool /\ step = 0 /\ status = "none"
      /\ (main = "solo" => ~failed /\ \A u \in AllT : pc[u] \in Active => u = t)
      /\ (main = "pool" => ~intoCsv /\ out = before.out)
  BY <1>1, AtWork
<1>3. UNCHANGED <<command, before, refused, runs, files, threads, Pool>>
      /\ duckdb' = duckdb /\ parquet' = parquet /\ intoCsv' = intoCsv
  BY <1>1, GivenKeeps
<1>5. /\ DOMAIN files = 1 .. Len(files) /\ idx[t] \in DOMAIN files
      /\ perFile' \in [DOMAIN files -> {"none", "done", "bad"}]
      /\ perFile[idx[t]] = "none" /\ perFile'[idx[t]] = "bad"
      /\ \A k \in DOMAIN files : k # idx[t] => perFile'[k] = perFile[k]
      /\ \A k \in DOMAIN files : k > next => perFile'[k] = "none"
      /\ \A u \in AllT : u # t /\ pc[u] = "clean" =>
           idx[u] # idx[t] /\ idx[u] \in 1 .. next /\ idx[u] \in DOMAIN files
  BY <1>1, MarkOne
<1>6. \A k \in DOMAIN files : (perFile'[k] = "done") <=> (perFile[k] = "done")
  BY <1>5
<1>7. CASE main = "solo"
  <2>1. main' = "idle" /\ status' = BadStatus /\ pc' = [pc EXCEPT ![t] = "returned"]
        /\ failed' = failed
    BY <1>7 DEF CannotClean, Solo, Exit
  <2>2. pc' \in [AllT -> {"idle", "returned"}]
    BY <1>1, <1>2, <1>7, <2>1 DEF Typed, Active
  <2>3. ZeroIsComplete'
    <3>1. SUFFICES ASSUME status' = "0"
                   PROVE  command.program = "mas_clean" /\ duckdb /\ perFile' = <<"bad">>
      BY <1>3 DEF ZeroIsComplete
    <3>2. command.program = "mas_clean" /\ duckdb
      BY <2>1, <3>1 DEF BadStatus
    <3>3. Len(files) = 1
      BY <3>2 DEF Typed, WellFormed, files
    <3>4. DOMAIN files = {1} /\ idx[t] = 1
      BY <1>5, <3>3
    <3>5. perFile' = [k \in {1} |-> "bad"]
      <4>1. perFile' \in [{1} -> {"none", "done", "bad"}] /\ perFile'[1] = "bad"
        BY <1>5, <3>4
      <4>2. perFile' = [k \in {1} |-> perFile'[k]]
        BY <4>1
      <4>3. [k \in {1} |-> perFile'[k]] = [k \in {1} |-> "bad"]
        BY <4>1
      <4> QED BY <4>2, <4>3
    <3>6. <<"bad">> = [k \in {1} |-> "bad"]
      OBVIOUS
    <3> QED BY <3>2, <3>5, <3>6
  <2> QED BY <1>1, <1>2, <1>5, <1>6, <1>7, <2>1, <2>2, <2>3, ExitKeeps
<1>8. CASE main = "pool"
  <2>1. failed' /\ UNCHANGED <<main, status>> /\ pc' = [pc EXCEPT ![t] = "pull"]
    BY <1>8 DEF CannotClean, Solo
  <2>2. failed' \in BOOLEAN
    BY <1>8, Zenon DEF CannotClean, Solo
  <2>3. /\ Control' /\ ZeroIsComplete'
        /\ pc' \in [AllT -> {"idle", "returned"} \cup Active] /\ pc'[t] = "pull"
        /\ \A u \in AllT : u # t => pc'[u] = pc[u]
    BY <1>1, <1>8, <2>1, <2>2, ThreadStep
  <2>4. Typed'
    BY <1>1, <1>3, <1>5, <2>1, <2>2, <2>3 DEF Typed
  <2>5. Indices'
    <3>1. \A u \in AllT : pc'[u] = "clean" => u # t /\ pc[u] = "clean"
      BY <2>3
    <3>2. \A u \in AllT : pc'[u] = "clean" => idx[u] \in 1 .. next /\ perFile'[idx[u]] = "none"
      BY <1>5, <3>1 DEF Indices
    <3>3. \A u, v \in AllT : pc'[u] = "clean" /\ pc'[v] = "clean" /\ idx[u] = idx[v] => u = v
      BY <3>1 DEF Indices
    <3> QED BY <1>1, <1>3, <1>5, <1>8, <2>1, <3>2, <3>3 DEF Indices
  <2>6. Progress'
    BY <2>1 DEF Progress
  <2>7. \A u : Held(u)' = Held(u) /\ Written(u)' = Written(u)
    BY <1>1, <1>3 DEF Held, Written
  <2>8. Confined'
    BY <1>1, <1>3, <2>1, <2>7 DEF Confined
  <2>9. InDuckdb'
    <3>1. \A u \in AllT : pc'[u] \in {"pull", "clean"} => pc[u] \in {"pull", "clean"}
      BY <1>1, <2>3
    <3>2. \A u \in AllT : pc'[u] = "clean" => pc[u] = "clean"
      BY <2>3
    <3> QED BY <1>1, <1>3, <1>6, <1>8, <2>1, <2>7, <3>1, <3>2 DEF InDuckdb
  <2>10. InCsv' /\ InDays'
    BY <1>1, <1>2, <1>3, <1>6, <1>8 DEF InCsv, InDays
  <2>11. FailureIsClean'
    <3>1. \A s \in Stems : days'[s] # before.days[s] =>
            \E k \in DOMAIN files : perFile'[k] = "done" /\ Stem[files[k]] = s
      BY <1>1, <1>6 DEF FailureIsClean
    <3> QED BY <1>1, <1>2, <1>3, <1>8, <2>1, <3>1 DEF FailureIsClean
  <2> QED BY <2>3, <2>4, <2>5, <2>6, <2>8, <2>9, <2>10, <2>11
<1> QED BY <1>2, <1>7, <1>8

\* A stuttering step changes nothing.
LEMMA StutterKeeps == ASSUME IInv, UNCHANGED vars PROVE IInv'
<1>1. UNCHANGED <<files, threads, Pool>> /\ duckdb' = duckdb /\ parquet' = parquet
      /\ intoCsv' = intoCsv
  BY DEF vars, files, threads, Pool, duckdb, parquet, intoCsv
<1>2. \A u : Held(u)' = Held(u) /\ Written(u)' = Written(u)
  BY <1>1 DEF vars, Held, Written
<1>3. Typed' /\ Control' /\ Indices' /\ Progress'
  BY <1>1 DEF IInv, vars, Typed, Control, Indices, Progress
<1>4. Confined'
  BY <1>1, <1>2 DEF IInv, vars, Confined
<1>5. InDuckdb'
  BY <1>1, <1>2 DEF IInv, vars, InDuckdb
<1>6. InCsv' /\ InDays'
  BY <1>1, <1>2 DEF IInv, vars, InCsv, InDays
<1>7. ZeroIsComplete' /\ FailureIsClean'
  BY <1>1 DEF IInv, vars, ZeroIsComplete, FailureIsClean
<1> QED BY <1>3, <1>4, <1>5, <1>6, <1>7 DEF IInv

-----------------------------------------------------------------------------
(* The theorems *)

\* The steps of main, of the threads and of the environment, together.
LEMMA StepPreserves == ASSUME IInv, [Next]_vars PROVE IInv'
<1>1. CASE \E c \in Commands : Refuse(c) \/ Run(c)
  BY <1>1, RefuseKeeps, RunKeeps
<1>2. CASE Preclean
  BY <1>2, PrecleanKeeps
<1>3. CASE Join
  BY <1>3, JoinKeeps
<1>4. CASE MergeAll \/ MergeOne \/ MergeThrows
  BY <1>4, MergeAllKeeps, MergeOneKeeps, MergeThrowsKeeps
<1>5. CASE Unlink
  BY <1>5, UnlinkKeeps
<1>6. ASSUME NEW t \in AllT, Thread(t) PROVE IInv'
  BY <1>6, OpenStoreKeeps, ThrowsKeeps, PullKeeps, PullsNothingKeeps, WriteBatchKeeps,
     FileDoneKeeps, CannotCleanKeeps DEF Thread
<1>7. CASE Kill
  BY <1>7, KillKeeps
<1>8. CASE UNCHANGED vars
  BY <1>8, StutterKeeps
<1> QED BY <1>1, <1>2, <1>3, <1>4, <1>5, <1>6, <1>7, <1>8 DEF Next

\* Where the main thread and the pool are, which files are handed out and done,
\* and what has reached the stores for them.
THEOREM Invariance == Spec => []IInv
<1> QED BY InitEstablishes, StepPreserves, PTL DEF Spec

\* For any command lines, threads, batches and number of runs: a run that ends
\* with status 0 has put every file where it was sent, whole, and nothing else
\* with it, whatever earlier runs, failed and killed ones too, left on disk.
THEOREM ZeroMeansComplete == Spec => []ZeroIsComplete
<1>1. IInv => ZeroIsComplete
  BY DEF IInv
<1> QED BY <1>1, Invariance, PTL

\* Whatever ends a run, a failed pool leaves the output store as it was and no
\* store of its threads, and only a day that is done replaces a file.
THEOREM FailureLeavesNoHalfTruth == Spec => []FailureIsClean
<1>1. IInv => FailureIsClean
  BY DEF IInv
<1> QED BY <1>1, Invariance, PTL
=============================================================================
