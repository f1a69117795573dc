---------------------------- MODULE StoreMergeProofs ----------------------------
(***************************************************************************)
(* Proofs about StoreMerge: for any source files, command line and kills,  *)
(* a merge that ends has brought exactly the rows of the readable sources, *)
(* and its summary counts every source once.                               *)
(***************************************************************************)
EXTENDS StoreMerge, FiniteSetTheorems, TLAPS

Labels == {"open", "attachAll", "insertAll", "attach", "insert", "detach", "exit"}
PerSource == {"attach", "insert", "detach"}

Input ==
  /\ sources \in [Src -> Files]
  /\ kind \in [Files -> Kinds]
  /\ \A f \in Files : ~Readable(f) => has[f] = {}

Typed ==
  /\ Input
  /\ pc \in Labels /\ bulk \in BOOLEAN
  /\ i \in 1 .. N + 1 /\ (pc \in PerSource \cup {"attachAll"} => i \in Src)
  /\ merged \in Nat /\ skipped \in Nat

\* The sources up to k under merge_all's aliases.
AttachedUpTo(k) ==
  /\ DOMAIN attached = {Src0(j) : j \in 1 .. k}
  /\ \A j \in 1 .. k : attached[Src0(j)] = sources[j]

\* No alias outlives the statement that needs it: a source fails to attach only
\* when it is corrupt or, in merge_all, named twice.
Aliases ==
  /\ pc \in {"open", "attach", "exit"} => DOMAIN attached = {}
  /\ pc = "attachAll" => bulk /\ AttachedUpTo(i - 1)
  /\ pc = "insertAll" => bulk /\ AttachedUpTo(N)
  /\ pc \in {"insert", "detach"} => DOMAIN attached = {Alias}
  /\ pc = "insert" => kind[sources[i]] # "corrupt"
  /\ pc = "detach" => Readable(sources[i])

\* The sources that are over and done with: their rows are in.
Past == CASE pc \in {"attach", "insert"} -> 1 .. i - 1
          [] pc = "detach" -> 1 .. i
          [] pc = "exit" -> Src
          [] OTHER -> {}

Brought ==
  /\ prior \subseteq rows /\ rows \subseteq prior \cup ReadableRows
  /\ \A k \in Past : has[sources[k]] \subseteq rows

\* The sources of K that cannot be read.
Bad(K) == {k \in K : ~Readable(sources[k])}

\* What the two counters say in the course of a run; merge_all counts at the end.
Tallied ==
  /\ bulk /\ pc \notin {"open", "exit"} => merged = 0 /\ skipped = 0
  /\ bulk => Bad(Past) = {}
  /\ ~bulk /\ pc \in PerSource =>
       skipped = Cardinality(Bad(1 .. i - 1)) /\ merged = i - 1 - skipped
  /\ pc = "exit" => skipped = Cardinality(Bad(Src)) /\ merged = N - skipped

IInv == Typed /\ Aliases /\ Brought /\ Tallied

-----------------------------------------------------------------------------
(* Counting *)

\* One more source: the unreadable ones of 1 .. k grow by k or stay.
LEMMA BadGrows ==
  ASSUME NEW k \in Nat, k >= 1
  PROVE  /\ Cardinality(Bad(1 .. k - 1)) \in Nat
         /\ Readable(sources[k]) => Bad(1 .. k) = Bad(1 .. k - 1)
         /\ ~Readable(sources[k]) =>
              Cardinality(Bad(1 .. k)) = Cardinality(Bad(1 .. k - 1)) + 1
<1>1. IsFiniteSet(1 .. k - 1)
  BY FS_Interval
<1>2. IsFiniteSet(Bad(1 .. k - 1)) /\ Cardinality(Bad(1 .. k - 1)) \in Nat
  BY <1>1, FS_Subset, FS_CardinalityType DEF Bad
<1>3. Readable(sources[k]) => Bad(1 .. k) = Bad(1 .. k - 1)
  BY DEF Bad
<1>4. ASSUME ~Readable(sources[k])
      PROVE  Cardinality(Bad(1 .. k)) = Cardinality(Bad(1 .. k - 1)) + 1
  <2>1. Bad(1 .. k) = Bad(1 .. k - 1) \cup {k} /\ k \notin Bad(1 .. k - 1)
    BY <1>4 DEF Bad
  <2> QED BY <1>2, <2>1, FS_AddElement
<1> QED BY <1>2, <1>3, <1>4

\* All of a command line is unreadable exactly when there are N such sources.
LEMMA AllBad ==
  /\ Cardinality(Bad(Src)) \in 0 .. N
  /\ Cardinality(Bad(Src)) = N <=> \A k \in Src : ~Readable(sources[k])
<1>1. IsFiniteSet(Src) /\ Cardinality(Src) = N
  BY NAssumption, FS_Interval DEF Src
<1>2. Bad(Src) \in SUBSET Src
  BY DEF Bad
<1>3. /\ IsFiniteSet(Bad(Src)) /\ Cardinality(Bad(Src)) <= N
      /\ Cardinality(Bad(Src)) = N => Bad(Src) = Src
  BY <1>1, <1>2, FS_Subset
<1>4. Cardinality(Bad(Src)) \in Nat
  BY <1>3, FS_CardinalityType
<1>5. Bad(Src) = Src <=> \A k \in Src : ~Readable(sources[k])
  BY DEF Bad
<1> QED BY <1>1, <1>3, <1>4, <1>5, NAssumption

\* No unreadable source, none to count.
LEMMA NoneBad == ASSUME NEW K, Bad(K) = {} PROVE Cardinality(Bad(K)) = 0
  BY FS_EmptySet

\* What a readable or unreadable file brings is among the rows to be merged.
LEMMA BroughtRows == \A k \in Src : has[sources[k]] \subseteq ReadableRows
  BY DEF ReadableRows

-----------------------------------------------------------------------------
(* Steps *)

\* Before the merge nothing is attached, merged or counted.
LEMMA InitEstablishes == Init => IInv
<1> SUFFICES ASSUME Init PROVE IInv
  OBVIOUS
<1>1. Typed
  BY NAssumption DEF Init, Typed, Input, Labels, PerSource, Src
<1>2. Aliases
  BY DEF Init, Aliases, NoAlias
<1>3. Brought
  BY DEF Init, Brought, Past
<1>4. Tallied
  BY DEF Init, Tallied, Past, Bad, PerSource
<1> QED BY <1>1, <1>2, <1>3, <1>4 DEF IInv

\* Nothing the input determines moves with the other variables.
LEMMA InputKeeps ==
  ASSUME UNCHANGED input
  PROVE  /\ Input => Input'
         /\ ReadableRows' = ReadableRows
         /\ \A K : Bad(K)' = Bad(K)
         /\ \A f : Readable(f)' <=> Readable(f)
BY DEF input, Input, ReadableRows, Bad, Readable

\* The destination is opened, and the way of merging is chosen.
LEMMA OpenKeeps == ASSUME IInv, Open PROVE IInv'
<1> USE NAssumption DEF IInv, Open, Goto
<1>1. Typed'
  BY InputKeeps DEF Typed, Labels, PerSource, Src
<1>2. Aliases'
  BY DEF Aliases, AttachedUpTo, Typed, input
<1>3. Past' = {}
  BY DEF Past
<1>4. Brought'
  BY <1>3, InputKeeps DEF Brought, input
<1>5. Tallied'
  BY <1>3 DEF Tallied, Bad
<1> QED BY <1>1, <1>2, <1>4, <1>5

\* merge_all attaches the next source under an alias of its own.
LEMMA AttachAllKeeps == ASSUME IInv, AttachAll PROVE IInv'
<1> USE NAssumption DEF IInv, AttachAll, Goto
<1>0. i \in Src /\ bulk /\ AttachedUpTo(i - 1)
  BY DEF Typed, Aliases
<1>1. Typed'
  BY <1>0, InputKeeps DEF Typed, Labels, PerSource, Src
<1>2. DOMAIN attached' = {Src0(j) : j \in 1 .. i}
  <2>1. DOMAIN attached' = DOMAIN attached \cup {Src0(i)}
    BY DEF With
  <2>2. 1 .. i = (1 .. i - 1) \cup {i}
    BY <1>0 DEF Src
  <2> QED BY <1>0, <2>1, <2>2 DEF AttachedUpTo
<1>3. ASSUME NEW j \in 1 .. i PROVE attached'[Src0(j)] = sources[j]
  <2>1. CASE j = i
    BY <2>1, <1>2 DEF With
  <2>2. CASE j # i
    <3>1. j \in 1 .. i - 1
      BY <1>0, <2>2 DEF Src
    <3>2. Src0(j) # Src0(i) /\ Src0(j) \in DOMAIN attached /\ attached[Src0(j)] = sources[j]
      BY <1>0, <2>2, <3>1 DEF Src0, AttachedUpTo
    <3> QED BY <3>2 DEF With
  <2> QED BY <2>1, <2>2
<1>4. /\ i' - 1 = i /\ i \in 1 .. N /\ UNCHANGED sources
      /\ (i # N /\ pc' = "attachAll") \/ (i = N /\ pc' = "insertAll")
  BY <1>0 DEF Src, input
<1>7. /\ DOMAIN attached' = {Src0(j) : j \in 1 .. i' - 1}
      /\ \A j \in 1 .. i' - 1 : attached'[Src0(j)] = sources'[j]
  BY <1>2, <1>3, <1>4
<1>8. Aliases'
  BY <1>0, <1>4, <1>7 DEF Aliases, AttachedUpTo
<1>5. Past' = {} /\ Past = {}
  BY DEF Past
<1>6. Brought' /\ Tallied'
  BY <1>5, <1>0, InputKeeps DEF Brought, Tallied, Bad, PerSource, input
<1> QED BY <1>1, <1>6, <1>8

\* merge_all gives up: the fallback begins with a clean connection.
LEMMA BulkFailsKeeps == ASSUME IInv, BulkFails PROVE IInv'
<1> USE NAssumption DEF IInv, BulkFails, Throw, Goto
<1>0. /\ bulk /\ pc \in {"attachAll", "insertAll"} /\ ~bulk' /\ bulk' \in BOOLEAN /\ pc' = "attach" /\ i' = 1
      /\ UNCHANGED <<input, rows, merged, skipped, kills>> /\ attached' = NoAlias
  BY DEF Aliases
<1>1. Typed'
  BY <1>0, InputKeeps DEF Typed, Labels, PerSource, Src
<1>2. Aliases'
  BY <1>0 DEF Aliases, NoAlias
<1>3. Past' = {} /\ Bad(1 .. i' - 1) = {}
  BY <1>0 DEF Past, Bad
<1>4. Brought'
  BY <1>0, <1>3, InputKeeps DEF Brought, input
<1>5. Tallied'
  BY <1>0, <1>3, FS_EmptySet DEF Tallied, PerSource, Bad, Readable, input
<1> QED BY <1>1, <1>2, <1>4, <1>5

\* The DISTINCT union of everything that is attached is that of all sources.
LEMMA InsertAllKeeps == ASSUME IInv, InsertAll PROVE IInv'
<1> USE NAssumption DEF IInv, InsertAll, AllMerged, Goto
<1>0. /\ bulk /\ bulk' /\ pc' = "exit" /\ i' = 1 /\ merged' = N /\ skipped' = 0 /\ skipped = 0
      /\ attached' = NoAlias /\ UNCHANGED <<input, kills>> /\ AttachedUpTo(N)
  BY DEF Aliases, Tallied
<1>1. Typed'
  BY <1>0, InputKeeps DEF Typed, Labels, PerSource, Src
<1>2. Aliases'
  BY <1>0 DEF Aliases, NoAlias
<1>3. \A f : f \in Range(attached) <=> \E k \in Src : f = sources[k]
  BY <1>0 DEF Range, AttachedUpTo, Src
<1>4. rows' = rows \cup ReadableRows
  BY <1>3 DEF ReadableRows
<1>5. \A k \in Src : Readable(sources[k])
  BY <1>3
<1>6. Brought'
  BY <1>0, <1>4, InputKeeps, BroughtRows DEF Brought, Past, input
<1>7. Bad(Src)' = {} /\ Past' = Src
  BY <1>0, <1>5, InputKeeps DEF Bad, Past
<1>8. Tallied'
  BY <1>0, <1>7, FS_EmptySet DEF Tallied, PerSource
<1> QED BY <1>1, <1>2, <1>6, <1>8

\* The fallback attaches one source at a time, under one alias for all.
LEMMA AttachKeeps == ASSUME IInv, Attach PROVE IInv'
<1> USE NAssumption DEF IInv, Attach, Goto
<1>1. Typed'
  BY InputKeeps DEF Typed, Labels, PerSource, Src
<1>2. Aliases'
  BY DEF Aliases, With, CanAttach, input
<1>3. Past' = Past
  BY DEF Past
<1>4. Brought'
  BY <1>3, InputKeeps DEF Brought, input
<1>5. Tallied'
  BY <1>3, InputKeeps DEF Tallied, PerSource
<1> QED BY <1>1, <1>2, <1>4, <1>5

\* A source that does not attach or has no cap_events, one after the other: it
\* ends merge_all, or it is skipped for good.
LEMMA ThrowKeeps ==
  ASSUME IInv, pc \in {"attach", "insert"}, ~Readable(sources[i]), Throw,
         DOMAIN attached' = {}, UNCHANGED <<input, rows, merged, kills>>
  PROVE  IInv'
<1> USE NAssumption DEF IInv
<1>0. i \in Src /\ merged \in Nat /\ skipped \in Nat
  BY DEF Typed, PerSource
<1>1. CASE bulk
  <2>0. /\ ~bulk' /\ bulk' \in BOOLEAN /\ pc' = "attach" /\ i' = 1 /\ UNCHANGED skipped
        /\ merged = 0 /\ skipped = 0
    BY <1>1 DEF Throw, Goto, Tallied
  <2>1. Typed'
    BY <2>0, InputKeeps DEF Typed, Labels, PerSource, Src
  <2>2. Aliases'
    BY <2>0 DEF Aliases
  <2>3. Past' = {} /\ Bad(1 .. i' - 1) = {}
    BY <2>0 DEF Past, Bad
  <2>4. Brought'
    BY <2>0, <2>3, InputKeeps DEF Brought, input
  <2>5. Tallied'
    BY <2>0, <2>3, FS_EmptySet DEF Tallied, PerSource, Bad, Readable, input
  <2> QED BY <2>1, <2>2, <2>4, <2>5
<1>2. CASE ~bulk
  <2>0. /\ ~bulk' /\ bulk' \in BOOLEAN /\ skipped' = skipped + 1 /\ i' = i + 1
        /\ pc' = IF i = N THEN "exit" ELSE "attach"
    BY <1>2, <1>0 DEF Throw, Goto, Typed
  <2>1. Typed'
    BY <1>0, <2>0, InputKeeps DEF Typed, Labels, PerSource, Src
  <2>2. Aliases'
    BY <2>0 DEF Aliases
  <2>3. Past' = 1 .. i /\ Past = 1 .. i - 1
    BY <1>0, <2>0 DEF Past, Src
  <2>4. has[sources[i]] = {}
    BY <1>0 DEF Typed, Input
  <2>5. Brought'
    BY <1>0, <2>3, <2>4, InputKeeps DEF Brought, input, Src
  <2>6. skipped = Cardinality(Bad(1 .. i - 1)) /\ merged = i - 1 - skipped
    BY <1>2 DEF Tallied, PerSource
  <2>7. Cardinality(Bad(1 .. i)) = skipped + 1
    BY <1>0, <2>6, BadGrows DEF Src
  <2>8. CASE i = N
    <3>1. pc' = "exit" /\ Bad(Src)' = Bad(1 .. i)
      BY <2>0, <2>8, InputKeeps DEF Src
    <3>2. Tallied'
      BY <1>0, <2>0, <2>6, <2>7, <2>8, <3>1 DEF Tallied, PerSource
    <3> QED BY <2>1, <2>2, <2>5, <3>2
  <2>9. CASE i # N
    <3>1. pc' = "attach" /\ i' - 1 = i /\ Bad(1 .. i - 1)' = Bad(1 .. i)
      BY <1>0, <2>0, <2>9 DEF Bad, Readable, input, Src
    <3>2. Tallied'
      BY <1>0, <2>0, <2>6, <2>7, <3>1 DEF Tallied, PerSource
    <3> QED BY <2>1, <2>2, <2>5, <3>2
  <2> QED BY <2>8, <2>9
<1> QED BY <1>1, <1>2 DEF Typed

\* A source that cannot be attached is skipped and counted.
LEMMA AttachFailsKeeps == ASSUME IInv, AttachFails PROVE IInv'
<1>1. DOMAIN attached = {} /\ ~Readable(sources[i])
  BY DEF IInv, AttachFails, Aliases, CanAttach, Readable
<1> QED BY <1>1, ThrowKeeps DEF AttachFails

\* So is one that attaches and has no table to read.
LEMMA InsertFailsKeeps == ASSUME IInv, InsertFails PROVE IInv'
<1>1. DOMAIN attached' = {} /\ ~Readable(sources[i])
  BY DEF IInv, InsertFails, Aliases, Without
<1> QED BY <1>1, ThrowKeeps DEF InsertFails

\* The rows of a readable source go in.
LEMMA InsertKeeps == ASSUME IInv, Insert PROVE IInv'
<1> USE NAssumption DEF IInv, Insert, Goto
<1>0. i \in Src
  BY DEF Typed, PerSource
<1>1. Typed'
  BY InputKeeps DEF Typed, Labels, PerSource, Src
<1>2. Aliases'
  BY InputKeeps DEF Aliases, input
<1>3. Past' = 1 .. i /\ Past = 1 .. i - 1 /\ 1 .. i = (1 .. i - 1) \cup {i}
  BY <1>0 DEF Past, Src
<1>4. Brought'
  BY <1>0, <1>3, InputKeeps, BroughtRows DEF Brought, input
<1>5. Bad(1 .. i) = Bad(1 .. i - 1)
  BY <1>0, BadGrows DEF Src
<1>6. Tallied'
  BY <1>3, <1>5 DEF Tallied, PerSource, Bad, Readable, input
<1> QED BY <1>1, <1>2, <1>4, <1>6

\* The alias is free for the next source.
LEMMA DetachKeeps == ASSUME IInv, Detach PROVE IInv'
<1> USE NAssumption DEF IInv
<1>0. /\ i \in Src /\ merged \in Nat /\ skipped \in Nat /\ bulk \in BOOLEAN
      /\ pc = "detach" /\ Readable(sources[i])
      /\ UNCHANGED <<input, rows, bulk, skipped, kills>>
  BY DEF Detach, Typed, PerSource, Aliases
<1>1. DOMAIN attached' = {}
  BY DEF Detach, Aliases, Without
<1>2. \/ i < N /\ pc' = "attach" /\ i' = i + 1
      \/ i = N /\ pc' = "exit" /\ i' = 1
  BY DEF Detach, AllMerged, Goto
<1>3. merged' = IF ~bulk THEN merged + 1 ELSE IF i = N THEN N ELSE merged
  BY <1>0 DEF Detach, AllMerged
<1>4. Typed'
  BY <1>0, <1>2, <1>3, InputKeeps DEF Typed, Labels, PerSource, Src
<1>5. Aliases'
  BY <1>1, <1>2 DEF Aliases
<1>6. Past' = 1 .. i /\ Past = 1 .. i
  BY <1>0, <1>2 DEF Past, Src
<1>7. Brought'
  BY <1>0, <1>6, InputKeeps DEF Brought, input
<1>8. Bad(1 .. i) = Bad(1 .. i - 1)
  BY <1>0, BadGrows DEF Src
<1>9. CASE bulk
  <2>1. Bad(1 .. i) = {} /\ bulk' /\ merged = 0 /\ skipped = 0
    BY <1>0, <1>6, <1>9 DEF Tallied
  <2>2. Cardinality(Bad(1 .. i)) = 0
    BY <2>1, FS_EmptySet
  <2>3. Bad(Past)' = Bad(1 .. i)
    BY <1>0, <1>6 DEF Bad, Readable, input
  <2>4. Tallied'
    BY <1>0, <1>2, <1>3, <1>9, <2>1, <2>2, <2>3 DEF Tallied, Src, Bad, Readable, input
  <2> QED BY <1>4, <1>5, <1>7, <2>4
<1>10. CASE ~bulk
  <2>1. skipped = Cardinality(Bad(1 .. i)) /\ merged = i - 1 - skipped
    BY <1>0, <1>8, <1>10 DEF Tallied, PerSource
  <2>2. Bad(Past)' = Bad(1 .. i) /\ (pc' = "attach" => Bad(1 .. i - 1)' = Bad(1 .. i))
    BY <1>0, <1>2, <1>6 DEF Bad, Readable, input, Src
  <2>3. Tallied'
    BY <1>0, <1>2, <1>3, <1>10, <2>1, <2>2 DEF Tallied, Src, Past, PerSource
  <2> QED BY <1>4, <1>5, <1>7, <2>3
<1> QED BY <1>0, <1>9, <1>10

\* A killed merge is started again on what it left.
LEMMA KillKeeps == ASSUME IInv, Kill PROVE IInv'
<1> USE NAssumption DEF IInv, Kill, Goto
<1>1. Typed'
  BY InputKeeps DEF Typed, Labels, PerSource, Src
<1>2. Aliases'
  BY DEF Aliases, NoAlias
<1>3. Past' = {}
  BY DEF Past
<1>4. Brought'
  BY <1>3, InputKeeps DEF Brought, input
<1>5. Tallied'
  BY <1>3 DEF Tallied, Bad, PerSource
<1> QED BY <1>1, <1>2, <1>4, <1>5

\* The steps of mas_merge and a kill, together.
LEMMA StepPreserves == IInv /\ [Next]_vars => IInv'
<1> SUFFICES ASSUME IInv, [Next]_vars PROVE IInv'
  OBVIOUS
<1>1. CASE UNCHANGED vars
  BY <1>1 DEF vars, IInv, Typed, Aliases, AttachedUpTo, Brought, Tallied, Past, Bad, Readable,
              Input, ReadableRows, Src0
<1> QED BY <1>1, OpenKeeps, AttachAllKeeps, BulkFailsKeeps, InsertAllKeeps, AttachKeeps,
           AttachFailsKeeps, InsertKeeps, InsertFailsKeeps, DetachKeeps, KillKeeps
        DEF Next, Step
-----------------------------------------------------------------------------

\* The inductive invariant holds in every reachable state.
THEOREM Invariance == Spec => []IInv
  BY InitEstablishes, StepPreserves, PTL DEF Spec

\* mas_merge ends with exactly the rows the destination had and those of every
\* readable source, by merge_all or by its fallback, whatever the sources,
\* however often one is named and however often the command was killed and run
\* again; at no moment does the destination hold any other row.
THEOREM MergedIsTheUnion == Spec => []MergeIsTheUnion
<1>1. IInv => MergeIsTheUnion
  <2> SUFFICES ASSUME IInv, pc = "exit" PROVE ReadableRows \subseteq rows
    BY DEF IInv, Brought, MergeIsTheUnion
  <2>1. \A k \in Src : has[sources[k]] \subseteq rows
    BY DEF IInv, Brought, Past
  <2> QED BY <2>1 DEF ReadableRows
<1> QED BY <1>1, Invariance, PTL

\* The summary counts every source once, the skipped ones are the unreadable
\* ones, and the exit status is 0 exactly when something was merged.
THEOREM SourcesAreCounted == Spec => []EverySourceCounted
<1>1. IInv => EverySourceCounted
  <2> SUFFICES ASSUME IInv, pc = "exit" PROVE EverySourceCounted
    BY DEF EverySourceCounted
  <2>1. skipped = Cardinality(Bad(Src)) /\ merged = N - skipped
    BY DEF IInv, Tallied
  <2>2. skipped \in 0 .. N /\ (merged = 0 <=> \A k \in Src : ~Readable(sources[k]))
    BY <2>1, AllBad, NAssumption
  <2>3. merged + skipped = N
    BY <2>1, <2>2, NAssumption
  <2>4. ExitStatus = 0 <=> merged # 0
    BY DEF ExitStatus
  <2> QED BY <2>1, <2>2, <2>3, <2>4 DEF EverySourceCounted, Bad
<1> QED BY <1>1, Invariance, PTL
=============================================================================
