-------------------------- MODULE ParquetPublishProofs --------------------------
(***************************************************************************)
(* Proofs about ParquetPublish, for any processes, threads, destinations,  *)
(* batches and number of publishes: what a reader finds is whole, what was *)
(* acknowledged stays, and a failed publish leaves no temporary file.      *)
(***************************************************************************)
EXTENDS ParquetPublish, TLAPS

\* The publishes that still have a temporary file of their own.
Copying == {"copying", "copied", "synced"}

Stores == [dest : Dests \cup {NoFile}, tried : 0 .. NumBatches, buf : SUBSET Batches,
           failed : BOOLEAN, closed : BOOLEAN]

Typed ==
  /\ proc \in [Procs -> {"new", "up", "gone"}]
  /\ token \in [Procs -> Nat]
  /\ pc \in [Writers -> {"idle", "open"} \cup Publishing]
  /\ store \in [Writers -> Stores]
  /\ mine \in [Writers -> (Procs \X Nat) \cup {NoFile}]
  /\ \A t \in DOMAIN temp : t \in Procs \X Nat /\ temp[t] \in Content
  /\ final \in [Dests -> Content \cup {NoFile}]
  /\ onDisk \in [Dests -> Content \cup {NoFile}]
  /\ acked \in SUBSET Dests

\* A store holds every batch it was given, unless it has refused one.
Buffered ==
  \A w \in Writers : pc[w] # "idle" =>
    /\ proc[w[1]] = "up"
    /\ store[w].dest \in Dests
    /\ ~store[w].failed /\ ~store[w].closed => store[w].buf = 1 .. store[w].tried

\* Names come from the process and its counter: no two publishes share one, and
\* none has been used before.
NamesApart ==
  /\ \A t \in DOMAIN temp : t[2] < token[t[1]]
  /\ \A w \in Writers : pc[w] \in Copying =>
       mine[w] \in Procs \X Nat /\ mine[w][1] = w[1] /\ mine[w][2] < token[w[1]]
  /\ \A v, w \in Writers : pc[v] \in Copying /\ pc[w] \in Copying /\ mine[v] = mine[w] => v = w

\* A temporary file is what its writer has made of it so far.
Copies ==
  \A w \in Writers : pc[w] \in Copying /\ mine[w] \in DOMAIN temp =>
    /\ temp[mine[w]].rows = Batches /\ temp[mine[w]].dest = store[w].dest
    /\ pc[w] \in {"copied", "synced"} => temp[mine[w]].whole
    /\ pc[w] = "synced" => temp[mine[w]].synced

\* NoLitter, with the owner in the midst of its publish.
Owned ==
  \A t \in DOMAIN temp :
    proc[t[1]] = "gone" \/ \E w \in Writers : pc[w] \in Copying /\ mine[w] = t

\* A file that was renamed into place was whole and synced before.
Sound(d, c) == c # NoFile => c.whole /\ c.synced /\ c.rows = Batches /\ c.dest = d

Visible ==
  /\ \A d \in Dests : Sound(d, final[d]) /\ Sound(d, onDisk[d])
  /\ \A d \in acked : final[d] # NoFile /\ onDisk[d] # NoFile
  /\ \A w \in Writers : pc[w] = "renamed" => final[store[w].dest] # NoFile

IInv == Typed /\ Buffered /\ NamesApart /\ Copies /\ Owned /\ Visible

-----------------------------------------------------------------------------
\* A writer is a thread of a process.
LEMMA WriterIsOfAProcess == \A w \in Writers : w[1] \in Procs
  BY DEF Writers

\* There is no file at the start, and nobody is writing.
LEMMA InitEstablishes == Init => IInv
<1> SUFFICES ASSUME Init PROVE IInv
  OBVIOUS
<1> USE NumBatchesAssumption, DestsAssumption DEF Init
<1>1. Typed
  BY DEF Typed, Stores, Empty
<1>2. Buffered /\ NamesApart /\ Copies /\ Owned
  BY DEF Buffered, NamesApart, Copies, Owned, Copying
<1>3. Visible
  BY DEF Visible, Sound
<1> QED BY <1>1, <1>2, <1>3 DEF IInv

-----------------------------------------------------------------------------
(* The store *)

\* Before the publish, only a writer's place and its store change.
LEMMA StoreStep ==
  ASSUME IInv, NEW w \in Writers, Runs(w), pc[w] \in {"idle", "open"},
         NEW label \in {"idle", "open"}, pc' = [pc EXCEPT ![w] = label],
         NEW s \in Stores, store' = [store EXCEPT ![w] = s],
         label = "open" =>
           s.dest \in Dests /\ (~s.failed /\ ~s.closed => s.buf = 1 .. s.tried),
         UNCHANGED <<proc, token, mine, temp, final, onDisk, acked, power>>
  PROVE  IInv'
<1>1. Typed'
  BY DEF IInv, Typed
<1>2. Buffered'
  BY DEF IInv, Typed, Buffered, Runs
<1>3. \A v \in Writers : pc'[v] \in Copying \cup {"renamed"} =>
        v # w /\ pc'[v] = pc[v] /\ store'[v] = store[v]
  BY DEF IInv, Typed, Copying
<1>4. \A v \in Writers : pc[v] \in Copying => pc'[v] = pc[v]
  BY DEF IInv, Typed, Copying
<1>5. NamesApart' /\ Copies' /\ Owned' /\ Visible'
  BY <1>3, <1>4 DEF IInv, NamesApart, Copies, Owned, Visible, Copying
<1> QED BY <1>1, <1>2, <1>5 DEF IInv

\* A store with one field set is a store.
LEMMA StoreFields ==
  ASSUME NEW s \in Stores
  PROVE  /\ \A d \in Dests : [s EXCEPT !.dest = d] \in Stores
         /\ \A n \in 0 .. NumBatches : [s EXCEPT !.tried = n] \in Stores
         /\ \A b \in SUBSET Batches : [s EXCEPT !.buf = b] \in Stores
         /\ [s EXCEPT !.failed = TRUE] \in Stores
         /\ [s EXCEPT !.closed = TRUE] \in Stores
BY DEF Stores

\* What happens to a store before it is published, and when it is destroyed.
LEMMA StoreKeeps ==
  ASSUME IInv, NEW w \in Writers,
         \/ \E d \in Days : Open(w, d)
         \/ \E d \in Exports : OpenExport(w, d)
         \/ Accept(w) \/ WriteThrows(w) \/ Abandon(w) \/ Destroy(w) \/ CloseRefused(w)
  PROVE  IInv'
<1> USE NumBatchesAssumption, DestsAssumption
<1>0. /\ pc \in [Writers -> {"idle", "open"} \cup Publishing] /\ store \in [Writers -> Stores]
      /\ store[w] \in Stores
  BY DEF IInv, Typed
<1>e. Empty \in Stores /\ NumBatches \in 0 .. NumBatches
  BY DEF Empty, Stores
<1>1. ASSUME NEW d \in Days, Open(w, d) PROVE IInv'
  <2>1. [Empty EXCEPT !.dest = d] \in Stores
    BY <1>e, StoreFields DEF Dests
  <2>2. [Empty EXCEPT !.dest = d].dest \in Dests
    BY DEF Empty, Dests
  <2>3. [Empty EXCEPT !.dest = d].buf = 1 .. [Empty EXCEPT !.dest = d].tried
    BY DEF Empty
  <2> QED BY <1>1, <2>1, <2>2, <2>3, StoreStep DEF Open
<1>2. ASSUME NEW d \in Exports, OpenExport(w, d) PROVE IInv'
  <2> DEFINE s == [Empty EXCEPT !.dest = d, !.tried = NumBatches, !.buf = Batches]
  <2>1. s \in Stores
    <3> DEFINE s1 == [Empty EXCEPT !.dest = d]
               s2 == [s1 EXCEPT !.tried = NumBatches]
    <3>1. s1 \in Stores
      BY <1>e, StoreFields DEF Dests
    <3>2. s2 \in Stores
      <4> HIDE DEF s1
      <4> QED BY <1>e, <3>1, StoreFields
    <3>3. [s2 EXCEPT !.buf = Batches] \in Stores
      <4> HIDE DEF s2
      <4> QED BY <3>2, StoreFields
    <3> QED BY <3>3
  <2>2. s.dest \in Dests /\ s.buf = 1 .. s.tried
    BY DEF Empty, Dests, Batches
  <2>3. /\ Runs(w) /\ pc[w] = "idle" /\ pc' = [pc EXCEPT ![w] = "open"]
        /\ store' = [store EXCEPT ![w] = s]
        /\ UNCHANGED <<proc, token, mine, temp, final, onDisk, acked, power>>
    BY <1>2 DEF OpenExport
  <2> HIDE DEF s
  <2> QED BY <2>1, <2>2, <2>3, StoreStep
<1>3. ASSUME InUse(w), pc' = pc, NEW s \in Stores, store' = [store EXCEPT ![w] = s],
             s.dest = store[w].dest,
             ~s.failed /\ ~s.closed => s.buf = 1 .. s.tried,
             UNCHANGED <<proc, token, mine, temp, final, onDisk, acked, power>>
      PROVE  IInv'
  <2>1. pc' = [pc EXCEPT ![w] = "open"] /\ pc[w] = "open" /\ Runs(w)
    BY <1>0, <1>3 DEF InUse
  <2>2. store[w].dest \in Dests
    BY <2>1 DEF IInv, Buffered
  <2> QED BY <1>3, <2>1, <2>2, StoreStep
<1>4. CASE Accept(w)
  <2> DEFINE s == [store[w] EXCEPT !.tried = @ + 1, !.buf = @ \cup {store[w].tried + 1}]
  <2>1. s \in Stores
    <3>1. /\ store[w].tried + 1 \in 0 .. NumBatches
          /\ store[w].buf \cup {store[w].tried + 1} \in SUBSET Batches
      BY <1>0, <1>4 DEF Accept, Stores, Batches
    <3> QED BY <1>0, <3>1 DEF Stores
  <2>2. store' = [store EXCEPT ![w] = s]
    BY <1>0, <1>4 DEF Accept
  <2>3. ~store[w].failed => s.buf = 1 .. s.tried
    <3>1. ASSUME ~store[w].failed PROVE store[w].buf = 1 .. store[w].tried
      BY <3>1, <1>4 DEF Accept, InUse, IInv, Buffered
    <3> QED BY <3>1, <1>0 DEF Stores
  <2>4. s.dest = store[w].dest /\ s.failed = store[w].failed
    BY <1>0 DEF Stores
  <2> HIDE DEF s
  <2> QED BY <1>3, <1>4, <2>1, <2>2, <2>3, <2>4 DEF Accept
<1>5. CASE WriteThrows(w)
  <2> DEFINE s == [store[w] EXCEPT !.tried = @ + 1, !.failed = TRUE]
  <2>1. s \in Stores
    <3> DEFINE s1 == [store[w] EXCEPT !.tried = @ + 1]
    <3>1. s1 \in Stores
      BY <1>0, <1>5 DEF WriteThrows, Stores
    <3>2. [s1 EXCEPT !.failed = TRUE] \in Stores
      <4> HIDE DEF s1
      <4> QED BY <3>1, StoreFields
    <3> QED BY <3>2
  <2>3. s.failed /\ s.dest = store[w].dest
    BY <1>0 DEF Stores
  <2>2. store' = [store EXCEPT ![w] = s]
    BY <1>0, <1>5 DEF WriteThrows
  <2> HIDE DEF s
  <2> QED BY <1>3, <1>5, <2>1, <2>2, <2>3 DEF WriteThrows
<1>6. CASE Abandon(w)
  <2> DEFINE s == [store[w] EXCEPT !.tried = NumBatches, !.closed = TRUE, !.buf = {}]
  <2>1. s \in Stores
    <3> DEFINE s1 == [store[w] EXCEPT !.tried = NumBatches]
               s2 == [s1 EXCEPT !.closed = TRUE]
    <3>1. s1 \in Stores
      BY <1>0, <1>e, StoreFields
    <3>2. s2 \in Stores
      <4> HIDE DEF s1
      <4> QED BY <3>1, StoreFields
    <3>3. [s2 EXCEPT !.buf = {}] \in Stores
      <4> HIDE DEF s2
      <4> QED BY <3>2, StoreFields
    <3> QED BY <3>3
  <2>2. store' = [store EXCEPT ![w] = s]
    BY <1>0, <1>6 DEF Abandon
  <2>3. s.closed /\ s.dest = store[w].dest
    BY <1>0 DEF Stores
  <2> HIDE DEF s
  <2> QED BY <1>3, <1>6, <2>1, <2>2, <2>3 DEF Abandon
<1>7. CASE Destroy(w)
  BY <1>7, <1>e, StoreStep DEF Destroy, InUse
<1>8. CASE CloseRefused(w)
  <2> DEFINE s == [store[w] EXCEPT !.closed = TRUE]
  <2>1. s \in Stores
    BY <1>0, StoreFields
  <2>3. s.closed /\ s.dest = store[w].dest
    BY <1>0 DEF Stores
  <2>2. store' = [store EXCEPT ![w] = s]
    BY <1>0, <1>8 DEF CloseRefused
  <2> HIDE DEF s
  <2> QED BY <1>3, <1>8, <2>1, <2>2, <2>3 DEF CloseRefused, Closable
<1> QED BY <1>1, <1>2, <1>4, <1>5, <1>6, <1>7, <1>8

-----------------------------------------------------------------------------
(* publish_atomically *)

\* Setting one temporary file leaves the others alone.
LEMMA CloseKeeps == ASSUME IInv, NEW w \in Writers, Close(w) PROVE IInv'
<1> DEFINE name == TempSiblingOf(w[1])
           copy == [dest |-> store[w].dest, by |-> w, rows |-> store[w].buf,
                    whole |-> FALSE, synced |-> FALSE]
<1> USE DEF IInv
<1>1. /\ Closable(w) /\ ~store[w].failed /\ Runs(w) /\ pc[w] = "open"
      /\ mine' = [mine EXCEPT ![w] = name]
      /\ temp' = [t \in DOMAIN temp \cup {name} |-> IF t = name THEN copy ELSE temp[t]]
      /\ token' = [token EXCEPT ![w[1]] = @ + 1]
      /\ store' = [store EXCEPT ![w].closed = TRUE]
      /\ pc' = [pc EXCEPT ![w] = "copying"]
      /\ UNCHANGED <<proc, final, onDisk, acked>>
  BY DEF Close, Closable, InUse
<1>2. /\ name \in Procs \X Nat /\ name[1] = w[1] /\ name[2] = token[w[1]]
      /\ name \notin DOMAIN temp
      /\ w[1] \in Procs /\ token[w[1]] \in Nat
  BY WriterIsOfAProcess DEF TempSiblingOf, Typed, NamesApart
<1>3. copy \in Content /\ copy.rows = Batches /\ copy.dest = store[w].dest
  <2>1. store[w].buf = Batches /\ store[w].dest \in Dests
    BY <1>1 DEF Buffered, Closable, Batches
  <2> QED BY <2>1 DEF Content
<1> HIDE DEF name, copy
<1>4. \A v \in Writers : v # w => pc'[v] = pc[v] /\ mine'[v] = mine[v] /\ store'[v] = store[v]
  BY <1>1 DEF Typed
<1>5. pc'[w] = "copying" /\ mine'[w] = name /\ store'[w] = [store[w] EXCEPT !.closed = TRUE]
  BY <1>1 DEF Typed
<1>6. store'[w] \in Stores /\ store'[w].dest = store[w].dest /\ store'[w].closed
  <2>1. store[w] \in Stores
    BY DEF Typed
  <2>2. [store[w] EXCEPT !.closed = TRUE] \in Stores
    BY <2>1, StoreFields
  <2>3. [store[w] EXCEPT !.closed = TRUE].dest = store[w].dest
    BY <2>1 DEF Stores
  <2>4. [store[w] EXCEPT !.closed = TRUE].closed
    BY <2>1 DEF Stores
  <2> QED BY <1>5, <2>2, <2>3, <2>4
<1>7. /\ DOMAIN temp' = DOMAIN temp \cup {name} /\ temp'[name] = copy
      /\ \A t \in DOMAIN temp : temp'[t] = temp[t]
  BY <1>1, <1>2
<1>8. \A p \in Procs : token'[p] \in Nat /\ token[p] <= token'[p]
  BY <1>1, <1>2 DEF Typed
<1>9. token'[w[1]] = token[w[1]] + 1
  BY <1>1, <1>2 DEF Typed
<1>10. Typed'
  <2>1. token' \in [Procs -> Nat]
    BY <1>1, <1>2 DEF Typed
  <2>2. store' \in [Writers -> Stores]
    BY <1>1, <1>4, <1>6 DEF Typed
  <2>3. mine' \in [Writers -> (Procs \X Nat) \cup {NoFile}]
    BY <1>1, <1>2 DEF Typed
  <2>4. pc' \in [Writers -> {"idle", "open"} \cup Publishing]
    BY <1>1 DEF Typed, Publishing
  <2>5. \A t \in DOMAIN temp' : t \in Procs \X Nat /\ temp'[t] \in Content
    BY <1>2, <1>3, <1>7 DEF Typed
  <2> QED BY <1>1, <2>1, <2>2, <2>3, <2>4, <2>5 DEF Typed
<1>11. Buffered'
  BY <1>1, <1>4, <1>5, <1>6 DEF Buffered, Runs
<1>12. NamesApart'
  <2>1. \A t \in DOMAIN temp' : t[2] < token'[t[1]]
    BY <1>2, <1>7, <1>8, <1>9 DEF NamesApart, Typed
  <2>2. \A v \in Writers : pc'[v] \in Copying =>
          mine'[v] \in Procs \X Nat /\ mine'[v][1] = v[1] /\ mine'[v][2] < token'[v[1]]
    BY <1>2, <1>4, <1>5, <1>8, <1>9, WriterIsOfAProcess DEF NamesApart, Typed
  <2>3. \A v \in Writers : v # w /\ pc'[v] \in Copying => mine'[v] # name
    BY <1>2, <1>4 DEF NamesApart, Typed
  <2> QED BY <2>1, <2>2, <2>3, <1>4, <1>5 DEF NamesApart
<1>13. Copies'
  <2>1. ASSUME NEW v \in Writers, v # w, pc'[v] \in Copying, mine'[v] \in DOMAIN temp'
        PROVE  /\ pc[v] \in Copying /\ mine[v] \in DOMAIN temp
               /\ temp'[mine'[v]] = temp[mine[v]]
    <3>1. pc[v] \in Copying /\ mine'[v] = mine[v] /\ mine[v] # name
      BY <1>2, <1>4, <2>1 DEF NamesApart, Typed
    <3> QED BY <1>7, <2>1, <3>1
  <2>2. ASSUME NEW v \in Writers, pc'[v] \in Copying, mine'[v] \in DOMAIN temp'
        PROVE  /\ temp'[mine'[v]].rows = Batches /\ temp'[mine'[v]].dest = store'[v].dest
               /\ pc'[v] \in {"copied", "synced"} => temp'[mine'[v]].whole
               /\ pc'[v] = "synced" => temp'[mine'[v]].synced
    <3>1. CASE v = w
      BY <3>1, <1>3, <1>5, <1>6, <1>7
    <3>2. CASE v # w
      BY <3>2, <2>2, <2>1, <1>4 DEF Copies
    <3> QED BY <3>1, <3>2
  <2> QED BY <2>2 DEF Copies
<1>14. Owned'
  BY <1>1, <1>4, <1>5, <1>7 DEF Owned, Copying
<1>15. Visible'
  BY <1>1, <1>4, <1>5, <1>6 DEF Visible
<1> QED BY <1>10, <1>11, <1>12, <1>13, <1>14, <1>15

\* A step of a publish on its own temporary file, or on what is left of it.
LEMMA CopyStep ==
  ASSUME IInv, NEW w \in Writers, pc[w] \in {"copying", "copied"}, mine[w] \in DOMAIN temp,
         NEW label \in {"copied", "synced"}, pc' = [pc EXCEPT ![w] = label],
         NEW c \in Content, temp' = [temp EXCEPT ![mine[w]] = c],
         c.rows = temp[mine[w]].rows, c.dest = temp[mine[w]].dest, c.whole,
         label = "synced" => c.synced,
         UNCHANGED <<proc, token, store, mine, final, onDisk, acked>>
  PROVE  IInv'
<1> USE DEF IInv
<1>1. \A v \in Writers : v # w => pc'[v] = pc[v]
  BY DEF Typed
<1>2. pc'[w] = label /\ pc[w] \in Copying /\ pc'[w] \in Copying
  BY DEF Typed, Copying
<1>3. DOMAIN temp' = DOMAIN temp /\ temp'[mine[w]] = c
  OBVIOUS
<1>4. \A t \in DOMAIN temp : t # mine[w] => temp'[t] = temp[t]
  OBVIOUS
<1>5. Typed'
  BY <1>3, <1>4 DEF Typed, Publishing
<1>6. Buffered'
  BY <1>1, <1>2 DEF Buffered, Copying
<1>7. NamesApart'
  BY <1>1, <1>2, <1>3 DEF NamesApart
<1>8. Copies'
  <2>1. ASSUME NEW v \in Writers, v # w, pc[v] \in Copying
        PROVE  mine[v] # mine[w]
    BY <1>2, <2>1 DEF NamesApart
  <2>2. c.rows = Batches /\ c.dest = store[w].dest
    BY <1>2 DEF Copies
  <2> QED BY <1>1, <1>2, <1>3, <1>4, <2>1, <2>2 DEF Copies
<1>9. Owned'
  BY <1>1, <1>2, <1>3 DEF Owned
<1>10. Visible'
  BY <1>1 DEF Visible, Sound
<1> QED BY <1>5, <1>6, <1>7, <1>8, <1>9, <1>10

\* The copy to the temporary, and its fsync.
LEMMA CopyKeeps ==
  ASSUME IInv, NEW w \in Writers, CopyEnds(w) \/ FsyncFile(w)
  PROVE  IInv'
<1>1. mine[w] \in DOMAIN temp /\ temp[mine[w]] \in Content
  BY DEF CopyEnds, FsyncFile, IInv, Typed
<1>2. CASE CopyEnds(w)
  <2> DEFINE c == [temp[mine[w]] EXCEPT !.whole = TRUE]
  <2>1. c \in Content /\ c.whole /\ c.rows = temp[mine[w]].rows /\ c.dest = temp[mine[w]].dest
    BY <1>1 DEF Content
  <2>2. /\ temp' = [temp EXCEPT ![mine[w]] = c] /\ pc' = [pc EXCEPT ![w] = "copied"]
        /\ pc[w] = "copying"
        /\ UNCHANGED <<proc, token, store, mine, final, onDisk, acked>>
    BY <1>2 DEF CopyEnds
  <2> HIDE DEF c
  <2> QED BY <1>1, <2>1, <2>2, CopyStep
<1>3. CASE FsyncFile(w)
  <2> DEFINE c == [temp[mine[w]] EXCEPT !.synced = TRUE]
  <2>1. c \in Content /\ c.synced /\ c.rows = temp[mine[w]].rows /\ c.dest = temp[mine[w]].dest
    BY <1>1 DEF Content
  <2>2. /\ temp' = [temp EXCEPT ![mine[w]] = c] /\ pc' = [pc EXCEPT ![w] = "synced"]
        /\ pc[w] = "copied"
        /\ UNCHANGED <<proc, token, store, mine, final, onDisk, acked>>
    BY <1>3 DEF FsyncFile
  <2>3. c.whole
    <3>1. temp[mine[w]].whole
      BY <1>1, <2>2 DEF IInv, Copies, Copying
    <3> QED BY <1>1, <3>1 DEF Content
  <2> HIDE DEF c
  <2> QED BY <1>1, <2>1, <2>2, <2>3, CopyStep
<1> QED BY <1>2, <1>3

\* A temporary file goes, and with it its writer's claim on the name.
LEMMA TempGoes ==
  ASSUME IInv, NEW w \in Writers, pc[w] \in Copying,
         NEW label \in {"renamed", "open"}, pc' = [pc EXCEPT ![w] = label],
         temp' = Restrict(temp, DOMAIN temp \ {mine[w]}),
         mine' = mine \/ mine' = [mine EXCEPT ![w] = NoFile],
         UNCHANGED <<proc, token, store, acked>>
  PROVE  /\ Buffered' /\ NamesApart' /\ Copies' /\ Owned'
         /\ pc' \in [Writers -> {"idle", "open"} \cup Publishing]
         /\ mine' \in [Writers -> (Procs \X Nat) \cup {NoFile}]
         /\ \A t \in DOMAIN temp' : t \in Procs \X Nat /\ temp'[t] \in Content
         /\ \A v \in Writers : v # w => pc'[v] = pc[v]
<1> USE DEF IInv
<1>1. /\ DOMAIN temp' = DOMAIN temp \ {mine[w]}
      /\ \A t \in DOMAIN temp' : temp'[t] = temp[t]
  BY DEF Restrict
<1>2. \A v \in Writers : v # w => pc'[v] = pc[v] /\ mine'[v] = mine[v]
  BY DEF Typed
<1>3. pc'[w] = label /\ label \notin Copying /\ label # "idle" /\ pc[w] # "idle"
  BY DEF Typed, Copying
<1>4. Buffered'
  BY <1>2, <1>3 DEF Buffered
<1>5. NamesApart'
  BY <1>1, <1>2, <1>3 DEF NamesApart
<1>6. Copies'
  <2>1. ASSUME NEW v \in Writers, pc'[v] \in Copying, mine'[v] \in DOMAIN temp'
        PROVE  /\ pc[v] \in Copying /\ mine[v] \in DOMAIN temp
               /\ pc'[v] = pc[v] /\ temp'[mine'[v]] = temp[mine[v]]
    BY <1>1, <1>2, <1>3, <2>1
  <2> QED BY <2>1 DEF Copies
<1>7. Owned'
  <2>1. ASSUME NEW t \in DOMAIN temp', proc[t[1]] # "gone"
        PROVE  \E v \in Writers : pc'[v] \in Copying /\ mine'[v] = t
    <3>1. PICK v \in Writers : pc[v] \in Copying /\ mine[v] = t
      BY <1>1, <2>1 DEF Owned
    <3>2. v # w
      BY <1>1, <3>1
    <3> QED BY <1>2, <3>1, <3>2
  <2> QED BY <2>1 DEF Owned
<1> QED BY <1>1, <1>2, <1>4, <1>5, <1>6, <1>7 DEF Typed, Publishing

\* The rename puts a whole, synced file in the place of another.
LEMMA RenameKeeps == ASSUME IInv, NEW w \in Writers, Rename(w) PROVE IInv'
<1> USE DEF IInv
<1>1. /\ pc[w] = "synced" /\ mine[w] \in DOMAIN temp /\ Runs(w)
      /\ final' = [final EXCEPT ![store[w].dest] = temp[mine[w]]]
      /\ temp' = Restrict(temp, DOMAIN temp \ {mine[w]})
      /\ pc' = [pc EXCEPT ![w] = "renamed"]
      /\ UNCHANGED <<proc, token, store, mine, onDisk, acked>>
  BY DEF Rename
<1>2. /\ Buffered' /\ NamesApart' /\ Copies' /\ Owned'
      /\ pc' \in [Writers -> {"idle", "open"} \cup Publishing]
      /\ mine' \in [Writers -> (Procs \X Nat) \cup {NoFile}]
      /\ \A t \in DOMAIN temp' : t \in Procs \X Nat /\ temp'[t] \in Content
      /\ \A v \in Writers : v # w => pc'[v] = pc[v]
  BY <1>1, TempGoes DEF Copying
<1> DEFINE c == temp[mine[w]]
           d == store[w].dest
<1>3. c \in Content /\ c # NoFile /\ Sound(d, c) /\ d \in Dests
  BY <1>1, NoFileAssumption DEF Typed, Copies, Copying, Sound, Buffered
<1> HIDE DEF c, d
<1>4. /\ final' \in [Dests -> Content \cup {NoFile}] /\ final'[d] = c
      /\ \A e \in Dests : e # d => final'[e] = final[e]
  BY <1>1, <1>3 DEF Typed, c, d
<1>5. Typed'
  BY <1>1, <1>2, <1>4 DEF Typed
<1>6. Visible'
  <2>1. \A e \in Dests : Sound(e, final'[e]) /\ Sound(e, onDisk[e])
    BY <1>3, <1>4 DEF Visible
  <2>2. \A e \in acked : final'[e] # NoFile /\ onDisk[e] # NoFile
    BY <1>3, <1>4 DEF Visible, Typed
  <2>3. \A v \in Writers : pc'[v] = "renamed" => final'[store[v].dest] # NoFile
    BY <1>1, <1>2, <1>3, <1>4 DEF Visible, Buffered, d
  <2> QED BY <1>1, <2>1, <2>2, <2>3 DEF Visible
<1> QED BY <1>2, <1>5, <1>6

\* A publish that fails removes its temporary.
LEMMA PublishThrowsKeeps == ASSUME IInv, NEW w \in Writers, PublishThrows(w) PROVE IInv'
<1> USE DEF IInv
<1>1. /\ pc[w] \in Copying
      /\ temp' = Restrict(temp, DOMAIN temp \ {mine[w]})
      /\ mine' = [mine EXCEPT ![w] = NoFile]
      /\ pc' = [pc EXCEPT ![w] = "open"]
      /\ UNCHANGED <<proc, token, store, final, onDisk, acked>>
  BY DEF PublishThrows, Copying
<1>2. /\ Buffered' /\ NamesApart' /\ Copies' /\ Owned'
      /\ pc' \in [Writers -> {"idle", "open"} \cup Publishing]
      /\ mine' \in [Writers -> (Procs \X Nat) \cup {NoFile}]
      /\ \A t \in DOMAIN temp' : t \in Procs \X Nat /\ temp'[t] \in Content
      /\ \A v \in Writers : v # w => pc'[v] = pc[v]
  BY <1>1, TempGoes
<1>3. pc'[w] = "open"
  BY <1>1 DEF Typed
<1>4. Typed'
  BY <1>1, <1>2 DEF Typed
<1>5. Visible'
  BY <1>1, <1>2, <1>3 DEF Visible
<1> QED BY <1>2, <1>4, <1>5

\* The fsync of the directory makes on disk what is in memory.
LEMMA FsyncParentDirKeeps == ASSUME IInv, NEW w \in Writers, FsyncParentDir(w) PROVE IInv'
<1> USE DEF IInv
<1> DEFINE d == store[w].dest
<1>1. /\ pc[w] = "renamed"
      /\ onDisk' = [onDisk EXCEPT ![d] = final[d]]
      /\ acked' = acked \cup {d}
      /\ pc' = [pc EXCEPT ![w] = "open"]
      /\ mine' = [mine EXCEPT ![w] = NoFile]
      /\ UNCHANGED <<proc, token, store, temp, final>>
  BY DEF FsyncParentDir
<1>2. d \in Dests /\ final[d] # NoFile
  BY <1>1 DEF Buffered, Visible
<1> HIDE DEF d
<1>3. \A v \in Writers : v # w => pc'[v] = pc[v] /\ mine'[v] = mine[v]
  BY <1>1 DEF Typed
<1>4. pc'[w] = "open"
  BY <1>1 DEF Typed
<1>5. /\ onDisk'[d] = final[d] /\ onDisk' \in [Dests -> Content \cup {NoFile}]
      /\ \A e \in Dests : e # d => onDisk'[e] = onDisk[e]
  BY <1>1, <1>2 DEF Typed
<1>6. Typed'
  BY <1>1, <1>2, <1>5 DEF Typed
<1>7. Buffered' /\ NamesApart' /\ Copies' /\ Owned'
  BY <1>1, <1>3, <1>4 DEF Buffered, NamesApart, Copies, Owned, Copying
<1>8. Visible'
  BY <1>1, <1>2, <1>3, <1>4, <1>5 DEF Visible, Typed
<1> QED BY <1>6, <1>7, <1>8

-----------------------------------------------------------------------------
(* The environment *)

\* A process that starts has no writer at work yet.
LEMMA StartKeeps == ASSUME IInv, NEW p \in Procs, Start(p) PROVE IInv'
<1> USE DEF IInv
<1>1. /\ proc[p] = "new" /\ proc' = [proc EXCEPT ![p] = "up"]
      /\ UNCHANGED <<token, pc, store, mine, temp, final, onDisk, acked, power>>
  BY DEF Start
<1>2. \A q \in Procs : q # p => proc'[q] = proc[q]
  BY <1>1 DEF Typed
<1>3. proc'[p] = "up"
  BY <1>1 DEF Typed
<1>4. Typed'
  BY <1>1 DEF Typed
<1>5. Buffered'
  BY <1>1, <1>2, <1>3, WriterIsOfAProcess DEF Buffered
<1>6. Owned'
  BY <1>1, <1>2, <1>3 DEF Owned, Typed
<1>7. NamesApart' /\ Copies' /\ Visible'
  BY <1>1 DEF NamesApart, Copies, Visible, Sound
<1> QED BY <1>4, <1>5, <1>6, <1>7

\* What a process leaves when it dies: its temporary files, and no claim.
LEMMA DeadKeeps ==
  ASSUME IInv, NEW P \in SUBSET Procs, Dead(P), UNCHANGED <<token, temp, acked>>
  PROVE  /\ Buffered' /\ NamesApart' /\ Copies' /\ Owned'
         /\ proc' \in [Procs -> {"new", "up", "gone"}]
         /\ pc' \in [Writers -> {"idle", "open"} \cup Publishing]
         /\ store' \in [Writers -> Stores]
         /\ mine' \in [Writers -> (Procs \X Nat) \cup {NoFile}]
         /\ \A w \in Writers : pc'[w] # "idle" =>
              w[1] \notin P /\ pc'[w] = pc[w] /\ store'[w] = store[w]
<1> USE DEF IInv
<1>1. \A w \in Writers : w[1] \in P => pc'[w] = "idle"
  BY DEF Dead
<1>2. \A w \in Writers : w[1] \notin P =>
        pc'[w] = pc[w] /\ store'[w] = store[w] /\ mine'[w] = mine[w]
  BY DEF Dead
<1>3. \A p \in Procs : proc'[p] = IF p \in P THEN "gone" ELSE proc[p]
  BY DEF Dead
<1>4. Buffered'
  BY <1>1, <1>2, <1>3, WriterIsOfAProcess DEF Buffered
<1>5. NamesApart' /\ Copies'
  BY <1>1, <1>2 DEF NamesApart, Copies, Copying
<1>6. Owned'
  <2>1. ASSUME NEW t \in DOMAIN temp, proc'[t[1]] # "gone"
        PROVE  \E v \in Writers : pc'[v] \in Copying /\ mine'[v] = t
    <3>1. t[1] \in Procs /\ t[1] \notin P /\ proc[t[1]] # "gone"
      BY <1>3, <2>1 DEF Typed
    <3>2. PICK v \in Writers : pc[v] \in Copying /\ mine[v] = t
      BY <3>1 DEF Owned
    <3>3. v[1] = t[1]
      BY <3>2 DEF NamesApart
    <3> QED BY <1>2, <3>1, <3>2, <3>3
  <2> QED BY <2>1 DEF Owned
<1>7. Empty \in Stores
  BY NumBatchesAssumption DEF Empty, Stores
<1>8. /\ proc' \in [Procs -> {"new", "up", "gone"}]
      /\ pc' \in [Writers -> {"idle", "open"} \cup Publishing]
      /\ store' \in [Writers -> Stores]
      /\ mine' \in [Writers -> (Procs \X Nat) \cup {NoFile}]
  BY <1>7 DEF Dead, Typed
<1> QED BY <1>1, <1>2, <1>4, <1>5, <1>6, <1>8

\* A kill leaves temporaries behind and no published file unfinished.
LEMMA KillKeeps == ASSUME IInv, NEW p \in Procs, Kill(p) PROVE IInv'
<1>1. Dead({p}) /\ {p} \in SUBSET Procs /\ UNCHANGED <<token, temp, final, onDisk, acked>>
  BY DEF Kill
<1>2. /\ Buffered' /\ NamesApart' /\ Copies' /\ Owned'
      /\ proc' \in [Procs -> {"new", "up", "gone"}]
      /\ pc' \in [Writers -> {"idle", "open"} \cup Publishing]
      /\ store' \in [Writers -> Stores]
      /\ mine' \in [Writers -> (Procs \X Nat) \cup {NoFile}]
      /\ \A w \in Writers : pc'[w] # "idle" =>
           w[1] \notin {p} /\ pc'[w] = pc[w] /\ store'[w] = store[w]
  BY <1>1, DeadKeeps
<1>3. Typed'
  BY <1>1, <1>2 DEF IInv, Typed
<1>4. Visible'
  BY <1>1, <1>2 DEF IInv, Visible
<1> QED BY <1>2, <1>3, <1>4 DEF IInv

\* The kernel writes an entry of the directory back whenever it likes.
LEMMA WriteBackKeeps == ASSUME IInv, NEW d \in Dests, WriteBack(d) PROVE IInv'
<1> USE DEF IInv
<1>1. /\ onDisk' = [onDisk EXCEPT ![d] = final[d]]
      /\ UNCHANGED <<proc, token, pc, store, mine, temp, final, acked>>
  BY DEF WriteBack
<1>2. \A e \in Dests : onDisk'[e] = IF e = d THEN final[d] ELSE onDisk[e]
  BY <1>1 DEF Typed
<1>3. Typed'
  BY <1>1 DEF Typed
<1>4. Visible'
  BY <1>1, <1>2 DEF Visible, Typed
<1>5. Buffered' /\ NamesApart' /\ Copies' /\ Owned'
  BY <1>1 DEF Buffered, NamesApart, Copies, Owned
<1> QED BY <1>3, <1>4, <1>5

\* What is on disk was synced before it got its name, so a power failure loses
\* no part of it; and every writer is gone.
LEMMA PowerFailsKeeps == ASSUME IInv, NEW lost \in SUBSET Dests, PowerFails(lost) PROVE IInv'
<1> DEFINE P == {p \in Procs : proc[p] = "up"}
<1>1. Dead(P) /\ P \in SUBSET Procs /\ UNCHANGED <<token, temp, acked>> /\ onDisk' = final'
  BY DEF PowerFails
<1>2. final' = onDisk
  <2>1. \A d \in Dests : onDisk[d] # NoFile => onDisk[d].synced
    BY DEF IInv, Visible, Sound
  <2>2. final' = [d \in Dests |-> onDisk[d]]
    BY <2>1 DEF PowerFails
  <2> QED BY <2>2 DEF IInv, Typed
<1>3. /\ Buffered' /\ NamesApart' /\ Copies' /\ Owned'
      /\ proc' \in [Procs -> {"new", "up", "gone"}]
      /\ pc' \in [Writers -> {"idle", "open"} \cup Publishing]
      /\ store' \in [Writers -> Stores]
      /\ mine' \in [Writers -> (Procs \X Nat) \cup {NoFile}]
      /\ \A w \in Writers : pc'[w] # "idle" =>
           w[1] \notin P /\ pc'[w] = pc[w] /\ store'[w] = store[w]
  <2> HIDE DEF P
  <2> QED BY <1>1, DeadKeeps
<1>4. Typed'
  BY <1>1, <1>2, <1>3 DEF IInv, Typed
<1>5. \A w \in Writers : pc'[w] # "renamed"
  BY <1>3, WriterIsOfAProcess DEF IInv, Buffered
<1>6. Visible'
  BY <1>1, <1>2, <1>5 DEF IInv, Visible
<1> QED BY <1>3, <1>4, <1>6 DEF IInv

-----------------------------------------------------------------------------
\* The steps of the writers, the processes, the kernel and the power, together.
LEMMA StepPreserves == IInv /\ [Next]_vars => IInv'
<1> SUFFICES ASSUME IInv, [Next]_vars PROVE IInv'
  OBVIOUS
<1>1. ASSUME NEW p \in Procs, Start(p) \/ Kill(p) PROVE IInv'
  BY <1>1, StartKeeps, KillKeeps
<1>2. ASSUME NEW w \in Writers, Writer(w) PROVE IInv'
  BY <1>2, StoreKeeps, CloseKeeps, CopyKeeps, RenameKeeps, FsyncParentDirKeeps,
     PublishThrowsKeeps DEF Writer
<1>3. ASSUME NEW d \in Dests, WriteBack(d) PROVE IInv'
  BY <1>3, WriteBackKeeps
<1>4. ASSUME NEW lost \in SUBSET Dests, PowerFails(lost) PROVE IInv'
  BY <1>4, PowerFailsKeeps
<1>5. CASE UNCHANGED vars
  BY <1>5 DEF vars, IInv, Typed, Buffered, NamesApart, Copies, Owned, Visible, Sound
<1> QED BY <1>1, <1>2, <1>3, <1>4, <1>5 DEF Next

\* The inductive invariant holds in every reachable state.
THEOREM Invariance == Spec => []IInv
  BY InitEstablishes, StepPreserves, PTL DEF Spec

\* A reader that globs the output directory finds finished files with every
\* batch of their own day and nothing else: AtomicPublish.cpp renames only what
\* it has written and synced, under names no other publish has.
THEOREM WholeFilesOnly == Spec => []VisibleIsWhole
<1>1. IInv => VisibleIsWhole
  BY DEF IInv, Visible, Sound, VisibleIsWhole
<1> QED BY <1>1, Invariance, PTL

\* What close() has reported as written is there for good: the directory was
\* synced first, and every later publish or crash leaves some whole file.
THEOREM AcknowledgedForGood == Spec => []AcknowledgedStays
<1>1. IInv => AcknowledgedStays
  BY DEF IInv, Visible, AcknowledgedStays
<1> QED BY <1>1, Invariance, PTL

\* No failed publish leaves its temporary file behind; only a killed process does.
THEOREM FailuresTidyUp == Spec => []NoLitter
<1>1. IInv => NoLitter
  BY DEF IInv, Owned, NoLitter
<1> QED BY <1>1, Invariance, PTL
=============================================================================
