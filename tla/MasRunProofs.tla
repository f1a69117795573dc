----------------------------- MODULE MasRunProofs -----------------------------
(***************************************************************************)
(* Proofs about the coordinator, the cleaning workers and the run composed *)
(* of them, for any number of items, workers, files, batches and crashes,  *)
(* any cap and any thresholds.                                             *)
(*                                                                         *)
(* The coordinator first, in an environment that may deliver any frame at  *)
(* any receive.  Its invariants are proved together: the counters need the *)
(* exclusivity of credits, and their types need the counters.  The event   *)
(* total needs sums over sets: MapThenSumSet is a recursive function on    *)
(* the subsets of its set, and what it computes is shown by induction (a   *)
(* set of counterexamples would have a smallest member).  The coordinator  *)
(* implements the Ledger: its initial states map to initial states and     *)
(* every step to a step of the Ledger or a stutter.                        *)
(*                                                                         *)
(* Then the workers: what is on a worker's lifecycle pipe is a chain of    *)
(* claims and results whose last frame agrees with where the worker is,    *)
(* and every result on it is true of the store.  This holds whatever is    *)
(* put on the work pipes, so it holds beside any coordinator.              *)
(***************************************************************************)
EXTENDS MasRun, WorkerAlone, CoordinatorLedger, SequenceTheorems, FiniteSetTheorems,
        WellFoundedInduction, TLAPS

-----------------------------------------------------------------------------
(* The coordinator *)

\* The counters in the course of the loop, before anything is given up.
Going ==
  /\ open = Cardinality(Items \ done)
  /\ filesOk = Cardinality(Credited)
  /\ filesFailed = Cardinality(done \ Credited)

\* What one frame preserves, at the gate and in the loop alike.
FrameInv == TablesOK /\ HolderIsLive /\ CreditedOnce /\ Going

\* Nothing is settled, credited or held before the initial dispatch.
GateClean ==
  pc \in {"gateRecv", "gateDrain"} =>
    done = {} /\ completed = {} /\ holder = [i \in Items |-> NoWorker]

\* The loop is only left with nothing open.
ShutdownOpen == pc = "shutdown" => open = 0

IInv == /\ TypeOK /\ HolderIsLive /\ CreditedOnce
        /\ CountersAgree /\ SummaryAddsUp
        /\ GateClean /\ ShutdownOpen

-----------------------------------------------------------------------------
(* Counting *)

\* Cardinality of a disjoint union and of a difference with a subset.
LEMMA CardParts ==
  ASSUME NEW A, IsFiniteSet(A), NEW B, IsFiniteSet(B)
  PROVE  /\ Cardinality(A) \in Nat
         /\ A \cap B = {} => Cardinality(A \cup B) = Cardinality(A) + Cardinality(B)
         /\ B \subseteq A => /\ Cardinality(A \ B) = Cardinality(A) - Cardinality(B)
                             /\ Cardinality(B) <= Cardinality(A)
<1>1. Cardinality(A) \in Nat /\ Cardinality(B) \in Nat
  BY FS_CardinalityType
<1>2. ASSUME A \cap B = {}
      PROVE  Cardinality(A \cup B) = Cardinality(A) + Cardinality(B)
  <2>1. Cardinality(A \cup B) = Cardinality(A) + Cardinality(B) - Cardinality(A \cap B)
    BY FS_Union
  <2>2. Cardinality(A \cap B) = 0
    BY <1>2, FS_EmptySet
  <2>3. QED
    BY <2>1, <2>2, <1>1
<1>3. ASSUME B \subseteq A
      PROVE  /\ Cardinality(A \ B) = Cardinality(A) - Cardinality(B)
             /\ Cardinality(B) <= Cardinality(A)
  <2>1. A \cap B = B
    BY <1>3
  <2>2. Cardinality(A \ B) = Cardinality(A) - Cardinality(A \cap B)
    BY FS_Difference
  <2>3. Cardinality(B) <= Cardinality(A)
    BY <1>3, FS_Subset
  <2>4. QED
    BY <2>1, <2>2, <2>3
<1>4. QED
  BY <1>1, <1>2, <1>3

\* Sets of items are finite, with natural cardinalities.
LEMMA ItemSetsFinite ==
  ASSUME NEW S \in SUBSET Items
  PROVE  IsFiniteSet(S) /\ Cardinality(S) \in Nat
BY ItemsAssumption, FS_Subset, FS_CardinalityType

\* Settling some open items, with no change to the credits, moves the counters
\* by their number.
LEMMA SettleFails ==
  ASSUME TablesOK, CreditedOnce, Going,
         NEW F \in SUBSET (Items \ done),
         done' = done \cup F, completed' = completed, filesOk' = filesOk,
         open' = open - Cardinality(F),
         filesFailed' = filesFailed + Cardinality(F)
  PROVE  Going' /\ open' \in Nat /\ filesFailed' \in Nat
<1>1. /\ done \subseteq Items /\ Credited \subseteq done
      /\ Credited' = Credited
  BY DEF TablesOK, CreditedOnce, Credited, ItemsOf
<1>2. Items \ done' = (Items \ done) \ F
  OBVIOUS
<1>3. done' \ Credited' = (done \ Credited) \cup F
  BY <1>1
<1>4. /\ IsFiniteSet(Items \ done) /\ IsFiniteSet(F) /\ IsFiniteSet(done \ Credited)
      /\ Cardinality(F) \in Nat
  BY <1>1, ItemSetsFinite
<1>5. /\ Cardinality((Items \ done) \ F) = Cardinality(Items \ done) - Cardinality(F)
      /\ Cardinality(F) <= Cardinality(Items \ done)
  BY <1>4, CardParts
<1>6. Cardinality((done \ Credited) \cup F) = Cardinality(done \ Credited) + Cardinality(F)
  <2>1. (done \ Credited) \cap F = {}
    OBVIOUS
  <2>2. QED
    BY <2>1, <1>4, CardParts
<1>7. Going'
  BY <1>1, <1>2, <1>3, <1>5, <1>6 DEF Going
<1>8. open \in Nat /\ filesFailed \in Nat
  BY DEF TablesOK
<1>9. open = Cardinality(Items \ done)
  BY DEF Going
<1>10. QED
  BY <1>4, <1>5, <1>7, <1>8, <1>9

-----------------------------------------------------------------------------
(* One frame *)

\* touch only adds live workers.
LEMMA TouchKeeps ==
  ASSUME TablesOK, NEW W \in SUBSET Workers, Touch(W)
  PROVE  /\ life' \in [Workers -> {"unknown", "live", "tombstoned", "departed"}]
         /\ age' \in [Workers -> 0 .. Threshold + 1]
         /\ \A w \in Workers : life[w] # "unknown" => life'[w] = life[w]
         /\ \A w \in W : w \notin Gone => life'[w] = "live"
         /\ \A w \in Workers : life'[w] \in {"tombstoned", "departed"} => life'[w] = life[w]
BY ConfigAssumption DEF Touch, TablesOK, Gone

\* Re-dispatching open items settles the ones whose send failed, and nothing
\* else of the tables moves.
LEMMA RedispatchKeeps ==
  ASSUME TablesOK, CreditedOnce, Going, completed' = completed,
         NEW C \in SUBSET (Items \ done), NEW lost \in SUBSET C,
         NEW F \in SUBSET (Items \ done), F = {} \/ C = {},
         Redispatch(C, lost, F)
  PROVE  /\ Going'
         /\ open' \in Nat /\ filesFailed' \in Nat
         /\ done' = done \cup lost \cup F
         /\ done' \in SUBSET Items /\ sent' \in SUBSET Items
         /\ UNCHANGED <<filesOk, totalEvents, workersDied>>
<1> DEFINE S == lost \cup F
<1>1. S \in SUBSET (Items \ done) /\ done' = done \cup S
  BY DEF Redispatch
<1>2. open' = open - Cardinality(S) /\ filesFailed' = filesFailed + Cardinality(S)
  BY DEF Redispatch
<1>3. UNCHANGED <<filesOk, totalEvents, workersDied>> /\ sent' = C \ lost
  BY DEF Redispatch
<1> HIDE DEF S
<1>4. Going' /\ open' \in Nat /\ filesFailed' \in Nat
  BY <1>1, <1>2, <1>3, SettleFails
<1>5. QED
  BY <1>1, <1>3, <1>4 DEF S, TablesOK

\* A dropped RESULT only touches the registry.
LEMMA DropResultKeeps ==
  ASSUME FrameInv, NEW r, DropResult(r)
  PROVE  FrameInv'
<1>1. /\ r.worker \in Workers /\ Touch({r.worker}) /\ sent' = {}
      /\ UNCHANGED <<done, open, tally, redispatches, holder, completed>>
  BY DEF DropResult, NothingSettled, WorkResult
<1>2. TablesOK'
  BY <1>1, TouchKeeps DEF FrameInv, TablesOK, tally
<1>3. HolderIsLive' /\ CreditedOnce'
  BY <1>1, TouchKeeps DEF FrameInv, HolderIsLive, CreditedOnce, TablesOK, Live
<1>4. Going'
  BY <1>1 DEF FrameInv, Going, tally, Credited, ItemsOf
<1>5. QED
  BY <1>2, <1>3, <1>4 DEF FrameInv

\* What an accepted RESULT does before the verdict: its worker is live and its
\* item has no holder.
LEMMA AcceptedKeeps ==
  ASSUME FrameInv, NEW r, Accepted(r)
  PROVE  /\ r.worker \in Workers /\ r.path \in Items \ done
         /\ life' \in [Workers -> {"unknown", "live", "tombstoned", "departed"}]
         /\ age' \in [Workers -> 0 .. Threshold + 1]
         /\ holder' \in [Items -> Workers \cup {NoWorker}]
         /\ life'[r.worker] = "live"
         /\ \A w \in Workers : life[w] # "unknown" => life'[w] = life[w]
         /\ \A i \in Items : holder'[i] # NoWorker =>
              holder'[i] \in Live' /\ i \notin done /\ i # r.path
<1>1. /\ r.worker \in Workers /\ r.path \in Items \ done /\ r.worker \notin Gone
      /\ Touch({r.worker}) /\ holder' = Unheld({r.path})
  BY DEF Accepted, WorkResult, IsOpen
<1>2. TablesOK /\ HolderIsLive
  BY DEF FrameInv
<1>3. holder' \in [Items -> Workers \cup {NoWorker}]
  BY <1>1, <1>2 DEF Unheld, TablesOK
<1>4. /\ life' \in [Workers -> {"unknown", "live", "tombstoned", "departed"}]
      /\ age' \in [Workers -> 0 .. Threshold + 1]
      /\ life'[r.worker] = "live"
      /\ \A w \in Workers : life[w] # "unknown" => life'[w] = life[w]
  BY <1>1, <1>2, TouchKeeps
<1>5. \A i \in Items : holder'[i] # NoWorker =>
        holder'[i] \in Live' /\ i \notin done /\ i # r.path
  BY <1>1, <1>2, <1>4 DEF Unheld, HolderIsLive, Live
<1>6. QED
  BY <1>1, <1>3, <1>4, <1>5

\* A retried partial write stays within the cap, and a failed send settles once.
LEMMA RetryResultKeeps ==
  ASSUME FrameInv, NEW r, RetryResult(r)
  PROVE  FrameInv'
<1>1. /\ Accepted(r) /\ completed' = completed /\ redispatches[r.path] < Cap
      /\ redispatches' = [redispatches EXCEPT ![r.path] = @ + 1]
  BY DEF RetryResult, Retryable
<1>2. r.path \in Items \ done /\ TablesOK /\ CreditedOnce /\ Going
  BY <1>1, AcceptedKeeps DEF FrameInv
<1>3. PICK lost \in SUBSET {r.path} : Redispatch({r.path}, lost, {})
  BY DEF RetryResult
<1>4. /\ Going' /\ open' \in Nat /\ filesFailed' \in Nat /\ done' = done \cup lost
      /\ done' \in SUBSET Items /\ sent' \in SUBSET Items
      /\ UNCHANGED <<filesOk, totalEvents, workersDied>>
  BY <1>1, <1>2, <1>3, RedispatchKeeps
<1>5. redispatches' \in [Items -> 0 .. Cap]
  BY <1>1, <1>2, ConfigAssumption DEF TablesOK
<1>6. TablesOK'
  BY <1>1, <1>2, <1>4, <1>5, AcceptedKeeps DEF TablesOK
<1>7. HolderIsLive'
  BY <1>1, <1>3, <1>4, AcceptedKeeps DEF HolderIsLive
<1>8. CreditedOnce'
  BY <1>1, <1>2, <1>4, AcceptedKeeps DEF CreditedOnce, TablesOK
<1>9. QED
  BY <1>4, <1>6, <1>7, <1>8 DEF FrameInv

\* A failure settles one open item.
LEMMA SettleFailedKeeps ==
  ASSUME FrameInv, NEW r, SettleFailed(r)
  PROVE  FrameInv'
<1>1. /\ Accepted(r) /\ completed' = completed /\ redispatches' = redispatches
      /\ Redispatch({}, {}, {r.path})
  BY DEF SettleFailed
<1>2. r.path \in Items \ done /\ TablesOK /\ CreditedOnce /\ Going
  BY <1>1, AcceptedKeeps DEF FrameInv
<1> DEFINE none == {}
<1>a. /\ none \in SUBSET (Items \ done) /\ none \in SUBSET none
      /\ {r.path} \in SUBSET (Items \ done) /\ Redispatch(none, none, {r.path})
  BY <1>1, <1>2
<1>b. none = {} /\ none \cup {r.path} = {r.path}
  OBVIOUS
<1> HIDE DEF none
<1>c. /\ Going' /\ open' \in Nat /\ filesFailed' \in Nat
      /\ done' = done \cup none \cup {r.path}
      /\ done' \in SUBSET Items /\ sent' \in SUBSET Items
      /\ UNCHANGED <<filesOk, totalEvents, workersDied>>
  BY <1>1, <1>2, <1>a, <1>b, RedispatchKeeps
<1>3. /\ Going' /\ open' \in Nat /\ filesFailed' \in Nat /\ done' = done \cup {r.path}
      /\ done' \in SUBSET Items /\ sent' \in SUBSET Items
      /\ UNCHANGED <<filesOk, totalEvents, workersDied>>
  BY <1>b, <1>c
<1>4. TablesOK'
  BY <1>1, <1>2, <1>3, AcceptedKeeps DEF TablesOK
<1>5. HolderIsLive'
  BY <1>1, <1>3, AcceptedKeeps DEF HolderIsLive
<1>6. CreditedOnce'
  BY <1>1, <1>2, <1>3, AcceptedKeeps DEF CreditedOnce, TablesOK
<1>7. QED
  BY <1>3, <1>4, <1>5, <1>6 DEF FrameInv

\* A success moves one item from open to credited.
LEMMA SettleOkKeeps ==
  ASSUME FrameInv, NEW r, SettleOk(r)
  PROVE  FrameInv'
<1> DEFINE c == [worker |-> r.worker, path |-> r.path, events |-> r.events]
<1>1. /\ Accepted(r) /\ r.events \in EventCounts
      /\ done' = done \cup {r.path} /\ open' = open - 1 /\ filesOk' = filesOk + 1
      /\ completed' = completed \cup {c} /\ sent' = {}
      /\ UNCHANGED <<redispatches, filesFailed, workersDied>>
  BY DEF SettleOk
<1>2. /\ r.path \in Items \ done /\ r.worker \in Workers /\ life'[r.worker] = "live"
      /\ TablesOK /\ CreditedOnce /\ Going
  BY <1>1, AcceptedKeeps DEF FrameInv
<1>a. Items \ done' = (Items \ done) \ {r.path}
  BY <1>1
<1>b. c.path = r.path
  OBVIOUS
<1> HIDE DEF c
<1>3. /\ Credited' = Credited \cup {r.path}
      /\ r.path \notin Credited /\ Credited \subseteq Items
  BY <1>1, <1>2, <1>b DEF Credited, ItemsOf, CreditedOnce
<1>c. done' \ Credited' = done \ Credited
  BY <1>1, <1>2, <1>3
<1>4. /\ Cardinality(Items \ done') = Cardinality(Items \ done) - 1
      /\ Cardinality(Items \ done') \in Nat
  <2>1. IsFiniteSet(Items \ done) /\ r.path \in Items \ done
    BY <1>2, ItemSetsFinite
  <2>2. Items \ done' \in SUBSET Items
    OBVIOUS
  <2>3. Cardinality((Items \ done) \ {r.path}) = Cardinality(Items \ done) - 1
    BY <2>1, FS_RemoveElement
  <2>4. Cardinality(Items \ done') \in Nat
    BY <2>2, ItemSetsFinite
  <2>5. QED
    BY <2>3, <2>4, <1>a
<1>d. Cardinality(Credited') = Cardinality(Credited) + 1
  BY <1>3, ItemSetsFinite, FS_AddElement
<1>5. Going' /\ open' \in Nat /\ filesOk' \in Nat
  <2>1. /\ open = Cardinality(Items \ done) /\ filesOk = Cardinality(Credited)
        /\ filesFailed = Cardinality(done \ Credited)
        /\ filesOk \in Nat
    BY <1>2 DEF Going, TablesOK
  <2>2. open' = Cardinality(Items \ done') /\ open' \in Nat
    BY <1>1, <1>4, <2>1
  <2>3. filesOk' = Cardinality(Credited') /\ filesOk' \in Nat
    BY <1>1, <1>d, <2>1
  <2>4. filesFailed' = Cardinality(done' \ Credited')
    BY <1>1, <1>c, <2>1
  <2>5. QED
    BY <2>2, <2>3, <2>4 DEF Going
<1>6. TablesOK'
  <2>1. c \in [worker : Workers, path : Items, events : EventCounts]
    BY <1>1, <1>2 DEF c
  <2>2. QED
    BY <1>1, <1>2, <1>5, <2>1, AcceptedKeeps DEF TablesOK
<1>7. HolderIsLive'
  BY <1>1, AcceptedKeeps DEF HolderIsLive
<1>8. CreditedOnce'
  <2>1. c.worker = r.worker
    BY DEF c
  <2>2. QED
    BY <1>1, <1>2, <1>b, <2>1, AcceptedKeeps DEF CreditedOnce, TablesOK
<1>9. QED
  BY <1>5, <1>6, <1>7, <1>8 DEF FrameInv

\* A claim names a live holder, or re-sends an item nobody live holds.
LEMMA ClaimKeeps ==
  ASSUME FrameInv, NEW c, OnClaim(c)
  PROVE  FrameInv'
<1> USE DEF FrameInv
<1>1. CASE HoldClaim(c)
  <2>1. /\ c.worker \in Workers /\ c.worker \notin Gone /\ Touch({c.worker}) /\ sent' = {}
        /\ UNCHANGED <<done, open, tally, redispatches, completed>>
        /\ holder' = [i \in Items |-> IF i = c.path /\ IsOpen(i)
                                      THEN c.worker ELSE holder[i]]
    BY <1>1 DEF HoldClaim, NothingSettled, WorkClaim
  <2>2. TablesOK'
    BY <2>1, TouchKeeps DEF TablesOK, tally
  <2>3. HolderIsLive'
    BY <2>1, TouchKeeps DEF HolderIsLive, TablesOK, Live, IsOpen
  <2>4. CreditedOnce'
    BY <2>1, TouchKeeps DEF CreditedOnce, TablesOK
  <2>5. Going'
    BY <2>1 DEF Going, tally, Credited, ItemsOf
  <2>6. QED
    BY <2>2, <2>3, <2>4, <2>5
<1>2. CASE ZombieClaim(c)
  <2> DEFINE stranded == SendableTo(Live, {i \in Items : /\ i = c.path /\ IsOpen(i)
                                                         /\ holder[i] \notin Live})
  <2>1. UNCHANGED <<redispatches, holder, life, age, completed>>
    BY <1>2 DEF ZombieClaim
  <2>2. PICK lost \in SUBSET stranded : Redispatch(stranded, lost, {})
    BY <1>2 DEF ZombieClaim
  <2>3. /\ stranded \in SUBSET (Items \ done)
        /\ \A i \in stranded : holder[i] = NoWorker
    BY DEF IsOpen, HolderIsLive, SendableTo
  <2> HIDE DEF stranded
  <2>4. /\ Going' /\ open' \in Nat /\ filesFailed' \in Nat /\ done' = done \cup lost
        /\ done' \in SUBSET Items /\ sent' \in SUBSET Items
        /\ UNCHANGED <<filesOk, totalEvents, workersDied>>
    BY <2>1, <2>2, <2>3, RedispatchKeeps
  <2>5. TablesOK'
    BY <2>1, <2>4 DEF TablesOK
  <2>6. HolderIsLive' /\ CreditedOnce'
    BY <2>1, <2>3, <2>4 DEF HolderIsLive, CreditedOnce, Live
  <2>7. QED
    BY <2>4, <2>5, <2>6
<1>3. QED
  BY <1>1, <1>2 DEF OnClaim

\* A goodbye releases what the worker held and keeps its credits.
LEMMA GoodbyeKeeps ==
  ASSUME FrameInv, NEW g, OnGoodbye(g)
  PROVE  FrameInv'
<1> USE DEF FrameInv
<1>1. CASE Depart(g)
  <2> DEFINE mine == HeldBy({g.worker})
             back == SendableTo(Live \ {g.worker}, mine \ done)
  <2>1. /\ g.worker \in Live /\ life' = [life EXCEPT ![g.worker] = "departed"]
        /\ holder' = Unheld(mine)
        /\ UNCHANGED <<redispatches, age, completed>>
    BY <1>1 DEF Depart
  <2>2. PICK lost \in SUBSET back : Redispatch(back, lost, {})
    BY <1>1 DEF Depart
  <2>3. /\ back \in SUBSET (Items \ done)
        /\ \A i \in back : holder'[i] = NoWorker
        /\ holder' \in [Items -> Workers \cup {NoWorker}]
        /\ \A i \in Items : holder'[i] # NoWorker =>
             holder'[i] = holder[i] /\ holder'[i] # g.worker
    BY <2>1 DEF HeldBy, Unheld, TablesOK, SendableTo
  <2> HIDE DEF back, mine
  <2>4. /\ Going' /\ open' \in Nat /\ filesFailed' \in Nat /\ done' = done \cup lost
        /\ done' \in SUBSET Items /\ sent' \in SUBSET Items
        /\ UNCHANGED <<filesOk, totalEvents, workersDied>>
    BY <2>1, <2>2, <2>3, RedispatchKeeps
  <2>5. TablesOK'
    BY <2>1, <2>3, <2>4 DEF TablesOK, Live
  <2>6. HolderIsLive'
    BY <2>1, <2>3, <2>4 DEF HolderIsLive, Live, TablesOK
  <2>7. CreditedOnce'
    BY <2>1, <2>4 DEF CreditedOnce, TablesOK, Live
  <2>8. QED
    BY <2>4, <2>5, <2>6, <2>7
<1>2. CASE IgnoreBye(g)
  <2>1. sent' = {} /\ UNCHANGED <<done, open, tally, redispatches, holder, life, age, completed>>
    BY <1>2 DEF IgnoreBye, NothingSettled
  <2>2. QED
    BY <2>1 DEF TablesOK, HolderIsLive, CreditedOnce, Going, tally, Live, Credited, ItemsOf
<1>3. QED
  BY <1>1, <1>2 DEF OnGoodbye

\* A malformed frame and a receive that timed out change nothing.
LEMMA NothingKeeps ==
  ASSUME FrameInv, NEW f, OnNothing(f)
  PROVE  FrameInv'
<1>1. sent' = {} /\ UNCHANGED <<done, open, tally, redispatches, holder, life, age, completed>>
  BY DEF OnNothing, NothingSettled
<1>2. QED
  BY <1>1 DEF FrameInv, TablesOK, HolderIsLive, CreditedOnce, Going, tally, Live,
              Credited, ItemsOf

\* Every frame of the loop keeps the tables, the claims, the credits and the
\* counters in agreement.
LEMMA FrameKeeps ==
  ASSUME FrameInv, NEW f, OnResult(f) \/ OnClaim(f) \/ OnGoodbye(f) \/ OnNothing(f)
  PROVE  FrameInv'
BY DropResultKeeps, RetryResultKeeps, SettleOkKeeps, SettleFailedKeeps, ClaimKeeps,
   GoodbyeKeeps, NothingKeeps DEF OnResult

\* A touch alone, as at the gate and at every heartbeat drain.
LEMMA BeatKeeps ==
  ASSUME FrameInv, NEW W \in SUBSET Workers, Touch(W), sent' = {},
         UNCHANGED <<done, open, tally, redispatches, holder, completed>>
  PROVE  FrameInv'
<1>1. TablesOK'
  BY TouchKeeps DEF FrameInv, TablesOK, tally
<1>2. HolderIsLive' /\ CreditedOnce'
  BY TouchKeeps DEF FrameInv, HolderIsLive, CreditedOnce, TablesOK, Live
<1>3. Going'
  BY DEF FrameInv, Going, tally, Credited, ItemsOf
<1>4. QED
  BY <1>1, <1>2, <1>3 DEF FrameInv

-----------------------------------------------------------------------------
(* The deadline sweep *)

\* The settled set D with the credits C, after the credits R are taken back
\* and the open items F are settled.
Swept(D, C, R, F, D2, C2) ==
  /\ D \in SUBSET Items /\ C \in SUBSET D /\ R \in SUBSET C
  /\ F \in SUBSET ((Items \ D) \cup R)
  /\ D2 = (D \ R) \cup F /\ C2 = C \ R

Recounted(D, C, R, F, D2, C2) ==
  /\ Cardinality(Items \ D2) =
       Cardinality(Items \ D) + Cardinality(R) - Cardinality(F)
  /\ Cardinality(C2) = Cardinality(C) - Cardinality(R)
  /\ Cardinality(D2 \ C2) = Cardinality(D \ C) + Cardinality(F)
  /\ Cardinality(Items \ C2) = Cardinality(Items \ D2) + Cardinality(D2 \ C2)

\* The counters after a sweep as functions of the two sets.
LEMMA SweepCounts ==
  ASSUME NEW D, NEW C, NEW R, NEW F, NEW D2, NEW C2, Swept(D, C, R, F, D2, C2)
  PROVE  Recounted(D, C, R, F, D2, C2)
<1> USE DEF Swept
<1>1. /\ IsFiniteSet(Items \ D) /\ IsFiniteSet(R) /\ IsFiniteSet(F) /\ IsFiniteSet(C)
      /\ IsFiniteSet(D \ C) /\ IsFiniteSet((Items \ D) \cup R)
      /\ IsFiniteSet(Items \ D2) /\ IsFiniteSet(D2 \ C2)
  <2>1. /\ Items \ D \in SUBSET Items /\ R \in SUBSET Items /\ F \in SUBSET Items
        /\ C \in SUBSET Items /\ D \ C \in SUBSET Items
        /\ (Items \ D) \cup R \in SUBSET Items /\ Items \ D2 \in SUBSET Items
        /\ D2 \ C2 \in SUBSET Items
    OBVIOUS
  <2>2. QED
    BY <2>1, ItemSetsFinite
<1>2. Cardinality(Items \ D2) = Cardinality(Items \ D) + Cardinality(R) - Cardinality(F)
  <2>1. Items \ D2 = ((Items \ D) \cup R) \ F
    OBVIOUS
  <2>2. (Items \ D) \cap R = {}
    OBVIOUS
  <2>3. Cardinality((Items \ D) \cup R) = Cardinality(Items \ D) + Cardinality(R)
    BY <1>1, <2>2, CardParts
  <2>4. Cardinality(((Items \ D) \cup R) \ F)
          = Cardinality((Items \ D) \cup R) - Cardinality(F)
    BY <1>1, CardParts
  <2>5. /\ Cardinality(Items \ D) \in Nat /\ Cardinality(R) \in Nat
        /\ Cardinality(F) \in Nat
    BY <1>1, FS_CardinalityType
  <2>6. Cardinality(Items \ D2) = Cardinality(((Items \ D) \cup R) \ F)
    BY <2>1, Zenon
  <2>7. QED
    BY <2>3, <2>4, <2>5, <2>6
<1>3. Cardinality(C2) = Cardinality(C) - Cardinality(R)
  BY <1>1, CardParts
<1>4. Cardinality(D2 \ C2) = Cardinality(D \ C) + Cardinality(F)
  <2>1. D2 \ C2 = (D \ C) \cup F
    OBVIOUS
  <2>2. (D \ C) \cap F = {}
    OBVIOUS
  <2>3. Cardinality((D \ C) \cup F) = Cardinality(D \ C) + Cardinality(F)
    BY <1>1, <2>2, CardParts
  <2>4. QED
    BY <2>1, <2>3
<1>5. Cardinality(Items \ C2) = Cardinality(Items \ D2) + Cardinality(D2 \ C2)
  <2>1. /\ Items \ C2 = (Items \ D2) \cup (D2 \ C2)
        /\ (Items \ D2) \cap (D2 \ C2) = {}
    OBVIOUS
  <2>2. Cardinality((Items \ D2) \cup (D2 \ C2))
          = Cardinality(Items \ D2) + Cardinality(D2 \ C2)
    BY <1>1, <2>1, CardParts
  <2>3. QED
    BY <2>1, <2>2
<1>6. QED
  BY <1>2, <1>3, <1>4, <1>5 DEF Recounted

\* The deadline sweep and the abort check keep the invariant.
LEMMA SweepKeeps ==
  ASSUME IInv, Sweep
  PROVE  IInv'
<1> DEFINE credit   == CreditsOf(Silent)
           reopened == ReopenedBy(Silent)
           undone   == (Items \ done) \cup reopened
           live     == Live \ Silent
           charged  == ChargedAt(Silent, undone)
           unheld   == UnclaimedAt(Silent, undone)
           capped   == {i \in charged : redispatches[i] >= Cap}
           resend   == SendableTo(live, unheld \cup (charged \ capped))
           abort    == Abandoned(live)
<1>1. PICK lost \in SUBSET resend :
        LET left == open + Cardinality(reopened) - Cardinality(lost \cup capped)
        IN  /\ life' = [w \in Workers |-> IF w \in Silent THEN "tombstoned"
                                                          ELSE life[w]]
            /\ completed' = completed \ credit
            /\ holder' = Unheld(charged)
            /\ redispatches' = [i \in Items |-> IF i \in charged \ capped
                                  THEN redispatches[i] + 1 ELSE redispatches[i]]
            /\ done' = (done \ reopened) \cup lost \cup capped
            /\ sent' = resend \ lost
            /\ open' = IF abort THEN 0 ELSE left
            /\ filesOk' = filesOk - Cardinality(reopened)
            /\ filesFailed' = filesFailed + Cardinality(lost \cup capped)
                                          + (IF abort THEN left ELSE 0)
            /\ totalEvents' = totalEvents - EventsLost(Silent)
  BY Zenon DEF Sweep
<1> DEFINE F == lost \cup capped
           left == open + Cardinality(reopened) - Cardinality(F)
<1>2. /\ pc = "sweep" /\ pc' = "recv" /\ UNCHANGED <<age, elapsed, stops>>
      /\ workersDied' = workersDied + Cardinality(Silent)
  BY DEF Sweep
<1>3. /\ TablesOK /\ HolderIsLive /\ CreditedOnce /\ Going
      /\ elapsed \in 0 .. Horizon + 1 /\ stops \in Nat
  BY <1>2 DEF IInv, TypeOK, CountersAgree, Going, Running
<1>4. /\ Credited \subseteq done /\ done \subseteq Items
      /\ reopened \subseteq Credited /\ reopened = ItemsOf(credit)
      /\ F \subseteq undone /\ resend \subseteq Items
      /\ done' = (done \ reopened) \cup F
  BY <1>1, <1>3 DEF CreditedOnce, TablesOK, Credited, ItemsOf, CreditsOf, ReopenedBy,
                    ChargedAt, UnclaimedAt, SendableTo
<1>5. Credited' = Credited \ reopened
  BY <1>1, <1>3, <1>4 DEF CreditedOnce, TablesOK, Credited, ItemsOf, CreditsOf, ReopenedBy
<1>6. /\ Cardinality(Items \ done') =
           Cardinality(Items \ done) + Cardinality(reopened) - Cardinality(F)
      /\ Cardinality(Credited') = Cardinality(Credited) - Cardinality(reopened)
      /\ Cardinality(done' \ Credited') = Cardinality(done \ Credited) + Cardinality(F)
      /\ Cardinality(Items \ Credited')
           = Cardinality(Items \ done') + Cardinality(done' \ Credited')
  <2> HIDE DEF reopened, F
  <2>1. /\ done \in SUBSET Items /\ Credited \in SUBSET done
        /\ reopened \in SUBSET Credited /\ F \in SUBSET ((Items \ done) \cup reopened)
    BY <1>4
  <2>2. Swept(done, Credited, reopened, F, done', Credited')
    BY <2>1, <1>4, <1>5 DEF Swept
  <2>3. Recounted(done, Credited, reopened, F, done', Credited')
    BY <2>2, SweepCounts
  <2>4. QED
    BY <2>3 DEF Recounted
<1>7. /\ Cardinality(Items \ done') \in Nat /\ Cardinality(Credited') \in Nat
      /\ Cardinality(done' \ Credited') \in Nat
  <2>1. /\ Items \ done' \in SUBSET Items /\ Credited' \in SUBSET Items
        /\ done' \ Credited' \in SUBSET Items
    BY <1>4, <1>5
  <2>2. QED
    BY <2>1, ItemSetsFinite
<1>8. /\ left = Cardinality(Items \ done')
      /\ open' = IF abort THEN 0 ELSE left
      /\ filesOk' = Cardinality(Credited')
      /\ filesFailed' = IF abort THEN Cardinality(Items \ Credited')
                                 ELSE Cardinality(done' \ Credited')
  <2>1. /\ open = Cardinality(Items \ done) /\ filesOk = Cardinality(Credited)
        /\ filesFailed = Cardinality(done \ Credited)
    BY <1>3 DEF Going
  <2>2. /\ open' = IF abort THEN 0 ELSE left
        /\ filesOk' = filesOk - Cardinality(reopened)
        /\ filesFailed' = filesFailed + Cardinality(F) + (IF abort THEN left ELSE 0)
    BY <1>1
  <2>a. left = open + Cardinality(reopened) - Cardinality(F)
    OBVIOUS
  <2>3. /\ Cardinality(reopened) \in Nat /\ Cardinality(F) \in Nat
        /\ Cardinality(Items \ done) \in Nat /\ Cardinality(Credited) \in Nat
        /\ Cardinality(done \ Credited) \in Nat
    <3> HIDE DEF reopened, F
    <3>1. /\ reopened \in SUBSET Items /\ F \in SUBSET Items /\ Items \ done \in SUBSET Items
          /\ Credited \in SUBSET Items /\ done \ Credited \in SUBSET Items
      BY <1>4 DEF undone
    <3>2. QED
      BY <3>1, ItemSetsFinite
  <2> HIDE DEF reopened, F, abort, left
  <2>4. QED
    BY <2>1, <2>2, <2>3, <2>a, <1>6, <1>7
<1>9. CountersAgree'
  <2> HIDE DEF abort, left
  <2>1. CASE abort
    BY <2>1, <1>2, <1>8 DEF CountersAgree
  <2>2. CASE ~abort
    BY <2>2, <1>2, <1>8 DEF CountersAgree
  <2>3. QED
    BY <2>1, <2>2
<1>10. TypeOK'
  <2>1. open' \in Nat /\ filesOk' \in Nat /\ filesFailed' \in Nat
    <3> HIDE DEF abort, left
    <3>1. QED
      BY <1>6, <1>7, <1>8
  <2>2. workersDied' \in Nat
    <3>1. Silent \in SUBSET Workers
      BY DEF Silent, Live
    <3>2. Cardinality(Silent) \in Nat
      BY <3>1, WorkersAssumption, FS_Subset, FS_CardinalityType
    <3>3. QED
      BY <3>2, <1>2, <1>3 DEF TablesOK
  <2>3. redispatches' \in [Items -> 0 .. Cap]
    <3>1. redispatches' = [i \in Items |-> IF i \in charged \ capped
                                  THEN redispatches[i] + 1 ELSE redispatches[i]]
      BY <1>1
    <3>2. \A i \in charged \ capped : redispatches[i] < Cap
      BY <1>3, ConfigAssumption DEF TablesOK, ChargedAt, HeldBy
    <3> HIDE DEF charged, capped
    <3>3. QED
      BY <3>1, <3>2, <1>3, ConfigAssumption DEF TablesOK
  <2>4. /\ holder' \in [Items -> Workers \cup {NoWorker}]
        /\ life' \in [Workers -> {"unknown", "live", "tombstoned", "departed"}]
        /\ completed' \in SUBSET [worker : Workers, path : Items, events : EventCounts]
        /\ age' \in [Workers -> 0 .. Threshold + 1]
    BY <1>1, <1>2, <1>3 DEF TablesOK, Unheld
  <2>5. done' \in SUBSET Items /\ sent' \in SUBSET Items
    BY <1>1, <1>4
  <2>6. QED
    BY <2>1, <2>2, <2>3, <2>4, <2>5, <1>2, <1>3 DEF TypeOK, TablesOK, Phases, Running
<1>11. HolderIsLive'
  <2>1. /\ holder' = [i \in Items |-> IF i \in charged THEN NoWorker ELSE holder[i]]
        /\ life' = [w \in Workers |-> IF w \in Silent THEN "tombstoned" ELSE life[w]]
    BY <1>1 DEF Unheld
  <2>2. \A i \in F : i \in charged \/ holder[i] = NoWorker
    BY DEF UnclaimedAt, SendableTo
  <2>3. SUFFICES ASSUME NEW i \in Items, holder'[i] # NoWorker
                 PROVE  holder'[i] \in Live' /\ i \notin done'
    BY DEF HolderIsLive
  <2>4. i \notin charged /\ holder'[i] = holder[i] /\ holder[i] \in Live /\ i \notin done
    BY <2>1, <2>3, <1>3 DEF HolderIsLive
  <2>5. holder[i] \notin Silent
    BY <2>4 DEF ChargedAt, HeldBy
  <2>6. QED
    BY <2>1, <2>2, <2>3, <2>4, <2>5, <1>4 DEF Live
<1>12. CreditedOnce'
  <2>1. /\ life' = [w \in Workers |-> IF w \in Silent THEN "tombstoned" ELSE life[w]]
        /\ completed' = completed \ credit
    BY <1>1
  <2>2. SUFFICES ASSUME NEW c \in completed'
                 PROVE  /\ c.path \in done'
                        /\ life'[c.worker] \in {"live", "departed"}
    BY <2>1, <1>3 DEF CreditedOnce
  <2>3. c \in completed /\ c.worker \in Workers /\ c.path \in Items /\ c.worker \notin Silent
    BY <2>1, <2>2, <1>3 DEF CreditsOf, TablesOK
  <2>4. c.path \notin reopened
    BY <2>3, <1>3 DEF CreditedOnce, ItemsOf, CreditsOf, ReopenedBy
  <2>5. QED
    BY <2>1, <2>3, <2>4, <1>3, <1>4 DEF CreditedOnce
<1>13. SummaryAddsUp' /\ GateClean' /\ ShutdownOpen'
  BY <1>2 DEF SummaryAddsUp, GateClean, ShutdownOpen
<1>14. QED
  BY <1>9, <1>10, <1>11, <1>12, <1>13 DEF IInv

-----------------------------------------------------------------------------
(* Every step *)

\* The invariant holds when run_coordinator starts.
LEMMA InitInv == Init => IInv
<1> SUFFICES ASSUME Init PROVE IInv
  OBVIOUS
<1>1. /\ done = {} /\ completed = {} /\ Credited = {}
      /\ open = Cardinality(Items) /\ filesOk = 0 /\ filesFailed = 0
  BY DEF Init, Credited, ItemsOf
<1>2. /\ Items \ done = Items /\ done \ Credited = {} /\ Cardinality({}) = 0
      /\ Cardinality(Items) \in Nat
  BY <1>1, FS_EmptySet, ItemSetsFinite
<1>3. TypeOK
  BY <1>1, <1>2, ConfigAssumption DEF Init, TypeOK, TablesOK, Phases, Running, Horizon
<1>4. CountersAgree
  BY <1>1, <1>2 DEF CountersAgree
<1>5. HolderIsLive /\ CreditedOnce /\ SummaryAddsUp /\ GateClean /\ ShutdownOpen
  BY DEF Init, HolderIsLive, CreditedOnce, SummaryAddsUp, GateClean, ShutdownOpen
<1>6. QED
  BY <1>3, <1>4, <1>5 DEF IInv

\* While the loop has not given up, the invariant is the frame invariant.
LEMMA InvAsFrame ==
  ASSUME IInv, pc \in Running, open > 0 \/ pc # "recv"
  PROVE  FrameInv
BY DEF IInv, FrameInv, TypeOK, CountersAgree, Going, Running

\* After a frame has been handled the frame invariant is the invariant again.
LEMMA FrameAsInv ==
  ASSUME FrameInv', pc' \in Running, pc' \notin {"gateRecv", "gateDrain"},
         elapsed' \in 0 .. Horizon + 1, stops' \in Nat
  PROVE  IInv'
BY DEF IInv, FrameInv, TypeOK, CountersAgree, Going, Running, Phases, SummaryAddsUp,
       GateClean, ShutdownOpen

\* Step 1 of a loop pass: one lifecycle frame.
LEMMA ReceiveKeeps ==
  ASSUME IInv, NEW f, Receive(f)
  PROVE  IInv'
<1>1. FrameInv
  BY InvAsFrame DEF Receive, Running
<1>2. FrameInv'
  BY <1>1, FrameKeeps DEF Receive
<1>3. /\ pc' = "drain" /\ elapsed' \in 0 .. Horizon + 1 /\ stops' \in Nat
  BY DEF Receive, IInv, TypeOK
<1>4. QED
  BY <1>2, <1>3, FrameAsInv DEF Running

\* Step 2 of a loop pass: the heartbeats.
LEMMA DrainKeeps ==
  ASSUME IInv, NEW beats \in SUBSET Workers, Drain(beats)
  PROVE  IInv'
<1>1. FrameInv
  BY InvAsFrame DEF Drain, Running
<1>2. FrameInv'
  BY <1>1, BeatKeeps DEF Drain, itemVars, tally
<1>3. /\ pc' = "sweep" /\ elapsed' \in 0 .. Horizon + 1 /\ stops' \in Nat
  BY DEF Drain, IInv, TypeOK
<1>4. QED
  BY <1>2, <1>3, FrameAsInv DEF Running

\* A frame at the registration gate settles and credits nothing.
LEMMA GateRecvKeeps ==
  ASSUME IInv, NEW f, GateRecv(f)
  PROVE  IInv'
<1>1. FrameInv /\ done = {} /\ completed = {} /\ holder = [i \in Items |-> NoWorker]
  BY InvAsFrame DEF GateRecv, Running, IInv, GateClean, ShutdownOpen
<1>2. /\ FrameInv' /\ done' = {} /\ completed' = {}
      /\ holder' = [i \in Items |-> NoWorker]
  <2>1. CASE /\ f \in WorkResult \cup WorkClaim
             /\ Touch({f.worker}) /\ NothingSettled
             /\ UNCHANGED <<redispatches, holder, completed>>
    <3>1. {f.worker} \in SUBSET Workers
      BY <2>1 DEF WorkResult, WorkClaim
    <3>2. QED
      BY <2>1, <3>1, <1>1, BeatKeeps DEF NothingSettled, tally
  <2>2. CASE OnNothing(f)
    <3>1. FrameInv'
      BY <2>2, <1>1, FrameKeeps
    <3>2. QED
      BY <2>2, <3>1, <1>1 DEF OnNothing, NothingSettled
  <2>3. CASE OnGoodbye(f)
    <3>1. FrameInv'
      BY <2>3, <1>1, FrameKeeps
    <3>2. CASE IgnoreBye(f)
      BY <3>1, <3>2, <1>1 DEF IgnoreBye, NothingSettled
    <3>3. CASE Depart(f)
      <4> DEFINE mine == HeldBy({f.worker})
                 back == SendableTo(Live \ {f.worker}, mine \ done)
      <4>1. f.worker \in Workers /\ mine = {}
        BY <3>3, <1>1, WorkersAssumption DEF Depart, Live, HeldBy
      <4>2. PICK lost \in SUBSET back : Redispatch(back, lost, {})
        BY <3>3 DEF Depart
      <4>3. back = {} /\ lost = {}
        BY <4>1, <4>2 DEF SendableTo
      <4>4. done' = done \cup lost
        BY <4>2 DEF Redispatch
      <4>5. holder' = Unheld(mine) /\ completed' = completed
        BY <3>3 DEF Depart
      <4>6. QED
        BY <3>1, <4>1, <4>3, <4>4, <4>5, <1>1 DEF Unheld
    <3>4. QED
      BY <2>3, <3>2, <3>3 DEF OnGoodbye
  <2>4. QED
    BY <2>1, <2>2, <2>3 DEF GateRecv
<1>3. /\ pc' = "gateDrain" /\ elapsed' \in 0 .. Horizon + 1 /\ stops' \in Nat
  BY DEF GateRecv, IInv, TypeOK
<1>4. QED
  BY <1>2, <1>3 DEF IInv, FrameInv, TypeOK, CountersAgree, Going, Running, Phases,
                    SummaryAddsUp, GateClean, ShutdownOpen

\* The registration gate opens, waits on, or gives the run up.
LEMMA GateDrainKeeps ==
  ASSUME IInv, NEW beats \in SUBSET Workers, GateDrain(beats)
  PROVE  IInv'
<1>1. FrameInv /\ done = {} /\ completed = {} /\ holder = [i \in Items |-> NoWorker]
  BY InvAsFrame DEF GateDrain, Running, IInv, GateClean, ShutdownOpen
<1>2. /\ Touch(beats) /\ sent' = {} /\ done' = {} /\ completed' = {}
      /\ holder' = [i \in Items |-> NoWorker]
      /\ UNCHANGED <<done, open, redispatches, holder, completed, filesOk,
                     totalEvents, workersDied>>
      /\ elapsed' \in 0 .. Horizon + 1 /\ stops' \in Nat
  BY <1>1 DEF GateDrain, itemVars, IInv, TypeOK
<1>3. CASE pc' \in {"gateRecv", "dispatch"}
  <2>1. filesFailed' = filesFailed
    BY <1>3 DEF GateDrain
  <2>2. FrameInv'
    BY <1>1, <1>2, <2>1, BeatKeeps DEF tally
  <2>3. QED
    BY <2>2, <1>2, <1>3 DEF IInv, FrameInv, TypeOK, CountersAgree, Going, Running,
                            Phases, SummaryAddsUp, GateClean, ShutdownOpen
<1>4. CASE pc' = "returned"
  <2>1. filesFailed' = open
    BY <1>4 DEF GateDrain
  <2>2. /\ open = Cardinality(Items) /\ filesOk = 0 /\ Cardinality(Items) \in Nat
        /\ Credited = {} /\ Credited' = {}
    <3>1. Items \ done = Items /\ Credited = {} /\ Credited' = {}
      BY <1>1, <1>2 DEF Credited, ItemsOf
    <3>2. Cardinality({}) = 0 /\ Cardinality(Items) \in Nat
      BY FS_EmptySet, ItemSetsFinite
    <3>3. QED
      BY <3>1, <3>2, <1>1 DEF FrameInv, Going
  <2>3. SummaryAddsUp'
    <3>1. Cardinality(Credited') = 0
      BY <2>2, FS_EmptySet
    <3>2. QED
      BY <2>1, <2>2, <3>1, <1>2 DEF SummaryAddsUp
  <2>4. TablesOK'
    BY <1>1, <1>2, <2>1, TouchKeeps DEF FrameInv, TablesOK
  <2>5. HolderIsLive' /\ CreditedOnce'
    BY <1>2 DEF HolderIsLive, CreditedOnce
  <2>6. QED
    BY <1>2, <1>4, <2>3, <2>4, <2>5 DEF IInv, TypeOK, Phases, CountersAgree, Running,
                                        GateClean, ShutdownOpen
<1>5. QED
  BY <1>3, <1>4 DEF GateDrain

\* The steps that only move the program counter or the clock.
LEMMA QuietKeeps ==
  ASSUME IInv, GateOpen \/ Dispatch \/ LeaveLoop \/ Tick \/ UNCHANGED vars
  PROVE  IInv'
<1>1. UNCHANGED <<done, redispatches, holder, open, life, completed, tally>>
  BY DEF GateOpen, Dispatch, LeaveLoop, Tick, Finished, vars, itemVars, workerVars, tally
<1>2. TypeOK'
  <2>1. age' \in [Workers -> 0 .. Threshold + 1]
    BY ConfigAssumption DEF GateOpen, Dispatch, LeaveLoop, Tick, vars, workerVars,
       IInv, TypeOK, TablesOK, AtMost
  <2>2. elapsed' \in 0 .. Horizon + 1
    BY ConfigAssumption DEF GateOpen, Dispatch, LeaveLoop, Tick, vars, IInv, TypeOK,
       AtMost, Horizon
  <2>3. stops' \in Nat /\ sent' \in SUBSET Items /\ pc' \in Phases
    BY DEF GateOpen, Dispatch, LeaveLoop, Tick, vars, IInv, TypeOK, TablesOK, Phases,
       Running
  <2>4. QED
    BY <1>1, <2>1, <2>2, <2>3 DEF IInv, TypeOK, TablesOK, tally
<1>3. HolderIsLive' /\ CreditedOnce'
  BY <1>1 DEF IInv, HolderIsLive, CreditedOnce, Live
<1>4. Credited' = Credited
  BY <1>1 DEF Credited, ItemsOf
<1>5. CountersAgree' /\ SummaryAddsUp'
  BY <1>1, <1>4 DEF GateOpen, Dispatch, LeaveLoop, Tick, vars, IInv, CountersAgree,
     SummaryAddsUp, Running, tally
<1>6. GateClean' /\ ShutdownOpen'
  BY <1>1 DEF GateOpen, Dispatch, LeaveLoop, Tick, vars, IInv, GateClean, ShutdownOpen
<1>7. QED
  BY <1>2, <1>3, <1>5, <1>6 DEF IInv

\* Shutdown returns the counters of a loop that has ended.
LEMMA ShutdownKeeps ==
  ASSUME IInv, Shutdown
  PROVE  IInv'
<1>1. /\ UNCHANGED <<done, redispatches, holder, open, life, age, completed, tally, elapsed>>
      /\ pc = "shutdown" /\ pc' = "returned" /\ sent' = {}
  BY DEF Shutdown, itemVars, workerVars
<1>2. stops' \in Nat
  <2>1. Registry \in SUBSET Workers
    BY DEF Registry
  <2>2. Cardinality(Registry) \in Nat
    BY <2>1, WorkersAssumption, FS_Subset, FS_CardinalityType
  <2>3. QED
    BY <2>2 DEF Shutdown
<1>3. TypeOK' /\ HolderIsLive' /\ CreditedOnce'
  BY <1>1, <1>2 DEF IInv, TypeOK, TablesOK, HolderIsLive, CreditedOnce, Live, tally, Phases
<1>4. Credited' = Credited /\ Credited \in SUBSET done /\ done \in SUBSET Items
  BY <1>1 DEF Credited, ItemsOf, IInv, CreditedOnce, TypeOK, TablesOK
<1>5. SummaryAddsUp'
  <2>1. /\ Cardinality(Credited) \in Nat /\ Cardinality(Items \ Credited) \in Nat
        /\ IsFiniteSet(Credited) /\ IsFiniteSet(Items)
    <3>1. Credited \in SUBSET Items /\ Items \ Credited \in SUBSET Items
      BY <1>4
    <3>2. QED
      BY <3>1, ItemSetsFinite, ItemsAssumption
  <2>2. Cardinality(Items \ Credited) = Cardinality(Items) - Cardinality(Credited)
        /\ Cardinality(Items) \in Nat
    BY <1>4, <2>1, CardParts
  <2>3. /\ filesOk = Cardinality(Credited)
        /\ filesFailed = Cardinality(Items \ Credited)
    <3>1. CASE open = 0 /\ filesFailed = Cardinality(Items \ Credited)
      BY <3>1, <1>1 DEF IInv, CountersAgree
    <3>2. CASE /\ open = Cardinality(Items \ done)
               /\ filesFailed = Cardinality(done \ Credited)
      <4>1. open = 0
        BY <1>1 DEF IInv, ShutdownOpen
      <4>2. Items \ done = {}
        <5>1. IsFiniteSet(Items \ done)
          BY ItemSetsFinite
        <5>2. QED
          BY <3>2, <4>1, <5>1, FS_EmptySet
      <4>3. done \ Credited = Items \ Credited
        BY <4>2, <1>4
      <4>4. QED
        BY <3>2, <4>3, <1>1 DEF IInv, CountersAgree
    <3>3. QED
      BY <3>1, <3>2, <1>1 DEF IInv, CountersAgree
  <2>4. QED
    BY <1>1, <1>4, <2>1, <2>2, <2>3 DEF SummaryAddsUp, tally
<1>6. QED
  BY <1>1, <1>3, <1>5 DEF IInv, CountersAgree, GateClean, Running, ShutdownOpen

\* The invariant is inductive.
LEMMA NextKeeps == IInv /\ [Next]_vars => IInv'
<1> SUFFICES ASSUME IInv, [Next]_vars
             PROVE  IInv'
  OBVIOUS
<1>1. ASSUME NEW f, GateRecv(f) \/ Receive(f)
      PROVE  IInv'
  BY <1>1, GateRecvKeeps, ReceiveKeeps
<1>2. ASSUME NEW beats \in SUBSET Workers, GateDrain(beats) \/ Drain(beats)
      PROVE  IInv'
  BY <1>2, GateDrainKeeps, DrainKeeps
<1>3. CASE GateOpen \/ Dispatch \/ LeaveLoop \/ Tick \/ UNCHANGED vars
  BY <1>3, QuietKeeps
<1>4. CASE Sweep
  BY <1>4, SweepKeeps
<1>5. CASE Shutdown
  BY <1>5, ShutdownKeeps
<1>6. QED
  BY <1>1, <1>2, <1>3, <1>4, <1>5 DEF Next, Pass, Finished

-----------------------------------------------------------------------------
(* The theorems *)

\* The conjunction of the invariants is inductive.
THEOREM Invariance == Spec => []IInv
BY InitInv, NextKeeps, PTL DEF Spec

\* Every variable stays in its range: the cap bounds every item's charges and
\* the loop counter and the tallies never go negative.
THEOREM TypeCorrect == Spec => []TypeOK
<1>1. IInv => TypeOK
  BY DEF IInv
<1>2. QED
  BY <1>1, Invariance, PTL

\* A recorded holder is live and its item open, so no item is stranded with a
\* holder the sweep has already buried.
THEOREM ClaimsAreSound == Spec => []HolderIsLive
<1>1. IInv => HolderIsLive
  BY DEF IInv
<1>2. QED
  BY <1>1, Invariance, PTL

\* No item is credited twice and no credit outlives its worker's store.
THEOREM CreditsAreExclusive == Spec => []CreditedOnce
<1>1. IInv => CreditedOnce
  BY DEF IInv
<1>2. QED
  BY <1>1, Invariance, PTL

\* The counters the loop runs on agree with the tables at every step.
THEOREM CountersAreExact == Spec => []CountersAgree
<1>1. IInv => CountersAgree
  BY DEF IInv
<1>2. QED
  BY <1>1, Invariance, PTL

\* The summary a run returns accounts for every item once.
THEOREM SummaryIsExact == Spec => []SummaryAddsUp
<1>1. IInv => SummaryAddsUp
  BY DEF IInv
<1>2. QED
  BY <1>1, Invariance, PTL

\* A gone worker is never live again and never earns another credit.
THEOREM NoResurrection == Spec => GoneIsGone
<1> DEFINE Stays == \A w \in Gone : /\ life'[w] = life[w]
                                    /\ {c \in completed' : c.worker = w} \subseteq completed
<1>1. IInv /\ [Next]_vars => Stays \/ UNCHANGED vars
  <2> SUFFICES ASSUME IInv, Next, NEW w \in Gone
               PROVE  /\ life'[w] = life[w]
                      /\ {c \in completed' : c.worker = w} \subseteq completed
    OBVIOUS
  <2>1. w \in Workers /\ TablesOK
    BY DEF Gone, IInv, TypeOK
  <2>2. ASSUME NEW W, Touch(W)
        PROVE  life'[w] = life[w]
    BY <2>1, <2>2 DEF Touch, Gone
  <2>3. ASSUME NEW f, OnResult(f)
        PROVE  /\ life'[w] = life[w]
               /\ {c \in completed' : c.worker = w} \subseteq completed
    <3>1. life'[w] = life[w]
      BY <2>2, <2>3 DEF OnResult, DropResult, RetryResult, SettleOk, SettleFailed, Accepted
    <3>2. completed' = completed \/
            /\ f.worker \notin Gone
            /\ completed' = completed \cup
                 {[worker |-> f.worker, path |-> f.path, events |-> f.events]}
      BY <2>3 DEF OnResult, DropResult, RetryResult, SettleOk, SettleFailed, Accepted
    <3>3. QED
      BY <3>1, <3>2
  <2>4. ASSUME NEW f, OnClaim(f) \/ OnNothing(f)
        PROVE  life'[w] = life[w] /\ completed' = completed
    BY <2>2, <2>4 DEF OnClaim, HoldClaim, ZombieClaim, OnNothing
  <2>5. ASSUME NEW g, OnGoodbye(g)
        PROVE  life'[w] = life[w] /\ completed' = completed
    BY <2>1, <2>5 DEF OnGoodbye, Depart, IgnoreBye, Live, Gone, TablesOK
  <2>6. ASSUME NEW f, GateRecv(f)
        PROVE  life'[w] = life[w] /\ completed' = completed
    BY <2>2, <2>4, <2>5, <2>6 DEF GateRecv
  <2>7. ASSUME NEW f, Receive(f)
        PROVE  /\ life'[w] = life[w]
               /\ {c \in completed' : c.worker = w} \subseteq completed
    BY <2>3, <2>4, <2>5, <2>7 DEF Receive
  <2>8. ASSUME NEW beats, GateDrain(beats) \/ Drain(beats)
        PROVE  life'[w] = life[w] /\ completed' = completed
    BY <2>2, <2>8 DEF GateDrain, Drain
  <2>9. ASSUME Sweep
        PROVE  life'[w] = life[w] /\ completed' \subseteq completed
    BY <2>1, <2>9 DEF Sweep, Silent, Live, Gone
  <2>10. ASSUME GateOpen \/ Dispatch \/ LeaveLoop \/ Shutdown \/ Tick \/ Finished
         PROVE  life'[w] = life[w] /\ completed' = completed
    BY <2>10 DEF GateOpen, Dispatch, LeaveLoop, Shutdown, Tick, Finished, workerVars, vars
  <2>11. QED
    BY <2>6, <2>7, <2>8, <2>9, <2>10 DEF Next, Pass
<1>2. QED
  BY <1>1, Invariance, PTL DEF Spec, GoneIsGone

\* A settled item reopens only when the worker credited with it is declared
\* dead in that step.
THEOREM ReopenIsWriteOff == Spec => ReopenedByDeathOnly
<1> DEFINE A == \A i \in done \ done' :
                  \E c \in completed : /\ c.path = i
                                       /\ life[c.worker] = "live"
                                       /\ life'[c.worker] = "tombstoned"
<1>1. IInv /\ [Next]_vars => A \/ UNCHANGED vars
  <2> SUFFICES ASSUME IInv, Next
               PROVE  A
    OBVIOUS
  <2>1. ASSUME NEW f, GateRecv(f) \/ Receive(f)
        PROVE  done \subseteq done'
    BY <2>1 DEF GateRecv, Receive, OnResult, DropResult, RetryResult, SettleOk,
       SettleFailed, OnClaim, HoldClaim, ZombieClaim, OnGoodbye, Depart, IgnoreBye,
       OnNothing, NothingSettled, Redispatch
  <2>2. ASSUME Sweep
        PROVE  A
    <3>1. done \ done' \subseteq ItemsOf(CreditsOf(Silent))
      BY <2>2 DEF Sweep, ReopenedBy
    <3>2. life' = [w \in Workers |-> IF w \in Silent THEN "tombstoned" ELSE life[w]]
      BY <2>2 DEF Sweep
    <3>3. \A w \in Silent : w \in Workers /\ life[w] = "live"
      BY DEF Silent, Live
    <3>4. QED
      BY <3>1, <3>2, <3>3 DEF ItemsOf, CreditsOf
  <2>3. ASSUME NEW beats, GateDrain(beats) \/ Drain(beats)
        PROVE  done' = done
    BY <2>3 DEF GateDrain, Drain, itemVars
  <2>4. ASSUME GateOpen \/ Dispatch \/ LeaveLoop \/ Shutdown \/ Tick \/ Finished
        PROVE  done' = done
    BY <2>4 DEF GateOpen, Dispatch, LeaveLoop, Shutdown, Tick, Finished, itemVars, vars
  <2>5. QED
    BY <2>1, <2>2, <2>3, <2>4 DEF Next, Pass
<1>2. QED
  BY <1>1, Invariance, PTL DEF Spec, ReopenedByDeathOnly

\* A death leaves the items of the survivors alone.
THEOREM SurvivorsUndisturbed == Spec => SurvivorsKeepTheirItems
<1> DEFINE A == pc = "sweep" =>
       \A i \in Items : holder[i] \in Live /\ life'[holder[i]] = "live" =>
         i \notin sent' /\ redispatches'[i] = redispatches[i]
<1>1. IInv /\ [Next]_vars => A \/ UNCHANGED vars
  <2> SUFFICES ASSUME IInv, Next, pc = "sweep", NEW i \in Items,
                      holder[i] \in Live, life'[holder[i]] = "live"
               PROVE  i \notin sent' /\ redispatches'[i] = redispatches[i]
    OBVIOUS
  <2>1. Sweep
    BY DEF Next, Pass, GateRecv, Receive, GateDrain, Drain, GateOpen, Dispatch,
       LeaveLoop, Shutdown, Tick, Finished, Stopped
  <2>2. holder[i] \notin Silent
    BY <2>1 DEF Sweep, Silent, Live
  <2>3. i \notin HeldBy(Silent) /\ holder[i] # NoWorker
    BY <2>2, WorkersAssumption DEF HeldBy, Live
  <2>4. \A I, J : i \notin ChargedAt(Silent, I) /\ i \notin UnclaimedAt(Silent, J)
    BY <2>3 DEF ChargedAt, UnclaimedAt
  <2>5. \A I, live : i \in SendableTo(live, I) => i \in I
    BY DEF SendableTo
  <2>6. QED
    BY <2>1, <2>4, <2>5, Zenon DEF Sweep
<1>2. QED
  BY <1>1, Invariance, PTL DEF Spec, SurvivorsKeepTheirItems

\* Nothing goes to the work socket for nobody after the initial dispatch.
THEOREM SendsReachSomebody == Spec => SendsNeedSomebody
<1> DEFINE A == (pc \in {"recv", "sweep"} /\ sent' # {}) => Live' # {}
<1>1. IInv /\ [Next]_vars => A \/ UNCHANGED vars
  <2> SUFFICES ASSUME IInv, Next, pc \in {"recv", "sweep"}, sent' # {}
               PROVE  Live' # {}
    OBVIOUS
  <2>1. \A live, I : SendableTo(live, I) # {} => live # {}
    BY DEF SendableTo
  <2>2. ASSUME NEW f, Receive(f)
        PROVE  Live' # {}
    <3>1. CASE RetryResult(f)
      BY <3>1 DEF RetryResult, Accepted, Touch, Live, Gone, IInv, TypeOK, TablesOK, WorkResult
    <3>2. CASE ZombieClaim(f)
      <4> DEFINE stranded == SendableTo(Live, {i \in Items : /\ i = f.path /\ IsOpen(i)
                                                             /\ holder[i] \notin Live})
      <4>1. PICK lost \in SUBSET stranded : Redispatch(stranded, lost, {})
        BY <3>2 DEF ZombieClaim
      <4>2. Live # {}
        BY <4>1, <2>1 DEF Redispatch
      <4>3. QED
        BY <4>2, <3>2 DEF ZombieClaim, Live
    <3>3. CASE Depart(f)
      <4>1. Live \ {f.worker} # {}
        BY <3>3, <2>1 DEF Depart, Redispatch
      <4>2. QED
        BY <4>1, <3>3 DEF Depart, Live, IInv, TypeOK, TablesOK
    <3>4. CASE sent' = {}
      BY <3>4
    <3>5. QED
      BY <2>2, <3>1, <3>2, <3>3, <3>4 DEF Receive, OnResult, DropResult, SettleOk,
         SettleFailed, OnClaim, HoldClaim, OnGoodbye, IgnoreBye, OnNothing,
         NothingSettled, Redispatch
  <2>3. ASSUME Sweep
        PROVE  Live' # {}
    <3>1. Live \ Silent # {}
      BY <2>3, <2>1 DEF Sweep
    <3>2. life' = [w \in Workers |-> IF w \in Silent THEN "tombstoned" ELSE life[w]]
      BY <2>3 DEF Sweep
    <3>3. QED
      BY <3>1, <3>2 DEF Live
  <2>4. QED
    BY <2>2, <2>3 DEF Next, Pass, GateRecv, GateDrain, Drain, GateOpen, Dispatch,
       LeaveLoop, Shutdown, Tick, Finished, Stopped
<1>2. QED
  BY <1>1, Invariance, PTL DEF Spec, SendsNeedSomebody

\* No step sends again what is settled or what a live worker holds: a claim
\* answered by a retry has no holder left, and what the departed and the dead
\* held is nobody's once it is sent.
THEOREM ResendsAlwaysDue == Spec => ResendsAreDue
<1> DEFINE A == pc # "dispatch" => \A i \in sent' : i \notin done' /\ holder'[i] \notin Live'
<1>1. IInv /\ [Next]_vars => A \/ UNCHANGED vars
  <2> SUFFICES ASSUME IInv, Next, pc # "dispatch", NEW i \in sent'
               PROVE  (i \notin done' /\ holder'[i] \notin Live') \/ UNCHANGED vars
    OBVIOUS
  <2>1. TablesOK /\ NoWorker \notin Live' /\ \A I, live : SendableTo(live, I) \subseteq I
    BY WorkersAssumption DEF IInv, TypeOK, Live, SendableTo
  <2>2. ASSUME NEW r, RetryResult(r) PROVE i \notin done' /\ holder'[i] = NoWorker
    <3>1. PICK lost \in SUBSET {r.path} : Redispatch({r.path}, lost, {})
      BY <2>2 DEF RetryResult
    <3>2. i = r.path /\ i \notin lost /\ i \in Items \ done /\ holder' = Unheld({r.path})
      BY <2>2, <3>1 DEF RetryResult, Accepted, Redispatch, IsOpen
    <3> QED BY <3>1, <3>2 DEF Redispatch, Unheld
  <2>3. ASSUME NEW c, ZombieClaim(c) PROVE i \notin done' /\ holder'[i] \notin Live'
    <3> DEFINE stranded == SendableTo(Live, {j \in Items : /\ j = c.path /\ IsOpen(j)
                                                           /\ holder[j] \notin Live})
    <3>1. PICK lost \in SUBSET stranded : Redispatch(stranded, lost, {})
      BY <2>3 DEF ZombieClaim
    <3>2. i \in stranded \ lost /\ done' = done \cup lost
      BY <3>1 DEF Redispatch
    <3>3. i \notin done /\ holder[i] \notin Live
      BY <2>1, <3>2 DEF IsOpen
    <3>4. UNCHANGED <<holder, life>>
      BY <2>3 DEF ZombieClaim
    <3> QED BY <3>2, <3>3, <3>4 DEF Live
  <2>4. ASSUME NEW g, Depart(g) PROVE i \notin done' /\ holder'[i] = NoWorker
    <3> DEFINE mine == HeldBy({g.worker})
               back == SendableTo(Live \ {g.worker}, mine \ done)
    <3>1. PICK lost \in SUBSET back : Redispatch(back, lost, {})
      BY <2>4 DEF Depart
    <3>2. i \in back \ lost /\ done' = done \cup lost
      BY <3>1 DEF Redispatch
    <3>3. i \in mine /\ i \notin done /\ i \in Items
      BY <2>1, <3>2 DEF HeldBy
    <3>4. holder' = Unheld(mine)
      BY <2>4 DEF Depart
    <3> HIDE DEF mine, back
    <3> QED BY <3>2, <3>3, <3>4 DEF Unheld
  <2>5. ASSUME Sweep PROVE i \notin done' /\ holder'[i] = NoWorker
    <3> DEFINE reopened == ReopenedBy(Silent)
               undone   == (Items \ done) \cup reopened
               charged  == ChargedAt(Silent, undone)
               unheld   == UnclaimedAt(Silent, undone)
               capped   == {j \in charged : redispatches[j] >= Cap}
               resend   == SendableTo(Live \ Silent, unheld \cup (charged \ capped))
    <3>1. PICK lost \in SUBSET resend :
            /\ sent' = resend \ lost
            /\ done' = (done \ reopened) \cup lost \cup capped
            /\ holder' = Unheld(charged)
      BY <2>5 DEF Sweep
    <3>2. i \in unheld \cup (charged \ capped) /\ i \notin lost
      BY <2>1, <3>1
    <3>3. i \in undone /\ (i \in charged \/ holder[i] = NoWorker)
      BY <3>2 DEF ChargedAt, UnclaimedAt
    <3>4. i \in Items /\ i \notin done \ reopened
      BY <2>1, <3>3 DEF ReopenedBy, TablesOK
    <3>5. i \notin capped
      <4>1. CASE i \in unheld
        <5>1. holder[i] = NoWorker /\ NoWorker \notin Silent
          BY <4>1, WorkersAssumption DEF UnclaimedAt, Silent, Live
        <5>2. i \notin charged
          BY <5>1 DEF ChargedAt, HeldBy
        <5> QED BY <5>2
      <4> QED BY <3>2, <4>1
    <3> HIDE DEF reopened, undone, charged, unheld, capped, resend
    <3> QED BY <3>1, <3>2, <3>3, <3>4, <3>5 DEF Unheld
  <2>6. ASSUME NEW f, GateRecv(f) \/ Receive(f) PROVE i \notin done' /\ holder'[i] \notin Live'
    <3>1. i \notin {}
      OBVIOUS
    <3>2. RetryResult(f) \/ ZombieClaim(f) \/ Depart(f)
      BY <2>6, <3>1 DEF GateRecv, Receive, OnResult, DropResult, SettleOk, SettleFailed,
         OnClaim, HoldClaim, OnGoodbye, IgnoreBye, OnNothing, NothingSettled, Redispatch
    <3> QED BY <2>1, <2>2, <2>3, <2>4, <3>2
  <2>7. ASSUME NEW beats, GateDrain(beats) \/ Drain(beats) PROVE FALSE
    BY <2>7 DEF GateDrain, Drain
  <2>8. ASSUME GateOpen \/ LeaveLoop \/ Shutdown \/ Tick PROVE FALSE
    BY <2>8 DEF GateOpen, LeaveLoop, Shutdown, Tick
  <2>9. ~Dispatch
    BY DEF Dispatch
  <2>10. QED
    BY <2>1, <2>5, <2>6, <2>7, <2>8, <2>9 DEF Next, Pass, Finished
<1>2. QED
  BY <1>1, Invariance, PTL DEF Spec, ResendsAreDue

-----------------------------------------------------------------------------
(* Sums over finite sets *)

Total(w, S) == MapThenSumSet(LAMBDA x : w[x], S)

Pick(s) == CHOOSE x \in s : TRUE

\* f is the function MapThenSumSet recurs with.
SumRec(w, S, f) ==
  f = [s \in SUBSET S |-> IF s = {} THEN 0 ELSE w[Pick(s)] + f[s \ {Pick(s)}]]

\* MapThenSumSet, unfolded down to its recursive function.
LEMMA TotalDef == \A w, S : Total(w, S) = (CHOOSE f : SumRec(w, S, f))[S]
BY DEF Total, MapThenSumSet, MapThenFoldSet, SumRec, Pick

\* The same for the events of a set of credits.
LEMMA EventsDef ==
  \A C : EventsOf(C) = (CHOOSE f : f = [s \in SUBSET C |->
    IF s = {} THEN 0 ELSE Pick(s).events + f[s \ {Pick(s)}]])[C]
BY DEF EventsOf, MapThenSumSet, MapThenFoldSet, Pick

\* Any set of subsets of a finite set has a member with no smaller one in it.
LEMMA SmallestMember ==
  ASSUME NEW S, IsFiniteSet(S), NEW T \in SUBSET SUBSET S, T # {}
  PROVE  \E U \in T : \A V \in SUBSET U : V # U => V \notin T
<1>1. IsWellFoundedOn(StrictSubsetOrdering(S), FiniteSubsetsOf(S))
  BY FS_StrictSubsetOrderingWellFounded
<1>2. FiniteSubsetsOf(S) = SUBSET S
  BY FS_FiniteSubsetsOfFinite
<1>3. PICK U \in T : \A V \in T : ~ (<<V, U>> \in StrictSubsetOrdering(S))
  BY <1>1, <1>2, WFMin
<1>4. \A V \in SUBSET U : V # U /\ V \in T => FALSE
  BY <1>3 DEF StrictSubsetOrdering
<1> QED BY <1>4

\* The member that is taken out of a set is in it.
LEMMA PickIn == \A s : s # {} => Pick(s) \in s
BY DEF Pick

\* Two such functions agree where both are defined.
LEMMA SumRecAgree ==
  ASSUME NEW w, NEW A, IsFiniteSet(A), NEW B, NEW f, NEW g, SumRec(w, A, f), SumRec(w, B, g)
  PROVE  \A U \in SUBSET (A \cap B) : f[U] = g[U]
<1> DEFINE T == {U \in SUBSET (A \cap B) : f[U] # g[U]}
<1>1. SUFFICES ASSUME T # {} PROVE FALSE
  OBVIOUS
<1>2. T \in SUBSET SUBSET A
  OBVIOUS
<1>3. PICK U \in T : \A V \in SUBSET U : V # U => V \notin T
  <2> HIDE DEF T
  <2> QED BY <1>1, <1>2, SmallestMember
<1>4. U \in SUBSET A /\ U \in SUBSET B /\ f[U] # g[U]
  OBVIOUS
<1>5. f[U] = IF U = {} THEN 0 ELSE w[Pick(U)] + f[U \ {Pick(U)}]
  BY <1>4 DEF SumRec
<1>6. g[U] = IF U = {} THEN 0 ELSE w[Pick(U)] + g[U \ {Pick(U)}]
  BY <1>4 DEF SumRec
<1>7. U # {}
  BY <1>4, <1>5, <1>6
<1>8. f[U \ {Pick(U)}] = g[U \ {Pick(U)}]
  <2>1. U \ {Pick(U)} # U /\ U \ {Pick(U)} \in SUBSET U
    BY <1>7, PickIn
  <2> QED BY <1>3, <1>4, <2>1
<1> QED BY <1>4, <1>5, <1>6, <1>7, <1>8

\* There is such a function for every finite set.
LEMMA SumRecExists ==
  ASSUME NEW w, NEW S, IsFiniteSet(S)
  PROVE  \E f : SumRec(w, S, f)
<1> DEFINE T == {U \in SUBSET S : ~ \E f : SumRec(w, U, f)}
<1>1. SUFFICES ASSUME T # {} PROVE FALSE
  OBVIOUS
<1>3. PICK U \in T : \A V \in SUBSET U : V # U => V \notin T
  <2>1. T \in SUBSET SUBSET S
    OBVIOUS
  <2> HIDE DEF T
  <2> QED BY <1>1, <2>1, SmallestMember
<1>4. U \in SUBSET S /\ ~ \E f : SumRec(w, U, f)
  OBVIOUS
<1> DEFINE G(V) == CHOOSE g : SumRec(w, V, g)
<1>5. \A V \in SUBSET U : V # U => SumRec(w, V, G(V))
  BY <1>3, <1>4
<1> HIDE DEF G
<1> DEFINE W(V) == V \ {Pick(V)}
           f == [s \in SUBSET U |-> IF s = {} THEN 0 ELSE w[Pick(s)] + G(W(s))[W(s)]]
<1>6. \A s \in SUBSET U : s # {} => W(s) \in SUBSET U /\ W(s) # U /\ W(s) \in SUBSET s /\ W(s) # s
  BY PickIn
<1> HIDE DEF W
<1>7. \A s \in SUBSET U : s # {} => f[W(s)] = G(W(s))[W(s)]
  <2> SUFFICES ASSUME NEW s \in SUBSET U, s # {} PROVE f[W(s)] = G(W(s))[W(s)]
    OBVIOUS
  <2> DEFINE v == W(s)
  <2>1. v \in SUBSET U /\ v # U
    BY <1>6
  <2>2. SumRec(w, v, G(v))
    BY <1>5, <2>1
  <2> HIDE DEF v
  <2>3. G(v)[v] = IF v = {} THEN 0 ELSE w[Pick(v)] + G(v)[W(v)]
    BY <2>2 DEF SumRec, W
  <2>4. f[v] = IF v = {} THEN 0 ELSE w[Pick(v)] + G(W(v))[W(v)]
    BY <2>1
  <2>5. v # {} => G(v)[W(v)] = G(W(v))[W(v)]
    <3>1. SUFFICES ASSUME v # {} PROVE G(v)[W(v)] = G(W(v))[W(v)]
      OBVIOUS
    <3>2. W(v) \in SUBSET U /\ W(v) # U /\ W(v) \in SUBSET v
      BY <1>6, <2>1, <3>1
    <3>3. SumRec(w, W(v), G(W(v)))
      BY <1>5, <3>2
    <3>4. IsFiniteSet(v)
      BY <1>4, <2>1, FS_Subset
    <3>5. W(v) \in SUBSET (v \cap W(v))
      BY <3>2
    <3> QED BY <2>2, <3>3, <3>4, <3>5, SumRecAgree
  <2>6. f[v] = G(v)[v]
    BY <2>3, <2>4, <2>5
  <2> QED BY <2>6 DEF v
<1>8. SumRec(w, U, f)
  BY <1>7 DEF SumRec, W
<1> QED BY <1>4, <1>8

\* What a sum over a set is in terms of the sum over a smaller one.
LEMMA TotalUnfold ==
  ASSUME NEW w, NEW S, IsFiniteSet(S)
  PROVE  Total(w, S) = IF S = {} THEN 0 ELSE w[Pick(S)] + Total(w, S \ {Pick(S)})
<1> DEFINE R == S \ {Pick(S)}
           F(V) == CHOOSE f : SumRec(w, V, f)
<1>1. R \in SUBSET S /\ IsFiniteSet(R)
  BY FS_Subset
<1>2. SumRec(w, S, F(S)) /\ SumRec(w, R, F(R))
  BY <1>1, SumRecExists
<1>3. Total(w, S) = F(S)[S] /\ Total(w, R) = F(R)[R]
  BY TotalDef
<1> HIDE DEF F
<1>4. F(S)[S] = IF S = {} THEN 0 ELSE w[Pick(S)] + F(S)[R]
  BY <1>2 DEF SumRec
<1>5. F(S)[R] = F(R)[R]
  BY <1>1, <1>2, SumRecAgree
<1> QED BY <1>3, <1>4, <1>5

\* A sum of naturals is a natural, and any member may be taken out of it.
LEMMA TotalRemove ==
  ASSUME NEW D, NEW w \in [D -> Nat], NEW S \in SUBSET D, IsFiniteSet(S)
  PROVE  /\ Total(w, S) \in Nat /\ Total(w, {}) = 0
         /\ \A x \in S : Total(w, S) = w[x] + Total(w, S \ {x})
<1> DEFINE Good(U) == /\ Total(w, U) \in Nat
                      /\ \A x \in U : Total(w, U) = w[x] + Total(w, U \ {x})
           T == {U \in SUBSET S : ~Good(U)}
<1>1. Total(w, {}) = 0
  BY TotalUnfold, FS_EmptySet
<1>2. SUFFICES ASSUME T # {} PROVE FALSE
  BY <1>1
<1>3. PICK U \in T : \A V \in SUBSET U : V # U => V \notin T
  <2>1. T \in SUBSET SUBSET S
    OBVIOUS
  <2> HIDE DEF T
  <2> QED BY <1>2, <2>1, SmallestMember
<1>4. U \in SUBSET S /\ ~Good(U)
  OBVIOUS
<1>5. \A V \in SUBSET U : V # U => Good(V)
  BY <1>3, <1>4
<1>6. \A V \in SUBSET U : IsFiniteSet(V)
  BY <1>4, FS_Subset
<1>7. U # {}
  <2>1. Good({})
    BY <1>1
  <2> QED BY <1>4, <2>1
<1> DEFINE p == Pick(U)
<1>8. p \in U /\ p \in D
  BY <1>4, <1>7, PickIn
<1>9. Total(w, U) = w[p] + Total(w, U \ {p})
  BY <1>6, <1>7, TotalUnfold
<1> HIDE DEF p
<1>10. \A x \in U : U \ {x} \in SUBSET U /\ U \ {x} # U /\ Total(w, U \ {x}) \in Nat
  BY <1>5
<1>11. \A x \in U : w[x] \in Nat
  BY <1>4
<1>12. Total(w, U) \in Nat
  BY <1>8, <1>9, <1>10, <1>11
<1>13. ASSUME NEW x \in U, x # p PROVE Total(w, U) = w[x] + Total(w, U \ {x})
  <2> DEFINE B == (U \ {x}) \ {p}
  <2>1. B = (U \ {p}) \ {x} /\ B \in SUBSET U /\ B # U
    BY <1>8
  <2>2. Total(w, U \ {p}) = w[x] + Total(w, B)
    BY <1>5, <1>8, <1>10, <1>13, <2>1
  <2>3. Total(w, U \ {x}) = w[p] + Total(w, B)
    BY <1>5, <1>8, <1>10, <1>13
  <2>4. Total(w, B) \in Nat
    BY <1>5, <2>1
  <2> HIDE DEF B
  <2> QED BY <1>8, <1>9, <1>11, <1>13, <2>2, <2>3, <2>4
<1> QED BY <1>4, <1>9, <1>12, <1>13

\* A sum falls into the sum over a part and the sum over the rest.
LEMMA TotalParts ==
  ASSUME NEW D, NEW w \in [D -> Nat], NEW S \in SUBSET D, IsFiniteSet(S), NEW P \in SUBSET S
  PROVE  Total(w, S) = Total(w, P) + Total(w, S \ P)
<1> DEFINE T == {U \in SUBSET S : Total(w, S) # Total(w, U) + Total(w, S \ U)}
<1>1. SUFFICES ASSUME T # {} PROVE FALSE
  OBVIOUS
<1>2. PICK U \in T : \A V \in SUBSET U : V # U => V \notin T
  <2>1. T \in SUBSET SUBSET S
    OBVIOUS
  <2> HIDE DEF T
  <2> QED BY <1>1, <2>1, SmallestMember
<1>3. U \in SUBSET S /\ Total(w, S) # Total(w, U) + Total(w, S \ U)
  OBVIOUS
<1>4. \A V \in SUBSET S : /\ Total(w, V) \in Nat
                          /\ \A x \in V : Total(w, V) = w[x] + Total(w, V \ {x})
  BY FS_Subset, TotalRemove
<1>5. U # {}
  <2>1. Total(w, {}) = 0 /\ S \ {} = S
    <3>1. Total(w, {}) = 0
      BY TotalRemove
    <3> QED BY <3>1
  <2>2. Total(w, S) \in Nat
    BY <1>4
  <2>3. U = {} => S \ U = S
    OBVIOUS
  <2> QED BY <1>3, <2>1, <2>2, <2>3
<1>6. PICK x \in U : TRUE
  BY <1>5
<1>7. Total(w, S) = Total(w, U \ {x}) + Total(w, S \ (U \ {x}))
  <2>1. U \ {x} \in SUBSET U /\ U \ {x} # U
    BY <1>6
  <2> QED BY <1>2, <1>3, <2>1
<1>8. Total(w, U) = w[x] + Total(w, U \ {x})
  BY <1>3, <1>4, <1>6
<1>9. Total(w, S \ (U \ {x})) = w[x] + Total(w, S \ U)
  <2>1. (S \ (U \ {x})) \ {x} = S \ U /\ x \in S \ (U \ {x})
    BY <1>3, <1>6
  <2> QED BY <1>3, <1>4, <2>1
<1>10. w[x] \in Nat /\ Total(w, U \ {x}) \in Nat /\ Total(w, S \ U) \in Nat
  BY <1>3, <1>4, <1>6
<1> QED BY <1>3, <1>7, <1>8, <1>9, <1>10

\* What is nothing adds nothing.
LEMMA TotalZero ==
  ASSUME NEW D, NEW w \in [D -> Nat], NEW S \in SUBSET D, IsFiniteSet(S),
         \A x \in S : w[x] = 0
  PROVE  Total(w, S) = 0
<1> DEFINE T == {U \in SUBSET S : Total(w, U) # 0}
<1>1. SUFFICES ASSUME T # {} PROVE FALSE
  OBVIOUS
<1>2. PICK U \in T : \A V \in SUBSET U : V # U => V \notin T
  <2>1. T \in SUBSET SUBSET S
    OBVIOUS
  <2> HIDE DEF T
  <2> QED BY <1>1, <2>1, SmallestMember
<1>3. U \in SUBSET S /\ Total(w, U) # 0 /\ IsFiniteSet(U)
  BY FS_Subset
<1>4. PICK x \in U : TRUE
  BY <1>3, TotalRemove
<1>5. Total(w, U) = w[x] + Total(w, U \ {x})
  BY <1>3, <1>4, TotalRemove
<1>6. Total(w, U \ {x}) = 0
  <2>1. U \ {x} \in SUBSET U /\ U \ {x} # U
    BY <1>4
  <2> QED BY <1>2, <1>3, <2>1
<1> QED BY <1>3, <1>4, <1>5, <1>6

-----------------------------------------------------------------------------
(* The events of a set of credits *)

AllCredits   == [worker : Workers, path : Items, events : EventCounts]
CreditEvents == [c \in AllCredits |-> c.events]

\* A credit is worth a number of events.
LEMMA CreditEventsType == CreditEvents \in [AllCredits -> Nat]
BY EventsAssumption DEF CreditEvents, AllCredits

\* EventsOf is such a sum.
LEMMA EventsAreATotal ==
  ASSUME NEW C \in SUBSET AllCredits, IsFiniteSet(C)
  PROVE  EventsOf(C) = Total(CreditEvents, C)
<1> DEFINE Rec(f) == f = [s \in SUBSET C |->
                       IF s = {} THEN 0 ELSE Pick(s).events + f[s \ {Pick(s)}]]
<1>1. \A f : Rec(f) <=> SumRec(CreditEvents, C, f)
  <2>1. \A s \in SUBSET C : s # {} => CreditEvents[Pick(s)] = Pick(s).events
    BY PickIn DEF CreditEvents
  <2> QED BY <2>1 DEF SumRec
<1> DEFINE f == CHOOSE h : Rec(h)
           g == CHOOSE h : SumRec(CreditEvents, C, h)
<1>2. EventsOf(C) = f[C] /\ Total(CreditEvents, C) = g[C]
  BY EventsDef, TotalDef
<1>3. \E h : SumRec(CreditEvents, C, h)
  BY SumRecExists
<1> HIDE DEF Rec
<1>4. Rec(f) /\ SumRec(CreditEvents, C, g)
  BY <1>1, <1>3
<1>5. SumRec(CreditEvents, C, f)
  BY <1>1, <1>4
<1> HIDE DEF f, g
<1>6. f[C] = g[C]
  BY <1>4, <1>5, SumRecAgree
<1> QED BY <1>2, <1>6

\* The credits are finitely many, an item each.
LEMMA CreditsFinite ==
  ASSUME TablesOK, CreditedOnce
  PROVE  completed \in SUBSET AllCredits /\ IsFiniteSet(completed)
<1>1. completed \in SUBSET AllCredits
  BY DEF TablesOK, AllCredits
<1> DEFINE f == [c \in completed |-> c.path]
<1>2. f \in Injection(completed, Items)
  BY <1>1 DEF CreditedOnce, Injection, IsInjective, AllCredits
<1>3. IsFiniteSet(completed)
  BY <1>2, ItemsAssumption, FS_Injection
<1> QED BY <1>1, <1>3

\* One more credit adds its events; credits taken back take theirs.
LEMMA EventsAdded ==
  ASSUME NEW C \in SUBSET AllCredits, IsFiniteSet(C), NEW c \in AllCredits, c \notin C
  PROVE  EventsOf(C \cup {c}) = EventsOf(C) + c.events
<1>1. C \cup {c} \in SUBSET AllCredits /\ IsFiniteSet(C \cup {c}) /\ (C \cup {c}) \ {c} = C
  BY FS_AddElement
<1>2. Total(CreditEvents, C \cup {c}) = CreditEvents[c] + Total(CreditEvents, C)
  BY <1>1, CreditEventsType, TotalRemove
<1>3. CreditEvents[c] = c.events /\ CreditEvents[c] \in Nat /\ Total(CreditEvents, C) \in Nat
  BY CreditEventsType, TotalRemove DEF CreditEvents
<1> QED BY <1>1, <1>2, <1>3, EventsAreATotal

\* Credits that are taken back take their events with them.
LEMMA EventsTakenBack ==
  ASSUME NEW C \in SUBSET AllCredits, IsFiniteSet(C), NEW D \in SUBSET C
  PROVE  EventsOf(C \ D) = EventsOf(C) - EventsOf(D)
<1>1. /\ D \in SUBSET AllCredits /\ IsFiniteSet(D)
      /\ C \ D \in SUBSET AllCredits /\ IsFiniteSet(C \ D)
  BY FS_Subset, FS_Difference
<1>2. Total(CreditEvents, C) = Total(CreditEvents, D) + Total(CreditEvents, C \ D)
  BY CreditEventsType, TotalParts
<1>3. Total(CreditEvents, D) \in Nat /\ Total(CreditEvents, C \ D) \in Nat
  BY <1>1, CreditEventsType, TotalRemove
<1> QED BY <1>1, <1>2, <1>3, EventsAreATotal

-----------------------------------------------------------------------------
(* The event total *)

\* No credit, no event.
LEMMA TotalInit == Init => TotalMatchesCredit
<1>1. {} \in SUBSET AllCredits /\ IsFiniteSet({})
  BY FS_EmptySet
<1>2. EventsOf({}) = 0
  BY <1>1, CreditEventsType, EventsAreATotal, TotalRemove
<1> QED BY <1>2 DEF Init, TotalMatchesCredit

\* A frame adds the events of the one credit it gives, if any.
LEMMA FrameKeepsTotal ==
  ASSUME TablesOK, CreditedOnce, TotalMatchesCredit,
         NEW f, OnResult(f) \/ OnClaim(f) \/ OnGoodbye(f) \/ OnNothing(f)
  PROVE  TotalMatchesCredit'
<1>1. CASE SettleOk(f)
  <2> DEFINE c == [worker |-> f.worker, path |-> f.path, events |-> f.events]
  <2>1. c \in AllCredits /\ f.path \notin done
    BY <1>1 DEF SettleOk, Accepted, IsOpen, WorkResult, AllCredits
  <2>2. c \notin completed
    BY <2>1 DEF CreditedOnce
  <2>3. completed' = completed \cup {c} /\ totalEvents' = totalEvents + c.events
    BY <1>1 DEF SettleOk
  <2>4. EventsOf(completed \cup {c}) = EventsOf(completed) + c.events
    <3> HIDE DEF c
    <3> QED BY <2>1, <2>2, CreditsFinite, EventsAdded
  <2> QED BY <2>3, <2>4 DEF TotalMatchesCredit
<1>2. CASE ~SettleOk(f)
  <2>1. UNCHANGED <<completed, totalEvents>>
    BY <1>2 DEF OnResult, OnClaim, OnGoodbye, OnNothing, DropResult, RetryResult, SettleFailed,
       HoldClaim, ZombieClaim, Depart, IgnoreBye, NothingSettled, Redispatch, tally
  <2> QED BY <2>1 DEF TotalMatchesCredit
<1> QED BY <1>1, <1>2

\* A sweep takes back the events of the credits it takes back.
LEMMA SweepKeepsTotal ==
  ASSUME TablesOK, CreditedOnce, TotalMatchesCredit, Sweep
  PROVE  TotalMatchesCredit'
<1>1. completed' = completed \ CreditsOf(Silent) /\ totalEvents' = totalEvents - EventsLost(Silent)
  BY DEF Sweep
<1>2. CreditsOf(Silent) \in SUBSET completed
  BY DEF CreditsOf
<1>3. EventsOf(completed \ CreditsOf(Silent)) = EventsOf(completed) - EventsOf(CreditsOf(Silent))
  BY <1>2, CreditsFinite, EventsTakenBack
<1> QED BY <1>1, <1>3 DEF TotalMatchesCredit, EventsLost

\* No other step touches the credits or the total.
LEMMA NextKeepsTotal ==
  ASSUME IInv, TotalMatchesCredit, [Next]_vars
  PROVE  TotalMatchesCredit'
<1>1. TablesOK /\ CreditedOnce
  BY DEF IInv, TypeOK
<1>2. ASSUME NEW f \in LifecycleFrame \cup {NoFrame}, GateRecv(f) PROVE TotalMatchesCredit'
  <2>1. CASE OnGoodbye(f) \/ OnNothing(f)
    BY <1>1, <2>1, FrameKeepsTotal
  <2>2. CASE UNCHANGED completed /\ NothingSettled
    BY <2>2 DEF NothingSettled, tally, TotalMatchesCredit
  <2> QED BY <1>2, <2>1, <2>2 DEF GateRecv
<1>3. ASSUME NEW f \in LifecycleFrame \cup {NoFrame}, Receive(f) PROVE TotalMatchesCredit'
  BY <1>1, <1>3, FrameKeepsTotal DEF Receive
<1>4. CASE Sweep
  BY <1>1, <1>4, SweepKeepsTotal
<1>5. CASE \/ \E beats \in SUBSET Workers : GateDrain(beats) \/ Drain(beats)
           \/ GateOpen \/ Dispatch \/ LeaveLoop \/ Shutdown \/ Tick \/ Finished \/ UNCHANGED vars
  <2>1. UNCHANGED <<completed, totalEvents>>
    BY <1>5 DEF GateDrain, Drain, GateOpen, Dispatch, LeaveLoop, Shutdown, Tick, Finished,
       vars, tally, workerVars
  <2> QED BY <2>1 DEF TotalMatchesCredit
<1> QED BY <1>2, <1>3, <1>4, <1>5 DEF Next, Pass

\* The event total of the summary is the sum over the credited items at every
\* moment: a reopened item takes its events back, so no retry, late result or
\* second completion counts them twice.
THEOREM TotalIsExact == Spec => []TotalMatchesCredit
<1>1. IInv /\ TotalMatchesCredit /\ [Next]_vars => TotalMatchesCredit'
  BY NextKeepsTotal
<1> QED BY <1>1, TotalInit, Invariance, PTL DEF Spec

-----------------------------------------------------------------------------
(* The coordinator implements the ledger: the pieces of the mapping *)

WrittenOff == {w \in Workers : life[w] = "tombstoned"}

\* The credit of an item is the only one there is.
LEMMA TheCredit ==
  ASSUME CreditedOnce, NEW c \in completed
  PROVE  CreditFor(c.path) = c
<1>1. \E d \in completed : d.path = c.path
  OBVIOUS
<1>2. CreditFor(c.path) \in completed /\ CreditFor(c.path).path = c.path
  BY <1>1 DEF CreditFor
<1> QED BY <1>2 DEF CreditedOnce

\* The credit chosen for an item is one the tables hold.
LEMMA CreditOfItem ==
  ASSUME CreditedOnce, NEW i \in Credited
  PROVE  CreditFor(i) \in completed /\ CreditFor(i).path = i
<1>1. PICK c \in completed : c.path = i
  BY DEF Credited, ItemsOf
<1> QED BY <1>1, TheCredit

\* What is credited is settled, and what is settled was dispatched.
LEMMA CreditedItems == TablesOK /\ CreditedOnce => Credited \subseteq done /\ done \subseteq Items
BY DEF TablesOK, CreditedOnce, Credited, ItemsOf

\* Nothing is written off or reported twice: a step that takes back the credits of
\* newly written-off workers, and gives up what it settles, is a WriteOff.
LEMMA IsAWriteOff ==
  ASSUME TablesOK, CreditedOnce, NEW W \in SUBSET Workers,
         completed' = completed \ CreditsOf(W),
         WrittenOff' = WrittenOff \cup W,
         Reported = L!NoReport, Reported' = Reported,
         \A i \in Items : Verdicts[i] = "failed" => Verdicts'[i] = "failed"
  PROVE  L!Next
<1> DEFINE back == {i \in L!With("ok") : By[i] \in W}
           givenUp == {i \in Items : Verdicts'[i] = "failed" /\ (Verdicts[i] = "open" \/ i \in back)}
<1>1. \A i \in Items : Verdicts[i] = IF i \in Credited THEN "ok"
                                  ELSE IF i \in done \/ GaveUp THEN "failed" ELSE "open"
  BY DEF Verdicts
<1>2. \A i \in Items : Verdicts'[i] = IF i \in Credited' THEN "ok"
                                   ELSE IF i \in done' \/ GaveUp' THEN "failed" ELSE "open"
  BY DEF Verdicts
<1>3. L!With("ok") = Credited
  BY <1>1 DEF L!With, Credited, ItemsOf
<1>4. back = {i \in Credited : CreditFor(i).worker \in W}
  BY <1>3 DEF By, Credited, ItemsOf
<1>5. Credited' = Credited \ back
  <2>1. ASSUME NEW i \in Credited' PROVE i \in Credited \ back
    <3>1. PICK c \in completed' : c.path = i
      BY DEF Credited, ItemsOf
    <3>2. c \in completed /\ c.worker \notin W
      BY <3>1 DEF CreditsOf
    <3>3. i \in Credited /\ CreditFor(i) = c
      BY <3>1, <3>2, TheCredit DEF Credited, ItemsOf
    <3> QED BY <1>4, <3>2, <3>3
  <2>2. ASSUME NEW i \in Credited \ back PROVE i \in Credited'
    <3>1. CreditFor(i) \in completed /\ CreditFor(i).path = i /\ i \in Items
      BY CreditOfItem DEF Credited, ItemsOf
    <3>2. CreditFor(i) \in completed'
      BY <1>4, <3>1 DEF CreditsOf
    <3> QED BY <3>1, <3>2 DEF Credited, ItemsOf
  <2> QED BY <2>1, <2>2
<1>6. \A i \in Credited' : CreditFor(i)' = CreditFor(i)
  <2>1. CreditedOnce /\ completed' \in SUBSET completed
    BY DEF CreditsOf
  <2>2. ASSUME NEW i \in Credited' PROVE CreditFor(i)' = CreditFor(i)
    <3>1. PICK c \in completed' : c.path = i
      BY DEF Credited, ItemsOf
    <3>2. CreditFor(i) = c
      BY <2>1, <3>1, TheCredit
    <3>3. CreditFor(i)' \in completed' /\ CreditFor(i)'.path = i
      BY <3>1 DEF CreditFor
    <3> QED BY <2>1, <3>1, <3>2, <3>3 DEF CreditedOnce
  <2> QED BY <2>2
<1>7. By' = [i \in Items |-> IF i \in back THEN NoWorker ELSE By[i]]
  BY <1>4, <1>5, <1>6 DEF By
<1>8. Earned' = [i \in Items |-> IF i \in back THEN 0 ELSE Earned[i]]
  BY <1>4, <1>5, <1>6 DEF Earned
<1>9. givenUp \subseteq L!With("open") \cup back
  BY DEF L!With
<1>10. Verdicts' = [i \in Items |-> IF i \in givenUp THEN "failed"
                                  ELSE IF i \in back THEN "open" ELSE Verdicts[i]]
  <2>1. ASSUME NEW i \in Items
        PROVE  Verdicts'[i] = IF i \in givenUp THEN "failed"
                             ELSE IF i \in back THEN "open" ELSE Verdicts[i]
    BY <1>1, <1>2, <1>5
  <2>2. Verdicts' = [i \in Items |-> Verdicts'[i]]
    BY DEF Verdicts
  <2> HIDE DEF givenUp, back
  <2> QED BY <2>1, <2>2
<1>11. givenUp \in SUBSET Items
  OBVIOUS
<1> HIDE DEF givenUp
<1>12. PICK G \in SUBSET Items : G = givenUp
  BY <1>11
<1>13. L!WriteOff(W, G)
  BY <1>7, <1>8, <1>9, <1>10, <1>12 DEF L!WriteOff, WrittenOff
<1> QED BY <1>13 DEF L!Next

\* The sum over the verdicts is the sum over the credits.
LEMMA EarnedTotal ==
  ASSUME TablesOK, CreditedOnce
  PROVE  MapThenSumSet(LAMBDA i : Earned[i], Items) = EventsOf(completed)
<1>1. completed \in SUBSET AllCredits /\ IsFiniteSet(completed)
  BY CreditsFinite
<1>2. Earned \in [Items -> Nat]
  <2>1. \A i \in Credited : CreditFor(i).events \in Nat
    BY <1>1, CreditOfItem, EventsAssumption DEF AllCredits
  <2> QED BY <2>1 DEF Earned
<1>3. IsFiniteSet(Items)
  BY ItemsAssumption
<1> DEFINE T == {U \in SUBSET completed : Total(Earned, ItemsOf(U)) # Total(CreditEvents, U)}
<1>4. T = {}
  <2>1. SUFFICES ASSUME T # {} PROVE FALSE
    OBVIOUS
  <2>2. PICK U \in T : \A V \in SUBSET U : V # U => V \notin T
    <3>1. T \in SUBSET SUBSET completed
      OBVIOUS
    <3> HIDE DEF T
    <3> QED BY <1>1, <2>1, <3>1, SmallestMember
  <2>3. U \in SUBSET completed /\ Total(Earned, ItemsOf(U)) # Total(CreditEvents, U)
    OBVIOUS
  <2>4. U # {}
    <3>1. ItemsOf({}) = {}
      BY DEF ItemsOf
    <3>2. Total(Earned, {}) = 0 /\ Total(CreditEvents, {}) = 0
      BY TotalUnfold, FS_EmptySet
    <3> QED BY <2>3, <3>1, <3>2
  <2>5. PICK c \in U : TRUE
    BY <2>4
  <2> DEFINE V == U \ {c}
  <2>6. V \in SUBSET completed /\ V # U /\ V \in SUBSET U
    BY <2>3, <2>5
  <2>7. Total(Earned, ItemsOf(V)) = Total(CreditEvents, V)
    BY <2>2, <2>6
  <2>8. Total(CreditEvents, U) = c.events + Total(CreditEvents, V)
    <3>1. U \in SUBSET AllCredits /\ IsFiniteSet(U) /\ c \in AllCredits
      BY <1>1, <2>3, <2>5, FS_Subset
    <3>2. CreditEvents[c] = c.events
      BY <3>1 DEF CreditEvents
    <3> QED BY <3>1, <3>2, <2>5, CreditEventsType, TotalRemove
  <2>9. c.path \in ItemsOf(U) /\ ItemsOf(U) \ {c.path} = ItemsOf(V) /\ ItemsOf(U) \in SUBSET Items
    <3>1. c.path \in Items /\ c \in completed
      BY <1>1, <2>3, <2>5 DEF AllCredits
    <3>2. \A d \in U : d # c => d.path # c.path
      BY <2>3, <2>5 DEF CreditedOnce
    <3> QED BY <2>5, <3>1, <3>2 DEF ItemsOf
  <2>10. Earned[c.path] = c.events
    <3>1. c \in completed /\ c.path \in Items
      BY <1>1, <2>3, <2>5 DEF AllCredits
    <3>2. c.path \in Credited /\ CreditFor(c.path) = c
      BY <3>1, TheCredit DEF Credited, ItemsOf
    <3> QED BY <3>1, <3>2 DEF Earned
  <2>11. Total(Earned, ItemsOf(U)) = Earned[c.path] + Total(Earned, ItemsOf(V))
    <3>1. IsFiniteSet(ItemsOf(U))
      BY <1>3, <2>9, FS_Subset
    <3> HIDE DEF V
    <3> QED BY <1>2, <2>9, <3>1, TotalRemove
  <2> QED BY <2>3, <2>7, <2>8, <2>10, <2>11
<1>5. Total(Earned, Credited) = Total(CreditEvents, completed)
  BY <1>4 DEF Credited
<1>6. Total(Earned, Items \ Credited) = 0
  <2>1. \A i \in Items \ Credited : Earned[i] = 0
    BY DEF Earned
  <2>2. IsFiniteSet(Items \ Credited) /\ Items \ Credited \in SUBSET Items
    BY <1>3, FS_Subset
  <2> QED BY <1>2, <2>1, <2>2, TotalZero
<1>7. Total(Earned, Items) = Total(Earned, Credited) + Total(Earned, Items \ Credited)
  <2>1. Credited \in SUBSET Items
    BY DEF Credited, ItemsOf
  <2> QED BY <1>2, <1>3, <2>1, TotalParts
<1>8. Total(CreditEvents, completed) \in Nat
  BY <1>1, CreditEventsType, TotalRemove
<1>9. Total(Earned, Items) = EventsOf(completed)
  BY <1>1, <1>5, <1>6, <1>7, <1>8, EventsAreATotal
<1> QED BY <1>9 DEF Total, MapThenSumSet, MapThenFoldSet

\* While nothing has been given up, an item is failed when it is settled without
\* a credit.
InLoop == TablesOK /\ CreditedOnce /\ Going /\ pc \notin {"returned", "threw"}
FailedAreSettled == \A i \in Items : (Verdicts[i] = "failed") <=> (i \in done \ Credited)

\* While the loop goes on, failed is what is settled without a credit.
LEMMA GoingVerdicts == InLoop => FailedAreSettled
<1> SUFFICES ASSUME InLoop PROVE FailedAreSettled
  OBVIOUS
<1>1. open = 0 => Items \ done = {}
  <2>1. IsFiniteSet(Items \ done)
    BY ItemsAssumption, FS_Difference
  <2> QED BY <2>1, FS_EmptySet DEF InLoop, Going
<1>2. Credited \subseteq done
  BY CreditedItems DEF InLoop
<1> QED BY <1>1, <1>2 DEF FailedAreSettled, Verdicts, GaveUp, InLoop

\* Nothing is reported before the run returns or throws.
LEMMA NothingReported == pc \notin {"returned", "threw"} => Reported = L!NoReport
BY DEF Reported, L!NoReport

-----------------------------------------------------------------------------
(* The coordinator implements the ledger: its steps *)

\* A result that is credited is the ledger's Succeed.
LEMMA SuccessIsSucceed ==
  ASSUME InLoop, InLoop', NEW r, SettleOk(r)
  PROVE  L!Next
<1> DEFINE c == [worker |-> r.worker, path |-> r.path, events |-> r.events]
<1>1. /\ r.worker \in Workers /\ r.path \in Items /\ r.events \in EventCounts
      /\ r.path \notin done /\ r.worker \notin Gone
      /\ done' = done \cup {r.path} /\ completed' = completed \cup {c}
  BY DEF SettleOk, Accepted, IsOpen, WorkResult
<1>2. WrittenOff' = WrittenOff /\ r.worker \notin WrittenOff
  BY <1>1 DEF SettleOk, Accepted, Touch, WrittenOff, Gone, InLoop, TablesOK
<1>3. Reported = L!NoReport /\ Reported' = Reported
  <2>1. (pc \notin {"returned", "threw"} => Reported = L!NoReport)'
    BY NothingReported, PTL
  <2> QED BY <2>1, NothingReported DEF InLoop, L!NoReport
<1>4. Credited \subseteq done /\ Credited' = Credited \cup {r.path}
  <2>1. Credited \subseteq done
    BY CreditedItems DEF InLoop
  <2>2. \A i \in Items : (\E d \in completed' : d.path = i)
                         <=> (\E d \in completed : d.path = i) \/ c.path = i
    <3> HIDE DEF c
    <3> QED BY <1>1
  <2>3. c.path = r.path
    OBVIOUS
  <2> QED BY <1>1, <2>1, <2>2, <2>3 DEF Credited, ItemsOf
<1>5. FailedAreSettled /\ FailedAreSettled'
  BY GoingVerdicts, PTL
<1>6. \A i \in Credited : CreditFor(i)' = CreditFor(i)
  <2>1. ASSUME NEW i \in Credited PROVE CreditFor(i)' = CreditFor(i)
    <3>1. CreditFor(i) \in completed' /\ CreditFor(i).path = i
      BY <1>1, <2>1, CreditOfItem DEF InLoop
    <3>2. CreditFor(i)' \in completed' /\ CreditFor(i)'.path = i
      BY <3>1 DEF CreditFor
    <3> QED BY <3>1, <3>2 DEF InLoop, CreditedOnce
  <2> QED BY <2>1
<1>7. CreditFor(r.path)' = c
  <2>1. c \in completed' /\ c.path = r.path
    BY <1>1
  <2>2. CreditFor(r.path)' \in completed' /\ CreditFor(r.path)'.path = r.path
    BY <2>1 DEF CreditFor
  <2> QED BY <2>1, <2>2 DEF InLoop, CreditedOnce
<1>8. Verdicts[r.path] = "open" /\ Verdicts' = [Verdicts EXCEPT ![r.path] = "ok"]
  <2>1. \A i \in Items : Verdicts[i] = IF i \in Credited THEN "ok"
                           ELSE IF i \in done \ Credited THEN "failed" ELSE "open"
    BY <1>5 DEF FailedAreSettled, Verdicts
  <2>2. \A i \in Items : Verdicts'[i] = IF i \in Credited' THEN "ok"
                           ELSE IF i \in done' \ Credited' THEN "failed" ELSE "open"
    BY <1>5 DEF FailedAreSettled, Verdicts
  <2>3. \A i \in Items : Verdicts'[i] = IF i = r.path THEN "ok" ELSE Verdicts[i]
    BY <1>1, <1>4, <2>1, <2>2
  <2>4. Verdicts' = [i \in Items |-> Verdicts'[i]] /\ Verdicts = [i \in Items |-> Verdicts[i]]
    BY DEF Verdicts
  <2>5. [Verdicts EXCEPT ![r.path] = "ok"] = [i \in Items |-> IF i = r.path THEN "ok" ELSE Verdicts[i]]
    BY <2>4
  <2> QED BY <1>1, <1>4, <2>1, <2>3, <2>4, <2>5
<1>9. By' = [By EXCEPT ![r.path] = r.worker]
  <2>1. CreditFor(r.path)'.worker = r.worker
    BY <1>7
  <2>2. ASSUME NEW i \in Items
        PROVE  By'[i] = IF i = r.path THEN r.worker ELSE By[i]
    <3>1. By'[i] = IF i \in Credited' THEN CreditFor(i)'.worker ELSE NoWorker
      BY DEF By
    <3>2. By[i] = IF i \in Credited THEN CreditFor(i).worker ELSE NoWorker
      BY DEF By
    <3>3. CASE i = r.path
      BY <1>4, <2>1, <3>1, <3>3
    <3>4. CASE i # r.path
      BY <1>4, <1>6, <3>1, <3>2, <3>4
    <3> QED BY <3>3, <3>4
  <2>3. By' = [i \in Items |-> By'[i]] /\ By = [i \in Items |-> By[i]]
    BY DEF By
  <2>4. [By EXCEPT ![r.path] = r.worker] = [i \in Items |-> IF i = r.path THEN r.worker ELSE By[i]]
    BY <2>3
  <2> QED BY <2>2, <2>3, <2>4
<1>10. Earned' = [Earned EXCEPT ![r.path] = r.events]
  <2>1. CreditFor(r.path)'.events = r.events
    BY <1>7
  <2>2. ASSUME NEW i \in Items
        PROVE  Earned'[i] = IF i = r.path THEN r.events ELSE Earned[i]
    <3>1. Earned'[i] = IF i \in Credited' THEN CreditFor(i)'.events ELSE 0
      BY DEF Earned
    <3>2. Earned[i] = IF i \in Credited THEN CreditFor(i).events ELSE 0
      BY DEF Earned
    <3>3. CASE i = r.path
      BY <1>4, <2>1, <3>1, <3>3
    <3>4. CASE i # r.path
      BY <1>4, <1>6, <3>1, <3>2, <3>4
    <3> QED BY <3>3, <3>4
  <2>3. Earned' = [i \in Items |-> Earned'[i]] /\ Earned = [i \in Items |-> Earned[i]]
    BY DEF Earned
  <2>4. [Earned EXCEPT ![r.path] = r.events] = [i \in Items |-> IF i = r.path THEN r.events ELSE Earned[i]]
    BY <2>3
  <2> QED BY <2>2, <2>3, <2>4
<1>11. L!Succeed(r.path, r.worker, r.events)
  BY <1>2, <1>3, <1>8, <1>9, <1>10 DEF L!Succeed, WrittenOff
<1> QED BY <1>1, <1>11 DEF L!Next

\* A frame that brings no success gives up what it settles, and no more.
LEMMA FrameIsGiveUp ==
  ASSUME InLoop, InLoop', UNCHANGED <<completed, WrittenOff>>, done \subseteq done'
  PROVE  L!Next
<1>1. Reported = L!NoReport /\ Reported' = Reported
  <2>1. (pc \notin {"returned", "threw"} => Reported = L!NoReport)'
    BY NothingReported, PTL
  <2> QED BY <2>1, NothingReported DEF InLoop, L!NoReport
<1>2. FailedAreSettled /\ FailedAreSettled'
  BY GoingVerdicts, PTL
<1>3. Credited' = Credited
  BY DEF Credited
<1>4. \A i \in Items : Verdicts[i] = "failed" => Verdicts'[i] = "failed"
  BY <1>2, <1>3 DEF FailedAreSettled
<1>5. completed' = completed \ CreditsOf({}) /\ WrittenOff' = WrittenOff \cup {}
  BY DEF CreditsOf
<1> QED BY <1>1, <1>4, <1>5, IsAWriteOff DEF InLoop

\* Any frame is a success, a giving-up or nothing to the ledger.
LEMMA FrameImplements ==
  ASSUME InLoop, InLoop', NEW f, OnResult(f) \/ OnClaim(f) \/ OnGoodbye(f) \/ OnNothing(f)
  PROVE  L!Next
<1>1. CASE SettleOk(f)
  BY <1>1, SuccessIsSucceed
<1>2. CASE ~SettleOk(f)
  <2>1. UNCHANGED completed /\ done \subseteq done'
    BY <1>2 DEF OnResult, OnClaim, OnGoodbye, OnNothing, DropResult, RetryResult, SettleFailed,
       HoldClaim, ZombieClaim, Depart, IgnoreBye, NothingSettled, Redispatch
  <2>2. UNCHANGED WrittenOff
    BY <1>2 DEF OnResult, OnClaim, OnGoodbye, OnNothing, DropResult, RetryResult, SettleFailed,
       Accepted, HoldClaim, ZombieClaim, Depart, IgnoreBye, Touch, WrittenOff, Live, InLoop,
       TablesOK, Goodbye
  <2> QED BY <2>1, <2>2, FrameIsGiveUp
<1> QED BY <1>1, <1>2

\* Where the loop stands: still going, given up, or over.
Aborted == TablesOK /\ CreditedOnce /\ open = 0 /\ pc \in {"recv", "shutdown"}

\* Every state of the coordinator is one of these.
LEMMA WhereItStands ==
  IInv => CASE pc \in {"returned", "threw"} -> TRUE
            [] OTHER -> InLoop \/ Aborted
BY DEF IInv, TypeOK, CountersAgree, Going, InLoop, Aborted, Phases, Running

\* A step that changes neither the items nor the credits nor who is written off is
\* a stutter, when the run goes on.
LEMMA QuietStutters ==
  ASSUME UNCHANGED <<done, completed, open, WrittenOff>>,
         {pc, pc'} \cap {"returned", "threw"} = {}
  PROVE  UNCHANGED L!vars
<1>1. UNCHANGED <<Credited, GaveUp>>
  BY DEF Credited, ItemsOf, GaveUp
<1>2. UNCHANGED Verdicts
  BY <1>1 DEF Verdicts
<1>3. \A i : UNCHANGED CreditFor(i)
  BY DEF CreditFor
<1>4. UNCHANGED <<By, Earned>>
  BY <1>1, <1>3 DEF By, Earned
<1>5. UNCHANGED Reported
  BY DEF Reported
<1> QED BY <1>2, <1>4, <1>5 DEF L!vars, WrittenOff

\* A touch never writes anybody off.
LEMMA TouchWritesNobodyOff ==
  ASSUME NEW W, Touch(W) PROVE UNCHANGED WrittenOff
BY DEF Touch, WrittenOff

\* A frame at the registration gate: a goodbye may be all that it settles.
LEMMA GateImplements ==
  ASSUME IInv, IInv', NEW f, GateRecv(f)
  PROVE  L!Next \/ UNCHANGED L!vars
<1>1. pc = "gateRecv" /\ pc' = "gateDrain"
  BY DEF GateRecv
<1>2. InLoop /\ InLoop'
  <2>1. (IInv => CASE pc \in {"returned", "threw"} -> TRUE [] OTHER -> InLoop \/ Aborted)'
    BY WhereItStands, PTL
  <2> QED BY <1>1, <2>1, WhereItStands DEF Aborted
<1>3. CASE OnGoodbye(f) \/ OnNothing(f)
  BY <1>2, <1>3, FrameImplements
<1>4. CASE Touch({f.worker}) /\ NothingSettled /\ UNCHANGED completed
  BY <1>1, <1>4, TouchWritesNobodyOff, QuietStutters DEF NothingSettled
<1> QED BY <1>3, <1>4 DEF GateRecv

\* A frame in the loop.
LEMMA ReceiveImplements ==
  ASSUME IInv, IInv', NEW f, Receive(f)
  PROVE  L!Next
<1>1. pc = "recv" /\ pc' = "drain" /\ open > 0
  BY DEF Receive
<1>2. InLoop /\ InLoop'
  <2>1. (IInv => CASE pc \in {"returned", "threw"} -> TRUE [] OTHER -> InLoop \/ Aborted)'
    BY WhereItStands, PTL
  <2> QED BY <1>1, <2>1, WhereItStands DEF Aborted
<1> QED BY <1>2, FrameImplements DEF Receive

\* Heartbeats are nothing to the ledger.
LEMMA BeatsImplement ==
  ASSUME NEW beats \in SUBSET Workers,
         (GateDrain(beats) /\ pc' # "returned") \/ Drain(beats)
  PROVE  UNCHANGED L!vars
<1>1. UNCHANGED <<done, completed, open>>
  BY DEF GateDrain, Drain, itemVars
<1>2. UNCHANGED WrittenOff
  BY TouchWritesNobodyOff DEF GateDrain, Drain
<1>3. {pc, pc'} \cap {"returned", "threw"} = {}
  BY DEF GateDrain, Drain
<1> QED BY <1>1, <1>2, <1>3, QuietStutters

\* Neither are the clock, the gate's opening and a dispatch that does not throw.
LEMMA QuietImplements ==
  ASSUME GateOpen \/ LeaveLoop \/ Tick \/ (Dispatch /\ pc' # "threw")
  PROVE  UNCHANGED L!vars
<1>1. UNCHANGED <<done, completed, open>>
  BY DEF GateOpen, Dispatch, LeaveLoop, Tick, itemVars, workerVars
<1>2. UNCHANGED WrittenOff
  BY DEF GateOpen, Dispatch, LeaveLoop, Tick, workerVars, WrittenOff
<1>3. {pc, pc'} \cap {"returned", "threw"} = {}
  BY DEF GateOpen, Dispatch, LeaveLoop, Tick
<1> QED BY <1>1, <1>2, <1>3, QuietStutters

\* The sweep writes the silent workers off.
LEMMA SweepImplements ==
  ASSUME IInv, IInv', Sweep
  PROVE  L!Next
<1>1. pc = "sweep" /\ pc' = "recv"
  BY DEF Sweep
<1>2. InLoop /\ TablesOK /\ CreditedOnce
  BY <1>1, WhereItStands DEF Aborted, InLoop
<1>3. completed' = completed \ CreditsOf(Silent) /\ Silent \in SUBSET Workers
  BY DEF Sweep, Silent, Live
<1>4. WrittenOff' = WrittenOff \cup Silent
  BY DEF Sweep, WrittenOff, Silent, Live
<1>5. Reported = L!NoReport /\ Reported' = Reported
  <2>1. (pc \notin {"returned", "threw"} => Reported = L!NoReport)'
    BY NothingReported, PTL
  <2> QED BY <1>1, <2>1, NothingReported DEF L!NoReport
<1>6. \A i \in done \ Credited : i \in done' \ Credited'
  <2>1. done \ ReopenedBy(Silent) \subseteq done'
    BY DEF Sweep
  <2>2. ReopenedBy(Silent) \subseteq Credited
    BY DEF ReopenedBy, Credited, ItemsOf, CreditsOf
  <2>3. Credited' \subseteq Credited
    BY <1>3 DEF Credited, ItemsOf
  <2> QED BY <2>1, <2>2, <2>3
<1>7. \A i \in Items : Verdicts[i] = "failed" => Verdicts'[i] = "failed"
  BY <1>2, <1>6, GoingVerdicts DEF FailedAreSettled, Verdicts
<1> QED BY <1>2, <1>3, <1>4, <1>5, <1>7, IsAWriteOff

\* The two ways to return report the count of the verdicts.
LEMMA ReturnImplements ==
  ASSUME IInv, IInv', TotalMatchesCredit, pc \notin {"returned", "threw"}, pc' = "returned",
         UNCHANGED <<completed, done, WrittenOff, totalEvents, filesOk>>
  PROVE  L!Next
<1>1. TablesOK /\ CreditedOnce
  BY DEF IInv, TypeOK
<1>2. Credited' = Credited /\ Credited \in SUBSET Items
  BY DEF Credited, ItemsOf
<1>3. UNCHANGED <<By, Earned>>
  BY <1>2 DEF By, Earned, CreditFor
<1>4. L!With("ok") = Credited /\ L!With("open") \cup L!With("failed") = Items \ Credited
  <2>1. \A i \in Items : Verdicts[i] = IF i \in Credited THEN "ok"
                                     ELSE IF i \in done \/ GaveUp THEN "failed" ELSE "open"
    BY DEF Verdicts
  <2> QED BY <1>2, <2>1 DEF L!With
<1>5. filesOk' = Cardinality(Credited) /\ filesFailed' = Cardinality(Items \ Credited)
  <2>1. filesOk' + filesFailed' = Cardinality(Items) /\ filesOk' = Cardinality(Credited)
    BY <1>2 DEF IInv, SummaryAddsUp
  <2>2. Cardinality(Items \ Credited) = Cardinality(Items) - Cardinality(Credited)
    BY <1>2, CardParts, ItemsAssumption, FS_Subset
  <2>3. filesFailed' \in Nat /\ filesOk' \in Nat
    BY DEF IInv, TypeOK, TablesOK
  <2> QED BY <2>1, <2>2, <2>3
<1>6. totalEvents' = MapThenSumSet(LAMBDA i : Earned[i], Items)
  BY <1>1, EarnedTotal DEF TotalMatchesCredit
<1>7. Reported = L!NoReport
  BY NothingReported
<1>8. Reported' = [status |-> "returned", ok |-> filesOk', failed |-> filesFailed',
                   events |-> totalEvents']
  BY DEF Reported
<1>9. Verdicts' = [i \in Items |-> IF Verdicts[i] = "open" THEN "failed" ELSE Verdicts[i]]
  <2>1. GaveUp'
    BY DEF GaveUp
  <2>2. ASSUME NEW i \in Items
        PROVE  Verdicts'[i] = IF Verdicts[i] = "open" THEN "failed" ELSE Verdicts[i]
    BY <1>2, <2>1 DEF Verdicts
  <2>3. Verdicts' = [i \in Items |-> Verdicts'[i]]
    BY DEF Verdicts
  <2> QED BY <2>2, <2>3
<1>10. L!Report
  <2>1. L!MapThenSumSet(LAMBDA i : Earned[i], Items) = MapThenSumSet(LAMBDA i : Earned[i], Items)
    BY DEF L!MapThenSumSet, L!MapThenFoldSet, MapThenSumSet, MapThenFoldSet
  <2>2. Reported' = [status |-> "returned",
                     ok     |-> L!Cardinality(L!With("ok")),
                     failed |-> L!Cardinality(L!With("open") \cup L!With("failed")),
                     events |-> L!MapThenSumSet(LAMBDA i : Earned[i], Items)]
    <3>1. \A S : L!Cardinality(S) = Cardinality(S)
      BY DEF L!Cardinality, Cardinality
    <3> QED BY <1>4, <1>5, <1>6, <1>8, <2>1, <3>1
  <2> QED BY <1>3, <1>7, <1>9, <2>2 DEF L!Report, WrittenOff
<1> QED BY <1>10 DEF L!Next

\* A dispatch that throws settles nothing and takes no credit back.
LEMMA ThrowImplements ==
  ASSUME Dispatch, pc' = "threw"
  PROVE  L!Next
<1>1. pc = "dispatch" /\ UNCHANGED <<done, completed, open, WrittenOff>>
  BY DEF Dispatch, itemVars, workerVars, WrittenOff
<1>2. UNCHANGED <<Credited, GaveUp>>
  BY <1>1 DEF Credited, ItemsOf, GaveUp, Dispatch
<1>3. UNCHANGED <<Verdicts, By, Earned>>
  BY <1>1, <1>2 DEF Verdicts, By, Earned, CreditFor
<1>4. Reported = L!NoReport
  BY <1>1, NothingReported
<1>5. Reported' = L!Thrown
  BY DEF Reported, L!Thrown, L!NoReport
<1>6. L!Throw
  BY <1>1, <1>3, <1>4, <1>5 DEF L!Throw, WrittenOff
<1> QED BY <1>6 DEF L!Next

\* The coordinator starts with every verdict open.
LEMMA InitImplements == Init => L!Init
<1> SUFFICES ASSUME Init PROVE L!Init
  OBVIOUS
<1>1. completed = {} /\ done = {} /\ pc = "gateRecv" /\ open = Cardinality(Items)
      /\ Credited = {} /\ WrittenOff = {}
  BY DEF Init, Credited, ItemsOf, WrittenOff
<1>2. \A i \in Items : open # 0
  BY <1>1, ItemsAssumption, FS_EmptySet
<1>3. Verdicts = [i \in Items |-> "open"]
  BY <1>1, <1>2 DEF Verdicts, GaveUp
<1>4. By = [i \in Items |-> NoWorker] /\ Earned = [i \in Items |-> 0]
  BY <1>1 DEF By, Earned
<1> QED BY <1>1, <1>3, <1>4, NothingReported DEF L!Init, WrittenOff

\* Every step of the coordinator is a step of the ledger or none.
LEMMA NextImplements ==
  IInv /\ IInv' /\ TotalMatchesCredit /\ [Next]_vars => [L!Next]_(L!vars)
<1> SUFFICES ASSUME IInv, IInv', TotalMatchesCredit, [Next]_vars
             PROVE  L!Next \/ UNCHANGED L!vars
  OBVIOUS
<1>1. ASSUME NEW f, GateRecv(f) \/ Receive(f)
      PROVE  L!Next \/ UNCHANGED L!vars
  BY <1>1, GateImplements, ReceiveImplements
<1>2. ASSUME NEW beats \in SUBSET Workers, GateDrain(beats) \/ Drain(beats)
      PROVE  L!Next \/ UNCHANGED L!vars
  <2>1. CASE GateDrain(beats) /\ pc' = "returned"
    <3>1. UNCHANGED WrittenOff
      BY <2>1, TouchWritesNobodyOff DEF GateDrain
    <3>2. /\ pc \notin {"returned", "threw"}
          /\ UNCHANGED <<completed, done, totalEvents, filesOk>>
      BY <2>1 DEF GateDrain, itemVars
    <3> QED BY <2>1, <3>1, <3>2, ReturnImplements
  <2> QED BY <1>2, <2>1, BeatsImplement
<1>3. CASE GateOpen \/ Dispatch \/ LeaveLoop \/ Tick
  <2>2. CASE Dispatch /\ pc' = "threw"
    BY <2>2, ThrowImplements
  <2>3. CASE ~(Dispatch /\ pc' = "threw")
    BY <1>3, <2>3, QuietImplements
  <2> QED BY <2>2, <2>3
<1>4. CASE Sweep
  BY <1>4, SweepImplements
<1>5. CASE Shutdown
  <2>1. UNCHANGED WrittenOff
    BY <1>5 DEF Shutdown, workerVars, WrittenOff
  <2>2. /\ pc \notin {"returned", "threw"} /\ pc' = "returned"
        /\ UNCHANGED <<completed, done, totalEvents, filesOk>>
    BY <1>5 DEF Shutdown, itemVars, workerVars, tally
  <2> QED BY <2>1, <2>2, ReturnImplements
<1>6. CASE UNCHANGED vars
  <2>1. UNCHANGED <<Credited, GaveUp, Reported, WrittenOff>>
    BY <1>6 DEF vars, Credited, ItemsOf, GaveUp, Reported, WrittenOff
  <2>2. UNCHANGED <<Verdicts, By, Earned>>
    BY <1>6, <2>1 DEF vars, Verdicts, By, Earned, CreditFor
  <2> QED BY <2>1, <2>2 DEF L!vars, WrittenOff
<1> QED BY <1>1, <1>2, <1>3, <1>4, <1>5, <1>6 DEF Next, Pass, Finished

\* run_coordinator implements the Ledger: whatever frames, silences and failed sends
\* it meets, a credit is exclusive and only the death of its worker takes it
\* back, a failure is final, and the summary it returns is the count of the
\* verdicts and the sum of the credited events.
THEOREM LedgerIsKept == Spec => ImplementsLedger
<1>1. IInv /\ TotalMatchesCredit /\ [Next]_vars => [L!Next]_(L!vars)
  BY NextKeeps, NextImplements
<1> QED BY <1>1, InitImplements, Invariance, TotalIsExact, PTL DEF Spec, ImplementsLedger, L!Spec

-----------------------------------------------------------------------------
(* The workers *)

\* What worker w may say.
SaidBy(w) == {Claim(w, p) : p \in Items} \cup {Bye(w)}
             \cup {Result(w, p, n) : p \in Items, n \in Outcomes}

\* The frame that may come right after f on one pipe.
Follows(f, g) == \/ f.type = "CLAIM" /\ g.type = "RESULT" /\ g.path = f.path
                 \/ f.type = "RESULT" /\ g.type \in {"CLAIM", "BYE"}

Line(q) == \A k \in 1 .. Len(q) - 1 : Follows(q[k], q[k + 1])

\* A result says what is in rows.
TrueOf(f, rows) ==
  f.type = "RESULT" =>
    /\ f.events \in Nat => f.events = Batches[f.path] /\ Rows(f.path) \subseteq rows
    /\ f.events = PartialWrite => <<f.path, 1>> \in rows \cap Rows(f.path)

\* What is the last frame of a worker that is in place, cleaning c.
LastFits(f, place, c) ==
  CASE place = "off"      -> FALSE
    [] place = "recv"     -> f.type = "RESULT"
    [] place = "cleaning" -> f.type = "CLAIM" /\ f.path = c
    [] place = "exited"   -> f.type \in {"RESULT", "BYE"}
    [] place = "crashed"  -> f.type \in {"RESULT", "CLAIM"}

\* The file in hand: a DuckDB store has every batch that was accepted.
InHand(w) ==
  IF wpc[w] = "cleaning"
  THEN /\ cur[w] \in Items
       /\ progress[w] <= Batches[cur[w]]
       /\ w \notin parquet => \A n \in 1 .. progress[w] : <<cur[w], n>> \in stored[w]
  ELSE progress[w] = 0

Sound(w) ==
  /\ outbox[w] \in Seq(SaidBy(w))
  /\ Line(outbox[w])
  /\ outbox[w] # <<>> => LastFits(outbox[w][Len(outbox[w])], wpc[w], cur[w])
  /\ InHand(w)
  /\ \A k \in 1 .. Len(outbox[w]) : TrueOf(outbox[w][k], stored[w])

Places == {"off", "recv", "cleaning", "exited", "crashed"}
AnyItem == CHOOSE i \in Items : TRUE

WTypes ==
  /\ wpc \in [Workers -> Places]
  /\ cur \in [Workers -> Items \cup {AnyItem}]
  /\ progress \in [Workers -> Nat]
  /\ stored \in [Workers -> SUBSET AllRows] /\ staged \in [Workers -> SUBSET AllRows]
  /\ outbox = [w \in Workers |-> outbox[w]]

WInv == WTypes /\ \A w \in Workers : Sound(w)

-----------------------------------------------------------------------------
(* One more frame on a pipe, one fewer, and a pipe cut short *)

\* A frame that may follow the last one makes a longer line.
LEMMA OneMore ==
  ASSUME NEW S, NEW q \in Seq(S), NEW f \in S, Line(q),
         q # <<>> => Follows(q[Len(q)], f)
  PROVE  /\ Append(q, f) \in Seq(S) /\ Line(Append(q, f))
         /\ Append(q, f)[Len(Append(q, f))] = f
         /\ \A k \in 1 .. Len(Append(q, f)) :
              Append(q, f)[k] = f \/ (k \in 1 .. Len(q) /\ Append(q, f)[k] = q[k])
<1> DEFINE s == Append(q, f)
<1>1. /\ s \in Seq(S) /\ Len(s) = Len(q) + 1 /\ s[Len(q) + 1] = f
      /\ \A k \in 1 .. Len(q) : s[k] = q[k]
  BY AppendProperties
<1>2. Len(q) \in Nat /\ (q = <<>> <=> Len(q) = 0)
  BY LenProperties, EmptySeq
<1> HIDE DEF s
<1>3. Line(s)
  <2> SUFFICES ASSUME NEW k \in 1 .. Len(s) - 1 PROVE Follows(s[k], s[k + 1])
    BY DEF Line
  <2>1. CASE k = Len(q)
    BY <1>1, <1>2, <2>1
  <2>2. CASE k \in 1 .. Len(q) - 1
    <3>1. k \in 1 .. Len(q) /\ k + 1 \in 1 .. Len(q)
      BY <1>2, <2>2
    <3>2. Follows(q[k], q[k + 1])
      BY <2>2 DEF Line
    <3> QED BY <1>1, <3>1, <3>2
  <2> QED BY <1>1, <1>2, <2>1, <2>2
<1>4. \A k \in 1 .. Len(s) : s[k] = f \/ (k \in 1 .. Len(q) /\ s[k] = q[k])
  BY <1>1, <1>2
<1> QED BY <1>1, <1>3, <1>4 DEF s

\* Taking the first frame leaves a line, with the same last frame.
LEMMA OneFewer ==
  ASSUME NEW S, NEW q \in Seq(S), q # <<>>, Line(q)
  PROVE  /\ Head(q) \in S /\ Head(q) = q[1] /\ 1 \in 1 .. Len(q)
         /\ Tail(q) \in Seq(S) /\ Line(Tail(q))
         /\ Tail(q) # <<>> => /\ Tail(q)[Len(Tail(q))] = q[Len(q)]
                              /\ Follows(Head(q), Head(Tail(q)))
         /\ \A k \in 1 .. Len(Tail(q)) : k + 1 \in 1 .. Len(q) /\ Tail(q)[k] = q[k + 1]
<1> DEFINE s == Tail(q)
<1>1. /\ Head(q) \in S /\ Head(q) = q[1] /\ s \in Seq(S) /\ Len(s) = Len(q) - 1
      /\ \A k \in 1 .. Len(s) : s[k] = q[k + 1]
  BY HeadTailProperties
<1>2. Len(q) \in Nat \ {0}
  BY LenProperties, EmptySeq
<1>3. s # <<>> => Len(s) # 0 /\ Head(s) = s[1]
  BY <1>1, EmptySeq
<1> HIDE DEF s
<1>4. \A k \in 1 .. Len(s) : k + 1 \in 1 .. Len(q)
  BY <1>1, <1>2
<1>5. Line(s)
  <2> SUFFICES ASSUME NEW k \in 1 .. Len(s) - 1 PROVE Follows(s[k], s[k + 1])
    BY DEF Line
  <2>1. k \in 1 .. Len(s) /\ k + 1 \in 1 .. Len(s) /\ k + 1 \in 1 .. Len(q) - 1
    BY <1>1, <1>2
  <2>2. Follows(q[k + 1], q[k + 1 + 1])
    BY <2>1 DEF Line
  <2> QED BY <1>1, <2>1, <2>2
<1>6. ASSUME s # <<>> PROVE s[Len(s)] = q[Len(q)] /\ Follows(Head(q), Head(s))
  <2>1. Len(s) \in 1 .. Len(s) /\ 1 \in 1 .. Len(s) /\ 1 \in 1 .. Len(q) - 1
        /\ Len(s) + 1 = Len(q)
    BY <1>1, <1>2, <1>3, <1>6
  <2>2. Follows(q[1], q[1 + 1])
    BY <2>1 DEF Line
  <2>3. s[1] = q[1 + 1] /\ s[Len(s)] = q[Len(q)]
    BY <1>1, <2>1
  <2> QED BY <1>1, <1>3, <1>6, <2>2, <2>3
<1> QED BY <1>1, <1>2, <1>4, <1>5, <1>6 DEF s

\* What a crash leaves of a line is a line.
LEMMA CutShort ==
  ASSUME NEW S, NEW q \in Seq(S), Line(q), NEW p \in Prefixes(q)
  PROVE  /\ p \in Seq(S) /\ Line(p) /\ Len(p) \in 0 .. Len(q)
         /\ \A k \in 1 .. Len(p) : k \in 1 .. Len(q) /\ p[k] = q[k]
<1>1. PICK l \in 0 .. Len(q) : p = SubSeq(q, 1, l)
  BY DEF Prefixes
<1>2. Len(q) \in Nat
  BY LenProperties
<1>3. p \in Seq(S) /\ Len(p) = l /\ \A k \in 1 .. l : p[k] = q[k]
  <2>1. p \in Seq(S)
    <3>1. \A k \in 1 .. l : q[k] \in S
      BY <1>1, <1>2, ElementOfSeq
    <3> QED BY <1>1, <1>2, <3>1, SubSeqProperties
  <2>2. Len(p) = l /\ \A k \in 1 .. l : p[k] = q[k]
    BY <1>1, <1>2, SubSeqProperties
  <2> QED BY <2>1, <2>2
<1>4. \A k \in 1 .. l : k \in 1 .. Len(q)
  BY <1>1, <1>2
<1>5. Line(p)
  <2> SUFFICES ASSUME NEW k \in 1 .. l - 1 PROVE Follows(p[k], p[k + 1])
    BY <1>3 DEF Line
  <2>1. k \in 1 .. l /\ k + 1 \in 1 .. l /\ k \in 1 .. Len(q) - 1
    BY <1>1, <1>2
  <2> QED BY <1>3, <2>1 DEF Line
<1> QED BY <1>1, <1>3, <1>4, <1>5

-----------------------------------------------------------------------------
(* The steps of one worker *)

\* A result that is true of a store is true of a larger one.
LEMMA TruthStays ==
  \A f, old, new : TrueOf(f, old) /\ old \subseteq new => TrueOf(f, new)
BY DEF TrueOf

\* A step of worker w leaves what the others said as it is.
LEMMA OthersStand ==
  ASSUME WInv, NEW w \in Workers, WTypes', parquet' = parquet, Sound(w)',
         \A v \in Workers \ {w} : /\ wpc'[v] = wpc[v] /\ cur'[v] = cur[v]
                                  /\ progress'[v] = progress[v]
                                  /\ stored'[v] = stored[v] /\ outbox'[v] = outbox[v]
  PROVE  WInv'
<1>1. ASSUME NEW v \in Workers \ {w} PROVE Sound(v)'
  <2>1. Sound(v)
    BY DEF WInv
  <2>2. InHand(v)'
    BY <2>1 DEF Sound, InHand
  <2> QED BY <2>1, <2>2 DEF Sound
<1> QED BY <1>1 DEF WInv

\* A worker that says f stays sound when f fits what it said before, where it
\* is now and what its store holds now.
LEMMA Says ==
  ASSUME NEW w \in Workers, Sound(w), NEW f \in SaidBy(w),
         outbox'[w] = Append(outbox[w], f),
         outbox[w] # <<>> => Follows(outbox[w][Len(outbox[w])], f),
         LastFits(f, wpc'[w], cur'[w]), InHand(w)',
         stored[w] \subseteq stored'[w], TrueOf(f, stored'[w])
  PROVE  Sound(w)'
<1>1. outbox[w] \in Seq(SaidBy(w)) /\ Line(outbox[w])
      /\ \A k \in 1 .. Len(outbox[w]) : TrueOf(outbox[w][k], stored[w])
  BY DEF Sound
<1> DEFINE q == Append(outbox[w], f)
<1>2. /\ q \in Seq(SaidBy(w)) /\ Line(q) /\ q[Len(q)] = f
      /\ \A k \in 1 .. Len(q) :
           q[k] = f \/ (k \in 1 .. Len(outbox[w]) /\ q[k] = outbox[w][k])
  BY <1>1, OneMore
<1> HIDE DEF q
<1>3. \A k \in 1 .. Len(q) : TrueOf(q[k], stored'[w])
  BY <1>1, <1>2, TruthStays
<1>4. outbox'[w] = q
  BY DEF q
<1>5. SaidBy(w)' = SaidBy(w)
  BY DEF SaidBy
<1>6. InHand(w)' /\ LastFits(q[Len(q)], wpc'[w], cur'[w])
  BY <1>2
<1> QED BY <1>2, <1>3, <1>4, <1>5, <1>6 DEF Sound

\* A worker that says nothing stays sound when its last word still fits.
LEMMA SaysNothing ==
  ASSUME NEW w \in Workers, Sound(w), outbox'[w] = outbox[w], InHand(w)',
         stored[w] \subseteq stored'[w],
         outbox[w] # <<>> => LastFits(outbox[w][Len(outbox[w])], wpc'[w], cur'[w])
  PROVE  Sound(w)'
<1>1. \A k \in 1 .. Len(outbox[w]) : TrueOf(outbox[w][k], stored'[w])
  BY TruthStays DEF Sound
<1> QED BY <1>1 DEF Sound

\* A worker starts with nothing said.
LEMMA StartKeeps ==
  ASSUME WInv, NEW w \in Workers, Start(w)
  PROVE  WInv'
<1>1. WTypes /\ Sound(w) /\ wpc[w] = "off" /\ wpc'[w] = "recv"
      /\ UNCHANGED <<parquet, cur, progress, stored, staged, outbox>>
  BY DEF Start, WInv, WTypes
<1>2. WTypes'
  BY <1>1 DEF WTypes, Start, Places
<1>3. outbox[w] = <<>>
  BY <1>1 DEF Sound, LastFits
<1>4. InHand(w)'
  BY <1>1 DEF Sound, InHand
<1>5. Sound(w)'
  BY <1>1, <1>3, <1>4, SaysNothing
<1>6. \A v \in Workers \ {w} : wpc'[v] = wpc[v]
  BY <1>1 DEF Start, WTypes
<1> QED BY <1>1, <1>2, <1>5, <1>6, OthersStand

\* A tick only says something when it is the last one of the budget.
LEMMA IdleKeeps ==
  ASSUME WInv, NEW w \in Workers, IdleTick(w)
  PROVE  WInv'
<1>1. WTypes /\ Sound(w) /\ wpc[w] = "recv"
      /\ UNCHANGED <<parquet, cur, progress, stored, staged>>
  BY DEF IdleTick, WInv
<1>2. CASE UNCHANGED <<wpc, outbox>>
  <2>1. WTypes'
    BY <1>1, <1>2 DEF WTypes
  <2>2. InHand(w)'
    BY <1>1, <1>2 DEF Sound, InHand
  <2>3. Sound(w)'
    BY <1>1, <1>2, <2>2, SaysNothing DEF Sound
  <2> QED BY <1>1, <1>2, <2>1, <2>3, OthersStand
<1>3. CASE wpc' = [wpc EXCEPT ![w] = "exited"] /\ Send(w, Bye(w))
  <2>1. /\ wpc'[w] = "exited" /\ outbox'[w] = Append(outbox[w], Bye(w))
        /\ \A v \in Workers \ {w} : wpc'[v] = wpc[v] /\ outbox'[v] = outbox[v]
    BY <1>1, <1>3 DEF WTypes, Send
  <2>2. WTypes'
    BY <1>1, <1>3 DEF WTypes, Places, Send
  <2>3. InHand(w)'
    BY <1>1, <2>1 DEF Sound, InHand
  <2>4. Bye(w) \in SaidBy(w) /\ Bye(w).type = "BYE"
    BY DEF SaidBy, Bye
  <2>5. outbox[w] # <<>> => Follows(outbox[w][Len(outbox[w])], Bye(w))
    BY <1>1, <2>4 DEF Sound, LastFits, Follows
  <2>6. LastFits(Bye(w), "exited", cur'[w]) /\ TrueOf(Bye(w), stored'[w])
    BY <2>4 DEF LastFits, TrueOf
  <2>7. Sound(w)'
    BY <1>1, <2>1, <2>3, <2>4, <2>5, <2>6, Says
  <2> QED BY <1>1, <2>1, <2>2, <2>7, OthersStand
<1> QED BY <1>2, <1>3 DEF IdleTick

\* STOP and a frame that decodes to nothing: the worker says nothing.
LEMMA QuietPullKeeps ==
  ASSUME WInv, NEW w \in Workers, TakeStop(w) \/ TakeMalformed(w)
  PROVE  WInv'
<1>1. WTypes /\ Sound(w) /\ wpc[w] = "recv"
      /\ UNCHANGED <<parquet, cur, progress, stored, staged, outbox>>
  BY DEF TakeStop, TakeMalformed, Pull, WInv
<1>2. /\ wpc'[w] \in {"recv", "exited"} /\ \A v \in Workers \ {w} : wpc'[v] = wpc[v]
      /\ wpc' \in [Workers -> Places]
  BY <1>1 DEF TakeStop, TakeMalformed, WTypes, Places
<1>3. WTypes'
  BY <1>1, <1>2 DEF WTypes
<1>4. InHand(w)'
  BY <1>1, <1>2 DEF Sound, InHand
<1>5. outbox[w] # <<>> => LastFits(outbox[w][Len(outbox[w])], wpc'[w], cur'[w])
  BY <1>1, <1>2 DEF Sound, LastFits
<1>6. Sound(w)'
  BY <1>1, <1>4, <1>5, SaysNothing
<1> QED BY <1>1, <1>2, <1>3, <1>6, OthersStand

\* The claim follows the result of the file before it.
LEMMA TakeWorkKeeps ==
  ASSUME WInv, NEW w \in Workers, NEW p \in Items, TakeWork(w, p)
  PROVE  WInv'
<1>1. WTypes /\ Sound(w) /\ wpc[w] = "recv" /\ UNCHANGED <<parquet, progress, stored, staged>>
  BY DEF TakeWork, Pull, WInv
<1>2. /\ wpc'[w] = "cleaning" /\ cur'[w] = p /\ outbox'[w] = Append(outbox[w], Claim(w, p))
      /\ \A v \in Workers \ {w} : wpc'[v] = wpc[v] /\ cur'[v] = cur[v] /\ outbox'[v] = outbox[v]
  BY <1>1 DEF TakeWork, Send, WTypes
<1>3. WTypes'
  BY <1>1 DEF WTypes, TakeWork, Send, Places
<1>4. InHand(w)'
  <2>1. progress[w] = 0 /\ Batches[p] \in Nat
    BY <1>1, BatchesAssumption, EventsAssumption DEF Sound, InHand
  <2> QED BY <1>1, <1>2, <2>1 DEF InHand
<1>5. Claim(w, p) \in SaidBy(w) /\ Claim(w, p).type = "CLAIM" /\ Claim(w, p).path = p
  BY DEF SaidBy, Claim
<1>6. outbox[w] # <<>> => Follows(outbox[w][Len(outbox[w])], Claim(w, p))
  BY <1>1, <1>5 DEF Sound, LastFits, Follows
<1>7. LastFits(Claim(w, p), "cleaning", p) /\ TrueOf(Claim(w, p), stored'[w])
  BY <1>5 DEF LastFits, TrueOf
<1>8. Sound(w)'
  BY <1>1, <1>2, <1>4, <1>5, <1>6, <1>7, Says
<1> QED BY <1>1, <1>2, <1>3, <1>8, OthersStand

\* A batch of a known file is a row.
LEMMA RowsAreRows ==
  \A p \in Items : Batches[p] \in Nat /\ Rows(p) \subseteq AllRows
                   /\ \A n \in 1 .. Batches[p] : <<p, n>> \in Rows(p)
BY BatchesAssumption, EventsAssumption DEF Rows, AllRows

\* A batch is written: the store grows and nothing is said.
LEMMA WriteOkKeeps ==
  ASSUME WInv, NEW w \in Workers, WriteOk(w)
  PROVE  WInv'
<1>1. WTypes /\ Sound(w) /\ wpc[w] = "cleaning" /\ progress[w] < Batches[cur[w]]
      /\ UNCHANGED <<parquet, wpc, cur, outbox>>
  BY DEF WriteOk, WInv
<1>2. cur[w] \in Items /\ progress[w] \in Nat /\ progress'[w] = progress[w] + 1
  BY <1>1 DEF Sound, InHand, WriteOk, WTypes
<1> DEFINE batch == <<cur[w], progress[w] + 1>>
<1>3. batch \in AllRows /\ Batches[cur[w]] \in Nat /\ progress[w] + 1 \in 1 .. Batches[cur[w]]
  BY <1>1, <1>2, RowsAreRows
<1> HIDE DEF batch
<1>4. /\ stored' \in [Workers -> SUBSET AllRows] /\ staged' \in [Workers -> SUBSET AllRows]
      /\ stored[w] \subseteq stored'[w] /\ (w \notin parquet => batch \in stored'[w])
      /\ \A v \in Workers \ {w} : stored'[v] = stored[v]
  <2>1. CASE w \in parquet
    BY <1>1, <2>1 DEF WriteOk, WTypes
  <2>2. CASE w \notin parquet
    <3>1. /\ stored' = [stored EXCEPT ![w] = @ \cup staged[w] \cup {batch}]
          /\ staged' = [staged EXCEPT ![w] = {}]
      BY <2>2 DEF WriteOk, batch
    <3> QED BY <1>1, <1>3, <3>1 DEF WTypes
  <2> QED BY <2>1, <2>2
<1>5. WTypes'
  <2>1. progress' \in [Workers -> Nat]
    BY <1>1, <1>2 DEF WTypes, WriteOk
  <2> QED BY <1>1, <1>4, <2>1 DEF WTypes
<1>6. InHand(w)'
  <2>1. w \notin parquet => \A n \in 1 .. progress[w] : <<cur[w], n>> \in stored'[w]
    BY <1>1, <1>4 DEF Sound, InHand
  <2>2. \A n \in 1 .. progress[w] + 1 : n \in 1 .. progress[w] \/ n = progress[w] + 1
    BY <1>2
  <2>3. w \notin parquet => \A n \in 1 .. progress'[w] : <<cur[w], n>> \in stored'[w]
    BY <1>2, <1>4, <2>1, <2>2 DEF batch
  <2> QED BY <1>1, <1>2, <1>3, <2>3 DEF InHand
<1>7. Sound(w)'
  BY <1>1, <1>4, <1>6, SaysNothing DEF Sound
<1>8. \A v \in Workers \ {w} : progress'[v] = progress[v]
  BY <1>1 DEF WriteOk, WTypes
<1> QED BY <1>1, <1>4, <1>5, <1>7, <1>8, OthersStand

\* An answer that is true of the store ends the cleaning.
LEMMA AnswerKeeps ==
  ASSUME WInv, NEW w \in Workers, wpc[w] = "cleaning", NEW n \in Outcomes, Answer(w, n),
         stored' \in [Workers -> SUBSET AllRows], staged' \in [Workers -> SUBSET AllRows],
         stored[w] \subseteq stored'[w], \A v \in Workers \ {w} : stored'[v] = stored[v],
         n \in Nat => n = Batches[cur[w]] /\ Rows(cur[w]) \subseteq stored'[w],
         n = PartialWrite => <<cur[w], 1>> \in stored'[w] \cap Rows(cur[w])
  PROVE  WInv'
<1>1. WTypes /\ Sound(w) /\ UNCHANGED <<parquet, cur>> /\ cur[w] \in Items
  BY DEF Answer, WInv, Sound, InHand
<1> DEFINE r == Result(w, cur[w], n)
<1>2. /\ wpc'[w] = "recv" /\ outbox'[w] = Append(outbox[w], r) /\ progress'[w] = 0
      /\ \A v \in Workers \ {w} : /\ wpc'[v] = wpc[v] /\ progress'[v] = progress[v]
                                  /\ outbox'[v] = outbox[v]
  BY <1>1 DEF Answer, Send, WTypes
<1>3. WTypes'
  <2>1. wpc' \in [Workers -> Places] /\ progress' \in [Workers -> Nat]
    BY <1>1 DEF WTypes, Answer, Places
  <2>2. outbox' = [v \in Workers |-> outbox'[v]]
    BY <1>1 DEF WTypes, Answer, Send
  <2> QED BY <1>1, <2>1, <2>2 DEF WTypes
<1>4. r \in SaidBy(w) /\ r.type = "RESULT" /\ r.path = cur[w] /\ r.events = n
  BY <1>1 DEF SaidBy, Result
<1> HIDE DEF r
<1>5. outbox[w] # <<>> => Follows(outbox[w][Len(outbox[w])], r)
  BY <1>1, <1>4 DEF Sound, LastFits, Follows
<1>6. LastFits(r, "recv", cur'[w]) /\ TrueOf(r, stored'[w])
  BY <1>4 DEF LastFits, TrueOf
<1>7. InHand(w)'
  BY <1>2 DEF InHand
<1>8. Sound(w)'
  BY <1>1, <1>2, <1>4, <1>5, <1>6, <1>7, Says
<1> QED BY <1>1, <1>2, <1>3, <1>8, OthersStand

\* What a throw is answered with: -2 only when a row of the file is durable.
LEMMA VerdictIsTrue ==
  ASSUME WInv, NEW w \in Workers, wpc[w] = "cleaning"
  PROVE  /\ Verdict(w) \in Outcomes /\ Verdict(w) \notin Nat
         /\ Verdict(w) = PartialWrite => <<cur[w], 1>> \in stored[w] \cap Rows(cur[w])
<1>1. InHand(w) /\ progress[w] \in Nat
  BY DEF WInv, WTypes, Sound
<1>2. Verdict(w) = PartialWrite => w \notin parquet /\ progress[w] > 0
  BY <1>1 DEF Verdict, Written, PartialWrite, Unreadable
<1>3. ASSUME w \notin parquet, progress[w] > 0
      PROVE  <<cur[w], 1>> \in stored[w] \cap Rows(cur[w])
  <2>1. cur[w] \in Items /\ 1 \in 1 .. progress[w] /\ 1 \in 1 .. Batches[cur[w]]
    BY <1>1, <1>3, RowsAreRows DEF InHand
  <2>2. <<cur[w], 1>> \in stored[w]
    BY <1>1, <1>3, <2>1 DEF InHand
  <2> QED BY <2>1, <2>2, RowsAreRows
<1>4. Verdict(w) \in Outcomes /\ Verdict(w) \notin Nat
  BY DEF Verdict, Outcomes, PartialWrite, Unreadable
<1> QED BY <1>2, <1>3, <1>4

\* Each way to answer: the result is true of the store at that moment.
LEMMA AnswersKeep ==
  ASSUME WInv, NEW w \in Workers, Finish(w) \/ CannotOpen(w) \/ ReaderThrows(w) \/ WriteThrows(w)
  PROVE  WInv'
<1>1. WTypes /\ Sound(w) /\ wpc[w] = "cleaning" /\ cur[w] \in Items /\ progress[w] \in Nat
  BY DEF Finish, CannotOpen, ReaderThrows, WriteThrows, WInv, Sound, InHand, WTypes
<1>2. CASE Finish(w)
  <2>1. /\ Batches[cur[w]] \in EventCounts /\ Batches[cur[w]] \in Outcomes
        /\ Batches[cur[w]] \in Nat /\ Rows(cur[w]) \subseteq AllRows
    BY <1>1, BatchesAssumption, EventsAssumption, RowsAreRows DEF Outcomes
  <2>2. progress[w] = Batches[cur[w]] /\ staged' = staged /\ Answer(w, Batches[cur[w]])
        /\ stored' = IF w \in parquet THEN [stored EXCEPT ![w] = @ \cup Rows(cur[w])] ELSE stored
    BY <1>2 DEF Finish, AllIn
  <2>3. /\ stored' \in [Workers -> SUBSET AllRows] /\ stored[w] \subseteq stored'[w]
        /\ \A v \in Workers \ {w} : stored'[v] = stored[v]
        /\ w \in parquet => Rows(cur[w]) \subseteq stored'[w]
        /\ w \notin parquet => stored'[w] = stored[w]
    BY <1>1, <2>1, <2>2 DEF WTypes
  <2>4. w \notin parquet => Rows(cur[w]) \subseteq stored[w]
    BY <1>1, <2>2 DEF Sound, InHand, Rows
  <2>5. Batches[cur[w]] # PartialWrite
    BY <2>1 DEF PartialWrite
  <2>6. staged' \in [Workers -> SUBSET AllRows]
    BY <1>1, <2>2 DEF WTypes
  <2> QED BY <1>1, <2>1, <2>2, <2>3, <2>4, <2>5, <2>6, AnswerKeeps
<1>3. CASE CannotOpen(w)
  <2>1. Unreadable \in Outcomes /\ Unreadable \notin Nat /\ Unreadable # PartialWrite
    BY DEF Outcomes, Unreadable, PartialWrite
  <2>2. Answer(w, Unreadable) /\ UNCHANGED <<stored, staged>>
    BY <1>3 DEF CannotOpen
  <2> QED BY <1>1, <2>1, <2>2, AnswerKeeps DEF WTypes
<1>4. CASE ReaderThrows(w)
  <2>1. Answer(w, Verdict(w)) /\ UNCHANGED <<stored, staged>>
    BY <1>4 DEF ReaderThrows
  <2> QED BY <1>1, <2>1, VerdictIsTrue, AnswerKeeps DEF WTypes
<1>5. CASE WriteThrows(w)
  <2>1. Answer(w, Verdict(w)) /\ stored' = stored /\ progress[w] < Batches[cur[w]]
    BY <1>5 DEF WriteThrows
  <2>2. {<<cur[w], progress[w] + 1>>} \subseteq AllRows
    BY <1>1, <2>1, RowsAreRows
  <2>3. staged' \in [Workers -> SUBSET AllRows]
    <3>1. PICK left \in SUBSET AllRows : staged' = [staged EXCEPT ![w] = left]
      BY <1>1, <1>5, <2>2 DEF WriteThrows, WTypes
    <3> QED BY <1>1, <3>1 DEF WTypes
  <2> QED BY <1>1, <2>1, <2>3, VerdictIsTrue, AnswerKeeps DEF WTypes
<1> QED BY <1>2, <1>3, <1>4, <1>5

\* What a crash leaves on the wire is a beginning of what was said.
LEMMA CrashKeeps ==
  ASSUME WInv, NEW w \in Workers, Crash(w)
  PROVE  WInv'
<1>1. WTypes /\ Sound(w) /\ wpc[w] \in {"recv", "cleaning"}
      /\ UNCHANGED <<parquet, cur, stored, staged>>
  BY DEF Crash, Up, WInv
<1>2. PICK p \in Prefixes(outbox[w]) : outbox' = [outbox EXCEPT ![w] = p]
  BY DEF Crash
<1>3. /\ wpc'[w] = "crashed" /\ outbox'[w] = p /\ progress'[w] = 0
      /\ \A v \in Workers \ {w} : /\ wpc'[v] = wpc[v] /\ progress'[v] = progress[v]
                                  /\ outbox'[v] = outbox[v]
  BY <1>1, <1>2 DEF Crash, WTypes
<1>4. WTypes'
  BY <1>1, <1>2 DEF WTypes, Crash, Places
<1>5. /\ p \in Seq(SaidBy(w)) /\ Line(p) /\ Len(p) \in 0 .. Len(outbox[w])
      /\ \A k \in 1 .. Len(p) : k \in 1 .. Len(outbox[w]) /\ p[k] = outbox[w][k]
  BY <1>1, CutShort DEF Sound
<1>6. \A k \in 1 .. Len(p) : TrueOf(p[k], stored[w])
  BY <1>1, <1>5 DEF Sound
<1>7. p # <<>> => p[Len(p)].type \in {"RESULT", "CLAIM"}
  <2> SUFFICES ASSUME p # <<>> PROVE p[Len(p)].type \in {"RESULT", "CLAIM"}
    OBVIOUS
  <2>1. Len(p) \in Nat \ {0} /\ Len(outbox[w]) \in Nat
    BY <1>1, <1>5, EmptySeq, LenProperties DEF Sound
  <2>2. CASE Len(p) = Len(outbox[w])
    <3>1. outbox[w] # <<>>
      BY <2>1, <2>2, EmptySeq
    <3>2. Len(p) \in 1 .. Len(p) /\ p[Len(p)] = outbox[w][Len(outbox[w])]
      BY <1>5, <2>1, <2>2
    <3>3. LastFits(outbox[w][Len(outbox[w])], wpc[w], cur[w])
      BY <1>1, <3>1 DEF Sound
    <3> QED BY <1>1, <3>2, <3>3 DEF LastFits
  <2>3. CASE Len(p) # Len(outbox[w])
    <3>1. Len(p) \in 1 .. Len(outbox[w]) - 1 /\ Len(p) \in 1 .. Len(p)
      BY <1>5, <2>1, <2>3
    <3>2. Follows(outbox[w][Len(p)], outbox[w][Len(p) + 1])
      BY <1>1, <3>1 DEF Sound, Line
    <3> QED BY <1>5, <3>1, <3>2 DEF Follows
  <2> QED BY <2>2, <2>3
<1>8. InHand(w)'
  BY <1>3 DEF InHand
<1>9. Sound(w)'
  <2>1. p # <<>> => LastFits(p[Len(p)], "crashed", cur'[w])
    BY <1>7 DEF LastFits
  <2>2. SaidBy(w)' = SaidBy(w)
    BY DEF SaidBy
  <2> QED BY <1>1, <1>3, <1>5, <1>6, <1>8, <2>1, <2>2 DEF Sound
<1> QED BY <1>1, <1>3, <1>4, <1>9, OthersStand

\* Taking the oldest frame off a pipe.
LEMMA TakenKeeps ==
  ASSUME WInv, NEW w \in Workers, outbox[w] # <<>>,
         outbox' = [outbox EXCEPT ![w] = Tail(@)], UNCHANGED workVars
  PROVE  WInv'
<1>1. WTypes /\ Sound(w) /\ UNCHANGED <<parquet, wpc, cur, progress, stored, staged>>
  BY DEF workVars, WInv
<1>2. outbox'[w] = Tail(outbox[w]) /\ \A v \in Workers \ {w} : outbox'[v] = outbox[v]
  BY <1>1 DEF WTypes
<1> DEFINE q == Tail(outbox[w])
<1>3. /\ q \in Seq(SaidBy(w)) /\ Line(q)
      /\ q # <<>> => q[Len(q)] = outbox[w][Len(outbox[w])]
      /\ \A k \in 1 .. Len(q) : k + 1 \in 1 .. Len(outbox[w]) /\ q[k] = outbox[w][k + 1]
  BY <1>1, OneFewer DEF Sound
<1>4. \A k \in 1 .. Len(q) : TrueOf(q[k], stored[w])
  BY <1>1, <1>3 DEF Sound
<1>5. q # <<>> => LastFits(q[Len(q)], wpc[w], cur[w])
  BY <1>1, <1>3 DEF Sound
<1> HIDE DEF q
<1>6. outbox'[w] = q
  BY <1>2 DEF q
<1>7. Sound(w)'
  <2>1. InHand(w)'
    BY <1>1 DEF Sound, InHand
  <2>2. SaidBy(w)' = SaidBy(w)
    BY DEF SaidBy
  <2> QED BY <1>1, <1>3, <1>4, <1>5, <1>6, <2>1, <2>2 DEF Sound
<1>8. WTypes'
  BY <1>1 DEF WTypes
<1> QED BY <1>1, <1>2, <1>7, <1>8, OthersStand

\* The steps of a worker and of its process, together.
LEMMA WorkerKeeps ==
  ASSUME WInv, NEW w \in Workers, Start(w) \/ WorkerStep(w) \/ Crash(w) \/ Detach(w)
  PROVE  WInv'
<1>1. CASE Detach(w)
  BY <1>1 DEF Detach, workVars, WInv, WTypes, Sound, InHand
<1> QED BY <1>1, StartKeeps, IdleKeeps, QuietPullKeeps, TakeWorkKeeps, WriteOkKeeps, AnswersKeep,
           CrashKeeps DEF WorkerStep

\* Steps of others leave the workers alone.
LEMMA NothingSaidKeeps ==
  WInv /\ UNCHANGED <<workVars, outbox>> => WInv'
BY DEF workVars, WInv, WTypes, Sound, InHand

\* Workers that are not started have said nothing.
LEMMA WInitInv == WInit => WInv
<1> SUFFICES ASSUME WInit PROVE WInv
  OBVIOUS
<1>1. WTypes
  BY DEF WInit, WTypes, Places, AnyItem
<1>2. ASSUME NEW w \in Workers PROVE Sound(w)
  <2>1. outbox[w] = <<>> /\ wpc[w] = "off" /\ progress[w] = 0
    BY DEF WInit
  <2>2. <<>> \in Seq(SaidBy(w)) /\ Len(<<>>) = 0
    BY EmptySeq
  <2> QED BY <2>1, <2>2 DEF Sound, Line, InHand
<1> QED BY <1>1, <1>2 DEF WInv

\* The workers beside an arbitrary coordinator.
LEMMA WNextKeeps == WInv /\ [WNext]_wvars => WInv'
<1> SUFFICES ASSUME WInv, [WNext]_wvars PROVE WInv'
  OBVIOUS
<1>1. ASSUME NEW w \in Workers, Start(w) \/ WorkerStep(w) \/ Crash(w) \/ Detach(w)
      PROVE  WInv'
  BY <1>1, WorkerKeeps
<1>2. ASSUME NEW w \in Workers, Collect(w) PROVE WInv'
  BY <1>2, TakenKeeps DEF Collect
<1>3. ASSUME NEW w \in Workers, NEW f \in WorkFrame, Deliver(w, f) PROVE WInv'
  BY <1>3, NothingSaidKeeps DEF Deliver
<1>4. CASE DrainBeats \/ UNCHANGED wvars
  BY <1>4, NothingSaidKeeps DEF DrainBeats, wvars, workVars
<1> QED BY <1>1, <1>2, <1>3, <1>4 DEF WNext

\* What the invariant says of the whole pipe.
LEMMA InvIsOrder == WInv => ProtocolOrder
<1> SUFFICES ASSUME WInv, NEW w \in Workers, NEW k \in 1 .. Len(outbox[w])
    PROVE  LET f == outbox[w][k]
               last == k = Len(outbox[w])
           IN  CASE f.type = "CLAIM" ->
                      IF last THEN wpc[w] = "crashed" \/ (wpc[w] # "recv" /\ cur[w] = f.path)
                      ELSE outbox[w][k + 1].type = "RESULT" /\ outbox[w][k + 1].path = f.path
                 [] f.type = "RESULT" -> last \/ outbox[w][k + 1].type \in {"CLAIM", "BYE"}
                 [] f.type = "BYE"    -> last /\ wpc[w] = "exited"
  BY DEF ProtocolOrder
<1>1. Sound(w) /\ wpc[w] \in Places /\ Len(outbox[w]) \in Nat
  BY LenProperties DEF WInv, WTypes, Sound
<1>2. outbox[w][k].type \in {"CLAIM", "RESULT", "BYE"}
  <2>1. outbox[w][k] \in SaidBy(w)
    BY <1>1, ElementOfSeq DEF Sound
  <2> QED BY <2>1 DEF SaidBy, Claim, Result, Bye
<1>3. CASE k = Len(outbox[w])
  <2>1. outbox[w] # <<>>
    BY <1>1, <1>3, EmptySeq
  <2>2. LastFits(outbox[w][k], wpc[w], cur[w])
    BY <1>1, <1>3, <2>1 DEF Sound
  <2> QED BY <1>1, <1>2, <1>3, <2>2 DEF LastFits, Places
<1>4. CASE k # Len(outbox[w])
  <2>1. Follows(outbox[w][k], outbox[w][k + 1])
    BY <1>1, <1>4 DEF Sound, Line
  <2> QED BY <1>2, <1>4, <2>1 DEF Follows
<1> QED BY <1>3, <1>4

\* The invariant contains the truth of the results.
LEMMA InvIsTruth == WInv => ResultsAreTrue
<1> SUFFICES ASSUME WInv, NEW w \in Workers, NEW f \in Range(outbox[w]), f.type = "RESULT"
    PROVE  /\ f.events >= 0 => Rows(f.path) \subseteq stored[w]
           /\ f.events = PartialWrite => Rows(f.path) \cap stored[w] # {}
  BY DEF ResultsAreTrue
<1>1. PICK k \in 1 .. Len(outbox[w]) : f = outbox[w][k]
  BY LenProperties DEF Range, WInv, Sound
<1>2. f \in SaidBy(w) /\ TrueOf(f, stored[w])
  BY <1>1, ElementOfSeq DEF WInv, Sound
<1>3. f.events \in Int
  BY <1>2, EventsAssumption DEF SaidBy, Claim, Result, Bye, Outcomes, Unreadable, PartialWrite
<1> QED BY <1>2, <1>3 DEF TrueOf

\* The lifecycle frames of every worker come in order, whatever is sent to it and
\* whenever it dies: each claim is followed by its result or is the file in hand,
\* and a goodbye is the last word.
THEOREM FramesInOrder == WSpec => []ProtocolOrder
BY WInitInv, WNextKeeps, InvIsOrder, PTL DEF WSpec

\* No result on the wire says more than the sender's store holds, through retries,
\* failed commits, the batch they leave in the staging table, and crashes.
THEOREM ResultsHold == WSpec => []ResultsAreTrue
BY WInitInv, WNextKeeps, InvIsTruth, PTL DEF WSpec

-----------------------------------------------------------------------------
(* The composed run: its coordinator is the coordinator *)

runVars == <<vars, wvars>>

\* The frame at the head of a pipe is one the worker has sent.
LEMMA HeadIsSaid ==
  ASSUME WInv, NEW w \in Workers, outbox[w] # <<>>
  PROVE  /\ Head(outbox[w]) \in SaidBy(w) /\ Head(outbox[w]) \in LifecycleFrame
         /\ TrueOf(Head(outbox[w]), stored[w])
<1>1. Head(outbox[w]) \in SaidBy(w) /\ TrueOf(Head(outbox[w]), stored[w])
  BY OneFewer DEF WInv, Sound
<1>2. SaidBy(w) \subseteq LifecycleFrame
  BY ItemsAssumption DEF SaidBy, Claim, Result, Bye, LifecycleFrame, WorkResult, WorkClaim, Goodbye
<1> QED BY <1>1, <1>2

\* Beats come from workers.
BeatsOK == hb \in SUBSET Workers

\* The beats that wait to be read were sent by workers.
LEMMA RunKeepsBeats == BeatsOK /\ [RunNext]_runVars => BeatsOK'
<1> SUFFICES ASSUME BeatsOK, [RunNext]_runVars PROVE BeatsOK'
  OBVIOUS
<1>1. ASSUME NEW w \in Workers, Start(w) \/ WorkerStep(w) \/ Crash(w) \/ Detach(w)
      PROVE  BeatsOK'
  <2>1. hb' = hb \/ hb' = hb \cup {w}
    BY <1>1 DEF Start, WorkerStep, IdleTick, TakeStop, TakeMalformed, TakeWork, WriteOk, Finish,
       CannotOpen, ReaderThrows, WriteThrows, Answer, Beat, Crash, Detach
  <2> QED BY <2>1 DEF BeatsOK
<1>2. CASE CoordinatorStep \/ UNCHANGED wvars
  BY <1>2 DEF CoordinatorStep, TakeFrame, RecvTimesOut, TakeBeats, SendItems, SendStops, Move,
     BeatsOK, wvars
<1> QED BY <1>1, <1>2 DEF RunNext, runVars

\* A step of the run is a step of the coordinator, or leaves it alone.
LEMMA RunStepIsStep == WInv /\ BeatsOK /\ [RunNext]_runVars => [Next]_vars
<1> SUFFICES ASSUME WInv, BeatsOK, [RunNext]_runVars PROVE [Next]_vars
  OBVIOUS
<1>1. ASSUME NEW w \in Workers, TakeFrame(w) PROVE Next
  <2>1. Head(outbox[w]) \in LifecycleFrame
    BY <1>1, HeadIsSaid DEF TakeFrame
  <2> QED BY <1>1, <2>1 DEF TakeFrame, Next, Pass
<1>2. CASE RecvTimesOut
  BY <1>2 DEF RecvTimesOut, Next, Pass
<1>3. CASE TakeBeats
  <2>1. PICK beats \in SUBSET hb : GateDrain(beats) \/ Drain(beats)
    BY <1>3 DEF TakeBeats
  <2>2. beats \in SUBSET Workers
    BY <2>1 DEF BeatsOK
  <2> QED BY <2>1, <2>2 DEF Next, Pass
<1>4. CASE SendItems \/ SendStops \/ Move
  BY <1>4 DEF SendItems, SendStops, Move, Next, Pass
<1>5. CASE (Tick \/ Finished) /\ UNCHANGED wvars
  BY <1>5 DEF Next
<1>6. CASE UNCHANGED vars
  BY <1>6
<1> QED BY <1>1, <1>2, <1>3, <1>4, <1>5, <1>6 DEF RunNext, CoordinatorStep, runVars

\* A step of the run is a step of a worker, or takes a frame off a pipe, or leaves both.
LEMMA RunKeepsWorkers == WInv /\ [RunNext]_runVars => WInv'
<1> SUFFICES ASSUME WInv, [RunNext]_runVars PROVE WInv'
  OBVIOUS
<1>1. ASSUME NEW w \in Workers, TakeFrame(w) PROVE WInv'
  BY <1>1, TakenKeeps DEF TakeFrame
<1>2. ASSUME NEW w \in Workers, Start(w) \/ WorkerStep(w) \/ Crash(w) \/ Detach(w)
      PROVE  WInv'
  BY <1>2, WorkerKeeps
<1>3. CASE UNCHANGED <<workVars, outbox>>
  BY <1>3, NothingSaidKeeps
<1> QED BY <1>1, <1>2, <1>3 DEF RunNext, CoordinatorStep, RecvTimesOut, TakeBeats, SendItems,
           SendStops, Move, Finished, runVars, wvars, workVars

RunInv == IInv /\ TotalMatchesCredit /\ WInv /\ BeatsOK

\* A run starts where the coordinator and the workers start.
LEMMA RunInitInv == RunInit => RunInv
BY InitInv, TotalInit, WInitInv DEF RunInit, RunInv, WInit, BeatsOK

\* The invariants of the two sides are kept together.
LEMMA RunKeeps == RunInv /\ [RunNext]_runVars => RunInv' /\ [Next]_vars
BY RunStepIsStep, RunKeepsWorkers, RunKeepsBeats, NextKeeps, NextKeepsTotal DEF RunInv

\* They hold of every run.
LEMMA RunInvariance == RunSpec => []RunInv
BY RunInitInv, RunKeeps, PTL DEF RunSpec, runVars

\* Beside real workers and pipes the coordinator is still the coordinator with
\* an arbitrary environment: every theorem about Spec holds of the run.
THEOREM RunIsCoordinated == RunSpec => Spec
BY RunInitInv, RunKeeps, PTL DEF RunSpec, RunInit, Spec, runVars

\* The whole run keeps the ledger's promise, workers, pipes and crashes included:
\* a file is credited to one worker at a time, a failure is final, and the
\* summary run_coordinator returns is the count of the verdicts.
THEOREM RunKeepsTheLedger == RunSpec => ImplementsLedger
BY RunIsCoordinated, LedgerIsKept

-----------------------------------------------------------------------------
(* What a credit is worth *)

\* Only a success adds a credit.
LEMMA FrameCredits ==
  ASSUME NEW f, GateRecv(f) \/ Receive(f)
  PROVE  completed' \subseteq completed \/ SettleOk(f)
BY DEF GateRecv, Receive, OnResult, OnClaim, OnGoodbye, OnNothing, DropResult, RetryResult,
   SettleFailed, HoldClaim, ZombieClaim, Depart, IgnoreBye

\* No store loses a row.
LEMMA StoresGrow ==
  ASSUME WInv, NEW w \in Workers, Start(w) \/ WorkerStep(w) \/ Crash(w) \/ Detach(w)
  PROVE  \A v \in Workers : stored[v] \subseteq stored'[v]
<1>1. stored \in [Workers -> SUBSET AllRows]
  BY DEF WInv, WTypes
<1>2. CASE UNCHANGED stored
  BY <1>2
<1>3. CASE WriteOk(w)
  BY <1>1, <1>3 DEF WriteOk
<1>4. CASE Finish(w)
  BY <1>1, <1>4 DEF Finish
<1> QED BY <1>2, <1>3, <1>4 DEF Start, WorkerStep, IdleTick, TakeStop, TakeMalformed, TakeWork,
           CannotOpen, ReaderThrows, WriteThrows, Crash, Detach, workVars

CreditsHold ==
  \A c \in completed : Rows(c.path) \subseteq stored[c.worker] /\ c.events = Batches[c.path]

\* A credit is given for a true result, and stays true because stores grow.
LEMMA RunKeepsCredits == RunInv /\ CreditsHold /\ [RunNext]_runVars => CreditsHold'
<1> SUFFICES ASSUME RunInv, CreditsHold, [RunNext]_runVars PROVE CreditsHold'
  OBVIOUS
<1>1. ASSUME NEW w \in Workers, Start(w) \/ WorkerStep(w) \/ Crash(w) \/ Detach(w), UNCHANGED vars
      PROVE  CreditsHold'
  <2>1. \A v \in Workers : stored[v] \subseteq stored'[v]
    BY <1>1, StoresGrow DEF RunInv
  <2>2. \A c \in completed : c.worker \in Workers
    BY DEF RunInv, IInv, TypeOK, TablesOK
  <2>3. completed' = completed
    BY <1>1 DEF vars
  <2> QED BY <2>1, <2>2, <2>3 DEF CreditsHold
<1>2. ASSUME NEW w \in Workers, TakeFrame(w) PROVE CreditsHold'
  <2> DEFINE f == Head(outbox[w])
  <2>1. (GateRecv(f) \/ Receive(f)) /\ UNCHANGED stored /\ outbox[w] # <<>>
    BY <1>2 DEF TakeFrame, workVars
  <2>2. f \in SaidBy(w) /\ TrueOf(f, stored[w])
    BY <2>1, HeadIsSaid DEF RunInv
  <2> HIDE DEF f
  <2>3. CASE SettleOk(f)
    <3>1. f.type = "RESULT" /\ f.events \in EventCounts /\ f.events \in Nat
      BY <2>3, EventsAssumption DEF SettleOk, Accepted, WorkResult
    <3>2. f.worker = w
      BY <2>2 DEF SaidBy, Claim, Result, Bye
    <3>3. completed' = completed \cup
            {[worker |-> f.worker, path |-> f.path, events |-> f.events]}
      BY <2>3 DEF SettleOk
    <3>4. f.events = Batches[f.path] /\ Rows(f.path) \subseteq stored[w]
      BY <2>2, <3>1 DEF TrueOf
    <3> QED BY <2>1, <3>2, <3>3, <3>4 DEF CreditsHold
  <2>4. CASE completed' \subseteq completed
    BY <2>1, <2>4 DEF CreditsHold
  <2> QED BY <2>1, <2>3, <2>4, FrameCredits
<1>3. CASE completed' \subseteq completed /\ UNCHANGED stored
  BY <1>3 DEF CreditsHold
<1>4. CASE RecvTimesOut
  <2>1. UNCHANGED stored /\ ~SettleOk(NoFrame)
    BY <1>4 DEF RecvTimesOut, wvars, SettleOk, Accepted, WorkResult, NoFrame
  <2> QED BY <1>3, <1>4, <2>1, FrameCredits DEF RecvTimesOut
<1>5. CASE TakeBeats \/ SendItems \/ SendStops \/ Move
  BY <1>3, <1>5 DEF TakeBeats, SendItems, SendStops, Move, GateDrain, Drain, Dispatch, Sweep,
     Shutdown, GateOpen, LeaveLoop, workVars, workerVars, wvars
<1>6. CASE (Tick \/ Finished) /\ UNCHANGED wvars
  BY <1>3, <1>6 DEF Tick, Finished, vars, wvars
<1>7. CASE UNCHANGED runVars
  BY <1>3, <1>7 DEF runVars, vars, wvars
<1> QED BY <1>1, <1>2, <1>4, <1>5, <1>6, <1>7 DEF RunNext, CoordinatorStep

\* With the coordinator's own invariant that is CreditIsOnDisk.
LEMMA CreditsHoldOnDisk == RunInv /\ CreditsHold => CreditIsOnDisk
BY DEF RunInv, IInv, CreditedOnce, CreditsHold, CreditIsOnDisk

\* Every credit is worth what it says, in every run.
LEMMA CreditsAlwaysHold == RunSpec => []CreditsHold
<1>1. RunInit => CreditsHold
  BY DEF RunInit, Init, CreditsHold
<1> QED BY <1>1, RunInvariance, RunKeepsCredits, PTL DEF RunSpec, runVars

\* A credit is on disk: every file counted ok is whole in the store of the worker
\* it is credited to, with the count that was reported, and that store is not
\* written off, through crashes, lost pipes, retries and zombie results.
THEOREM CreditsAreOnDisk == RunSpec => []CreditIsOnDisk
BY RunInvariance, CreditsAlwaysHold, CreditsHoldOnDisk, PTL

-----------------------------------------------------------------------------
(* The holder table *)

Answered(w, i) == \E k \in 1 .. Len(outbox[w]) : outbox[w][k].type = "RESULT" /\ outbox[w][k].path = i

\* What makes worker w the true holder of item i.
Holds(w, i) == (wpc[w] = "cleaning" /\ cur[w] = i) \/ Answered(w, i) \/ wpc[w] = "crashed"

HoldersTrue == \A i \in Items : holder[i] # NoWorker => Holds(holder[i], i)

\* A frame makes its sender the holder of the file it claims, or takes holders
\* away: the answer of a holder is one that always does.
LEMMA FrameHolders ==
  ASSUME IInv, NEW f, GateRecv(f) \/ Receive(f), NEW i \in Items, holder'[i] # NoWorker
  PROVE  \/ f \in WorkClaim /\ f.path = i /\ holder'[i] = f.worker
         \/ /\ holder'[i] = holder[i]
            /\ ~(f \in WorkResult /\ f.worker = holder[i] /\ f.path = i)
<1>1. holder \in [Items -> Workers \cup {NoWorker}] /\ HolderIsLive
  BY DEF IInv, TypeOK, TablesOK
<1>2. CASE GateRecv(f)
  <2>1. holder[i] = NoWorker
    BY <1>2 DEF GateRecv, IInv, GateClean
  <2>2. holder'[i] = NoWorker
    BY <1>1, <1>2, <2>1 DEF GateRecv, OnGoodbye, Depart, IgnoreBye, OnNothing, Unheld
  <2> QED BY <2>2
<1>3. ASSUME f \in WorkResult, Receive(f)
      PROVE  holder'[i] = holder[i] /\ ~(f.worker = holder[i] /\ f.path = i)
  <2>1. OnResult(f)
    BY <1>3 DEF Receive, OnClaim, HoldClaim, ZombieClaim, OnGoodbye, Depart, IgnoreBye, OnNothing,
       WorkResult, WorkClaim, Goodbye, Malformed, NoFrame
  <2>2. CASE DropResult(f)
    <3>1. f.worker = holder[i] => f.worker \notin Gone /\ i \notin done /\ i \in Items
      BY <1>1, <1>3, <2>2 DEF HolderIsLive, Live, Gone, DropResult
    <3> QED BY <2>2, <3>1 DEF DropResult, IsOpen
  <2>3. CASE Accepted(f)
    BY <1>1, <2>3 DEF Accepted, Unheld
  <2> QED BY <2>1, <2>2, <2>3 DEF OnResult, RetryResult, SettleOk, SettleFailed
<1>4. ASSUME f \notin WorkResult, Receive(f)
      PROVE  holder'[i] = holder[i] \/ (f \in WorkClaim /\ f.path = i /\ holder'[i] = f.worker)
  BY <1>1, <1>4 DEF Receive, OnResult, DropResult, RetryResult, SettleOk, SettleFailed, Accepted,
     OnClaim, HoldClaim, ZombieClaim, OnGoodbye, Depart, IgnoreBye, OnNothing, Unheld
<1> QED BY <1>2, <1>3, <1>4

\* No other step of the coordinator makes anybody a holder.
LEMMA OthersUnhold ==
  ASSUME IInv, NEW i \in Items,
         \/ \E beats \in SUBSET Workers : GateDrain(beats) \/ Drain(beats)
         \/ GateOpen \/ Dispatch \/ Sweep \/ LeaveLoop \/ Shutdown \/ Tick \/ UNCHANGED vars
  PROVE  holder'[i] # NoWorker => holder'[i] = holder[i]
BY DEF GateDrain, Drain, GateOpen, Dispatch, Sweep, LeaveLoop, Shutdown, Tick, Unheld, itemVars, vars

\* The holder of an item changes only with a frame that says so.
LEMMA TakenLeavesHolders ==
  ASSUME RunInv, HoldersTrue, NEW w \in Workers, TakeFrame(w)
  PROVE  HoldersTrue'
<1> DEFINE f == Head(outbox[w])
           q == Tail(outbox[w])
<1>1. /\ GateRecv(f) \/ Receive(f)
      /\ outbox[w] # <<>> /\ UNCHANGED <<wpc, cur>>
  BY DEF TakeFrame, workVars
<1>2. outbox'[w] = q /\ \A v \in Workers \ {w} : outbox'[v] = outbox[v]
  BY DEF TakeFrame, RunInv, WInv, WTypes
<1>3. f \in SaidBy(w)
  BY <1>1, HeadIsSaid DEF RunInv
<1>4. /\ outbox[w] \in Seq(SaidBy(w)) /\ Line(outbox[w]) /\ wpc[w] \in Places
      /\ LastFits(outbox[w][Len(outbox[w])], wpc[w], cur[w])
  BY <1>1 DEF RunInv, WInv, WTypes, Sound
<1>5. /\ f = outbox[w][1] /\ q \in Seq(SaidBy(w)) /\ Len(q) = Len(outbox[w]) - 1
      /\ Len(outbox[w]) \in Nat \ {0}
      /\ q # <<>> => Follows(f, Head(q)) /\ 1 \in 1 .. Len(q) /\ Head(q) = q[1]
      /\ \A k \in 1 .. Len(q) : q[k] = outbox[w][k + 1]
  <2>1. /\ f = outbox[w][1] /\ q \in Seq(SaidBy(w)) /\ q # <<>> => Follows(f, Head(q))
    BY <1>1, <1>4, OneFewer
  <2>2. q # <<>> => 1 \in 1 .. Len(q) /\ Head(q) = q[1]
    BY <1>1, <1>4, HeadTailProperties, OneFewer
  <2> QED BY <1>1, <1>4, <2>1, <2>2, HeadTailProperties, EmptySeq
<1> HIDE DEF f, q
<1> SUFFICES ASSUME NEW i \in Items, holder'[i] # NoWorker PROVE Holds(holder[i], i)'
  BY DEF HoldersTrue
<1>6. CASE f \in WorkClaim /\ f.path = i /\ holder'[i] = f.worker
  <2>1. f.worker = w /\ f.type = "CLAIM"
    BY <1>3, <1>6 DEF SaidBy, Claim, Result, Bye, WorkClaim
  <2>2. CASE q = <<>>
    <3>1. Len(outbox[w]) = 1
      BY <1>5, <2>2
    <3>2. LastFits(f, wpc[w], cur[w])
      BY <1>4, <1>5, <3>1
    <3>3. wpc[w] = "crashed" \/ (wpc[w] = "cleaning" /\ cur[w] = i)
      BY <1>4, <1>6, <2>1, <3>2 DEF LastFits, Places
    <3> QED BY <1>1, <1>6, <2>1, <3>3 DEF Holds
  <2>3. CASE q # <<>>
    <3>1. q[1].type = "RESULT" /\ q[1].path = i /\ 1 \in 1 .. Len(q)
      BY <1>5, <1>6, <2>1, <2>3 DEF Follows
    <3>2. Answered(w, i)'
      BY <1>2, <3>1 DEF Answered
    <3> QED BY <1>6, <2>1, <3>2 DEF Holds
  <2> QED BY <2>2, <2>3
<1>7. CASE /\ holder'[i] = holder[i]
           /\ ~(f \in WorkResult /\ f.worker = holder[i] /\ f.path = i)
  <2>1. Holds(holder[i], i) /\ holder[i] \in Workers
    BY <1>7 DEF HoldersTrue, RunInv, IInv, TypeOK, TablesOK
  <2>2. CASE wpc[holder[i]] = "crashed" \/ (wpc[holder[i]] = "cleaning" /\ cur[holder[i]] = i)
    BY <1>1, <1>7, <2>2 DEF Holds
  <2>3. CASE Answered(holder[i], i) /\ holder[i] # w
    BY <1>2, <1>7, <2>1, <2>3 DEF Holds, Answered
  <2>4. CASE Answered(w, i) /\ holder[i] = w
    <3>1. PICK k \in 1 .. Len(outbox[w]) : outbox[w][k].type = "RESULT" /\ outbox[w][k].path = i
      BY <2>4 DEF Answered
    <3>2. CASE k = 1
      <4>1. f \in WorkResult /\ f.worker = w /\ f.path = i
        BY <1>3, <1>5, <3>1, <3>2, ItemsAssumption DEF SaidBy, Claim, Result, Bye, WorkResult
      <4> QED BY <1>7, <2>4, <4>1
    <3>3. CASE k # 1
      <4>1. k - 1 \in 1 .. Len(q) /\ q[k - 1] = outbox[w][k]
        BY <1>5, <3>3
      <4>2. Answered(w, i)'
        BY <1>2, <3>1, <4>1 DEF Answered
      <4> QED BY <1>7, <2>4, <4>2 DEF Holds
    <3> QED BY <3>2, <3>3
  <2> QED BY <2>1, <2>2, <2>3, <2>4 DEF Holds
<1> QED BY <1>1, <1>6, <1>7, FrameHolders DEF RunInv

\* A worker goes on holding what it holds until its answer is on the pipe.
LEMMA WorkerLeavesHolders ==
  ASSUME RunInv, HoldersTrue, UNCHANGED vars, NEW w \in Workers,
         Start(w) \/ WorkerStep(w) \/ Crash(w) \/ Detach(w)
  PROVE  HoldersTrue'
<1>1. WTypes /\ outbox[w] \in Seq(SaidBy(w)) /\ InHand(w)
  BY DEF RunInv, WInv, Sound
<1>2. /\ \A v \in Workers \ {w} : wpc'[v] = wpc[v] /\ cur'[v] = cur[v] /\ outbox'[v] = outbox[v]
  BY <1>1 DEF WTypes, Start, WorkerStep, IdleTick, TakeStop, TakeMalformed, TakeWork, WriteOk,
     Finish, CannotOpen, ReaderThrows, WriteThrows, Answer, Send, Crash, Detach, workVars
<1>3. \/ wpc'[w] = "crashed"
      \/ /\ outbox'[w] = outbox[w] \/ \E f \in SaidBy(w) : outbox'[w] = Append(outbox[w], f)
         /\ \/ wpc[w] # "cleaning" \/ (wpc'[w] = "cleaning" /\ cur'[w] = cur[w])
            \/ \E n \in Outcomes : outbox'[w] = Append(outbox[w], Result(w, cur[w], n))
         /\ wpc[w] # "crashed"
  <2>1. CASE Start(w)
    BY <1>1, <2>1 DEF WTypes, Start
  <2>2. CASE IdleTick(w)
    <3>1. Bye(w) \in SaidBy(w)
      BY DEF SaidBy
    <3> QED BY <1>1, <2>2, <3>1 DEF WTypes, IdleTick, Send
  <2>3. CASE TakeStop(w) \/ TakeMalformed(w)
    BY <1>1, <2>3 DEF WTypes, TakeStop, TakeMalformed, Pull
  <2>4. ASSUME NEW p \in Items, TakeWork(w, p)
        PROVE  /\ wpc[w] = "recv" /\ Claim(w, p) \in SaidBy(w)
               /\ outbox'[w] = Append(outbox[w], Claim(w, p))
    BY <1>1, <2>4 DEF WTypes, TakeWork, Pull, Send, SaidBy
  <2>5. CASE WriteOk(w)
    BY <1>1, <2>5 DEF WTypes, WriteOk
  <2>6. ASSUME NEW n \in Outcomes, Answer(w, n), wpc[w] = "cleaning"
        PROVE  /\ Result(w, cur[w], n) \in SaidBy(w)
               /\ outbox'[w] = Append(outbox[w], Result(w, cur[w], n))
    BY <1>1, <2>6 DEF WTypes, InHand, Answer, Send, SaidBy
  <2>7. CASE Finish(w) \/ CannotOpen(w) \/ ReaderThrows(w) \/ WriteThrows(w)
    <3>1. wpc[w] = "cleaning" /\ \E n \in Outcomes : Answer(w, n)
      <4>1. wpc[w] = "cleaning"
        BY <2>7 DEF Finish, CannotOpen, ReaderThrows, WriteThrows
      <4>2. Unreadable \in Outcomes /\ Verdict(w) \in Outcomes
        BY <4>1, VerdictIsTrue DEF RunInv, Outcomes
      <4>3. Batches[cur[w]] \in Outcomes
        BY <1>1, <4>1, BatchesAssumption DEF InHand, Outcomes
      <4> QED BY <2>7, <4>1, <4>2, <4>3 DEF Finish, CannotOpen, ReaderThrows, WriteThrows
    <3> QED BY <2>6, <3>1
  <2>8. CASE Crash(w)
    BY <1>1, <2>8 DEF WTypes, Crash
  <2>9. CASE Detach(w)
    BY <1>1, <2>9 DEF Detach, workVars
  <2> QED BY <2>1, <2>2, <2>3, <2>4, <2>5, <2>7, <2>8, <2>9 DEF WorkerStep
<1> SUFFICES ASSUME NEW i \in Items, holder'[i] # NoWorker PROVE Holds(holder[i], i)'
  BY DEF HoldersTrue
<1>4. holder'[i] = holder[i] /\ holder[i] \in Workers /\ Holds(holder[i], i)
  BY DEF vars, HoldersTrue, RunInv, IInv, TypeOK, TablesOK
<1>5. CASE holder[i] # w
  BY <1>2, <1>4, <1>5 DEF Holds, Answered
<1>6. CASE holder[i] = w
  <2>1. CASE wpc'[w] = "crashed"
    BY <1>4, <1>6, <2>1 DEF Holds
  <2>2. CASE Answered(w, i) /\ (outbox'[w] = outbox[w] \/
                                \E f \in SaidBy(w) : outbox'[w] = Append(outbox[w], f))
    <3>1. PICK k \in 1 .. Len(outbox[w]) : outbox[w][k].type = "RESULT" /\ outbox[w][k].path = i
      BY <2>2 DEF Answered
    <3>2. k \in 1 .. Len(outbox'[w]) /\ outbox'[w][k] = outbox[w][k]
      <4>1. CASE outbox'[w] = outbox[w]
        BY <4>1
      <4>2. ASSUME NEW f \in SaidBy(w), outbox'[w] = Append(outbox[w], f)
            PROVE  k \in 1 .. Len(outbox'[w]) /\ outbox'[w][k] = outbox[w][k]
        <5>1. Len(outbox'[w]) = Len(outbox[w]) + 1 /\ outbox'[w][k] = outbox[w][k]
              /\ Len(outbox[w]) \in Nat
          BY <1>1, <4>2, AppendProperties, LenProperties
        <5> QED BY <5>1
      <4> QED BY <2>2, <4>1, <4>2
    <3>3. Answered(w, i)'
      BY <3>1, <3>2 DEF Answered
    <3> QED BY <1>4, <1>6, <3>3 DEF Holds
  <2>3. CASE wpc[w] = "cleaning" /\ cur[w] = i /\ wpc'[w] = "cleaning" /\ cur'[w] = cur[w]
    BY <1>4, <1>6, <2>3 DEF Holds
  <2>4. ASSUME wpc[w] = "cleaning", cur[w] = i, NEW n \in Outcomes,
               outbox'[w] = Append(outbox[w], Result(w, cur[w], n))
        PROVE  Holds(holder[i], i)'
    <3> DEFINE r == Result(w, cur[w], n)
    <3>1. r \in SaidBy(w) /\ r.type = "RESULT" /\ r.path = i
      BY <1>1, <2>4 DEF InHand, SaidBy, Result
    <3> HIDE DEF r
    <3>2. /\ Len(outbox'[w]) = Len(outbox[w]) + 1 /\ outbox'[w][Len(outbox[w]) + 1] = r
          /\ Len(outbox[w]) \in Nat
      BY <1>1, <2>4, <3>1, AppendProperties, LenProperties DEF r
    <3>3. Answered(w, i)'
      BY <3>1, <3>2 DEF Answered
    <3> QED BY <1>4, <1>6, <3>3 DEF Holds
  <2> QED BY <1>3, <1>4, <1>6, <2>1, <2>2, <2>3, <2>4 DEF Holds
<1> QED BY <1>5, <1>6

\* Who is recorded as a holder is one, whatever step is taken.
LEMMA RunKeepsHolders == RunInv /\ HoldersTrue /\ [RunNext]_runVars => HoldersTrue'
<1> SUFFICES ASSUME RunInv, HoldersTrue, [RunNext]_runVars PROVE HoldersTrue'
  OBVIOUS
<1>1. ASSUME NEW w \in Workers, TakeFrame(w) PROVE HoldersTrue'
  BY <1>1, TakenLeavesHolders
<1>2. ASSUME NEW w \in Workers, Start(w) \/ WorkerStep(w) \/ Crash(w) \/ Detach(w), UNCHANGED vars
      PROVE  HoldersTrue'
  BY <1>2, WorkerLeavesHolders
<1>3. ASSUME UNCHANGED <<wpc, cur, outbox>>,
             \A i \in Items : holder'[i] # NoWorker => holder'[i] = holder[i]
      PROVE  HoldersTrue'
  BY <1>3 DEF HoldersTrue, Holds, Answered
<1>4. CASE RecvTimesOut
  <2>1. NoFrame \notin WorkClaim
    BY DEF NoFrame, WorkClaim
  <2>2. \A i \in Items : holder'[i] # NoWorker => holder'[i] = holder[i]
    BY <1>4, <2>1, FrameHolders DEF RecvTimesOut, RunInv
  <2> QED BY <1>3, <1>4, <2>2 DEF RecvTimesOut, wvars
<1>5. CASE TakeBeats \/ SendItems \/ SendStops \/ Move \/ ((Tick \/ Finished) /\ UNCHANGED wvars)
           \/ UNCHANGED runVars
  <2>1. \/ \E beats \in SUBSET Workers : GateDrain(beats) \/ Drain(beats)
        \/ GateOpen \/ Dispatch \/ Sweep \/ LeaveLoop \/ Shutdown \/ Tick \/ UNCHANGED vars
    BY <1>5 DEF TakeBeats, SendItems, SendStops, Move, Finished, runVars, RunInv, BeatsOK
  <2>2. UNCHANGED <<wpc, cur, outbox>>
    BY <1>5 DEF TakeBeats, SendItems, SendStops, Move, runVars, wvars, workVars
  <2> QED BY <1>3, <2>1, <2>2, OthersUnhold DEF RunInv
<1> QED BY <1>1, <1>2, <1>4, <1>5 DEF RunNext, CoordinatorStep

\* The invariant says what HolderIsTrue does.
LEMMA HoldersAreTrue == RunInv /\ HoldersTrue => HolderIsTrue
<1> SUFFICES ASSUME RunInv, HoldersTrue, NEW i \in Items, holder[i] # NoWorker
    PROVE  \/ wpc[holder[i]] = "cleaning" /\ cur[holder[i]] = i
           \/ \E f \in Range(outbox[holder[i]]) : f.type = "RESULT" /\ f.path = i
           \/ wpc[holder[i]] = "crashed"
  BY DEF HolderIsTrue
<1>1. Holds(holder[i], i) /\ holder[i] \in Workers
  BY DEF HoldersTrue, RunInv, IInv, TypeOK, TablesOK
<1>2. DOMAIN outbox[holder[i]] = 1 .. Len(outbox[holder[i]])
  BY <1>1, LenProperties DEF RunInv, WInv, Sound
<1> QED BY <1>1, <1>2 DEF Holds, Answered, Range

\* The holder table is the truth: a recorded holder is cleaning the file, or its
\* answer is on the pipe, or its process is dead; the sweep therefore never
\* waits for somebody who has nothing to say about the file any more.
THEOREM HoldersTellTheTruth == RunSpec => []HolderIsTrue
<1>1. RunInit => HoldersTrue
  BY DEF RunInit, Init, HoldersTrue
<1> QED BY <1>1, RunInvariance, RunKeepsHolders, HoldersAreTrue, PTL DEF RunSpec, runVars

-----------------------------------------------------------------------------
(* The summary and the stores *)

\* A file has as many rows as batches.
LEMMA RowsCounted ==
  ASSUME NEW p \in Items
  PROVE  IsFiniteSet(Rows(p)) /\ Cardinality(Rows(p)) = Batches[p]
<1>1. Batches[p] \in Nat
  BY RowsAreRows
<1> DEFINE S == 1 .. Batches[p]
           g == [n \in S |-> <<p, n>>]
<1>2. IsFiniteSet(S) /\ Cardinality(S) = Batches[p]
  BY <1>1, FS_Interval
<1>3. g \in Bijection(S, Rows(p))
  <2>1. g \in Injection(S, Rows(p))
    BY DEF Injection, IsInjective, Rows
  <2>2. g \in Surjection(S, Rows(p))
    BY DEF Surjection, Rows
  <2> QED BY <2>1, <2>2 DEF Bijection
<1>4. ExistsBijection(S, Rows(p))
  BY <1>3 DEF ExistsBijection
<1> HIDE DEF S, g
<1> QED BY <1>2, <1>4, FS_Bijection

\* The events of the credits are as many as their rows: credits of different files.
LEMMA CreditedRows ==
  ASSUME RunInv, CreditsHold
  PROVE  LET R == UNION {Rows(c.path) : c \in completed}
         IN  IsFiniteSet(R) /\ EventsOf(completed) = Cardinality(R)
<1>1. completed \in SUBSET AllCredits /\ IsFiniteSet(completed) /\ CreditedOnce
  BY CreditsFinite DEF RunInv, IInv, TypeOK
<1> DEFINE R(U) == UNION {Rows(c.path) : c \in U}
           Good(U) == IsFiniteSet(R(U)) /\ Total(CreditEvents, U) = Cardinality(R(U))
           T == {U \in SUBSET completed : ~Good(U)}
<1>2. T = {}
  <2>1. SUFFICES ASSUME T # {} PROVE FALSE
    OBVIOUS
  <2>2. PICK U \in T : \A V \in SUBSET U : V # U => V \notin T
    <3>1. T \in SUBSET SUBSET completed
      OBVIOUS
    <3> HIDE DEF T
    <3> QED BY <1>1, <2>1, <3>1, SmallestMember
  <2>3. U \in SUBSET completed /\ ~Good(U)
    OBVIOUS
  <2>4. U # {}
    <3>1. R({}) = {}
      OBVIOUS
    <3>2. Total(CreditEvents, {}) = 0 /\ IsFiniteSet({}) /\ Cardinality({}) = 0
      BY TotalUnfold, FS_EmptySet
    <3> QED BY <2>3, <3>1, <3>2
  <2>5. PICK c \in U : TRUE
    BY <2>4
  <2> DEFINE V == U \ {c}
  <2>6. Good(V)
    BY <2>2, <2>3, <2>5
  <2>7. c \in completed /\ c \in AllCredits /\ c.path \in Items /\ c.events = Batches[c.path]
    BY <1>1, <2>3, <2>5 DEF CreditsHold, AllCredits
  <2>8. R(U) = R(V) \cup Rows(c.path)
    BY <2>5
  <2>9. R(V) \cap Rows(c.path) = {}
    <3>1. \A d \in V : d.path # c.path
      BY <1>1, <2>3, <2>5 DEF CreditedOnce
    <3> QED BY <3>1 DEF Rows
  <2>10. Total(CreditEvents, U) = c.events + Total(CreditEvents, V)
    <3>1. U \in SUBSET AllCredits /\ IsFiniteSet(U)
      BY <1>1, <2>3, FS_Subset
    <3>2. CreditEvents[c] = c.events
      BY <2>7 DEF CreditEvents
    <3> QED BY <2>5, <3>1, <3>2, CreditEventsType, TotalRemove
  <2>11. IsFiniteSet(Rows(c.path)) /\ Cardinality(Rows(c.path)) = Batches[c.path]
    BY <2>7, RowsCounted
  <2> HIDE DEF V, R
  <2>12. IsFiniteSet(R(U)) /\ Cardinality(R(U)) = Cardinality(R(V)) + Cardinality(Rows(c.path))
    <3>1. IsFiniteSet(R(V) \cup Rows(c.path))
      BY <2>6, <2>11, FS_Union
    <3> QED BY <2>6, <2>8, <2>9, <2>11, <3>1, CardParts
  <2>13. Cardinality(R(V)) \in Nat /\ Cardinality(Rows(c.path)) \in Nat
    BY <2>6, <2>11, FS_CardinalityType
  <2> QED BY <2>3, <2>6, <2>7, <2>10, <2>11, <2>12, <2>13
<1>3. Good(completed)
  <2> HIDE DEF Good
  <2> QED BY <1>2
<1> QED BY <1>1, <1>3, EventsAreATotal

\* There are finitely many rows.
LEMMA AllRowsFinite == IsFiniteSet(AllRows)
<1>1. IsFiniteSet({Rows(p) : p \in Items})
  <2> DEFINE g == [p \in Items |-> Rows(p)]
             SS == {Rows(p) : p \in Items}
  <2>1. g \in Surjection(Items, SS)
    BY DEF Surjection
  <2> HIDE DEF g, SS
  <2>2. IsFiniteSet(SS)
    BY <2>1, ItemsAssumption, FS_Surjection
  <2> QED BY <2>2 DEF SS
<1>2. \A S \in {Rows(p) : p \in Items} : IsFiniteSet(S)
  BY RowsCounted
<1>3. IsFiniteSet(UNION {Rows(p) : p \in Items})
  <2> DEFINE SS == {Rows(p) : p \in Items}
  <2> HIDE DEF SS
  <2>1. IsFiniteSet(UNION SS)
    BY <1>1, <1>2, FS_UNION DEF SS
  <2> QED BY <2>1 DEF SS
<1> QED BY <1>3 DEF AllRows

\* Distinct credits are for distinct files, so their rows add up.
LEMMA SummaryIsCovered == RunInv /\ CreditsHold => NeverOvercounts
<1> SUFFICES ASSUME RunInv, CreditsHold, pc = "returned"
    PROVE  /\ filesOk <= Cardinality({i \in Items : Rows(i) \subseteq Mergeable})
           /\ totalEvents <= Cardinality(Mergeable)
  BY DEF NeverOvercounts
<1>1. \A c \in completed : /\ c.worker \in Workers /\ c.path \in Items
                           /\ Rows(c.path) \subseteq Mergeable
  <2>1. \A c \in completed : c.worker \in Workers /\ c.path \in Items
    BY DEF RunInv, IInv, TypeOK, TablesOK
  <2>2. \A c \in completed : /\ Rows(c.path) \subseteq stored[c.worker]
                             /\ life[c.worker] # "tombstoned"
    BY CreditsHoldOnDisk DEF CreditIsOnDisk
  <2> QED BY <2>1, <2>2 DEF Mergeable
<1>2. IsFiniteSet(Mergeable)
  <2>1. Mergeable \subseteq AllRows
    BY DEF Mergeable, RunInv, WInv, WTypes
  <2> QED BY <2>1, AllRowsFinite, FS_Subset
<1>3. filesOk <= Cardinality({i \in Items : Rows(i) \subseteq Mergeable})
  <2> DEFINE Whole == {i \in Items : Rows(i) \subseteq Mergeable}
  <2>1. filesOk = Cardinality(Credited)
    BY DEF RunInv, IInv, SummaryAddsUp
  <2>2. Credited \subseteq Whole
    BY <1>1 DEF Credited, ItemsOf
  <2>3. IsFiniteSet(Whole)
    BY ItemsAssumption, FS_Subset
  <2> HIDE DEF Whole
  <2>4. Cardinality(Credited) <= Cardinality(Whole)
    BY <2>2, <2>3, FS_Subset
  <2> QED BY <2>1, <2>4 DEF Whole
<1>4. totalEvents <= Cardinality(Mergeable)
  <2> DEFINE R == UNION {Rows(c.path) : c \in completed}
  <2>1. totalEvents = Cardinality(R)
    BY CreditedRows DEF RunInv, TotalMatchesCredit
  <2>2. R \subseteq Mergeable
    BY <1>1
  <2> HIDE DEF R
  <2> QED BY <1>2, <2>1, <2>2, FS_Subset
<1> QED BY <1>3, <1>4

\* The summary that a run returns is covered by what mas_merge can fold in from the
\* stores that are not written off: every file counted ok is there whole, and
\* there are at least as many rows as events were counted.
THEOREM SummaryIsOnDisk == RunSpec => []NeverOvercounts
BY RunInvariance, CreditsAlwaysHold, SummaryIsCovered, PTL
=============================================================================
