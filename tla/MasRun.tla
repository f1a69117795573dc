-------------------------------- MODULE MasRun --------------------------------
(***************************************************************************)
(* The whole run: one coordinator, its cleaning workers and the three      *)
(* ZeroMQ sockets between them (core/src/transport/ZmqTransport.cpp).      *)
(*                                                                         *)
(* The work socket is an anonymous PUSH: which attached pipe a frame joins *)
(* is not the coordinator's to say.  ZeroMQ goes round robin; any choice   *)
(* is allowed here.  A send with no pipe attached times out.  A frame may  *)
(* take any time on its way, so the coordinator's receives may time out    *)
(* while one is queued, but each pipe keeps its order.                     *)
(***************************************************************************)
EXTENDS Coordinator, CleaningWorker

CONSTANTS
  MaxCrashes,   \* bound: how many processes die in one run
  Unframeable   \* the items whose path has a line break in it, or is empty

ASSUME CrashAssumption == MaxCrashes \in Nat
ASSUME FramingAssumption == Unframeable \subseteq Items

\* Fields are lines: what decode_work makes of the frame of such an item is
\* nothing, and the coordinator does not know.
Framed(i) == IF i \in Unframeable THEN Malformed ELSE Work(i)

\* The frames of I join the pipes, in some order, each some attached one.
Enqueue(I) ==
  IF I = {} THEN UNCHANGED pipe
  ELSE \E order \in SetToSeqs(I), route \in [I -> attached] :
         pipe' = [w \in Workers |->
                    pipe[w] \o [k \in 1 .. Cardinality({i \in I : route[i] = w}) |->
                      Framed(SelectSeq(order, LAMBDA i : route[i] = w)[k])]]

\* STOPs are anonymous too: a worker may get two and another none.
EnqueueStops(n) ==
  IF n = 0 THEN UNCHANGED pipe
  ELSE \E share \in [attached -> 0 .. n] :
         /\ MapThenSumSet(LAMBDA w : share[w], attached) = n
         /\ pipe' = [w \in Workers |-> IF w \in attached
                       THEN pipe[w] \o [k \in 1 .. share[w] |-> Stop] ELSE pipe[w]]

OnWorkSocket == Enqueue(sent') /\ UNCHANGED attached

\* The results socket hands over the oldest frame of some worker.
TakeFrame(w) ==
  /\ outbox[w] # <<>>
  /\ GateRecv(Head(outbox[w])) \/ Receive(Head(outbox[w]))
  /\ outbox' = [outbox EXCEPT ![w] = Tail(@)]
  /\ OnWorkSocket
  /\ UNCHANGED <<workVars, hb>>

RecvTimesOut ==
  /\ GateRecv(NoFrame) \/ Receive(NoFrame)
  /\ UNCHANGED wvars

TakeBeats ==
  /\ \E beats \in SUBSET hb : (GateDrain(beats) \/ Drain(beats)) /\ hb' = hb \ beats
  /\ UNCHANGED <<workVars, pipe, attached, outbox>>

SendItems ==
  /\ Dispatch \/ Sweep
  /\ OnWorkSocket
  /\ UNCHANGED <<workVars, outbox, hb>>

SendStops ==
  /\ Shutdown
  /\ stops' = IF Live = {} \/ attached = {} THEN 0 ELSE Cardinality(Registry)
  /\ EnqueueStops(stops')
  /\ UNCHANGED <<workVars, attached, outbox, hb>>

Move == (GateOpen \/ LeaveLoop) /\ UNCHANGED wvars

CoordinatorStep ==
  \/ \E w \in Workers : TakeFrame(w)
  \/ RecvTimesOut \/ TakeBeats \/ SendItems \/ SendStops \/ Move

Crashed == Cardinality({w \in Workers : wpc[w] = "crashed"})

RunInit == Init /\ WInit

RunNext ==
  \/ CoordinatorStep
  \/ (Tick \/ Finished) /\ UNCHANGED wvars
  \/ \E w \in Workers : /\ \/ Start(w) \/ WorkerStep(w) \/ Detach(w)
                           \/ Crash(w) /\ Crashed < MaxCrashes
                        /\ UNCHANGED vars

RunSpec == RunInit /\ [][RunNext]_<<vars, wvars>>

\* The coordinator's loop, the clock and every started process keep running.
\* Nothing is asked of the network: a frame may be on its way for good.
FairRun ==
  /\ RunSpec
  /\ WF_<<vars, wvars>>(CoordinatorStep)
  /\ SF_<<vars, wvars>>(Tick /\ UNCHANGED wvars)
  /\ \A w \in Workers : WF_<<vars, wvars>>(WorkerStep(w) /\ UNCHANGED vars)

-----------------------------------------------------------------------------
(* Invariants *)

\* A credit is on disk: the whole file is in the store of the worker it is
\* credited to, and that store is not written off.
CreditIsOnDisk ==
  \A c \in completed : /\ Rows(c.path) \subseteq stored[c.worker]
                       /\ c.events = Batches[c.path]
                       /\ life[c.worker] # "tombstoned"

\* What mas_merge can fold in from the stores that are not written off.
Mergeable == UNION {stored[w] : w \in {v \in Workers : life[v] # "tombstoned"}}

\* The returned summary never overcounts: every file counted ok can be merged
\* whole, and the event total is at most what the merge holds.
NeverOvercounts ==
  pc = "returned" =>
    /\ filesOk <= Cardinality({i \in Items : Rows(i) \subseteq Mergeable})
    /\ totalEvents <= Cardinality(Mergeable)

\* The holder table is the truth about the workers: a recorded holder is
\* cleaning that file, or its answer is on the way, or its process has died
\* and its silence will release the file.
HolderIsTrue ==
  \A i \in Items : holder[i] # NoWorker =>
    LET w == holder[i]
    IN  \/ wpc[w] = "cleaning" /\ cur[w] = i
        \/ \E f \in Range(outbox[w]) : f.type = "RESULT" /\ f.path = i
        \/ wpc[w] = "crashed"

-----------------------------------------------------------------------------
(* Liveness *)

\* The run ends: the coordinator returns or throws, and every worker process
\* that was started goes home.
RunEnds == <>[](Stopped /\ \A w \in Workers : ~Up(w))
=============================================================================
