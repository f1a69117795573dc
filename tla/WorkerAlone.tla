----------------------------- MODULE WorkerAlone -----------------------------
(***************************************************************************)
(* The cleaning workers with an arbitrary coordinator: any work frame may  *)
(* be queued for any attached worker, and the lifecycle frames are taken   *)
(* off at any time.  MaxQueue bounds what is queued for and by one worker. *)
(***************************************************************************)
EXTENDS CleaningWorker

CONSTANT MaxQueue

\* ZmqPushSink::send on the work socket, some live pipe is chosen.
Deliver(w, f) ==
  /\ w \in attached
  /\ Len(pipe[w]) + Len(outbox[w]) < MaxQueue
  /\ pipe' = [pipe EXCEPT ![w] = Append(@, f)]
  /\ UNCHANGED <<workVars, attached, outbox, hb>>

\* ZmqPullSource::recv on the results socket.
Collect(w) ==
  /\ outbox[w] # <<>>
  /\ outbox' = [outbox EXCEPT ![w] = Tail(@)]
  /\ UNCHANGED <<workVars, pipe, attached, hb>>

DrainBeats ==
  /\ hb # {}
  /\ hb' = {}
  /\ UNCHANGED <<workVars, pipe, attached, outbox>>

WNext ==
  \/ \E w \in Workers : Start(w) \/ WorkerStep(w) \/ Crash(w) \/ Detach(w) \/ Collect(w)
  \/ \E w \in Workers, f \in WorkFrame : Deliver(w, f)
  \/ DrainBeats

\* A worker process is scheduled; nothing makes it start or crash.
WSpec == WInit /\ [][WNext]_wvars /\ \A w \in Workers : WF_wvars(WorkerStep(w))

\* A worker that is left alone goes home: once nothing more is queued for it,
\* it answers what it holds and leaves, by STOP or by its idle budget.
OrphanGoesHome ==
  \A w \in Workers :
    <>[][Len(pipe'[w]) <= Len(pipe[w])]_wvars => <>[](~Up(w))
=============================================================================
