----------------------------- MODULE Coordinator -----------------------------
(***************************************************************************)
(* run_coordinator (core/src/agent/Coordinator.cpp): ventilator, sink and  *)
(* liveness monitor in one loop.  One action per phase of a loop pass and  *)
(* per kind of frame.  The environment of this module is arbitrary: any    *)
(* frame may arrive at any receive, any heartbeats at any drain, any       *)
(* re-dispatch may hit the send timeout.  MasRun closes the system with    *)
(* real workers and pipes.                                                 *)
(*                                                                         *)
(* Time.  steady_clock is modelled by ages: age[w] is now() - last_seen,   *)
(* cut off one unit past the death threshold, elapsed is now() - start.    *)
(* Time passes while the loop blocks in results.recv or in a send (Tick);  *)
(* the heartbeat drain does not block.                                     *)
(***************************************************************************)
EXTENDS Frames, FiniteSetsExt

CONSTANTS
  Expected,       \* cfg.expected_workers
  Cap,            \* cfg.redispatch_cap
  Threshold,      \* cfg.death_threshold, in clock units
  RegTimeout      \* cfg.registration_timeout, in clock units

ASSUME ConfigAssumption ==
  /\ Expected \in Nat /\ Cap \in Nat
  /\ Threshold \in Nat \ {0} /\ RegTimeout \in Nat

VARIABLES
  pc,             \* where in the function the coordinator is
  done,           \* the items whose ItemState.done is set
  redispatches,   \* ItemState.redispatches
  holder,         \* the claimed holder of an open item, or NoWorker
  life,           \* the registry: unknown, live, tombstoned or departed
  age,            \* now() - WorkerState.last_seen
  completed,      \* every WorkerState.completed entry, tagged with its worker
  open,           \* the counter the loop runs on
  filesOk,        \* DispatchSummary.files_ok
  filesFailed,    \* DispatchSummary.files_failed
  totalEvents,    \* DispatchSummary.total_events
  workersDied,    \* DispatchSummary.workers_died
  elapsed,        \* now() - start
  sent,           \* the items this step put on the work socket
  stops           \* the STOP frames put on the work socket

itemVars   == <<done, redispatches, holder, open>>
workerVars == <<life, age, completed>>
tally      == <<filesOk, filesFailed, totalEvents, workersDied>>
vars == <<pc, done, redispatches, holder, life, age, completed, open, filesOk,
          filesFailed, totalEvents, workersDied, elapsed, sent, stops>>

Running == {"gateRecv", "gateDrain", "dispatch", "recv", "drain", "sweep"}
Phases  == Running \cup {"shutdown", "returned", "threw"}

Horizon == IF Threshold > RegTimeout THEN Threshold ELSE RegTimeout
AtMost(n, bound) == IF n > bound THEN bound ELSE n

Live       == {w \in Workers : life[w] = "live"}
Gone       == {w \in Workers : life[w] \in {"tombstoned", "departed"}}
Registry   == {w \in Workers : life[w] # "unknown"}
Fault_CreditsForgotten(W) == {}
CreditsOf(W)    == {c \in completed : c.worker \in W}
ItemsOf(credit) == {i \in Items : \E c \in credit : c.path = i}
EventsOf(credit) == MapThenSumSet(LAMBDA c : c.events, credit)
HeldBy(W)       == {i \in Items : holder[i] \in W}
Fault_SettledIsOpen(p) == p \in Items
IsOpen(p)       == p \in Items /\ p \notin done
Fault_HolderKept(I) == holder
Unheld(I)       == [i \in Items |-> IF i \in I THEN NoWorker ELSE holder[i]]

Init ==
  /\ pc = "gateRecv"
  /\ done = {}
  /\ redispatches = [i \in Items |-> 0]
  /\ holder = [i \in Items |-> NoWorker]
  /\ life = [w \in Workers |-> "unknown"]
  /\ age = [w \in Workers |-> 0]
  /\ completed = {}
  /\ open = Cardinality(Items)
  /\ filesOk = 0 /\ filesFailed = 0 /\ totalEvents = 0 /\ workersDied = 0
  /\ elapsed = 0
  /\ sent = {}
  /\ stops = 0

-----------------------------------------------------------------------------
Fault_TouchRevives(W) ==
  /\ life' = [w \in Workers |-> IF w \in W THEN "live" ELSE life[w]]
  /\ age' = [w \in Workers |-> IF w \in W THEN 0 ELSE age[w]]

\* touch: register an unknown worker, stamp a live one, ignore a gone one.
Touch(W) ==
  /\ life' = [w \in Workers |-> IF w \in W /\ life[w] = "unknown"
                                THEN "live" ELSE life[w]]
  /\ age' = [w \in Workers |-> IF w \in W \ Gone THEN 0 ELSE age[w]]

Fault_SettledTwice(candidates, failedSends, settledFailed) ==
  /\ failedSends \subseteq candidates
  /\ sent' = candidates \ failedSends
  /\ done' = done \cup failedSends \cup settledFailed
  /\ open' = open - Cardinality(failedSends \cup settledFailed)
  /\ filesFailed' = filesFailed + 2 * Cardinality(failedSends)
                                + Cardinality(settledFailed)
  /\ UNCHANGED <<filesOk, totalEvents, workersDied>>

\* try_redispatch for every path of candidates, after settling the paths of
\* capped: the sends of failedSends hit the send timeout and settle the item.
Redispatch(candidates, failedSends, settledFailed) ==
  /\ failedSends \subseteq candidates
  /\ sent' = candidates \ failedSends
  /\ done' = done \cup failedSends \cup settledFailed
  /\ open' = open - Cardinality(failedSends \cup settledFailed)
  /\ filesFailed' = filesFailed + Cardinality(failedSends \cup settledFailed)
  /\ UNCHANGED <<filesOk, totalEvents, workersDied>>

NothingSettled == sent' = {} /\ UNCHANGED <<done, open, tally>>

\* A re-dispatch needs a live worker: a PUSH socket with no pipe goes mute.
SendableTo(live, I) == IF live = {} THEN {} ELSE I

-----------------------------------------------------------------------------
\* A RESULT from a gone worker, or for an unknown or settled path, is dropped;
\* the touch happens first.
DropResult(r) ==
  /\ r \in WorkResult
  /\ r.worker \in Gone \/ ~IsOpen(r.path)
  /\ Touch({r.worker})
  /\ NothingSettled
  /\ UNCHANGED <<redispatches, holder, completed>>

Accepted(r) ==
  /\ r \in WorkResult
  /\ r.worker \notin Gone /\ IsOpen(r.path)
  /\ Touch({r.worker})
  /\ holder' = Unheld({r.path})

Fault_RetryUncapped(r) == r.events = PartialWrite

\* count_live() > 0 is implied: touch has just returned a live worker.
Retryable(r) == r.events = PartialWrite /\ redispatches[r.path] < Cap

\* -2 within the budget: charge the item and send it again.
RetryResult(r) ==
  /\ Accepted(r)
  /\ Retryable(r)
  /\ redispatches' = [redispatches EXCEPT ![r.path] = @ + 1]
  /\ \E lost \in SUBSET {r.path} : Redispatch({r.path}, lost, {})
  /\ UNCHANGED completed

SettleOk(r) ==
  /\ Accepted(r)
  /\ r.events \in EventCounts
  /\ done' = done \cup {r.path}
  /\ open' = open - 1
  /\ filesOk' = filesOk + 1
  /\ totalEvents' = totalEvents + r.events
  /\ completed' = completed \cup
       {[worker |-> r.worker, path |-> r.path, events |-> r.events]}
  /\ sent' = {}
  /\ UNCHANGED <<redispatches, filesFailed, workersDied>>

SettleFailed(r) ==
  /\ Accepted(r)
  /\ r.events \notin EventCounts
  /\ ~Retryable(r)
  /\ Redispatch({}, {}, {r.path})
  /\ UNCHANGED <<redispatches, completed>>

OnResult(r) == DropResult(r) \/ RetryResult(r) \/ SettleOk(r) \/ SettleFailed(r)

Fault_ClaimBelieved(c) ==
  /\ c \in WorkClaim
  /\ Touch({c.worker})
  /\ holder' = [i \in Items |-> IF i = c.path /\ IsOpen(i)
                                THEN c.worker ELSE holder[i]]
  /\ NothingSettled
  /\ UNCHANGED <<redispatches, completed>>

\* A claim from a live worker names the holder.
HoldClaim(c) ==
  /\ c \in WorkClaim
  /\ c.worker \notin Gone
  /\ Touch({c.worker})
  /\ holder' = [i \in Items |-> IF i = c.path /\ IsOpen(i)
                                THEN c.worker ELSE holder[i]]
  /\ NothingSettled
  /\ UNCHANGED <<redispatches, completed>>

\* A claim from a gone worker: the item sits in a written-off pipe, so it is
\* sent again, uncharged, unless a live worker holds it.
ZombieClaim(c) ==
  /\ c \in WorkClaim
  /\ c.worker \in Gone
  /\ LET stranded == SendableTo(Live, {i \in Items : /\ i = c.path /\ IsOpen(i)
                                                     /\ holder[i] \notin Live})
     IN  \E lost \in SUBSET stranded : Redispatch(stranded, lost, {})
  /\ UNCHANGED <<redispatches, holder, life, age, completed>>

OnClaim(c) == HoldClaim(c) \/ ZombieClaim(c)

\* mark_departed: an announced idle exit keeps the worker's completions.
Depart(g) ==
  /\ g \in Goodbye
  /\ g.worker \in Live
  /\ life' = [life EXCEPT ![g.worker] = "departed"]
  /\ LET mine == HeldBy({g.worker})
         back == SendableTo(Live \ {g.worker}, mine \ done)
     IN  /\ holder' = Unheld(mine)
         /\ \E lost \in SUBSET back : Redispatch(back, lost, {})
  /\ UNCHANGED <<redispatches, age, completed>>

IgnoreBye(g) ==
  /\ g \in Goodbye
  /\ g.worker \notin Live
  /\ NothingSettled
  /\ UNCHANGED <<redispatches, holder, life, age, completed>>

OnGoodbye(g) == Depart(g) \/ IgnoreBye(g)

\* A frame no decoder accepts, and a receive that timed out.
OnNothing(f) ==
  /\ f \in {Malformed, NoFrame}
  /\ NothingSettled
  /\ UNCHANGED <<redispatches, holder, life, age, completed>>

-----------------------------------------------------------------------------
\* The registration gate: a RESULT or a CLAIM only proves liveness.
GateRecv(f) ==
  /\ pc = "gateRecv"
  /\ Cardinality(Registry) < Expected
  /\ \/ /\ f \in WorkResult \cup WorkClaim
        /\ Touch({f.worker})
        /\ NothingSettled
        /\ UNCHANGED <<redispatches, holder, completed>>
     \/ OnGoodbye(f)
     \/ OnNothing(f)
  /\ pc' = "gateDrain"
  /\ UNCHANGED <<elapsed, stops>>

GateDrain(beats) ==
  /\ pc = "gateDrain"
  /\ Touch(beats)
  /\ IF elapsed <= RegTimeout
     THEN pc' = "gateRecv" /\ UNCHANGED filesFailed
     ELSE IF Registry \cup beats = {}
          THEN pc' = "returned" /\ filesFailed' = open
          ELSE pc' = "dispatch" /\ UNCHANGED filesFailed
  /\ sent' = {}
  /\ UNCHANGED <<itemVars, completed, filesOk, totalEvents, workersDied, elapsed, stops>>

GateOpen ==
  /\ pc = "gateRecv"
  /\ Cardinality(Registry) >= Expected
  /\ pc' = "dispatch"
  /\ sent' = {}
  /\ UNCHANGED <<itemVars, workerVars, tally, elapsed, stops>>

\* The initial dispatch is not guarded: a send timeout ends the run.
Dispatch ==
  /\ pc = "dispatch"
  /\ \/ sent' = Items /\ pc' = "recv"
     \/ sent' \in SUBSET Items /\ sent' # Items /\ pc' = "threw"
  /\ UNCHANGED <<itemVars, workerVars, tally, elapsed, stops>>

\* 1) One lifecycle frame.
Receive(f) ==
  /\ pc = "recv"
  /\ open > 0
  /\ OnResult(f) \/ OnClaim(f) \/ OnGoodbye(f) \/ OnNothing(f)
  /\ pc' = "drain"
  /\ UNCHANGED <<elapsed, stops>>

\* 2) The heartbeat drain.
Drain(beats) ==
  /\ pc = "drain"
  /\ Touch(beats)
  /\ sent' = {}
  /\ pc' = "sweep"
  /\ UNCHANGED <<itemVars, completed, tally, elapsed, stops>>

Silent == {w \in Live : age[w] > Threshold}

\* What a death takes back: the settled items of the dead worker's completions
\* and their events.
Fault_ReopenAll(W) == IF W = {} THEN {} ELSE done
Fault_EventsKept(W) == 0
ReopenedBy(W) == ItemsOf(CreditsOf(W)) \cap done
EventsLost(W) == EventsOf(CreditsOf(W))

\* The open items whose own holder died, and those nobody ever claimed.
Fault_BlanketCharge(W, I) == {i \in I : W # {} /\ holder[i] # NoWorker}
ChargedAt(W, I) == I \cap HeldBy(W)
UnclaimedAt(W, I) == {i \in I : W # {} /\ holder[i] = NoWorker}

Fault_OnlyNobodyEver(live) == Registry = {} /\ elapsed > Threshold

\* The abort check: everybody has gone, or nobody ever came.
Abandoned(live) == \/ live = {} /\ Registry # {}
                   \/ Registry = {} /\ elapsed > Threshold

\* 3) The deadline sweep with its re-dispatch, and 4) the abort check.  They
\* read one now() and one live count, and nothing else runs in between.
Sweep ==
  /\ pc = "sweep"
  /\ LET reopened == ReopenedBy(Silent)
         undone   == (Items \ done) \cup reopened
         live     == Live \ Silent
         charged  == ChargedAt(Silent, undone)
         unheld   == UnclaimedAt(Silent, undone)
         capped   == {i \in charged : redispatches[i] >= Cap}
         resend   == SendableTo(live, unheld \cup (charged \ capped))
         abort    == Abandoned(live)
     IN  \E lost \in SUBSET resend :
           LET left == open + Cardinality(reopened) - Cardinality(lost \cup capped)
           IN  /\ life' = [w \in Workers |-> IF w \in Silent THEN "tombstoned"
                                                             ELSE life[w]]
               /\ completed' = completed \ CreditsOf(Silent)
               /\ holder' = Unheld(charged)
               /\ redispatches' = [i \in Items |-> IF i \in charged \ capped
                                     THEN redispatches[i] + 1 ELSE redispatches[i]]
               /\ done' = (done \ reopened) \cup lost \cup capped
               /\ sent' = resend \ lost
               /\ open' = IF abort THEN 0 ELSE left
               /\ filesOk' = filesOk - Cardinality(reopened)
               /\ filesFailed' = filesFailed + Cardinality(lost \cup capped)
                                             + (IF abort THEN left ELSE 0)
               /\ totalEvents' = totalEvents - EventsLost(Silent)
  /\ workersDied' = workersDied + Cardinality(Silent)
  /\ pc' = "recv"
  /\ UNCHANGED <<age, elapsed, stops>>

LeaveLoop ==
  /\ pc = "recv"
  /\ open = 0
  /\ pc' = "shutdown"
  /\ sent' = {}
  /\ UNCHANGED <<itemVars, workerVars, tally, elapsed, stops>>

\* One STOP per registry entry, if anybody is live; a send timeout is swallowed.
Shutdown ==
  /\ pc = "shutdown"
  /\ stops' \in IF Live = {} THEN {0} ELSE 0 .. Cardinality(Registry)
  /\ pc' = "returned"
  /\ sent' = {}
  /\ UNCHANGED <<itemVars, workerVars, tally, elapsed>>

Tick ==
  /\ pc \in {"gateRecv", "recv", "drain"}
  /\ age' = [w \in Workers |-> IF w \in Live THEN AtMost(age[w] + 1, Threshold + 1)
                                             ELSE age[w]]
  /\ elapsed' = AtMost(elapsed + 1, Horizon + 1)
  /\ sent' = {}
  /\ UNCHANGED <<pc, itemVars, life, completed, tally, stops>>

Stopped == pc \in {"returned", "threw"}
Finished == Stopped /\ UNCHANGED vars

-----------------------------------------------------------------------------
Pass ==
  \/ \E f \in LifecycleFrame \cup {NoFrame} : GateRecv(f) \/ Receive(f)
  \/ \E beats \in SUBSET Workers : GateDrain(beats) \/ Drain(beats)
  \/ GateOpen \/ Dispatch \/ Sweep \/ LeaveLoop \/ Shutdown

Next == Pass \/ Tick \/ Finished

Spec == Init /\ [][Next]_vars

\* The loop is one thread that is always scheduled, and the clock runs: no
\* receive that is entered again and again leaves the time standing still.
FairSpec == Spec /\ WF_vars(Pass) /\ SF_vars(Tick)

-----------------------------------------------------------------------------
(* Invariants *)

TablesOK ==
  /\ done \in SUBSET Items
  /\ redispatches \in [Items -> 0 .. Cap]
  /\ holder \in [Items -> Workers \cup {NoWorker}]
  /\ life \in [Workers -> {"unknown", "live", "tombstoned", "departed"}]
  /\ age \in [Workers -> 0 .. Threshold + 1]
  /\ completed \in SUBSET [worker : Workers, path : Items, events : EventCounts]
  /\ open \in Nat /\ filesOk \in Nat /\ filesFailed \in Nat /\ workersDied \in Nat
  /\ sent \in SUBSET Items

\* Every variable stays in its range; no item is charged past the cap and the
\* loop counter never goes below zero.
TypeOK ==
  /\ TablesOK
  /\ pc \in Phases
  /\ elapsed \in 0 .. Horizon + 1
  /\ stops \in Nat

\* A recorded holder is a live worker and its item is open, whatever claims of
\* the dead arrive late and in whatever order workers leave.  The sweep skips
\* every item whose holder did not die in that very pass: one whose holder is
\* already gone would wait for ever beside a worker that lives.
HolderIsLive == \A i \in Items : holder[i] # NoWorker =>
                  holder[i] \in Live /\ i \notin done

\* An item's success is credited once, to a worker whose store is not written
\* off, and only while the item is settled.
CreditedOnce ==
  /\ \A c \in completed : c.path \in done /\ life[c.worker] \in {"live", "departed"}
  /\ \A c, d \in completed : c.path = d.path => c = d

Credited == ItemsOf(completed)

\* The counters say exactly what the tables say, through retries, reopened
\* completions and sends that fail; an aborted run leaves the loop with every
\* item that was still open counted failed, once.
CountersAgree ==
  pc \in Running \cup {"shutdown"} =>
    /\ filesOk = Cardinality(Credited)
    /\ \/ /\ open = Cardinality(Items \ done)
          /\ filesFailed = Cardinality(done \ Credited)
       \/ /\ open = 0 /\ pc \in {"recv", "shutdown"}
          /\ filesFailed = Cardinality(Items \ Credited)

\* A returned summary accounts for every item exactly once, the abandoned ones
\* included, and counts ok exactly the credited ones.
SummaryAddsUp ==
  pc = "returned" =>
    /\ filesOk + filesFailed = Cardinality(Items)
    /\ filesOk = Cardinality(Credited)

\* The event total is the sum over the credited items: a reopened item takes
\* its events back, so a second completion does not count them twice.
TotalMatchesCredit == totalEvents = EventsOf(completed)

-----------------------------------------------------------------------------
(* What a step may never do *)

\* Gone is gone: a tombstoned or departed worker is never live again and
\* never earns another credit, whatever it still sends.
GoneIsGone == [][\A w \in Gone : /\ life'[w] = life[w]
                                 /\ {c \in completed' : c.worker = w} \subseteq completed]_vars

\* A settled item only reopens when the worker credited with it is declared
\* dead in the same step; a failed item never reopens.
ReopenedByDeathOnly ==
  [][\A i \in done \ done' :
       \E c \in completed : /\ c.path = i
                            /\ life[c.worker] = "live"
                            /\ life'[c.worker] = "tombstoned"]_vars

\* A death never re-sends an item that a surviving worker holds: its cap is
\* not burnt and it is not cleaned twice.
SurvivorsKeepTheirItems ==
  [][pc = "sweep" =>
       \A i \in Items : holder[i] \in Live /\ life'[holder[i]] = "live" =>
         i \notin sent' /\ redispatches'[i] = redispatches[i]]_vars

\* Nothing is put on the work socket for nobody: every re-dispatch after the
\* initial dispatch happens with a live worker left at the end of the step.
SendsNeedSomebody ==
  [][(pc \in {"recv", "sweep"} /\ sent' # {}) => Live' # {}]_vars

\* Only what is due is sent again: an item put on the work socket after the
\* initial dispatch is open and is not in the hands of a live worker, whatever
\* the reason (a retry, a claim of the dead, a goodbye, a death).
ResendsAreDue ==
  [][pc # "dispatch" => \A i \in sent' : i \notin done' /\ holder'[i] \notin Live']_vars

-----------------------------------------------------------------------------
(* Liveness *)

\* Once every worker has fallen silent the loop ends: no set of open items,
\* claims and failed sends keeps it alive.
Hushed == \A w \in Workers : age'[w] >= age[w] /\ (life'[w] = "live" => w \in Live)
SilenceEnds == <>[][Hushed]_vars => <>Stopped
=============================================================================
