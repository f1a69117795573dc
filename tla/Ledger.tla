-------------------------------- MODULE Ledger --------------------------------
(***************************************************************************)
(* What a run of the coordinator promises its caller, without frames,      *)
(* sockets or clocks: every day-file has one verdict; a success is         *)
(* credited to one worker and is only taken back when that worker's store  *)
(* is written off; a failure is final; the report is written once, counts  *)
(* every file exactly once and never changes afterwards.                   *)
(***************************************************************************)
EXTENDS Frames, FiniteSetsExt

VARIABLES
  verdict,     \* [Items -> {"open", "ok", "failed"}]
  by,          \* the worker credited with an ok item
  earned,      \* its event count
  writtenOff,  \* the workers whose stores no longer count
  report       \* what the caller gets

vars == <<verdict, by, earned, writtenOff, report>>

NoReport == [status |-> "none", ok |-> 0, failed |-> 0, events |-> 0]
Thrown   == [NoReport EXCEPT !.status = "thrown"]
With(v)  == {i \in Items : verdict[i] = v}

Init ==
  /\ verdict = [i \in Items |-> "open"]
  /\ by = [i \in Items |-> NoWorker]
  /\ earned = [i \in Items |-> 0]
  /\ writtenOff = {}
  /\ report = NoReport

Succeed(i, w, n) ==
  /\ report = NoReport
  /\ verdict[i] = "open" /\ w \notin writtenOff
  /\ verdict' = [verdict EXCEPT ![i] = "ok"]
  /\ by' = [by EXCEPT ![i] = w]
  /\ earned' = [earned EXCEPT ![i] = n]
  /\ UNCHANGED <<writtenOff, report>>

\* The stores of W are lost: their items are open again, except that any item
\* that is open now or after this step may be given up.
WriteOff(W, givenUp) ==
  LET back == {i \in With("ok") : by[i] \in W}
  IN  /\ report = NoReport
      /\ givenUp \subseteq With("open") \cup back
      /\ writtenOff' = writtenOff \cup W
      /\ verdict' = [i \in Items |-> IF i \in givenUp THEN "failed"
                                     ELSE IF i \in back THEN "open" ELSE verdict[i]]
      /\ by' = [i \in Items |-> IF i \in back THEN NoWorker ELSE by[i]]
      /\ earned' = [i \in Items |-> IF i \in back THEN 0 ELSE earned[i]]
      /\ UNCHANGED report

\* Whatever is still open counts as failed.
Report ==
  /\ report = NoReport
  /\ verdict' = [i \in Items |-> IF verdict[i] = "open" THEN "failed" ELSE verdict[i]]
  /\ report' = [status |-> "returned",
                ok     |-> Cardinality(With("ok")),
                failed |-> Cardinality(With("open") \cup With("failed")),
                events |-> MapThenSumSet(LAMBDA i : earned[i], Items)]
  /\ UNCHANGED <<by, earned, writtenOff>>

Throw ==
  /\ report = NoReport
  /\ report' = Thrown
  /\ UNCHANGED <<verdict, by, earned, writtenOff>>

Next ==
  \/ \E i \in Items, w \in Workers, n \in EventCounts : Succeed(i, w, n)
  \/ \E W \in SUBSET Workers, givenUp \in SUBSET Items : WriteOff(W, givenUp)
  \/ Report
  \/ Throw

Spec == Init /\ [][Next]_vars
=============================================================================
