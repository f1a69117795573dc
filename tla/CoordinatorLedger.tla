--------------------------- MODULE CoordinatorLedger ---------------------------
(***************************************************************************)
(* The coordinator implements the ledger.  The verdict of an item is read  *)
(* off the tables: ok when some worker is credited with it, failed when it *)
(* is settled otherwise or the run has given up, open in between.          *)
(***************************************************************************)
EXTENDS Coordinator

GaveUp == open = 0 \/ pc = "returned"

Verdicts == [i \in Items |-> IF i \in Credited THEN "ok"
                             ELSE IF i \in done \/ GaveUp THEN "failed" ELSE "open"]
CreditFor(i) == CHOOSE c \in completed : c.path = i
By     == [i \in Items |-> IF i \in Credited THEN CreditFor(i).worker ELSE NoWorker]
Earned == [i \in Items |-> IF i \in Credited THEN CreditFor(i).events ELSE 0]

Reported ==
  [status |-> CASE pc = "returned" -> "returned" [] pc = "threw" -> "thrown"
                [] OTHER -> "none",
   ok     |-> IF pc = "returned" THEN filesOk ELSE 0,
   failed |-> IF pc = "returned" THEN filesFailed ELSE 0,
   events |-> IF pc = "returned" THEN totalEvents ELSE 0]

L == INSTANCE Ledger WITH
       verdict <- Verdicts, by <- By, earned <- Earned,
       writtenOff <- {w \in Workers : life[w] = "tombstoned"},
       report <- Reported

\* run_coordinator keeps the ledger's promise: credits are exclusive and only
\* a written-off store takes them back, failures are final, and the returned
\* summary is the count of the verdicts.
ImplementsLedger == L!Spec
=============================================================================
