------------------------------- MODULE Frames -------------------------------
(***************************************************************************)
(* The vocabulary the coordinator and the cleaning workers share: who may  *)
(* appear on the wire, which day-files exist, and the frames of the wire   *)
(* protocol (core/include/mas/agent/Message.hpp) as records.  A frame that *)
(* every decoder rejects is the single value Malformed; a receive that     *)
(* timed out is the single value NoFrame.                                  *)
(***************************************************************************)
EXTENDS Integers, FiniteSets

CONSTANTS
  Paths,        \* every path a frame may name
  Items,        \* the day-files given to the coordinator
  Workers,      \* every worker id a frame may name
  EventCounts,  \* the event counts a successful clean may report
  NoWorker      \* "nobody": no holder, no credit

ASSUME ItemsAssumption == Items \subseteq Paths /\ IsFiniteSet(Items)
ASSUME WorkersAssumption == IsFiniteSet(Workers) /\ NoWorker \notin Workers
ASSUME EventsAssumption == EventCounts \subseteq Nat

Unreadable   == -1     \* nothing persisted: deterministic, not retried
PartialWrite == -2     \* rows persisted, then a throw: worth one more attempt
Outcomes     == EventCounts \cup {Unreadable, PartialWrite}

WorkResult == [type : {"RESULT"}, path : Paths, events : Outcomes, worker : Workers]
WorkClaim  == [type : {"CLAIM"}, path : Paths, worker : Workers]
Goodbye    == [type : {"BYE"}, worker : Workers]
Malformed  == [type |-> "MALFORMED"]
NoFrame    == [type |-> "NONE"]

\* What the results socket can hand to the coordinator.
LifecycleFrame == WorkResult \cup WorkClaim \cup Goodbye \cup {Malformed}

Result(w, p, n) == [type |-> "RESULT", path |-> p, events |-> n, worker |-> w]
Claim(w, p)     == [type |-> "CLAIM", path |-> p, worker |-> w]
Bye(w)          == [type |-> "BYE", worker |-> w]
=============================================================================
