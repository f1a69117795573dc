---------------------------- MODULE MCEventTools ----------------------------
(***************************************************************************)
(* An instance of EventTools for TLC: a day has three stamps, and day 0 is *)
(* Wednesday 31 December 2025.                                             *)
(***************************************************************************)
EXTENDS EventTools, TLC

\* No load; passed; rejected above the band, with a negative status; rejected
\* without load; the lower limit's own REAL, without a verdict.
MCKinds   == {<<2, 0>>, <<0, 4>>, <<-65, 8>>, <<3, 0>>, <<4, 2>>}
\* What a REAL holds is even: the lower limit is rounded, the upper one not.
MCReal    == 3 :> 2 @@ 6 :> 6
MCStamps  == {1, 2, 5, 18}
MCMonth   == [t \in MCStamps |-> IF t < 5 THEN <<2025, 12>> ELSE <<2026, 1>>]
MCDay     == [t \in MCStamps |-> t \div 3]
MCWeek    == [t \in MCStamps |-> MCDay[t] - ((MCDay[t] + 2) % 7)]
MCStart   == <<2025, 1>> :> -364 @@ <<2025, 12>> :> -30 @@ <<2026, 1>> :> 1 @@ <<2026, 2>> :> 32
MCHour    == [t \in MCStamps |-> t \div 2]
MCClock   == [t \in MCStamps |-> (t \div 2) % 2]
MCForeign == {[machine |-> "other", head |-> 1, ts |-> 5, status |-> 65, torque |-> 8]}
=============================================================================
