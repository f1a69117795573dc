-------------------------------- MODULE MCAsk --------------------------------
(* An instance of Ask for TLC: one month, one range, one period that does not
   parse, and steps a model is known to plan. *)
EXTENDS Ask

CONSTANTS feb, quarter, garbled

MCPeriods == {feb, quarter, garbled}
MCRanges  == {quarter}
MCBad     == {garbled}
MCNames   == {"overview", "success_rates", "methodology", "uptime"}

\* A machine of 36 heads over a quarter.
MCRowsOf  == [head |-> 36, day |-> 90, hour |-> 24, zone |-> 3, closure |-> 20]
MCRowCaps == <<120, 60, 40, 20, 10, 5>>

\* Null-padded, plain, a number below its minimum, twice the same figure, two
\* periods, and tables of every length.
MCOffers ==
  {Step("trend", [period |-> feb, signal |-> Null, by |-> Null]),
   Step("trend", [signal |-> "torque"]),
   Step("trend", [period |-> quarter, signal |-> "success_rate"]),
   Step("trend", [period |-> feb, window |-> "zero"]),
   Step("compare_periods", [period |-> garbled, by |-> "week"]),
   Step("success_rates", [period |-> feb, by |-> Null]),
   Step("success_rates", [period |-> feb, by |-> "day"]),
   Step("torque_stats", [period |-> feb, by |-> Null]),
   Step("failure_correlation", [period |-> feb]),
   Step("closure_filter", [period |-> feb, above |-> "number"])}
=============================================================================
