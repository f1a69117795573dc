--------------------------------- MODULE Ask ---------------------------------
(***************************************************************************)
(* The report agent of python/analytics: `arol report TYPE` and `arol ask  *)
(* QUESTION` (cli.py), from the command line to the exit code.  A language *)
(* model may compose the plan and word the findings; whatever it does, the *)
(* steps are run by the executor and a report is written.  A step is a     *)
(* tool and a function from argument names to values; the tools' numbers   *)
(* are abstracted to what decides the next move, and what a reader or a    *)
(* model is shown to facts: a line of the findings, a row of a table, a    *)
(* figure.                                                                 *)
(***************************************************************************)
EXTENDS Naturals, FiniteSets, SequencesExt

CONSTANTS
  Null,          \* Python's None
  Periods,       \* the period arguments that may be typed or planned ...
  Ranges, Bad,   \* ... those that span months, those that do not parse
  Offers,        \* the steps a model may put in a plan it composes
  Names,         \* the tool names it may select
  MaxSteps,      \* bound: steps of a model's plan
  RowsOf,        \* the rows of each kind of table
  RowCaps,       \* _ROW_CAPS
  Rooms          \* how many rows the rest of the prompt may leave room for

ASSUME PeriodsAssumption == Ranges \subseteq Periods /\ Bad \subseteq Periods \ Ranges
ASSUME CapsAssumption == RowCaps \in Seq(Nat) /\ RowCaps # <<>> /\ Rooms \subseteq Nat
ASSUME RowsAssumption == \A table \in {"closure", "zone", "hour", "day", "head"} : RowsOf[table] \in Nat
ASSUME StepsAssumption == MaxSteps \in Nat
ASSUME NullAssumption ==
  Null \notin {"no client", "call failed", "section missing", "unsubstantiated", "ungrounded"}

VARIABLES
  cmd,        \* the command line
  cfg,        \* the configuration, with the overrides once they are applied
  phase,
  plan,
  results,    \* Execution.results, one per step run so far
  told,       \* what a local model is given to answer from
  narrative,
  mishaps,    \* history: what went wrong with a model, and where
  exit        \* main's return value

vars == <<cmd, cfg, phase, plan, results, told, narrative, mishaps, exit>>

-----------------------------------------------------------------------------
(* registry.py *)

AnyPeriod == Periods \cup {Null}
OneOf(S)  == S \cup {Null}
DayOrHour == OneOf({"day", "hour"})
Limit     == OneOf({"number"})      \* a number of the type and above the minimum

\* TOOLS: what each tool takes.
Params ==
  [overview |-> [period |-> AnyPeriod],
   success_rates |-> [period |-> AnyPeriod, by |-> OneOf({"head", "day", "overall"})],
   torque_stats |-> [period |-> AnyPeriod, by |-> OneOf({"head"}),
                     outcome |-> OneOf({"successful", "failed", "all"})],
   capping_speed |-> [period |-> AnyPeriod, bucket |-> DayOrHour],
   idle_periods |-> [period |-> AnyPeriod, min_seconds |-> Limit],
   anomalies |-> [period |-> AnyPeriod, method |-> OneOf({"threshold", "deviation", "both"})],
   trend |-> [period |-> AnyPeriod, signal |-> OneOf({"torque", "success_rate"}),
              by |-> DayOrHour, window |-> Limit],
   head_correlation |-> [period |-> AnyPeriod, heads |-> OneOf({"heads"}), by |-> DayOrHour],
   event_gaps |-> [period |-> AnyPeriod, min_seconds |-> Limit],
   compare_periods |-> [period |-> AnyPeriod, by |-> OneOf({"month", "week"})],
   closure_filter |-> [period |-> AnyPeriod, above |-> Limit, below |-> Limit, head |-> Limit,
                       outcome |-> OneOf({"successful", "failed", "all"})],
   failure_correlation |-> [period |-> AnyPeriod, by |-> OneOf({"hour_of_day", "torque"})],
   methodology |-> [topic |-> OneOf({"preprocessing"})]]

Step(t, args) == [tool |-> t, args |-> args]

Effective(args) == [k \in {k \in DOMAIN args : args[k] # Null} |-> args[k]]
Get(args, k, default) == IF k \in DOMAIN args THEN args[k] ELSE default

\* validate_step finds nothing wrong.
Valid(t, args) ==
  /\ t \in DOMAIN Params
  /\ \A k \in DOMAIN args : k \in DOMAIN Params[t] /\ args[k] \in Params[t][k]

-----------------------------------------------------------------------------
(* router.py *)

ReportTypes == {"kpi", "drift", "anomalies"}

Canned(type, p) ==
  LET P == [period |-> p]
  IN  CASE type = "kpi" ->
             <<Step("overview", P), Step("success_rates", [period |-> p, by |-> "overall"]),
               Step("success_rates", [period |-> p, by |-> "head"]),
               Step("capping_speed", [period |-> p, bucket |-> "day"]), Step("idle_periods", P)>>
        [] type = "drift" ->
             <<Step("trend", [period |-> p, signal |-> "torque", by |-> "day"]),
               Step("trend", [period |-> p, signal |-> "success_rate", by |-> "day"]),
               Step("torque_stats", [period |-> p, outcome |-> "successful", by |-> "head"]),
               Step("head_correlation", [period |-> p, by |-> "day"])>>
        [] type = "anomalies" ->
             <<Step("anomalies", [period |-> p, method |-> "both"]), Step("overview", P),
               Step("success_rates", [period |-> p, by |-> "day"])>>

-----------------------------------------------------------------------------
(* config.py, and the overrides of the command line *)

Providers == {"anthropic", "ollama"}
Tiers     == {"classify", "select", "plan"}

\* __post_init__, of what concerns the model: the planner's prompt has to fit
\* the context of a local one, which truncates it without a word.
Stands(c) == c.provider = "ollama" => c.num_ctx = "enough"

Over(value, override) == IF override = Null THEN value ELSE override
Overridden(c) == [c EXCEPT !.provider = Over(@, cmd.provider), !.planning = Over(@, cmd.planning)]

\* An override is checked the way the file is, before anything is done.
Accepted == Stands(cfg) /\ Stands(Overridden(cfg))
Configure ==
  /\ phase = "start"
  /\ IF Accepted
     THEN /\ cfg' = Overridden(cfg)
          /\ cmd' = [cmd EXCEPT !.provider = Null, !.planning = Null]
          /\ phase' = "plan" /\ UNCHANGED exit
     ELSE phase' = "refused" /\ exit' = 2 /\ UNCHANGED <<cmd, cfg>>
  /\ UNCHANGED <<plan, results, told, narrative, mishaps>>

-----------------------------------------------------------------------------
(* planner.py: who plans, and what a plan that does not stand up becomes *)

Plan(steps, source, note) == [steps |-> steps, source |-> source, note |-> note]

Fault_ReasonDropped(reason) == {"routed"}
FallbackNote(reason) == {reason, "routed"}

Planned(p) == plan' = p /\ phase' = "run" /\ UNCHANGED <<cmd, cfg, results, told, narrative, exit>>

\* The keyword router's plan, whichever the words of the question score for.
Fallback(reason) ==
  /\ \E type \in ReportTypes : Planned(Plan(Canned(type, cmd.period), "router", FallbackNote(reason)))
  /\ mishaps' = mishaps \cup {<<"Planning", reason>>}

Fault_RawSignal(s) == s.tool = "trend" /\ Get(s.args, "signal", "torque") = "torque"
TorqueTrend(s) == s.tool = "trend" /\ Get(Effective(s.args), "signal", "torque") = "torque"

\* _with_level_check.  The period is the first trend's, as planned.
NeedsLevel(steps) == /\ \E k \in DOMAIN steps : TorqueTrend(steps[k])
                     /\ ~\E k \in DOMAIN steps : steps[k].tool = "compare_periods"
LevelCheck(steps) ==
  LET first == SelectInSeq(steps, TorqueTrend)
      p     == Get(steps[first].args, "period", Null)
  IN  Step("compare_periods", [period |-> p, by |-> IF p \in Ranges \cup {Null} THEN "month" ELSE "week"])

Report == /\ phase = "plan" /\ cmd.verb = "report"
          /\ Planned(Plan(Canned(cmd.type, cmd.period), "router", {}))
          /\ UNCHANGED mishaps

Asking(tier) == phase = "plan" /\ cmd.verb = "ask" /\ cfg.planning = tier

\* No client, a call that failed, a reply that is not a JSON object.
NoReply == \E tier \in {"classify", "select", "plan"}, reason \in {"no client", "planning failed"} :
             Asking(tier) /\ Fallback(reason)

Classify(choice) ==
  /\ Asking("classify")
  /\ \/ choice \notin ReportTypes /\ Fallback("not a report type")
     \/ /\ choice \in ReportTypes
        /\ Planned(Plan(Canned(choice, cmd.period), "llm", {"fixed plan"}))
        /\ UNCHANGED mishaps

\* The tools are the model's; every one of them is given the period.
Select(names) ==
  /\ Asking("select")
  /\ \/ Range(names) \ DOMAIN Params # {} /\ Fallback("unknown tools")
     \/ names = <<>> /\ Fallback("no tools")
     \/ /\ names # <<>> /\ Range(names) \subseteq DOMAIN Params
        /\ Planned(Plan([k \in DOMAIN names |-> Step(names[k], [period |-> cmd.period])],
                        "llm", {"defaults"}))
        /\ UNCHANGED mishaps

Callable(steps) == \A k \in DOMAIN steps : Valid(steps[k].tool, Effective(steps[k].args))

Compose(steps) ==
  /\ Asking("plan")
  /\ \/ steps = <<>> /\ Fallback("empty plan")
     \/ ~Callable(steps) /\ Fallback("invalid plan")
     \/ /\ steps # <<>> /\ Callable(steps)
        /\ Planned(IF NeedsLevel(steps) THEN Plan(Append(steps, LevelCheck(steps)), "llm", {"level added"})
                   ELSE Plan(steps, "llm", {}))
        /\ UNCHANGED mishaps

Misshapen == Asking("plan") /\ Fallback("misshapen plan")

-----------------------------------------------------------------------------
(* executor.py *)

Result(t, status, rich) == [tool |-> t, status |-> status, rich |-> rich]

\* What a usable result holds: rates or a ranking, and a reject or a hit.
Riches(t) ==
  CASE t = "success_rates" -> {"bare", "rates", "full"}
    [] t \in {"anomalies", "failure_correlation", "closure_filter", "head_correlation"} -> {"bare", "full"}
    [] OTHER -> {"full"}

\* methodology reads no store; anomalies answers with zero counts where
\* others lack data.
Outcomes(s) ==
  LET args  == Effective(s.args)
      fails == Result(s.tool, "error", "bare")
      short == Result(s.tool, "insufficient_data", "bare")
      oks   == {Result(s.tool, "ok", rich) : rich \in Riches(s.tool)}
  IN  CASE ~Valid(s.tool, args) \/ Get(args, "period", Null) \in Bad -> {fails}
        [] OTHER -> oks \cup (IF s.tool = "methodology" THEN {} ELSE {fails})
                        \cup (IF s.tool \in {"methodology", "anomalies"} THEN {} ELSE {short})

\* A step that fails is recorded, and the plan goes on.
Ran == Len(results)
Execute ==
  /\ phase = "run" /\ Ran < Len(plan.steps)
  /\ \E r \in Outcomes(plan.steps[Ran + 1]) : results' = Append(results, r)
  /\ UNCHANGED <<cmd, cfg, phase, plan, told, narrative, mishaps, exit>>

-----------------------------------------------------------------------------
(* The figures: render.py and plots.py *)

\* _figure_keys
FigureKeys(t, args) ==
  CASE t = "success_rates" /\ Get(args, "by", "head") \in {"head", "day"} -> {<<t, Get(args, "by", "head")>>}
    [] t \in {"capping_speed", "anomalies"} -> {<<t, Null>>}
    [] t = "trend" /\ Get(args, "signal", "torque") = "torque" -> {<<t, "torque">>, <<t, "drift">>}
    [] t = "torque_stats" /\ Get(args, "by", Null) = Null -> {<<t, Null>>}
    [] t = "failure_correlation" /\ Get(args, "by", "hour_of_day") = "hour_of_day" -> {<<t, "hour_of_day">>}
    [] OTHER -> {}

\* The plotters that return None for a usable result: no rate; no reject, no hit.
Blank(key, k) ==
  CASE key = <<"success_rates", "head">> -> results[k].rich = "bare"
    [] key \in {<<"success_rates", "day">>, <<"anomalies", Null>>,
                <<"failure_correlation", "hour_of_day">>} -> results[k].rich # "full"
    [] OTHER -> FALSE

Pairs == 1 .. (IF Ran < Len(plan.steps) THEN Ran ELSE Len(plan.steps))
KeysAt(k) == FigureKeys(results[k].tool, Effective(plan.steps[k].args))

\* The first figure of a kind has the plain name, a later one its step's.
Fault_PlainNames(key, k) == FALSE
Repeats(key, k) == \E j \in 1 .. k - 1 : key \in KeysAt(j)
FileName(key, k) == <<key, IF Repeats(key, k) THEN k ELSE 0>>

Slots == UNION {{<<key, k>> : key \in KeysAt(k)} : k \in Pairs}
Usable(k) == results[k].status = "ok"
Drawn == {s \in Slots : Usable(s[2]) /\ ~Blank(s[1], s[2])}

\* planned_figures
PlannedFigures == {FileName(s[1], s[2]) : s \in {x \in Slots : Usable(x[2])}}

-----------------------------------------------------------------------------
(* The findings and the tables: summarise and tables of render.py *)

\* summarise: the steps that give the findings a line of their own.
Spoken == {k \in Pairs : Usable(k) /\ (results[k].tool \in {"success_rates", "head_correlation"}
             => results[k].rich # "bare" \/ Get(Effective(plan.steps[k].args), "by", Null) = "overall")}
Lines == {<<"line", k>> : k \in Spoken}

\* The table of a result, by what its rows are.
TableOf(k) ==
  LET args == Effective(plan.steps[k].args)
      by   == Get(args, "by", Null)
      t    == results[k].tool
  IN  CASE ~Usable(k)                                           -> "none"
        [] t = "closure_filter" /\ results[k].rich = "full"     -> "closure"
        [] t = "failure_correlation" /\ by = "torque"           -> "zone"
        [] t = "failure_correlation"                            -> "hour"
        [] t = "success_rates" /\ by # "overall"                -> IF by = "day" THEN "day" ELSE "head"
        [] t = "torque_stats" /\ by = "head"                    -> "head"
        [] OTHER                                                -> "none"
Tables == {k \in Pairs : TableOf(k) # "none"}

AtMost(n, cap) == IF n < cap THEN n ELSE cap
Whole(k) == RowsOf[TableOf(k)]

\* max_rows and max_day_rows: how many rows of a table are shown.
Shown(k, cut) == AtMost(Whole(k), IF TableOf(k) = "day" THEN cut.day ELSE cut.head)

\* _facts: the tables by day are cut first, then the others, until they fit.
Attempts ==
  [n \in 1 .. Len(RowCaps) |-> [head |-> RowCaps[1], day |-> RowCaps[n]]] \o
  [n \in 1 .. Len(RowCaps) - 1 |-> [head |-> RowCaps[n + 1], day |-> Last(RowCaps)]]
TextRows(cut) == MapThenSumSet(LAMBDA k : Shown(k, cut), Tables)
CutFor(room) ==
  LET fits == SelectInSeq(Attempts, LAMBDA cut : TextRows(cut) <= room)
  IN  IF fits = 0 THEN Last(Attempts) ELSE Attempts[fits]

\* The prompt of a local model.  The last row shown of a table stands for its
\* rows; a table that is cut says how many it leaves out.
LeftOut(cut) == {<<"left out", k>> : k \in {j \in Tables : Shown(j, cut) < Whole(j)}}
Facts(cut) ==
  Lines \cup {<<"row", k, Shown(k, cut)>> : k \in Tables} \cup LeftOut(cut)
        \cup {<<"figure", f>> : f \in PlannedFigures}

\* The report prints the tables whole, and the figures that were drawn; the
\* template's findings go beneath a local model's answer and not beneath a
\* hosted one's.
Printed(fact) ==
  \/ fact[1] = "row" /\ fact[2] \in Tables /\ fact[3] <= Whole(fact[2])
  \/ \E s \in Drawn : fact = <<"figure", FileName(s[1], s[2])>>
  \/ narrative.beneath /\ fact \in Lines

-----------------------------------------------------------------------------
(* narrator.py, render.py and main *)

Narrated(source, note, beneath, states) ==
  /\ narrative' = [source |-> source, note |-> note, beneath |-> beneath, states |-> states]
  /\ phase' = "render"
  /\ UNCHANGED <<cmd, cfg, plan, results, exit>>
Template(note) == Narrated("template", note, TRUE, Null)

Ready == phase = "run" /\ Ran >= Len(plan.steps)

Summarise == Ready /\ cmd.verb = "report" /\ Template(Null) /\ UNCHANGED <<told, mishaps>>

NarrationFails(reason) ==
  /\ Template(reason)
  /\ mishaps' = mishaps \cup {<<"Narration", reason>>}

NoNarrator == Ready /\ cmd.verb = "ask" /\ NarrationFails("no client") /\ UNCHANGED told

\* A number of an answer is named by a place where it stands: a fact, the
\* question, or nowhere.  An answer may also hold no number at all.
Numbers(facts) ==
  [from : facts \cup {<<"question">>, <<"nowhere">>}, digits : {"several"}]
  \cup [from : {<<"nowhere">>}, digits : {"none", "one"}]

Fault_AnyNumber(n) == TRUE
\* _ungrounded.  It reads the numbers and not the words: no number, or one of a
\* single digit, passes; any other has to occur somewhere in the facts or in
\* the question, whatever the sentence says it is a number of.
Grounded(n) == n.digits = "several" => n.from \in told' \cup {<<"question">>}

\* A local model answers above the template's findings from the facts it is
\* given.  Its numbers are looked up one by one: one stands for them.
AskLocal ==
  /\ Ready /\ cmd.verb = "ask" /\ cfg.provider = "ollama"
  /\ \E room \in Rooms :
       /\ told' = Facts(CutFor(room))
       /\ \/ \E n \in Numbers(told') :
              IF Grounded(n) THEN Narrated("llm", Null, TRUE, n) /\ UNCHANGED mishaps
                             ELSE NarrationFails("ungrounded")
          \/ \E reason \in {"call failed", "section missing", "unsubstantiated"} : NarrationFails(reason)

\* A hosted model words the findings itself, from the raw results.
AskHosted ==
  /\ Ready /\ cmd.verb = "ask" /\ cfg.provider = "anthropic"
  /\ \/ Narrated("llm", Null, FALSE, Null) /\ UNCHANGED mishaps
     \/ \E reason \in {"call failed", "section missing", "unsubstantiated"} : NarrationFails(reason)
  /\ UNCHANGED told

\* _limits and _model_line
Limits == {<<"Planning", n>> : n \in plan.note}
          \cup (IF narrative.note = Null THEN {} ELSE {<<"Narration", narrative.note>>})
          \cup (IF plan.source = "router" THEN {<<"Planning", "no model">>} ELSE {})
          \cup {<<results[k].tool, results[k].status>> : k \in DOMAIN results}
ModelNamed == narrative.source = "llm" \/ plan.source = "llm"

AllFailed == results # <<>> /\ \A k \in DOMAIN results : results[k].status = "error"
Exit ==
  /\ phase = "render"
  /\ phase' = "done"
  /\ exit' = IF AllFailed THEN 1 ELSE 0
  /\ UNCHANGED <<cmd, cfg, plan, results, told, narrative, mishaps>>

Commands ==
  [verb : {"report"}, type : ReportTypes, period : AnyPeriod,
   provider : Providers \cup {Null}, planning : Tiers \cup {Null}]
  \cup [verb : {"ask"}, period : AnyPeriod,
        provider : Providers \cup {Null}, planning : Tiers \cup {Null}]
Configs == [provider : Providers, planning : Tiers, num_ctx : {"small", "enough"}]

Init ==
  /\ cmd \in Commands /\ cfg \in Configs
  /\ phase = "start"
  /\ plan = Plan(<<>>, "router", {})
  /\ results = <<>> /\ told = {} /\ mishaps = {}
  /\ narrative = [source |-> "template", note |-> Null, beneath |-> TRUE, states |-> Null]
  /\ exit = 0

Next ==
  \/ Configure \/ Report
  \/ NoReply \/ Misshapen
  \/ \E c \in ReportTypes \cup {"weather"} : Classify(c)
  \/ \E names \in BoundedSeq(Names, MaxSteps) : Select(names)
  \/ \E steps \in BoundedSeq(Offers, MaxSteps) : Compose(steps)
  \/ Execute
  \/ Summarise \/ NoNarrator \/ AskLocal \/ AskHosted
  \/ Exit

Spec == Init /\ [][Next]_vars

-----------------------------------------------------------------------------
(* Properties *)

\* A drift test misses a step in level: no torque trend of a plan the model
\* composed is drawn without a comparison of the periods among the results,
\* one the registry let through (_with_level_check).
LevelNextToTrend ==
  phase = "render" /\ plan.source = "llm" /\ cfg.planning = "plan" =>
    \A s \in Drawn : s[1][1] = "trend" =>
      \E k \in Pairs : /\ results[k].tool = "compare_periods"
                       /\ Valid("compare_periods", Effective(plan.steps[k].args))

\* Every figure drawn has a file of its own, comes from a result of the step
\* that asked for it, and was among those the narrating model was told of.
FiguresAreTold ==
  phase = "render" =>
    /\ \A s, t \in Drawn : FileName(s[1], s[2]) = FileName(t[1], t[2]) => s = t
    /\ \A s \in Drawn : plan.steps[s[2]].tool = s[1][1]
    /\ <<"Narration", "no client">> \notin mishaps /\ cmd.verb = "ask" /\ cfg.provider = "ollama" =>
         {<<"figure", FileName(s[1], s[2])>> : s \in Drawn} \subseteq told

\* A number of two or more digits in an accepted answer of a local model was
\* asked about or is on the page the reader has, in the findings beneath the
\* answer or in the tables, although the model was shown less than the page
\* and the page is made without it.  Two things a model may repeat are not
\* there: how many rows its tables left out, and the name of a figure for
\* which, once it is drawn, there was nothing to show.  Nothing is said of the
\* other statements, nor of what the answer claims the number to be: those
\* _ungrounded does not check (narrator.py:222-241).
NumbersAreOnThePage ==
  phase \in {"render", "done"} /\ narrative.states # Null /\ narrative.states.digits = "several" =>
    LET fact == narrative.states.from
    IN  \/ Printed(fact) \/ fact[1] \in {"question", "left out"}
        \/ \E s \in Slots : fact = <<"figure", FileName(s[1], s[2])>> /\ Blank(s[1], s[2])

\* The report hides no gap: each thing that went wrong with a model and each
\* step that gave no data is among its limits, it names a model only if one
\* was of use, and main succeeds only if some step did more than fail.
GapsAreTold ==
  phase = "done" =>
    /\ mishaps \subseteq Limits
    /\ \A k \in DOMAIN plan.steps : \E l \in Limits : l[1] = plan.steps[k].tool
    /\ \A k \in DOMAIN plan.steps :
         ~Valid(plan.steps[k].tool, Effective(plan.steps[k].args)) =>
           <<plan.steps[k].tool, "error">> \in Limits
    /\ ModelNamed <=> cmd.verb = "ask" /\ {m[1] : m \in mishaps} # {"Planning", "Narration"}
    /\ exit = 0 => \E k \in DOMAIN plan.steps : <<plan.steps[k].tool, "error">> \notin Limits
                     \/ \E status \in {"ok", "insufficient_data"} : <<plan.steps[k].tool, status>> \in Limits
=============================================================================
