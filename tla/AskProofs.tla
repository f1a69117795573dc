------------------------------- MODULE AskProofs -------------------------------
(***************************************************************************)
(* Proofs about Ask: for any periods, any steps and tools a model may plan *)
(* and any tables, what the report agent shows, says and admits is true.   *)
(***************************************************************************)
EXTENDS Ask, SequenceTheorems, WellFoundedInduction, TLAPS

Phases == {"start", "refused", "plan", "run", "render", "done"}
Tools  == DOMAIN Params \cup {s.tool : s \in Offers}
Statuses == {"ok", "error", "insufficient_data"}
Results  == [tool : Tools, status : Statuses, rich : {"bare", "rates", "full"}]

Typed ==
  /\ cmd \in Commands /\ cfg \in Configs
  /\ phase \in Phases
  /\ Len(plan.steps) \in Nat /\ DOMAIN plan.steps = 1 .. Len(plan.steps)
  /\ \A k \in DOMAIN plan.steps : plan.steps[k].tool \in Tools
  /\ plan.source \in {"llm", "router"}
  /\ results \in Seq(Results)
  /\ narrative.source \in {"llm", "template"}

\* Before there is a plan nothing has been done.
Untouched ==
  phase \in {"start", "refused", "plan"} =>
    /\ plan = Plan(<<>>, "router", {}) /\ results = <<>> /\ mishaps = {}
Unsaid ==
  phase \in {"start", "refused", "plan", "run"} =>
    narrative = [source |-> "template", note |-> Null, beneath |-> TRUE, states |-> Null]

\* A result stands beside the step it is of, and is one the step can have.
Followed ==
  /\ phase \in {"run", "render", "done"} => Len(plan.steps) > 0
  /\ Ran <= Len(plan.steps)
  /\ phase \in {"render", "done"} => Ran = Len(plan.steps)
  /\ \A k \in 1 .. Ran : results[k] \in Outcomes(plan.steps[k])

\* A plan the model composed tests the level where it tests the drift.
Levelled ==
  plan.source = "llm" /\ cfg.planning = "plan" /\ (\E k \in DOMAIN plan.steps : TorqueTrend(plan.steps[k])) =>
    \E k \in DOMAIN plan.steps : /\ plan.steps[k].tool = "compare_periods"
                                 /\ Valid("compare_periods", Effective(plan.steps[k].args))

\* What went wrong left its mark on the plan or on the narrative, and what
\* bears no such mark went well.
Marked ==
  /\ \A m \in mishaps :
       \/ cmd.verb = "ask" /\ plan.source = "router" /\ \E r \in plan.note : m = <<"Planning", r>>
       \/ /\ phase \in {"render", "done"} /\ cmd.verb = "ask" /\ narrative.source = "template"
          /\ narrative.note # Null /\ m = <<"Narration", narrative.note>>
  /\ phase \in {"run", "render", "done"} /\ cmd.verb = "ask" /\ plan.source = "router" =>
       \E m \in mishaps : m[1] = "Planning"
  /\ phase \in {"render", "done"} /\ cmd.verb = "ask" /\ narrative.source = "template" =>
       \E m \in mishaps : m[1] = "Narration"
  /\ cmd.verb = "report" => plan.source = "router" /\ narrative.source = "template"

\* A local model that was asked at all was told of every figure planned.
ToldOfFigures ==
  /\ phase \in {"render", "done"} /\ cmd.verb = "ask" /\ cfg.provider = "ollama"
       /\ <<"Narration", "no client">> \notin mishaps =>
         {<<"figure", f>> : f \in PlannedFigures} \subseteq told

Ended == phase = "done" /\ exit = 0 => ~AllFailed

IInv == Typed /\ Untouched /\ Unsaid /\ Followed /\ Levelled /\ Marked /\ ToldOfFigures
        /\ Ended /\ NumbersAreOnThePage

-----------------------------------------------------------------------------
(* The operators *)

\* A figure's key begins with the tool it is drawn for, and the keys of a
\* trend are those of a torque trend (_figure_keys).
LEMMA KeyOfTool ==
  ASSUME NEW t, NEW args, NEW key \in FigureKeys(t, args)
  PROVE  /\ key[1] = t
         /\ t = "trend" => Get(args, "signal", "torque") = "torque"
BY DEF FigureKeys

\* Two figures with the same file name are the same figure.
LEMMA NamesDiffer ==
  ASSUME NEW s \in Slots, NEW t \in Slots, FileName(s[1], s[2]) = FileName(t[1], t[2]),
         Ran \in Nat, Len(plan.steps) \in Nat
  PROVE  s = t
<1>1. PICK k \in Pairs : \E key \in KeysAt(k) : s = <<key, k>>
  BY DEF Slots
<1>2. PICK j \in Pairs : \E key \in KeysAt(j) : t = <<key, j>>
  BY DEF Slots
<1>3. PICK x \in KeysAt(k) : s = <<x, k>>
  BY <1>1
<1>4. PICK y \in KeysAt(j) : t = <<y, j>>
  BY <1>2
<1>5. k \in Nat /\ j \in Nat /\ k >= 1 /\ j >= 1
  BY DEF Pairs
<1>6. x = y
  BY <1>3, <1>4 DEF FileName
<1>7. (IF Repeats(x, k) THEN k ELSE 0) = (IF Repeats(x, j) THEN j ELSE 0)
  BY <1>3, <1>4, <1>6 DEF FileName
<1>8. k < j => Repeats(x, j)
  BY <1>3, <1>5 DEF Repeats
<1>9. j < k => Repeats(x, k)
  BY <1>4, <1>5, <1>6 DEF Repeats
<1>10. k = j
  BY <1>5, <1>7, <1>8, <1>9
<1> QED BY <1>3, <1>4, <1>6, <1>10

\* A canned plan is a list of steps, and an empty one it is not.
LEMMA CannedPlan ==
  ASSUME NEW type \in ReportTypes, NEW p
  PROVE  /\ Len(Canned(type, p)) \in Nat /\ Len(Canned(type, p)) > 0
         /\ DOMAIN Canned(type, p) = 1 .. Len(Canned(type, p))
         /\ \A k \in DOMAIN Canned(type, p) : Canned(type, p)[k].tool \in Tools
<1>1. {"overview", "success_rates", "torque_stats", "capping_speed", "idle_periods", "anomalies",
       "trend", "head_correlation"} \subseteq DOMAIN Params
  BY DEF Params
<1>2. CASE type = "kpi"
  BY <1>1, <1>2 DEF Canned, Step, Tools
<1>3. CASE type = "drift"
  BY <1>1, <1>3 DEF Canned, Step, Tools
<1>4. CASE type = "anomalies"
  BY <1>1, <1>4 DEF Canned, Step, Tools
<1> QED BY <1>2, <1>3, <1>4 DEF ReportTypes

\* What a step's outcome may be; a step the registry refuses fails.
LEMMA OutcomeOfStep ==
  ASSUME NEW s, NEW r \in Outcomes(s)
  PROVE  /\ r.tool = s.tool /\ r.status \in Statuses /\ r.rich \in {"bare", "rates", "full"}
         /\ r = Result(r.tool, r.status, r.rich)
         /\ ~Valid(s.tool, Effective(s.args)) => r.status = "error"
<1>1. Riches(s.tool) \subseteq {"bare", "rates", "full"}
  BY DEF Riches
<1>2. CASE r = Result(s.tool, "error", "bare")
  BY <1>2 DEF Result, Statuses
<1>3. CASE r = Result(s.tool, "insufficient_data", "bare") /\ Valid(s.tool, Effective(s.args))
  BY <1>3 DEF Result, Statuses
<1>4. CASE Valid(s.tool, Effective(s.args)) /\ \E rich \in Riches(s.tool) : r = Result(s.tool, "ok", rich)
  BY <1>1, <1>4 DEF Result, Statuses
<1>5. \/ r = Result(s.tool, "error", "bare")
      \/ r = Result(s.tool, "insufficient_data", "bare") /\ Valid(s.tool, Effective(s.args))
      \/ Valid(s.tool, Effective(s.args)) /\ \E rich \in Riches(s.tool) : r = Result(s.tool, "ok", rich)
  BY DEF Outcomes
<1> QED BY <1>2, <1>3, <1>4, <1>5

\* A set of numbers has a least one.
LEMMA SmallestNat ==
  ASSUME NEW I \in SUBSET Nat, I # {}
  PROVE  Min(I) \in I
<1>1. PICK k \in I : \A j \in I : ~ (<<j, k>> \in OpToRel(<, Nat))
  BY NatLessThanWellFounded, WFMin
<1>2. \A j \in I : <<j, k>> \in OpToRel(<, Nat) <=> j < k
  BY DEF OpToRel
<1>3. ASSUME NEW j \in I PROVE k <= j
  <2>1. ~(j < k) /\ j \in Nat /\ k \in Nat
    BY <1>1, <1>2
  <2> QED BY <2>1
<1> QED BY <1>3 DEF Min

\* SelectInSeq gives a place where the test holds, if there is one.
LEMMA FirstTrend ==
  ASSUME NEW steps, Len(steps) \in Nat, NEW i \in 1 .. Len(steps), TorqueTrend(steps[i])
  PROVE  /\ SelectInSeq(steps, TorqueTrend) \in 1 .. Len(steps)
         /\ TorqueTrend(steps[SelectInSeq(steps, TorqueTrend)])
<1> DEFINE I == {k \in 1 .. Len(steps) : TorqueTrend(steps[k])}
<1>1. I # {} /\ I \subseteq Nat
  OBVIOUS
<1>3. Min(I) \in I
  BY <1>1, SmallestNat
<1> QED BY <1>1, <1>3 DEF SelectInSeq

\* The comparison _with_level_check adds passes the registry: its period is
\* one the registry let through.
LEMMA LevelCheckStands ==
  ASSUME NEW steps, Len(steps) \in Nat, DOMAIN steps = 1 .. Len(steps), Callable(steps), NeedsLevel(steps)
  PROVE  /\ LevelCheck(steps).tool = "compare_periods"
         /\ Valid("compare_periods", Effective(LevelCheck(steps).args))
<1> DEFINE first == SelectInSeq(steps, TorqueTrend)
           p == Get(steps[first].args, "period", Null)
           by == IF p \in Ranges \cup {Null} THEN "month" ELSE "week"
           args == [period |-> p, by |-> by]
<1>1. first \in 1 .. Len(steps) /\ TorqueTrend(steps[first])
  BY FirstTrend DEF NeedsLevel
<1>2. LevelCheck(steps) = [tool |-> "compare_periods", args |-> args]
  BY DEF LevelCheck, Step
<1>3. Valid("trend", Effective(steps[first].args))
  BY <1>1 DEF Callable, TorqueTrend
<1>4. p \in AnyPeriod
  <2>1. CASE "period" \in DOMAIN steps[first].args /\ steps[first].args["period"] # Null
    <3>1. "period" \in DOMAIN Effective(steps[first].args)
          /\ Effective(steps[first].args)["period"] = steps[first].args["period"]
      BY <2>1 DEF Effective
    <3>2. Effective(steps[first].args)["period"] \in Params["trend"]["period"]
      BY <1>3, <3>1 DEF Valid
    <3>3. Params["trend"]["period"] = AnyPeriod
      BY DEF Params
    <3> QED BY <2>1, <3>1, <3>2, <3>3 DEF Get
  <2> QED BY <2>1 DEF Get, AnyPeriod
<1>5. DOMAIN args = {"period", "by"} /\ args["period"] = p /\ args["by"] = by
  OBVIOUS
<1>6. /\ "compare_periods" \in DOMAIN Params
      /\ DOMAIN Params["compare_periods"] = {"period", "by"}
      /\ Params["compare_periods"]["period"] = AnyPeriod
      /\ Params["compare_periods"]["by"] = {"month", "week"} \cup {Null}
  BY DEF Params, OneOf
<1> HIDE DEF args
<1>7. Valid("compare_periods", Effective(args))
  <2>1. \A k \in DOMAIN Effective(args) : k \in {"period", "by"} /\ Effective(args)[k] = args[k]
    BY <1>5 DEF Effective
  <2> QED BY <1>4, <1>5, <1>6, <2>1 DEF Valid
<1> QED BY <1>2, <1>7

\* Whatever the room, the rows allowed of a table are a number (_facts).
LEMMA CutIsANumber ==
  ASSUME NEW room
  PROVE  CutFor(room).head \in Nat /\ CutFor(room).day \in Nat
<1> DEFINE n == Len(RowCaps)
           a == [k \in 1 .. n |-> [head |-> RowCaps[1], day |-> RowCaps[k]]]
           b == [k \in 1 .. n - 1 |-> [head |-> RowCaps[k + 1], day |-> Last(RowCaps)]]
           Cuts == [head : Nat, day : Nat]
<1>1. n \in Nat \ {0} /\ \A k \in 1 .. n : RowCaps[k] \in Nat
  BY CapsAssumption, EmptySeq
<1>2. Last(RowCaps) \in Nat
  BY <1>1 DEF Last
<1>3. a \in Seq(Cuts) /\ Len(a) = n
  <2>1. a \in [1 .. n -> Cuts]
    BY <1>1
  <2> QED BY <1>1, <2>1, SeqDef
<1>4. b \in Seq(Cuts) /\ Len(b) = n - 1
  <2>1. b \in [1 .. n - 1 -> Cuts] /\ n - 1 \in Nat
    BY <1>1, <1>2
  <2>2. \E m \in Nat : b \in [1 .. m -> Cuts] /\ m = n - 1
    BY <2>1
  <2> HIDE DEF b, n, Cuts
  <2> QED BY <2>2, SeqDef
<1>5. Attempts = a \o b
  BY DEF Attempts
<1> HIDE DEF a, b, n, Cuts
<1>6. Attempts \in Seq(Cuts) /\ Len(Attempts) \in Nat /\ Len(Attempts) >= 1
  BY <1>1, <1>3, <1>4, <1>5, ConcatProperties
<1>7. \A k \in 1 .. Len(Attempts) : Attempts[k] \in Cuts
  BY <1>6, ElementOfSeq
<1>8. Last(Attempts) \in Cuts
  BY <1>6, <1>7 DEF Last
<1>9. CutFor(room) \in Cuts
  <2> DEFINE I == {k \in 1 .. Len(Attempts) : TextRows(Attempts[k]) <= room}
             fits == IF I # {} THEN Min(I) ELSE 0
  <2>1. CutFor(room) = IF fits = 0 THEN Last(Attempts) ELSE Attempts[fits]
    BY DEF CutFor, SelectInSeq
  <2>2. I # {} => Min(I) \in I
    <3>1. I \in SUBSET Nat
      OBVIOUS
    <3> HIDE DEF I
    <3> QED BY <3>1, SmallestNat
  <2>3. fits # 0 => fits \in 1 .. Len(Attempts)
    <3>1. I \subseteq 1 .. Len(Attempts)
      OBVIOUS
    <3> HIDE DEF I
    <3> QED BY <2>2, <3>1
  <2> HIDE DEF fits
  <2> QED BY <1>7, <1>8, <2>1, <2>3
<1> QED BY <1>9 DEF Cuts

\* A model is shown no more rows of a table than the table has.
LEMMA ShownOfWhole ==
  ASSUME NEW room, NEW k \in Tables
  PROVE  Shown(k, CutFor(room)) <= Whole(k)
<1>1. TableOf(k) \in {"closure", "zone", "hour", "day", "head", "none"}
  BY DEF TableOf
<1>2. Whole(k) \in Nat
  BY <1>1, RowsAssumption DEF Tables, Whole
<1>3. CutFor(room).head \in Nat /\ CutFor(room).day \in Nat
  BY CutIsANumber
<1> QED BY <1>2, <1>3 DEF Shown, AtMost

\* What is on the page depends on the plan and the results alone.
LEMMA SamePage ==
  ASSUME UNCHANGED <<plan, results>>
  PROVE  /\ Slots' = Slots /\ Drawn' = Drawn /\ Lines' = Lines /\ Tables' = Tables
         /\ PlannedFigures' = PlannedFigures
         /\ \A key, k : FileName(key, k)' = FileName(key, k) /\ Blank(key, k)' = Blank(key, k)
         /\ \A k : Whole(k)' = Whole(k)
<1>1. Ran' = Ran /\ Pairs' = Pairs /\ \A k : KeysAt(k)' = KeysAt(k)
  BY DEF Ran, Pairs, KeysAt
<1>2. Slots' = Slots
  BY <1>1 DEF Slots
<1>3. ASSUME NEW key, NEW k
      PROVE  FileName(key, k)' = FileName(key, k) /\ Blank(key, k)' = Blank(key, k)
  <2>1. Repeats(key, k)' = Repeats(key, k)
    BY <1>1 DEF Repeats
  <2> QED BY <2>1 DEF FileName, Blank
<1>4. ASSUME NEW k
      PROVE  Usable(k)' = Usable(k) /\ TableOf(k)' = TableOf(k)
  BY DEF Usable, TableOf
<1>5. Drawn' = Drawn /\ PlannedFigures' = PlannedFigures
  BY <1>2, <1>3, <1>4 DEF Drawn, PlannedFigures
<1>6. Spoken' = Spoken
  BY <1>1, <1>4 DEF Spoken
<1>7. Tables' = Tables /\ \A k : Whole(k)' = Whole(k)
  BY <1>1, <1>4 DEF Tables, Whole
<1> QED BY <1>2, <1>3, <1>5, <1>6, <1>7 DEF Lines

\* What a local model is told of is on the page, but for the rows left out and
\* the figures that show nothing.
LEMMA FactIsPlain ==
  ASSUME NEW room, NEW fact \in Facts(CutFor(room))
  PROVE  \/ fact \in Lines \/ fact[1] = "left out"
         \/ fact[1] = "row" /\ fact[2] \in Tables /\ fact[3] <= Whole(fact[2])
         \/ \E s \in Drawn : fact = <<"figure", FileName(s[1], s[2])>>
         \/ \E s \in Slots : fact = <<"figure", FileName(s[1], s[2])>> /\ Blank(s[1], s[2])
<1> DEFINE cut == CutFor(room)
<1>1. CASE fact \in {<<"row", k, Shown(k, cut)>> : k \in Tables}
  <2>1. PICK k \in Tables : fact = <<"row", k, Shown(k, cut)>>
    BY <1>1
  <2> QED BY <2>1, ShownOfWhole
<1>2. CASE fact \in LeftOut(cut)
  <2>1. PICK k \in Tables : fact = <<"left out", k>>
    BY <1>2 DEF LeftOut
  <2> QED BY <2>1
<1>3. CASE fact \in {<<"figure", f>> : f \in PlannedFigures}
  <2>1. PICK s \in Slots : Usable(s[2]) /\ fact = <<"figure", FileName(s[1], s[2])>>
    BY <1>3 DEF PlannedFigures
  <2> QED BY <2>1 DEF Drawn
<1> QED BY <1>1, <1>2, <1>3 DEF Facts

-----------------------------------------------------------------------------
(* The inductive invariant *)

\* Before the command line is read nothing has been done, so nothing can be wrong.
LEMMA Initially == Init => IInv
<1> SUFFICES ASSUME Init PROVE IInv
  OBVIOUS
<1> USE DEF Init
<1>1. plan.steps = <<>> /\ plan.source = "router" /\ plan.note = {}
  BY DEF Plan
<1>2. Typed
  BY <1>1 DEF Typed, Phases
<1>3. Untouched /\ Unsaid
  BY DEF Untouched, Unsaid
<1>4. Followed
  BY <1>1 DEF Followed, Ran
<1>5. Levelled /\ Marked
  BY <1>1 DEF Levelled, Marked
<1>6. ToldOfFigures /\ Ended /\ NumbersAreOnThePage
  BY DEF ToldOfFigures, Ended, NumbersAreOnThePage
<1> QED BY <1>2, <1>3, <1>4, <1>5, <1>6 DEF IInv

\* Configure: the command and the configuration stay what they may be.
LEMMA ConfigureKeeps == IInv /\ Configure => IInv'
<1> SUFFICES ASSUME IInv, Configure PROVE IInv'
  OBVIOUS
<1>1. /\ phase = "start" /\ phase' \in {"plan", "refused"}
      /\ UNCHANGED <<plan, results, told, narrative, mishaps>>
  BY DEF Configure
<1>2. Overridden(cfg) \in Configs
  <2>1. cfg \in Configs /\ cmd \in Commands
    BY DEF IInv, Typed
  <2>2. cmd.provider \in Providers \cup {Null} /\ cmd.planning \in Tiers \cup {Null}
    BY <2>1 DEF Commands
  <2>3. Over(cfg.provider, cmd.provider) \in Providers /\ Over(cfg.planning, cmd.planning) \in Tiers
    BY <2>1, <2>2 DEF Over, Configs
  <2>4. [cfg EXCEPT !.provider = Over(@, cmd.provider)] \in Configs
    BY <2>1, <2>3 DEF Configs
  <2>5. [[cfg EXCEPT !.provider = Over(@, cmd.provider)] EXCEPT !.planning = Over(@, cmd.planning)] \in Configs
    BY <2>1, <2>3, <2>4 DEF Configs
  <2> QED BY <2>5 DEF Overridden
<1>3. [cmd EXCEPT !.provider = Null, !.planning = Null] \in Commands
  BY DEF IInv, Typed, Commands
<1>4. [cmd EXCEPT !.provider = Null, !.planning = Null].verb = cmd.verb
  BY DEF IInv, Typed, Commands
<1>5. cmd' \in Commands /\ cmd'.verb = cmd.verb /\ cfg' \in Configs
  BY <1>2, <1>3, <1>4 DEF Configure, IInv, Typed
<1>6. Typed'
  BY <1>1, <1>5 DEF IInv, Typed, Phases
<1>7. Untouched' /\ Unsaid'
  BY <1>1 DEF IInv, Untouched, Unsaid
<1>8. Followed'
  BY <1>1 DEF IInv, Followed, Ran
<1>9. plan.steps = <<>> /\ plan.source = "router" /\ mishaps = {} /\ narrative.source = "template"
  BY <1>1 DEF IInv, Untouched, Unsaid, Plan
<1>10. Levelled' /\ Marked'
  BY <1>1, <1>9 DEF Levelled, Marked
<1>11. ToldOfFigures' /\ Ended' /\ NumbersAreOnThePage'
  BY <1>1 DEF ToldOfFigures, Ended, NumbersAreOnThePage
<1> QED BY <1>6, <1>7, <1>8, <1>10, <1>11 DEF IInv

\* Every way to plan keeps the invariant, if the steps it gives are some, and
\* those of a composed plan test the level where they test the drift.
LEMMA PlanningKeeps ==
  ASSUME IInv, phase = "plan", NEW p, Planned(p),
         Len(p.steps) \in Nat, Len(p.steps) > 0, DOMAIN p.steps = 1 .. Len(p.steps),
         \A k \in DOMAIN p.steps : p.steps[k].tool \in Tools,
         p.source \in {"llm", "router"},
         \/ cmd.verb = "report" /\ p.source = "router" /\ mishaps' = mishaps
         \/ cmd.verb = "ask" /\ p.source = "llm" /\ mishaps' = mishaps
         \/ /\ cmd.verb = "ask" /\ p.source = "router"
            /\ \E reason \in p.note : mishaps' = mishaps \cup {<<"Planning", reason>>},
         p.source = "llm" /\ cfg.planning = "plan" /\ (\E k \in DOMAIN p.steps : TorqueTrend(p.steps[k])) =>
           \E k \in DOMAIN p.steps : /\ p.steps[k].tool = "compare_periods"
                                     /\ Valid("compare_periods", Effective(p.steps[k].args))
  PROVE  IInv'
<1>1. plan' = p /\ phase' = "run" /\ UNCHANGED <<cmd, cfg, results, told, narrative, exit>>
  BY DEF Planned
<1>2. results = <<>> /\ mishaps = {} /\ narrative.source = "template"
  BY DEF IInv, Untouched, Unsaid
<1>3. Typed'
  BY <1>1 DEF IInv, Typed, Phases
<1>4. Untouched' /\ Unsaid'
  BY <1>1 DEF IInv, Untouched, Unsaid
<1>5. Followed'
  BY <1>1, <1>2 DEF Followed, Ran
<1>6. Levelled'
  BY <1>1 DEF Levelled, TorqueTrend
<1>7. Marked'
  <2>1. CASE mishaps' = mishaps
    BY <1>1, <1>2, <2>1 DEF Marked
  <2>2. ASSUME cmd.verb = "ask", p.source = "router",
               NEW reason \in p.note, mishaps' = mishaps \cup {<<"Planning", reason>>}
        PROVE  Marked'
    BY <1>1, <1>2, <2>2 DEF Marked
  <2> QED BY <2>1, <2>2
<1>8. ToldOfFigures' /\ NumbersAreOnThePage'
  BY <1>1 DEF ToldOfFigures, NumbersAreOnThePage
<1>9. Ended'
  BY <1>1 DEF IInv, Ended
<1> QED BY <1>3, <1>4, <1>5, <1>6, <1>7, <1>8, <1>9 DEF IInv

\* The router's plan is a canned one, and says why the model's was not used.
LEMMA FallbackKeeps ==
  ASSUME IInv, phase = "plan", cmd.verb = "ask", NEW reason, Fallback(reason)
  PROVE  IInv'
<1>1. PICK type \in ReportTypes : Planned(Plan(Canned(type, cmd.period), "router", FallbackNote(reason)))
  BY DEF Fallback
<1> DEFINE p == Plan(Canned(type, cmd.period), "router", FallbackNote(reason))
<1>2. p.steps = Canned(type, cmd.period) /\ p.source = "router" /\ p.note = {reason, "routed"}
  BY DEF Plan, FallbackNote
<1>3. Planned(p)
  BY <1>1
<1>4. mishaps' = mishaps \cup {<<"Planning", reason>>}
  BY DEF Fallback
<1> HIDE DEF p
<1> QED BY <1>2, <1>3, <1>4, CannedPlan, PlanningKeeps

\* A report follows its canned plan, and no model is involved.
LEMMA ReportKeeps == IInv /\ Report => IInv'
<1> SUFFICES ASSUME IInv, Report PROVE IInv'
  OBVIOUS
<1> DEFINE p == Plan(Canned(cmd.type, cmd.period), "router", {})
<1>1. phase = "plan" /\ cmd.verb = "report" /\ Planned(p) /\ mishaps' = mishaps
  BY DEF Report
<1>2. p.steps = Canned(cmd.type, cmd.period) /\ p.source = "router"
  BY DEF Plan
<1>3. cmd.type \in ReportTypes
  BY <1>1 DEF IInv, Typed, Commands
<1> HIDE DEF p
<1> QED BY <1>1, <1>2, <1>3, CannedPlan, PlanningKeeps

\* _classify: a canned plan, of the model's choice or of the router's.
LEMMA ClassifyKeeps == \A c : IInv /\ Classify(c) => IInv'
<1> SUFFICES ASSUME NEW c, IInv, Classify(c) PROVE IInv'
  OBVIOUS
<1>1. phase = "plan" /\ cmd.verb = "ask" /\ cfg.planning = "classify"
  BY DEF Classify, Asking
<1>2. CASE Fallback("not a report type")
  BY <1>1, <1>2, FallbackKeeps
<1>3. CASE c \in ReportTypes /\ Planned(Plan(Canned(c, cmd.period), "llm", {"fixed plan"})) /\ UNCHANGED mishaps
  <2> DEFINE p == Plan(Canned(c, cmd.period), "llm", {"fixed plan"})
  <2>1. p.steps = Canned(c, cmd.period) /\ p.source = "llm" /\ Planned(p)
    BY <1>3 DEF Plan
  <2> HIDE DEF p
  <2> QED BY <1>1, <1>3, <2>1, CannedPlan, PlanningKeeps
<1> QED BY <1>2, <1>3 DEF Classify

\* _select: as many steps as the model named tools, each of them a known one.
LEMMA SelectKeeps == \A names \in BoundedSeq(Names, MaxSteps) : IInv /\ Select(names) => IInv'
<1> SUFFICES ASSUME NEW names \in BoundedSeq(Names, MaxSteps), IInv, Select(names) PROVE IInv'
  OBVIOUS
<1>1. phase = "plan" /\ cmd.verb = "ask" /\ cfg.planning = "select"
  BY DEF Select, Asking
<1>2. CASE Fallback("unknown tools") \/ Fallback("no tools")
  BY <1>1, <1>2, FallbackKeeps
<1> DEFINE steps == [k \in DOMAIN names |-> Step(names[k], [period |-> cmd.period])]
           p == Plan(steps, "llm", {"defaults"})
<1>3. CASE names # <<>> /\ Range(names) \subseteq DOMAIN Params /\ Planned(p) /\ UNCHANGED mishaps
  <2>1. names \in Seq(Names) /\ DOMAIN names = 1 .. Len(names) /\ Len(names) \in Nat /\ Len(names) # 0
    <3>1. PICK m \in 0 .. MaxSteps : names \in [1 .. m -> Names]
      BY DEF BoundedSeq, SeqOf
    <3>2. m \in Nat
      BY StepsAssumption
    <3>3. names \in Seq(Names)
      BY <3>1, <3>2, SeqDef
    <3> QED BY <1>3, <3>3, LenProperties, EmptySeq
  <2>2. \A k \in DOMAIN names : names[k] \in DOMAIN Params
    BY <1>3 DEF Range
  <2>3. DOMAIN steps = DOMAIN names /\ \A k \in DOMAIN steps : steps[k].tool = names[k]
    BY DEF Step
  <2>4. Len(steps) = Len(names)
    BY <2>1, <2>3
  <2>5. \A k \in DOMAIN steps : steps[k].tool \in Tools
    BY <2>2, <2>3 DEF Tools
  <2>6. p.steps = steps /\ p.source = "llm"
    BY DEF Plan
  <2> HIDE DEF p, steps
  <2>7. Planned(p) /\ mishaps' = mishaps
    BY <1>3
  <2> QED BY <1>1, <2>1, <2>3, <2>4, <2>5, <2>6, <2>7, PlanningKeeps
<1> QED BY <1>2, <1>3 DEF Select

\* _plan: what passes the registry, with the level check where it is called for.
LEMMA ComposeKeeps == \A steps \in BoundedSeq(Offers, MaxSteps) : IInv /\ Compose(steps) => IInv'
<1> SUFFICES ASSUME NEW steps \in BoundedSeq(Offers, MaxSteps), IInv, Compose(steps) PROVE IInv'
  OBVIOUS
<1>1. phase = "plan" /\ cmd.verb = "ask"
  BY DEF Compose, Asking
<1>2. CASE Fallback("empty plan") \/ Fallback("invalid plan")
  BY <1>1, <1>2, FallbackKeeps
<1>3. /\ steps \in Seq(Offers) /\ DOMAIN steps = 1 .. Len(steps) /\ Len(steps) \in Nat
      /\ steps # <<>> => Len(steps) > 0
      /\ \A k \in DOMAIN steps : steps[k].tool \in Tools
  <2>1. PICK m \in 0 .. MaxSteps : steps \in [1 .. m -> Offers]
    BY DEF BoundedSeq, SeqOf
  <2>2. m \in Nat
    BY StepsAssumption
  <2>3. steps \in Seq(Offers)
    BY <2>1, <2>2, SeqDef
  <2>4. \A k \in DOMAIN steps : steps[k] \in Offers
    BY <2>1
  <2> QED BY <2>3, <2>4, LenProperties, EmptySeq DEF Tools
<1> DEFINE added == Append(steps, LevelCheck(steps))
<1>4. CASE steps # <<>> /\ Callable(steps) /\ UNCHANGED mishaps /\ NeedsLevel(steps)
             /\ Planned(Plan(added, "llm", {"level added"}))
  <2> DEFINE p == Plan(added, "llm", {"level added"})
             All == Offers \cup {LevelCheck(steps)}
  <2>1. /\ LevelCheck(steps).tool = "compare_periods"
        /\ Valid("compare_periods", Effective(LevelCheck(steps).args))
    BY <1>3, <1>4, LevelCheckStands
  <2>2. steps \in Seq(All)
    BY <1>3
  <2>3. /\ Len(added) = Len(steps) + 1 /\ DOMAIN added = 1 .. Len(added)
        /\ \A k \in 1 .. Len(steps) : added[k] = steps[k]
        /\ added[Len(steps) + 1] = LevelCheck(steps)
    BY <2>2, AppendProperties, LenProperties
  <2>4. "compare_periods" \in Tools
    BY <2>1 DEF Tools, Valid
  <2>5. \A k \in DOMAIN added : added[k].tool \in Tools
    BY <1>3, <2>1, <2>3, <2>4
  <2>6. p.steps = added /\ p.source = "llm"
    BY DEF Plan
  <2>7. Len(steps) + 1 \in DOMAIN added
    BY <1>3, <2>3
  <2> HIDE DEF p, added
  <2>8. Planned(p) /\ mishaps' = mishaps
    BY <1>4 DEF p, added
  <2>9. Len(added) \in Nat /\ Len(added) > 0
    BY <1>3, <2>3
  <2> QED BY <1>1, <2>1, <2>3, <2>5, <2>6, <2>7, <2>8, <2>9, PlanningKeeps
<1>5. CASE steps # <<>> /\ Callable(steps) /\ UNCHANGED mishaps /\ ~NeedsLevel(steps)
             /\ Planned(Plan(steps, "llm", {}))
  <2> DEFINE p == Plan(steps, "llm", {})
  <2>1. p.steps = steps /\ p.source = "llm"
    BY DEF Plan
  <2>2. Planned(p) /\ mishaps' = mishaps
    BY <1>5
  <2>3. (\E k \in DOMAIN steps : TorqueTrend(steps[k])) =>
          \E k \in DOMAIN steps : /\ steps[k].tool = "compare_periods"
                                  /\ Valid("compare_periods", Effective(steps[k].args))
    BY <1>5 DEF NeedsLevel, Callable
  <2> HIDE DEF p
  <2> QED BY <1>1, <1>3, <1>5, <2>1, <2>2, <2>3, PlanningKeeps
<1>6. \/ Fallback("empty plan") \/ Fallback("invalid plan")
      \/ steps # <<>> /\ Callable(steps) /\ UNCHANGED mishaps /\ NeedsLevel(steps)
             /\ Planned(Plan(added, "llm", {"level added"}))
      \/ steps # <<>> /\ Callable(steps) /\ UNCHANGED mishaps /\ ~NeedsLevel(steps)
             /\ Planned(Plan(steps, "llm", {}))
  BY DEF Compose
<1> QED BY <1>2, <1>4, <1>5, <1>6

\* A result is appended beside its step.
LEMMA ExecuteKeeps == IInv /\ Execute => IInv'
<1> SUFFICES ASSUME IInv, Execute PROVE IInv'
  OBVIOUS
<1>1. /\ phase = "run" /\ Ran < Len(plan.steps)
      /\ UNCHANGED <<cmd, cfg, phase, plan, told, narrative, mishaps, exit>>
  BY DEF Execute
<1>2. PICK r \in Outcomes(plan.steps[Ran + 1]) : results' = Append(results, r)
  BY DEF Execute
<1>3. /\ results \in Seq(Results) /\ Ran \in Nat
      /\ Len(plan.steps) \in Nat /\ DOMAIN plan.steps = 1 .. Len(plan.steps)
  BY LenProperties DEF IInv, Typed, Ran
<1>4. plan.steps[Ran + 1].tool \in Tools
  BY <1>1, <1>3 DEF IInv, Typed
<1>5. r \in Results
  BY <1>4, OutcomeOfStep DEF Result, Results
<1>6. /\ results' \in Seq(Results) /\ Ran' = Ran + 1
      /\ \A k \in 1 .. Ran : results'[k] = results[k]
      /\ results'[Ran + 1] = r
  BY <1>2, <1>3, <1>5, AppendProperties DEF Ran
<1>7. Typed'
  BY <1>1, <1>6 DEF IInv, Typed
<1>8. Followed'
  <2>1. Ran' <= Len(plan.steps)
    BY <1>1, <1>3, <1>6
  <2>2. ASSUME NEW k \in 1 .. Ran' PROVE results'[k] \in Outcomes(plan.steps[k])
    <3>1. CASE k \in 1 .. Ran
      BY <1>6, <3>1 DEF IInv, Followed
    <3>2. CASE k = Ran + 1
      BY <1>2, <1>6, <3>2
    <3> QED BY <1>3, <1>6, <3>1, <3>2
  <2>3. \A k : Outcomes(plan.steps[k])' = Outcomes(plan.steps[k])
    BY <1>1
  <2> QED BY <1>1, <2>1, <2>2, <2>3 DEF IInv, Followed
<1>9. Untouched' /\ Unsaid' /\ Levelled' /\ Marked'
  BY <1>1 DEF IInv, Untouched, Unsaid, Levelled, Marked, TorqueTrend
<1>10. ToldOfFigures' /\ NumbersAreOnThePage' /\ Ended'
  BY <1>1 DEF IInv, ToldOfFigures, NumbersAreOnThePage, Ended
<1> QED BY <1>7, <1>8, <1>9, <1>10 DEF IInv

\* Two numbers, neither of which is the larger, are the same.
LEMMA Antisymmetry == \A a, b \in Nat : a <= b /\ a >= b => a = b
OBVIOUS

\* Every way to narrate keeps the invariant, if it marks what went wrong and,
\* where a local model was asked, told it of the figures and printed what it says.
LEMMA NarrationKeeps ==
  ASSUME IInv, Ready, NEW source \in {"llm", "template"}, NEW note, NEW beneath, NEW states,
         Narrated(source, note, beneath, states),
         \/ cmd.verb = "report" /\ source = "template" /\ mishaps' = mishaps
         \/ cmd.verb = "ask" /\ source = "llm" /\ mishaps' = mishaps
         \/ /\ cmd.verb = "ask" /\ source = "template" /\ note # Null
            /\ mishaps' = mishaps \cup {<<"Narration", note>>},
         cmd.verb = "ask" /\ cfg.provider = "ollama" /\ <<"Narration", "no client">> \notin mishaps' =>
           {<<"figure", f>> : f \in PlannedFigures} \subseteq told',
         NumbersAreOnThePage'
  PROVE  IInv'
<1>1. /\ phase = "run" /\ Ran >= Len(plan.steps)
      /\ narrative' = [source |-> source, note |-> note, beneath |-> beneath, states |-> states]
      /\ phase' = "render" /\ UNCHANGED <<cmd, cfg, plan, results, exit>>
  BY DEF Ready, Narrated
<1>2. narrative'.source = source /\ narrative'.note = note
  BY <1>1
<1>3. Typed'
  BY <1>1, <1>2 DEF IInv, Typed, Phases
<1>4. Untouched' /\ Unsaid' /\ Levelled' /\ Ended'
  BY <1>1 DEF IInv, Untouched, Unsaid, Levelled, Ended, TorqueTrend
<1>5. Followed'
  <2>1. Ran \in Nat /\ Len(plan.steps) \in Nat
    BY LenProperties DEF IInv, Typed, Ran
  <2>2. Ran' = Ran /\ \A k : Outcomes(plan.steps[k])' = Outcomes(plan.steps[k])
    BY <1>1 DEF Ran
  <2>3. /\ Ran <= Len(plan.steps) /\ Len(plan.steps) > 0
        /\ \A k \in 1 .. Ran : results[k] \in Outcomes(plan.steps[k])
    BY <1>1 DEF IInv, Followed
  <2>4. Ran >= Len(plan.steps)
    BY <1>1
  <2>5. Ran = Len(plan.steps)
    BY <2>1, <2>3, <2>4, Antisymmetry, Zenon
  <2> QED BY <1>1, <2>2, <2>3, <2>5 DEF Followed
<1>6. \A m \in mishaps : /\ cmd.verb = "ask" /\ plan.source = "router"
                         /\ \E r \in plan.note : m = <<"Planning", r>>
  BY <1>1 DEF IInv, Marked
<1>7. Marked'
  <2>1. \A m \in mishaps' :
          \/ m \in mishaps
          \/ cmd.verb = "ask" /\ source = "template" /\ note # Null /\ m = <<"Narration", note>>
    OBVIOUS
  <2>2. cmd.verb = "ask" /\ plan.source = "router" => \E m \in mishaps' : m[1] = "Planning"
    BY <1>1 DEF IInv, Marked
  <2>3. cmd.verb = "ask" /\ source = "template" => \E m \in mishaps' : m[1] = "Narration"
    <3> SUFFICES ASSUME cmd.verb = "ask", source = "template" PROVE \E m \in mishaps' : m[1] = "Narration"
      OBVIOUS
    <3>1. mishaps' = mishaps \cup {<<"Narration", note>>}
      OBVIOUS
    <3>2. <<"Narration", note>> \in mishaps' /\ <<"Narration", note>>[1] = "Narration"
      BY <3>1
    <3> QED BY <3>2
  <2>4. cmd.verb = "report" => plan.source = "router" /\ source = "template"
    BY DEF IInv, Marked
  <2>5. \A m \in mishaps' :
          \/ cmd'.verb = "ask" /\ plan'.source = "router" /\ \E r \in plan'.note : m = <<"Planning", r>>
          \/ /\ phase' \in {"render", "done"} /\ cmd'.verb = "ask" /\ narrative'.source = "template"
             /\ narrative'.note # Null /\ m = <<"Narration", narrative'.note>>
    BY <1>1, <1>2, <1>6, <2>1
  <2> QED BY <1>1, <1>2, <2>2, <2>3, <2>4, <2>5 DEF Marked
<1>8. ToldOfFigures'
  <2>1. PlannedFigures' = PlannedFigures
    BY <1>1, SamePage
  <2> QED BY <1>1, <2>1 DEF ToldOfFigures
<1> QED BY <1>3, <1>4, <1>5, <1>7, <1>8 DEF IInv

\* Where the narrative is the template's, nothing is stated on a model's word.
LEMMA TemplateKeeps ==
  ASSUME IInv, Ready, NEW note, Template(note),
         \/ cmd.verb = "report" /\ mishaps' = mishaps
         \/ /\ cmd.verb = "ask" /\ note # Null
            /\ mishaps' = mishaps \cup {<<"Narration", note>>},
         cmd.verb = "ask" /\ cfg.provider = "ollama" /\ <<"Narration", "no client">> \notin mishaps' =>
           {<<"figure", f>> : f \in PlannedFigures} \subseteq told'
  PROVE  IInv'
<1>1. Narrated("template", note, TRUE, Null)
  BY DEF Template
<1>2. narrative'.states = Null
  BY <1>1 DEF Narrated
<1>3. NumbersAreOnThePage'
  BY <1>2 DEF NumbersAreOnThePage
<1>4. \/ cmd.verb = "report" /\ "template" = "template" /\ mishaps' = mishaps
      \/ cmd.verb = "ask" /\ "template" = "llm" /\ mishaps' = mishaps
      \/ /\ cmd.verb = "ask" /\ "template" = "template" /\ note # Null
         /\ mishaps' = mishaps \cup {<<"Narration", note>>}
  OBVIOUS
<1> QED BY <1>1, <1>3, <1>4, NarrationKeeps

\* A report verb is narrated by the template.
LEMMA SummariseKeeps == IInv /\ Summarise => IInv'
BY TemplateKeeps DEF Summarise

\* No client: the one way to narrate a question that tells the model nothing.
LEMMA NoNarratorKeeps == IInv /\ NoNarrator => IInv'
<1> SUFFICES ASSUME IInv, NoNarrator PROVE IInv'
  OBVIOUS
<1>1. Ready /\ cmd.verb = "ask" /\ Template("no client") /\ mishaps' = mishaps \cup {<<"Narration", "no client">>}
  BY DEF NoNarrator, NarrationFails
<1>2. "no client" # Null
  BY NullAssumption
<1>3. <<"Narration", "no client">> \in mishaps'
  BY <1>1
<1> QED BY <1>1, <1>2, <1>3, TemplateKeeps

\* A hosted model: what it words is not checked fact by fact, what fails is noted.
LEMMA AskHostedKeeps == IInv /\ AskHosted => IInv'
<1> SUFFICES ASSUME IInv, AskHosted PROVE IInv'
  OBVIOUS
<1>1. Ready /\ cmd.verb = "ask" /\ cfg.provider # "ollama"
  BY DEF AskHosted
<1>2. ASSUME NEW reason \in {"call failed", "section missing", "unsubstantiated"}, NarrationFails(reason)
      PROVE  IInv'
  <2>1. reason # Null /\ Template(reason) /\ mishaps' = mishaps \cup {<<"Narration", reason>>}
    BY <1>2, NullAssumption DEF NarrationFails
  <2> QED BY <1>1, <2>1, TemplateKeeps
<1>3. CASE Narrated("llm", Null, FALSE, Null) /\ UNCHANGED mishaps
  <2>1. narrative'.states = Null
    BY <1>3 DEF Narrated
  <2>2. NumbersAreOnThePage'
    BY <2>1 DEF NumbersAreOnThePage
  <2>3. mishaps' = mishaps
    BY <1>3
  <2> QED BY <1>1, <1>3, <2>2, <2>3, NarrationKeeps
<1> QED BY <1>2, <1>3 DEF AskHosted

\* A local model: it is told the facts, and a number it gives is among them, in
\* the question, of one digit at most, or refused.
LEMMA AskLocalKeeps == IInv /\ AskLocal => IInv'
<1> SUFFICES ASSUME IInv, AskLocal PROVE IInv'
  OBVIOUS
<1>1. Ready /\ cmd.verb = "ask" /\ cfg.provider = "ollama"
  BY DEF AskLocal
<1>2. PICK room \in Rooms :
        /\ told' = Facts(CutFor(room))
        /\ \/ \E n \in Numbers(told') :
               IF Grounded(n) THEN Narrated("llm", Null, TRUE, n) /\ UNCHANGED mishaps
                              ELSE NarrationFails("ungrounded")
           \/ \E reason \in {"call failed", "section missing", "unsubstantiated"} : NarrationFails(reason)
  BY DEF AskLocal
<1>3. {<<"figure", f>> : f \in PlannedFigures} \subseteq told'
  BY <1>2 DEF Facts
<1>4. ASSUME NEW reason \in {"ungrounded", "call failed", "section missing", "unsubstantiated"},
             NarrationFails(reason)
      PROVE  IInv'
  <2>1. reason # Null /\ Template(reason) /\ mishaps' = mishaps \cup {<<"Narration", reason>>}
    BY <1>4, NullAssumption DEF NarrationFails
  <2> QED BY <1>1, <1>3, <2>1, TemplateKeeps
<1>5. ASSUME NEW n, Grounded(n), Narrated("llm", Null, TRUE, n), UNCHANGED mishaps
      PROVE  IInv'
  <2> DEFINE fact == n.from
  <2>1. /\ narrative'.states = n /\ narrative'.beneath /\ UNCHANGED <<plan, results>>
    BY <1>5 DEF Narrated
  <2> SUFFICES ASSUME n.digits = "several" PROVE IInv'
    <3>1. CASE n.digits # "several"
      <4>1. NumbersAreOnThePage'
        BY <2>1, <3>1 DEF NumbersAreOnThePage
      <4>2. mishaps' = mishaps
        BY <1>5
      <4> QED BY <1>1, <1>3, <1>5, <4>1, <4>2, NarrationKeeps
    <3> QED BY <3>1
  <2>2. fact = <<"question">> \/ fact \in Facts(CutFor(room))
    BY <1>2, <1>5 DEF Grounded
  <2>3. \/ fact[1] \in {"question", "left out"} \/ fact \in Lines
        \/ fact[1] = "row" /\ fact[2] \in Tables /\ fact[3] <= Whole(fact[2])
        \/ \E s \in Drawn : fact = <<"figure", FileName(s[1], s[2])>>
        \/ \E s \in Slots : fact = <<"figure", FileName(s[1], s[2])>> /\ Blank(s[1], s[2])
    <3>1. CASE fact = <<"question">>
      BY <3>1
    <3>2. CASE fact \in Facts(CutFor(room))
      BY <3>2, FactIsPlain
    <3> QED BY <2>2, <3>1, <3>2
  <2>4. \/ fact[1] \in {"question", "left out"} \/ fact \in Lines'
        \/ fact[1] = "row" /\ fact[2] \in Tables' /\ fact[3] <= Whole(fact[2])'
        \/ \E s \in Drawn' : fact = <<"figure", FileName(s[1], s[2])'>>
        \/ \E s \in Slots' : fact = <<"figure", FileName(s[1], s[2])'>> /\ Blank(s[1], s[2])'
    BY <2>1, <2>3, SamePage
  <2>5. NumbersAreOnThePage'
    BY <2>1, <2>4 DEF NumbersAreOnThePage, Printed
  <2>6. mishaps' = mishaps
    BY <1>5
  <2> QED BY <1>1, <1>3, <1>5, <2>5, <2>6, NarrationKeeps
<1> QED BY <1>2, <1>4, <1>5

\* The exit code is read off the results and changes nothing else.
LEMMA ExitKeeps == IInv /\ Exit => IInv'
<1> SUFFICES ASSUME IInv, Exit PROVE IInv'
  OBVIOUS
<1>1. /\ phase = "render" /\ phase' = "done"
      /\ UNCHANGED <<cmd, cfg, plan, results, told, narrative, mishaps>>
  BY DEF Exit
<1>2. Typed'
  BY <1>1 DEF IInv, Typed, Phases
<1>3. Untouched' /\ Unsaid' /\ Levelled' /\ Marked'
  BY <1>1 DEF IInv, Untouched, Unsaid, Levelled, Marked, TorqueTrend
<1>4. Followed'
  <2>1. Ran' = Ran /\ \A k : Outcomes(plan.steps[k])' = Outcomes(plan.steps[k])
    BY <1>1 DEF Ran
  <2> QED BY <1>1, <2>1 DEF IInv, Followed
<1>5. ToldOfFigures'
  BY <1>1, SamePage DEF IInv, ToldOfFigures
<1>6. Ended'
  <2>1. AllFailed' = AllFailed
    BY <1>1 DEF AllFailed
  <2>2. exit' = 0 => ~AllFailed
    BY DEF Exit
  <2> QED BY <1>1, <2>1, <2>2 DEF IInv, Ended
<1>7. NumbersAreOnThePage'
  <2>1. \A fact : Printed(fact)' = Printed(fact)
    BY <1>1, SamePage DEF Printed
  <2> QED BY <1>1, <2>1, SamePage DEF IInv, NumbersAreOnThePage
<1> QED BY <1>2, <1>3, <1>4, <1>5, <1>6, <1>7 DEF IInv

\* A stuttering step changes no fact of the page.
LEMMA StutterKeeps == IInv /\ UNCHANGED vars => IInv'
<1> SUFFICES ASSUME IInv, UNCHANGED vars PROVE IInv'
  OBVIOUS
<1>1. UNCHANGED <<cmd, cfg, phase, plan, results, told, narrative, mishaps, exit>>
  BY DEF vars
<1>2. Typed' /\ Untouched' /\ Unsaid' /\ Levelled' /\ Marked'
  BY <1>1 DEF IInv, Typed, Untouched, Unsaid, Levelled, Marked, TorqueTrend
<1>3. Followed'
  <2>1. Ran' = Ran /\ \A k : Outcomes(plan.steps[k])' = Outcomes(plan.steps[k])
    BY <1>1 DEF Ran
  <2> QED BY <1>1, <2>1 DEF IInv, Followed
<1>4. ToldOfFigures' /\ Ended'
  BY <1>1, SamePage DEF IInv, ToldOfFigures, Ended, AllFailed
<1>5. NumbersAreOnThePage'
  <2>1. \A fact : Printed(fact)' = Printed(fact)
    BY <1>1, SamePage DEF Printed
  <2> QED BY <1>1, <2>1, SamePage DEF IInv, NumbersAreOnThePage
<1> QED BY <1>2, <1>3, <1>4, <1>5 DEF IInv

\* The invariant holds of every run of the report agent.
THEOREM Invariance == Spec => []IInv
<1>1. ASSUME IInv, [Next]_vars PROVE IInv'
  <2>1. ASSUME NoReply \/ Misshapen PROVE IInv'
    <3>1. phase = "plan" /\ cmd.verb = "ask" /\ \E reason \in {"no client", "planning failed", "misshapen plan"} : Fallback(reason)
      BY <2>1 DEF NoReply, Misshapen, Asking
    <3> QED BY <1>1, <3>1, FallbackKeeps
  <2> QED BY <1>1, <2>1, ConfigureKeeps, ReportKeeps, ClassifyKeeps, SelectKeeps, ComposeKeeps,
             ExecuteKeeps, SummariseKeeps, NoNarratorKeeps, AskLocalKeeps, AskHostedKeeps,
             ExitKeeps, StutterKeeps DEF Next
<1> QED BY <1>1, Initially, PTL DEF Spec

-----------------------------------------------------------------------------
(* The properties *)

\* No torque trend of a plan the model composed is drawn without a comparison
\* of the periods that passed the registry (_with_level_check).
THEOREM TheLevelIsTested == Spec => []LevelNextToTrend
<1>1. IInv => LevelNextToTrend
  <2> SUFFICES ASSUME IInv, phase = "render", plan.source = "llm", cfg.planning = "plan",
                      NEW s \in Drawn, s[1][1] = "trend"
               PROVE  \E k \in Pairs : /\ results[k].tool = "compare_periods"
                                       /\ Valid("compare_periods", Effective(plan.steps[k].args))
    BY DEF LevelNextToTrend
  <2>1. Ran = Len(plan.steps) /\ \A k \in 1 .. Ran : results[k] \in Outcomes(plan.steps[k])
    BY DEF IInv, Followed
  <2>2. Pairs = 1 .. Len(plan.steps) /\ DOMAIN plan.steps = 1 .. Len(plan.steps)
    BY <2>1 DEF IInv, Typed, Pairs
  <2>3. \A k \in Pairs : results[k].tool = plan.steps[k].tool
    BY <2>1, <2>2, OutcomeOfStep
  <2>4. PICK k \in Pairs : \E key \in KeysAt(k) : s = <<key, k>>
    BY DEF Drawn, Slots
  <2>5. PICK key \in FigureKeys(results[k].tool, Effective(plan.steps[k].args)) : s = <<key, k>>
    BY <2>4 DEF KeysAt
  <2>6. results[k].tool = "trend" /\ Get(Effective(plan.steps[k].args), "signal", "torque") = "torque"
    BY <2>5, KeyOfTool
  <2>7. TorqueTrend(plan.steps[k])
    BY <2>3, <2>6 DEF TorqueTrend
  <2> QED BY <2>2, <2>3, <2>7 DEF IInv, Levelled
<1> QED BY <1>1, Invariance, PTL

\* Every figure drawn has a file of its own, is one the step asked for, and was
\* among those the narrating model was told of (render.py, planned_figures).
THEOREM FiguresHaveNames == Spec => []FiguresAreTold
<1>1. IInv => FiguresAreTold
  <2> SUFFICES ASSUME IInv, phase = "render" PROVE FiguresAreTold
    BY DEF FiguresAreTold
  <2>1. Ran = Len(plan.steps) /\ \A k \in 1 .. Ran : results[k] \in Outcomes(plan.steps[k])
    BY DEF IInv, Followed
  <2>2. Ran \in Nat /\ Pairs = 1 .. Ran /\ Len(plan.steps) \in Nat
    BY <2>1 DEF IInv, Typed, Pairs
  <2>3. Drawn \subseteq Slots
    BY DEF Drawn
  <2>4. \A s, t \in Drawn : FileName(s[1], s[2]) = FileName(t[1], t[2]) => s = t
    BY <2>2, <2>3, NamesDiffer
  <2>5. ASSUME NEW s \in Drawn PROVE plan.steps[s[2]].tool = s[1][1]
    <3>1. PICK k \in Pairs : \E key \in KeysAt(k) : s = <<key, k>>
      BY DEF Drawn, Slots
    <3>2. PICK key \in FigureKeys(results[k].tool, Effective(plan.steps[k].args)) : s = <<key, k>>
      BY <3>1 DEF KeysAt
    <3>3. key[1] = results[k].tool
      BY <3>2, KeyOfTool
    <3>4. results[k].tool = plan.steps[k].tool
      BY <2>1, <2>2, OutcomeOfStep
    <3> QED BY <3>2, <3>3, <3>4
  <2>6. ASSUME <<"Narration", "no client">> \notin mishaps, cmd.verb = "ask", cfg.provider = "ollama"
        PROVE  {<<"figure", FileName(s[1], s[2])>> : s \in Drawn} \subseteq told
    <3>1. {<<"figure", f>> : f \in PlannedFigures} \subseteq told
      BY <2>6 DEF IInv, ToldOfFigures
    <3>2. \A s \in Drawn : FileName(s[1], s[2]) \in PlannedFigures
      BY DEF Drawn, PlannedFigures
    <3> QED BY <3>1, <3>2
  <2> QED BY <2>4, <2>5, <2>6 DEF FiguresAreTold
<1> QED BY <1>1, Invariance, PTL

\* A number of two or more digits that an accepted answer of a local model
\* gives was asked about or is on the page, although the model saw less than
\* the page (_ungrounded, _facts); what it is given for is not checked.
THEOREM TheReaderCanLookItUp == Spec => []NumbersAreOnThePage
<1>1. IInv => NumbersAreOnThePage
  BY DEF IInv
<1> QED BY <1>1, Invariance, PTL

\* The report hides no gap: what went wrong is among its limits, a model is
\* named only if it was of use, and main succeeds only if some step did.
THEOREM NoGapIsHidden == Spec => []GapsAreTold
<1>1. IInv => GapsAreTold
  <2> SUFFICES ASSUME IInv, phase = "done" PROVE GapsAreTold
    BY DEF GapsAreTold
  <2>1. /\ Ran = Len(plan.steps) /\ Len(plan.steps) > 0
        /\ \A k \in 1 .. Ran : results[k] \in Outcomes(plan.steps[k])
    BY DEF IInv, Followed
  <2>2. /\ results \in Seq(Results) /\ Ran \in Nat
        /\ DOMAIN plan.steps = 1 .. Ran /\ DOMAIN results = 1 .. Ran
    BY <2>1, LenProperties DEF IInv, Typed, Ran
  <2>3. \A k \in 1 .. Ran :
          /\ results[k].tool = plan.steps[k].tool /\ results[k].status \in Statuses
          /\ ~Valid(plan.steps[k].tool, Effective(plan.steps[k].args)) => results[k].status = "error"
    BY <2>1, OutcomeOfStep
  <2>4. \A k \in 1 .. Ran : <<results[k].tool, results[k].status>> \in Limits
    BY <2>2 DEF Limits
  <2>5. mishaps \subseteq Limits
    <3> SUFFICES ASSUME NEW m \in mishaps PROVE m \in Limits
      OBVIOUS
    <3>1. \/ \E r \in plan.note : m = <<"Planning", r>>
          \/ narrative.note # Null /\ m = <<"Narration", narrative.note>>
      BY DEF IInv, Marked
    <3> QED BY <3>1 DEF Limits
  <2>6. \A k \in DOMAIN plan.steps : \E l \in Limits : l[1] = plan.steps[k].tool
    <3> SUFFICES ASSUME NEW k \in 1 .. Ran PROVE \E l \in Limits : l[1] = plan.steps[k].tool
      BY <2>2
    <3>1. <<results[k].tool, results[k].status>>[1] = plan.steps[k].tool
      BY <2>3
    <3> QED BY <2>4, <3>1
  <2>7. \A k \in DOMAIN plan.steps :
          ~Valid(plan.steps[k].tool, Effective(plan.steps[k].args)) => <<plan.steps[k].tool, "error">> \in Limits
    BY <2>2, <2>3, <2>4
  <2>8. ModelNamed <=> cmd.verb = "ask" /\ {m[1] : m \in mishaps} # {"Planning", "Narration"}
    <3>1. /\ \A m \in mishaps :
               \/ m[1] = "Planning" /\ cmd.verb = "ask" /\ plan.source = "router"
               \/ m[1] = "Narration" /\ cmd.verb = "ask" /\ narrative.source = "template"
          /\ cmd.verb = "ask" /\ plan.source = "router" => \E m \in mishaps : m[1] = "Planning"
          /\ cmd.verb = "ask" /\ narrative.source = "template" => \E m \in mishaps : m[1] = "Narration"
          /\ cmd.verb = "report" => plan.source = "router" /\ narrative.source = "template"
      BY DEF IInv, Marked
    <3>2. plan.source \in {"llm", "router"} /\ narrative.source \in {"llm", "template"} /\ cmd.verb \in {"ask", "report"}
      BY DEF IInv, Typed, Commands
    <3>3. CASE cmd.verb = "report"
      BY <3>1, <3>3 DEF ModelNamed
    <3>4. CASE cmd.verb = "ask"
      <4>1. {m[1] : m \in mishaps} = {"Planning", "Narration"}
              <=> plan.source = "router" /\ narrative.source = "template"
        BY <3>1, <3>2, <3>4
      <4> QED BY <3>2, <3>4, <4>1 DEF ModelNamed
    <3> QED BY <3>2, <3>3, <3>4
  <2>9. exit = 0 =>
          \E k \in DOMAIN plan.steps : <<plan.steps[k].tool, "error">> \notin Limits
             \/ \E status \in {"ok", "insufficient_data"} : <<plan.steps[k].tool, status>> \in Limits
    <3> SUFFICES ASSUME exit = 0
                 PROVE  \E k \in DOMAIN plan.steps : \E status \in {"ok", "insufficient_data"} :
                          <<plan.steps[k].tool, status>> \in Limits
      OBVIOUS
    <3>1. ~AllFailed
      BY DEF IInv, Ended
    <3>2. results # <<>>
      BY <2>1, <2>2 DEF Ran
    <3>3. PICK k \in 1 .. Ran : results[k].status # "error"
      BY <2>2, <3>1, <3>2 DEF AllFailed
    <3> QED BY <2>2, <2>3, <2>4, <3>3 DEF Statuses
  <2> QED BY <2>5, <2>6, <2>7, <2>8, <2>9 DEF GapsAreTold
<1> QED BY <1>1, Invariance, PTL
=============================================================================
