------------------------------ MODULE EventTools ------------------------------
(***************************************************************************)
(* The deterministic tools of python/analytics/tools over the cleaned      *)
(* store: each SQL query as a set expression on the rows in scope.  A      *)
(* stamp counts half seconds, so that DATE_DIFF('second'), which counts    *)
(* the seconds' boundaries, is not plain subtraction.                      *)
(***************************************************************************)
EXTENDS Integers, FiniteSets, FiniteSetsExt, SequencesExt, Functions

CONSTANTS
  Machine, Foreign,        \* cfg.machine_id, and the rows of other machines
  Heads, Stamps,
  Kinds,                   \* the <<status, torque>> pairs rows may carry
  Month, Week, Day, Hour,  \* the calendar: the bucket each stamp falls in,
                           \* a week being the number of its first day
  MonthStart,              \* the number of the first day of each month
  Clock,                   \* the hour of the day
  TorqueMin, TorqueMax,    \* the operating band
  Limits, Real,            \* the torques that may be asked about, and what
                           \* CAST(? AS REAL) makes of each
  IdleMin, MaxGap,         \* idle_min_seconds, idle_max_gap_seconds
  MadK, MadFloor,          \* mad_k, mad_floor
  None,                    \* an argument left at its default
  MaxItems,                \* max_anomaly_items
  Chunk,                   \* _TAU_CHUNK
  MaxRows                  \* bound: rows of this machine in the store

ASSUME ConfigAssumption ==
  /\ TorqueMin \in Int /\ TorqueMax \in Int /\ TorqueMin < TorqueMax
  /\ {IdleMin, MaxGap, MaxItems, Chunk, MadK} \subseteq Nat \ {0} /\ MadFloor \in Nat
  /\ None \notin Int

\* A limit is a DOUBLE and the column is REAL.  Rounding keeps the order, and
\* leaves what a REAL column holds as it is.
ASSUME RealAssumption ==
  /\ {TorqueMin, TorqueMax} \subseteq Limits /\ Limits \subseteq Int /\ Real \in [Limits -> Int]
  /\ \A l, m \in Limits : l <= m => Real[l] <= Real[m]
  /\ \A l \in Limits, t \in {k[2] : k \in Kinds} : (t <= l => t <= Real[l]) /\ (t >= l => t >= Real[l])

ASSUME StoreAssumption ==
  /\ IsFiniteSet(Foreign) /\ \A r \in Foreign : r.machine # Machine
  /\ Heads \subseteq Nat /\ Stamps \subseteq Nat /\ Kinds \subseteq Int \X Int

VARIABLE store             \* cap_events

Success == 0
NoLoad  == 2

\* CAST(status AS BIGINT) % 2 <> 0, in arithmetic that truncates toward zero.
TruncMod2(s)      == IF s < 0 THEN -((-s) % 2) ELSE s % 2
RejectSQL(s)      == TruncMod2(s) # 0

-----------------------------------------------------------------------------
(* store.py: one machine, a half-open range of months *)

Before(m, n) == m[1] < n[1] \/ (m[1] = n[1] /\ m[2] < n[2])
NextMonth(m) == IF m[2] = 12 THEN <<m[1] + 1, 1>> ELSE <<m[1], m[2] + 1>>

\* The stamps that occur lie in a month, a week and a day of the calendar.
ASSUME CalendarAssumption ==
  /\ IsFiniteSet(DOMAIN MonthStart) /\ DOMAIN MonthStart \subseteq Int \X (1 .. 12)
  /\ \A m, n \in DOMAIN MonthStart :
       MonthStart[m] \in Int /\ (Before(m, n) <=> MonthStart[m] < MonthStart[n])
  /\ \A t \in Stamps :
       /\ {Month[t], NextMonth(Month[t])} \subseteq DOMAIN MonthStart
       /\ Day[t] \in MonthStart[Month[t]] .. MonthStart[NextMonth(Month[t])] - 1
       /\ {Week[t], Hour[t]} \subseteq Int /\ Day[t] - Week[t] \in 0 .. 6

\* None, 'YYYY-MM' and 'YYYY-MM..YYYY-MM' as the whole store, and as the pair
\* of first and last month; a reversed range is refused.
WholeStore     == <<>>
Single(m)      == <<m, m>>
Refused(p)     == p # WholeStore /\ ~Before(p[1], NextMonth(p[2]))
InPeriod(t, p) == p = WholeStore \/ (~Before(Month[t], p[1]) /\ Before(Month[t], NextMonth(p[2])))
Scope(p)       == {r \in store : r.machine = Machine /\ InPeriod(r.ts, p)}

Caps(R)       == {r \in R : r.torque > 0}
Passed(R)     == {r \in R : r.status = Success}
Rejected(R)   == {r \in R : RejectSQL(r.status)}
OfHead(R, h)  == {r \in R : r.head = h}
HeadsOf(R)    == {r.head : r \in R}
Seconds(a, b) == (b \div 2) - (a \div 2)
Buckets(R, unit)   == {unit[r.ts] : r \in R}
InBucket(R, unit, b) == {r \in R : unit[r.ts] = b}

-----------------------------------------------------------------------------
(* overview, success_rates, torque_stats, capping_speed *)

Tally(R) == [total |-> Cardinality(R), successful |-> Cardinality(Passed(R)),
             failed |-> Cardinality(Rejected(R))]

IsNoLoad(r)  == r.status = NoLoad /\ r.torque = 0

\* overview and anomalies compare the column with the configured DOUBLE.
OutOfBand(r) == r.torque > 0 /\ (r.torque < TorqueMin \/ r.torque > TorqueMax)

Overview(R) ==
  [closures    |-> Cardinality(R),
   capping     |-> Tally(Caps(R)),
   no_load     |-> Cardinality({r \in R : IsNoLoad(r)}),
   invalid     |-> Cardinality({r \in R : OutOfBand(r)}),
   heads       |-> HeadsOf(R)]

RatesByHead(R) == [h \in HeadsOf(Caps(R)) |-> Tally(OfHead(Caps(R), h))]
RatesByDay(R)  == [d \in Buckets(Caps(R), Day) |-> Tally(InBucket(Caps(R), Day, d))]

Fault_NoTorqueGuard(R, outcome) ==
  CASE outcome = "successful" -> Passed(Caps(R))
    [] outcome = "failed"     -> Rejected(R)
    [] outcome = "all"        -> Caps(R)

OfOutcome(R, outcome) ==
  CASE outcome = "successful" -> Passed(Caps(R))
    [] outcome = "failed"     -> Rejected(Caps(R))
    [] outcome = "all"        -> Caps(R)

TorqueStatsN(R, outcome) == [h \in HeadsOf(OfOutcome(R, outcome)) |->
                               Cardinality(OfHead(OfOutcome(R, outcome), h))]

SpeedCaps(R, unit) == [b \in Buckets(Caps(R), unit) |->
  [caps |-> Cardinality(InBucket(Caps(R), unit, b)),
   active_hours |-> Cardinality(Buckets(InBucket(Caps(R), unit, b), Hour))]]

-----------------------------------------------------------------------------
(* compare_periods, closure_filter, failure_correlation *)

\* The half-open window of days: the period, or the days the store spans.
Lo(p) == IF p # WholeStore THEN MonthStart[p[1]] ELSE Min(Buckets(Scope(p), Day))
Hi(p) == IF p # WholeStore THEN MonthStart[NextMonth(p[2])] ELSE Max(Buckets(Scope(p), Day)) + 1

Fault_SameYear(b, by) ==
  IF by = "week" THEN b + 7 ELSE MonthStart[<<b[1], (b[2] % 12) + 1>>]

\* _BUCKETS; a week starts on its own number.
Unit(by)         == IF by = "week" THEN Week ELSE Month
StartOf(b, by)   == IF by = "week" THEN b ELSE MonthStart[b]
NextStart(b, by) ==
  IF by = "week" THEN b + 7 ELSE MonthStart[<<b[1] + b[2] \div 12, (b[2] % 12) + 1>>]
CalendarDays(b, by, p) ==
  Max({Min({NextStart(b, by), Hi(p)}) - Max({StartOf(b, by), Lo(p)}), 0})

ComparePeriods(p, by) == [b \in Buckets(Scope(p), Unit(by)) |->
  LET B == InBucket(Scope(p), Unit(by), b)
  IN  [capping       |-> Tally(Caps(B)),
       no_load       |-> Cardinality({r \in B : IsNoLoad(r)}),
       active_days   |-> Cardinality(Buckets(Caps(B), Day)),
       calendar_days |-> CalendarDays(b, by, p)]]

\* A limit is strict, and cast to REAL; None is no limit.
ClosureFilter(R, above, below, outcome, head) ==
  {r \in Caps(R) : /\ above # None => r.torque > Real[above]
                   /\ below # None => r.torque < Real[below]
                   /\ head # None => r.head = head
                   /\ outcome = "successful" => r.status = Success
                   /\ outcome = "failed" => RejectSQL(r.status)}

Verdicts(R) == {r \in Caps(R) : r.status = Success \/ RejectSQL(r.status)}
\* The zones compare with the cast limits too.
Zone(r) == CASE r.torque < Real[TorqueMin] -> "below"
             [] r.torque > Real[TorqueMax] -> "above"
             [] OTHER                      -> "inside"
ByZone(R) == [z \in {"below", "inside", "above"} |-> Tally({r \in Verdicts(R) : Zone(r) = z})]
ByHour(R) == [h \in Buckets(Verdicts(R), Clock) |-> Tally(InBucket(Verdicts(R), Clock, h))]

-----------------------------------------------------------------------------
(* idle_periods, event_gaps *)

\* ROW_NUMBER() OVER (PARTITION BY head_id ORDER BY ts) within R; a head has
\* one row per stamp, so the order is total.
RowNumber(r, R) == Cardinality({q \in OfHead(R, r.head) : q.ts <= r.ts})

\* LAG(ts): the row before r in R, if there is one.
Earlier(r, R) == {q \in R : q.ts < r.ts}
Lag(r, R)     == Max({q.ts : q \in Earlier(r, R)})

\* rn_all - rn_grp over the no-load rows.
Island(r, R) == RowNumber(r, R) - RowNumber(r, {q \in R : IsNoLoad(q)})
IslandOf(r, R) == {q \in R : IsNoLoad(q) /\ q.head = r.head /\ Island(q, R) = Island(r, R)}

Fault_BreakAt(r, I) == Earlier(r, I) # {} /\ Seconds(Lag(r, I), r.ts) >= MaxGap
GapBreak(r, I) == Earlier(r, I) # {} /\ Seconds(Lag(r, I), r.ts) > MaxGap

\* SUM(gap_break) OVER (... ORDER BY ts)
Segment(r, I) == Cardinality({q \in I : q.ts <= r.ts /\ GapBreak(q, I)})

IdlePeriods(R, min) ==
  LET runs == {{q \in IslandOf(r, R) : Segment(q, IslandOf(r, R)) = Segment(r, IslandOf(r, R))} :
                 r \in {q \in R : IsNoLoad(q)}}
      spans == {[head |-> (CHOOSE r \in run : TRUE).head, cycles |-> Cardinality(run),
                 start |-> Min({r.ts : r \in run}), end |-> Max({r.ts : r \in run})] : run \in runs}
  IN  {s \in spans : Seconds(s.start, s.end) >= min}

EventGaps(R, min) ==
  LET polls == {r.ts : r \in R}
      prev(t) == Max({u \in polls : u < t})
  IN  {[start |-> prev(t), end |-> t] :
         t \in {u \in polls : (\E v \in polls : v < u) /\ Seconds(prev(u), u) > min}}

-----------------------------------------------------------------------------
(* anomalies *)

Earliest(q, r) == q.ts < r.ts \/ (q.ts = r.ts /\ q.head < r.head)
InTimeOrder(R) ==
  CHOOSE s \in [1 .. Cardinality(R) -> R] : \A i, j \in DOMAIN s : i < j => Earliest(s[i], s[j])

Stride(n) == (n + MaxItems - 1) \div MaxItems

\* At most MaxItems of the hits, spread over the period: every row whose
\* number less one is a multiple of the stride.
Sample(hits) ==
  IF Len(hits) <= MaxItems THEN hits
  ELSE LET n == Len(hits)
       IN  [i \in 1 .. Min({(n - 1) \div Stride(n) + 1, MaxItems}) |-> hits[(i - 1) * Stride(n) + 1]]

\* The first members of the pairs in V in order: the k-th is one that fewer
\* than k are below, and k or more are not above.
Below(V, x)    == {v \in V : v[1] < x}
NotAbove(V, x) == {v \in V : v[1] <= x}
Sorted(V) ==
  CHOOSE s \in [1 .. Cardinality(V) -> {v[1] : v \in V}] :
    \A k \in DOMAIN s : Cardinality(Below(V, s[k])) < k /\ k <= Cardinality(NotAbove(V, s[k]))

\* QUANTILE_CONT(q / 4) of the values of the rows, four times over: linear
\* interpolation between order statistics.
Quartile4(q, s) ==
  LET pos == (Len(s) - 1) * q
      lo  == s[pos \div 4 + 1]
      hi  == s[Min({pos \div 4 + 2, Len(s)})]
  IN  4 * lo + (pos % 4) * (hi - lo)

Torques(R, h) == Sorted({<<r.torque, r>> : r \in OfHead(Caps(R), h)})
Median4(R, h) == Quartile4(2, Torques(R, h))

Off4(r, R)   == IF 4 * r.torque >= Median4(R, r.head) THEN 4 * r.torque - Median4(R, r.head)
                ELSE Median4(R, r.head) - 4 * r.torque
Mad16(R, h)  == Quartile4(2, Sorted({<<Off4(r, R), r>> : r \in OfHead(Caps(R), h)}))
HalfIqr16(R, h) == 2 * (Quartile4(3, Torques(R, h)) - Quartile4(1, Torques(R, h)))

\* The robust scale with its fall-back and its floor, times 160000.
Spread(R, h) == IF Mad16(R, h) > 0 THEN Mad16(R, h) ELSE HalfIqr16(R, h)
Scale(R, h)  == Max({14826 * Spread(R, h), 160000 * MadFloor})

Fault_AtTheBand(R) == {r \in Caps(R) : 40000 * Off4(r, R) >= MadK * Scale(R, r.head)}
Deviations(R) == {r \in Caps(R) : 40000 * Off4(r, R) > MadK * Scale(R, r.head)}
Anomalies(R) ==
  LET faults == InTimeOrder(Rejected(R))
      hits   == InTimeOrder({r \in Caps(R) : OutOfBand(r)})
  IN  [faults    |-> [count |-> Len(faults), listed |-> Sample(faults)],
       threshold |-> [count |-> Len(hits), listed |-> Sample(hits)],
       by_head   |-> [h \in HeadsOf(Range(hits)) |-> Cardinality(OfHead(Range(hits), h))]]

-----------------------------------------------------------------------------
(* trend: Mann-Kendall over the per-head series of bucket means *)

\* A mean is the pair of sum and count; the sign of a difference of means.
MeanOf(R)  == <<SumFunction([r \in R |-> r.torque]), Cardinality(R)>>
Sign(u, v) == LET d == v[1] * u[2] - u[1] * v[2]
              IN  IF d > 0 THEN 1 ELSE IF d < 0 THEN -1 ELSE 0
Series(R, unit, h) ==
  LET order == Sorted({<<b, b>> : b \in Buckets(OfHead(Caps(R), h), unit)})
  IN  [k \in DOMAIN order |-> MeanOf(InBucket(OfHead(Caps(R), h), unit, order[k]))]

Fault_ShortBlock(start, n) == start .. Min({start + Chunk - 1, n - 1}) - 1
Block(start, n) == start .. Min({start + Chunk, n - 1}) - 1

\* Kendall's S, by blocks of rows, of the values at 0 .. n - 1.
KendallS(v) ==
  LET n == Len(v)
      starts == {k * Chunk : k \in 0 .. n} \cap (0 .. n - 2)
      above(s) == {ij \in Block(s, n) \X (0 .. n - 1) : ij[2] > ij[1]}
  IN  SumFunction([s \in starts |-> SumFunction([ij \in above(s) |-> Sign(v[ij[1] + 1], v[ij[2] + 1])])])

\* The groups of tied values, with the pairs they make and the tie correction.
TieGroups(v) == {{j \in DOMAIN v : Sign(v[i], v[j]) = 0} : i \in DOMAIN v}
Pairs(n)     == (n * (n - 1)) \div 2
TiedPairs(v) == SumFunction([g \in TieGroups(v) |-> Pairs(Cardinality(g))])
Weight(n)    == n * (n - 1) * (2 * n + 5)
VarS18(v)    == Weight(Len(v)) - SumFunction([g \in TieGroups(v) |-> Weight(Cardinality(g))])
-----------------------------------------------------------------------------
(* The store grows by closures with identity <<machine, head, ts>>. *)

Row(h, t, k) == [machine |-> Machine, head |-> h, ts |-> t, status |-> k[1], torque |-> k[2]]

Init == store = Foreign

Record(h, t, k) ==
  /\ Cardinality(Scope(WholeStore)) < MaxRows
  /\ ~\E r \in Scope(WholeStore) : r.head = h /\ r.ts = t
  /\ store' = store \cup {Row(h, t, k)}

Next == \E h \in Heads, t \in Stamps, k \in Kinds : Record(h, t, k)

Spec == Init /\ [][Next]_store

Months  == {Month[t] : t \in Stamps}
Periods == {p \in {WholeStore} \cup (Months \X Months) : ~Refused(p)}
Scopes  == {Scope(p) : p \in Periods}

-----------------------------------------------------------------------------
(* Properties *)

\* The gaps-and-islands query finds the idle periods of the definition: the
\* maximal runs of a head's no-load cycles with no other row of the head in
\* between and no hole longer than MaxGap, that last long enough.
Unbroken(S, R) ==
  /\ S # {} /\ \A q, r \in S : q.head = r.head
  /\ \A q, r \in S : q.ts < r.ts =>
       LET between == {x \in OfHead(R, q.head) : q.ts < x.ts /\ x.ts < r.ts}
       IN  between \subseteq S /\ (between = {} => Seconds(q.ts, r.ts) <= MaxGap)
IdleRunsAreMaximal ==
  \A R \in Scopes :
    LET loaded == {r \in R : IsNoLoad(r)}
        runs == {S \in SUBSET loaded : Unbroken(S, R) /\ \A x \in loaded \ S : ~Unbroken(S \cup {x}, R)}
        span(S) == [head |-> (CHOOSE r \in S : TRUE).head, cycles |-> Cardinality(S),
                    start |-> Min({r.ts : r \in S}), end |-> Max({r.ts : r \in S})]
    IN  IdlePeriods(R, IdleMin) = {s \in {span(S) : S \in runs} : Seconds(s.start, s.end) >= IdleMin}

\* The tools agree on what they count, whatever query they count it with: by
\* head, by day, by hour, by outcome, by torque; a period is its months; and
\* no second is both idling and a stop, in idle_periods and in event_gaps.  On
\* the band they agree but for the readings that are a limit's own REAL: two
\* tools cast the limit (filter.py:37-40, factors.py:115-116) and two do not
\* (overview.py:45-46, anomaly.py:112 and 128).
Total(f, get(_)) == SumFunction([x \in DOMAIN f |-> get(f[x])])
Plain(t) == t
Sums(f, get(_), t) ==
  /\ Total(f, LAMBDA x : get(x).total) = t.total
  /\ Total(f, LAMBDA x : get(x).successful) = t.successful
  /\ Total(f, LAMBDA x : get(x).failed) = t.failed
Compared(p, by) ==
  Sums(ComparePeriods(p, by), LAMBDA b : b.capping, Overview(Scope(p)).capping)
\* The readings that are out of the band for overview and anomalies, and in it
\* for closure_filter and the zones: those the cast makes equal to a limit.
AtTheCast(R) == {r \in Caps(R) : OutOfBand(r) /\ r.torque \in {Real[TorqueMin], Real[TorqueMax]}}
ZoneIs(R, zone, above, below) ==
  /\ ByZone(R)[zone].successful = Cardinality(ClosureFilter(R, above, below, "successful", None))
  /\ ByZone(R)[zone].failed = Cardinality(ClosureFilter(R, above, below, "failed", None))
CountsAgree(R) ==
  LET o == Overview(R)
      verdicts == [o.capping EXCEPT !.total = o.capping.successful + o.capping.failed]
      outcomes == {<<"all", o.capping.total>>, <<"successful", o.capping.successful>>,
                   <<"failed", o.capping.failed>>}
  IN  /\ Sums(RatesByHead(R), Plain, o.capping) /\ Sums(RatesByDay(R), Plain, o.capping)
      /\ Sums(ByZone(R), Plain, verdicts) /\ Sums(ByHour(R), Plain, verdicts)
      /\ Total(SpeedCaps(R, Day), LAMBDA b : b.caps) = o.capping.total
      /\ \A x \in outcomes :
           /\ Total(TorqueStatsN(R, x[1]), Plain) = x[2]
           /\ Cardinality(ClosureFilter(R, None, None, x[1], None)) = x[2]
           /\ \A h \in DOMAIN TorqueStatsN(R, x[1]) :
                Cardinality(ClosureFilter(R, None, None, x[1], h)) = TorqueStatsN(R, x[1])[h]
      /\ o.invalid = Anomalies(R).threshold.count
      /\ o.invalid = Total(Anomalies(R).by_head, Plain)
      /\ o.invalid = Cardinality(ClosureFilter(R, TorqueMax, None, "all", None))
                     + Cardinality(ClosureFilter(R, None, TorqueMin, "all", None))
                     + Cardinality(AtTheCast(R))
      /\ ZoneIs(R, "above", TorqueMax, None) /\ ZoneIs(R, "below", None, TorqueMin)
SilenceIsNotIdling(R) ==
  \A run \in IdlePeriods(R, IdleMin), gap \in EventGaps(R, MaxGap) :
    ~(run.start <= gap.start /\ gap.end <= run.end)
\* What anomalies itemises is at most MaxItems hits that span the period: the
\* first is among them, then one per stride, and less than a stride is left.
SampleSpans(H) ==
  LET hits == InTimeOrder(H)
      kept == Sample(hits)
      at(r) == CHOOSE k \in DOMAIN hits : hits[k] = r
  IN  /\ Len(kept) <= MaxItems /\ kept # <<>> /\ kept[1] = hits[1]
      /\ \A i \in 1 .. Len(kept) - 1 : at(kept[i + 1]) = at(kept[i]) + Stride(Len(hits))
      /\ Len(hits) - at(Last(kept)) < Stride(Len(hits))
ToolsAgree ==
  /\ \A R \in Scopes :
       /\ CountsAgree(R) /\ SilenceIsNotIdling(R)
       /\ \A H \in {Rejected(R), {r \in Caps(R) : OutOfBand(r)}, Deviations(R)} \ {{}} : SampleSpans(H)
  /\ \A p \in Periods :
       LET byMonth == ComparePeriods(p, "month")
       IN  /\ Compared(p, "month") /\ Compared(p, "week")
           /\ \A m \in DOMAIN byMonth :
                LET alone == Overview(Scope(Single(m)))
                IN  byMonth[m].capping = alone.capping /\ byMonth[m].no_load = alone.no_load

\* What compare_periods divides a volume by is the days of the calendar it was
\* produced in: the days of the window that fall in the bucket, each in one
\* bucket, across a year's end and a week cut by the window; a bucket worked on
\* no more days than it has, and the window's edges lose no bucket.
MonthOf == [d \in Min(Range(MonthStart)) .. Max(Range(MonthStart)) |->
  CHOOSE m \in DOMAIN MonthStart :
    /\ MonthStart[m] <= d
    /\ ~\E n \in DOMAIN MonthStart : MonthStart[m] < MonthStart[n] /\ MonthStart[n] <= d]
FallsIn(d, b, by) == IF by = "week" THEN d - b \in 0 .. 6 ELSE MonthOf[d] = b
DaysAddUp ==
  \A p \in Periods, by \in {"month", "week"} :
    LET compared == ComparePeriods(p, by)
        window   == Lo(p) .. Hi(p) - 1
    IN  \A b \in DOMAIN compared :
          /\ compared[b].calendar_days = Cardinality({d \in window : FallsIn(d, b, by)})
          /\ compared[b].calendar_days >= Max({compared[b].active_days, 1})

\* The deviation band is a head's own: whatever scale it falls back to, at
\* least half of the head's closures are inside it.
FlagsAreAMinority ==
  \A R \in Scopes : \A h \in HeadsOf(Caps(R)) :
    2 * Cardinality(OfHead(Deviations(R), h)) <= Cardinality(OfHead(Caps(R), h))

\* What trend divides by and takes roots of is sound: S is the sum over all
\* pairs, tau stays in [-1, 1], and the variance is positive unless all tie.
TauIsATau ==
  \A R \in Scopes : \A h \in HeadsOf(Caps(R)) :
    LET v == Series(R, Hour, h)
        D == Pairs(Len(v))
        inOrder == {ij \in (DOMAIN v) \X (DOMAIN v) : ij[1] < ij[2]}
    IN  /\ KendallS(v) = SumFunction([ij \in inOrder |-> Sign(v[ij[1]], v[ij[2]])])
        /\ KendallS(v) * KendallS(v) <= D * (D - TiedPairs(v))
        /\ Len(v) > 1 => (VarS18(v) > 0 <=> \E ij \in inOrder : Sign(v[ij[1]], v[ij[2]]) # 0)
=============================================================================
