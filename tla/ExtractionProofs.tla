--------------------------- MODULE ExtractionProofs ---------------------------
(***************************************************************************)
(* Proofs about Extraction for any number of heads, any counters, stamps   *)
(* and lines, any batch size and any saturation.                           *)
(*                                                                         *)
(* The engines are recursive functions over sequences.  What such a        *)
(* function computes is shown once for all of them: a recursion of n steps *)
(* has a solution and only one (a shortest recursion without one, or a     *)
(* first step where two differ, would be a contradiction).  From it come   *)
(* the equations of every engine for a file that is one line longer, and   *)
(* the invariants are inductive over the lines read.                       *)
(***************************************************************************)
EXTENDS Extraction, SequenceTheorems, FiniteSetTheorems, TLAPS

-----------------------------------------------------------------------------
(* Recursions *)

\* A set of naturals has a least member.
LEMMA Least ==
  ASSUME NEW T \in SUBSET Nat, T # {}
  PROVE  \E m \in T : \A k \in T : m <= k
<1>1. PICK m \in T : \A k \in T : ~(<<k, m>> \in OpToRel(<, Nat))
  BY NatLessThanWellFounded, WFMin
<1>2. ASSUME NEW k \in T PROVE m <= k
  <2>1. k \in Nat /\ m \in Nat
    OBVIOUS
  <2>2. ~(k < m)
    BY <1>1, <2>1 DEF OpToRel
  <2> QED BY <2>1, <2>2
<1> QED BY <1>2

\* Induction up to a bound, over a set of numbers.
LEMMA UpTo ==
  ASSUME NEW len \in Nat, NEW T, 0 \in T, \A m \in 1 .. len : m - 1 \in T => m \in T
  PROVE  \A m \in 0 .. len : m \in T
<1> DEFINE U == (0 .. len) \ T
<1>1. SUFFICES ASSUME U # {} PROVE FALSE
  OBVIOUS
<1>2. PICK m \in U : \A k \in U : m <= k
  <2>1. U \in SUBSET Nat
    OBVIOUS
  <2> HIDE DEF U
  <2> QED BY <1>1, <2>1, Least
<1>3. m \in 1 .. len /\ m - 1 \in 0 .. len /\ ~(m <= m - 1)
  OBVIOUS
<1>4. m - 1 \in T
  BY <1>2, <1>3
<1> QED BY <1>3, <1>4

\* g is what len steps of the step function st make of base.
IsRun(g, len, base, st) ==
  /\ g[0] = base
  /\ \A i \in 1 .. len : g[i] = st[<<g[i - 1], i>>]

\* A recursion has a solution, of any length.
LEMMA RunExists ==
  ASSUME NEW len \in Nat, NEW S, NEW base \in S, NEW st \in [S \X (1 .. len) -> S]
  PROVE  \E g \in [0 .. len -> S] : IsRun(g, len, base, st)
<1> DEFINE Has(m) == \E g \in [0 .. m -> S] : IsRun(g, m, base, st)
           T == {m \in 0 .. len : ~Has(m)}
<1>1. SUFFICES ASSUME T # {} PROVE FALSE
  OBVIOUS
<1>2. PICK m \in T : \A k \in T : m <= k
  <2>1. T \in SUBSET Nat
    OBVIOUS
  <2> HIDE DEF T
  <2> QED BY <1>1, <2>1, Least
<1>3. m \in 0 .. len /\ ~Has(m)
  OBVIOUS
<1>4. m # 0
  <2> DEFINE z == [i \in 0 .. 0 |-> base]
  <2>1. IsRun(z, 0, base, st)
    BY DEF IsRun
  <2>2. z \in [0 .. 0 -> S]
    OBVIOUS
  <2> QED BY <1>3, <2>1, <2>2
<1>5. Has(m - 1)
  <2>1. m - 1 \in 0 .. len /\ ~(m <= m - 1)
    BY <1>3, <1>4
  <2>2. m - 1 \notin T
    BY <1>2, <2>1
  <2> QED BY <2>1, <2>2
<1>6. PICK g \in [0 .. m - 1 -> S] : IsRun(g, m - 1, base, st)
  BY <1>5
<1> DEFINE h == [i \in 0 .. m |-> IF i = m THEN st[<<g[m - 1], m>>] ELSE g[i]]
<1>7. m \in 1 .. len /\ m - 1 \in 0 .. m - 1
  BY <1>3, <1>4
<1>8. g[m - 1] \in S
  BY <1>6, <1>7
<1>9. st[<<g[m - 1], m>>] \in S
  BY <1>7, <1>8
<1>10. h \in [0 .. m -> S]
  <2>1. ASSUME NEW i \in 0 .. m PROVE h[i] \in S
    <3>1. CASE i = m
      BY <1>9, <3>1
    <3>2. CASE i # m
      <4>1. i \in 0 .. m - 1
        BY <1>7, <3>2
      <4> QED BY <1>6, <3>2, <4>1
    <3> QED BY <3>1, <3>2
  <2> QED BY <2>1
<1>11. h[0] = base
  <2>1. 0 \in 0 .. m /\ 0 # m
    BY <1>7
  <2> QED BY <1>6, <2>1 DEF IsRun
<1>12. ASSUME NEW i \in 1 .. m PROVE h[i] = st[<<h[i - 1], i>>]
  <2>1. i \in 0 .. m /\ i - 1 \in 0 .. m /\ i - 1 # m
    BY <1>7
  <2>2. h[i - 1] = g[i - 1]
    BY <2>1
  <2>3. CASE i = m
    BY <2>1, <2>2, <2>3
  <2>4. CASE i # m
    <3>1. i \in 1 .. m - 1
      BY <1>7, <2>4
    <3>2. g[i] = st[<<g[i - 1], i>>]
      BY <1>6, <3>1 DEF IsRun
    <3> QED BY <2>1, <2>2, <2>4, <3>2
  <2> QED BY <2>3, <2>4
<1>13. IsRun(h, m, base, st)
  BY <1>11, <1>12 DEF IsRun
<1>14. Has(m)
  <2> HIDE DEF h
  <2> QED BY <1>10, <1>13
<1> QED BY <1>3, <1>14

StepsAlike(f, g, len) == \A i \in 1 .. len : f[i - 1] = g[i - 1] => f[i] = g[i]
Same(f, g, len) == \A i \in 0 .. len : f[i] = g[i]

\* A recursion has only one solution: what starts alike and steps alike is alike.
LEMMA Alike ==
  ASSUME NEW len \in Nat, NEW f, NEW g, f[0] = g[0], StepsAlike(f, g, len)
  PROVE  Same(f, g, len)
<1> USE DEF StepsAlike, Same
<1> DEFINE T == {i \in 0 .. len : f[i] # g[i]}
<1>1. SUFFICES ASSUME T # {} PROVE FALSE
  OBVIOUS
<1>2. PICK m \in T : \A k \in T : m <= k
  <2>1. T \in SUBSET Nat
    OBVIOUS
  <2> HIDE DEF T
  <2> QED BY <1>1, <2>1, Least
<1>3. m \in 0 .. len /\ f[m] # g[m]
  OBVIOUS
<1>4. m \in 1 .. len /\ m - 1 \in 0 .. len /\ ~(m <= m - 1)
  BY <1>3
<1>5. f[m - 1] = g[m - 1]
  <2>1. m - 1 \notin T
    BY <1>2, <1>4
  <2> QED BY <1>4, <2>1
<1> QED BY <1>3, <1>4, <1>5

-----------------------------------------------------------------------------
(* FlattenSeq *)

\* f is the table of the first i sequences of ss joined, for every i.
Joins(f, ss) ==
  f = [i \in 1 .. Len(ss) |-> IF i = 1 THEN ss[i] ELSE f[i - 1] \o ss[i]]

\* FlattenSeq, with the table it chooses named.
LEMMA FlattenDef ==
  \A ss : Len(ss) # 0 => FlattenSeq(ss) = (CHOOSE f : Joins(f, ss))[Len(ss)]
BY DEF FlattenSeq, Joins

JoinStep(T, ss) == [x \in Seq(T) \X (1 .. Len(ss)) |-> x[1] \o ss[x[2]]]

\* g[i] is the first i sequences of ss joined.
IsJoin(g, ss) == g[0] = <<>> /\ \A i \in 1 .. Len(ss) : g[i] = g[i - 1] \o ss[i]

\* A CHOOSE of FlattenSeq has such a table to choose, and no other.
LEMMA FlattenRun ==
  ASSUME NEW T, NEW ss \in Seq(Seq(T))
  PROVE  \E g \in [0 .. Len(ss) -> Seq(T)] : IsJoin(g, ss) /\ FlattenSeq(ss) = g[Len(ss)]
<1>1. PICK len \in Nat : len = Len(ss)
  OBVIOUS
<1>2. \A i \in 1 .. len : ss[i] \in Seq(T)
  BY <1>1
<1>3. JoinStep(T, ss) \in [Seq(T) \X (1 .. len) -> Seq(T)]
  BY <1>1, <1>2 DEF JoinStep
<1>4. <<>> \in Seq(T)
  OBVIOUS
<1>5. PICK g \in [0 .. len -> Seq(T)] : IsRun(g, len, <<>>, JoinStep(T, ss))
  BY <1>3, <1>4, RunExists
<1>6. \A i \in 1 .. len : g[i] = g[i - 1] \o ss[i]
  <2>1. ASSUME NEW i \in 1 .. len PROVE g[i] = g[i - 1] \o ss[i]
    <3>1. i - 1 \in 0 .. len
      OBVIOUS
    <3>2. <<g[i - 1], i>> \in Seq(T) \X (1 .. Len(ss))
      BY <3>1, <1>1
    <3>3. JoinStep(T, ss)[<<g[i - 1], i>>] = g[i - 1] \o ss[i]
      BY <3>2 DEF JoinStep
    <3> QED BY <1>5, <3>3 DEF IsRun
  <2> QED BY <2>1
<1>7. g[0] = <<>>
  BY <1>5 DEF IsRun
<1>8. IsJoin(g, ss)
  BY <1>1, <1>6, <1>7 DEF IsJoin
<1>9. CASE len = 0
  <2>1. ss = <<>>
    BY <1>1, <1>9, EmptySeq
  <2>2. FlattenSeq(ss) = ss
    BY <1>1, <1>9 DEF FlattenSeq
  <2> QED BY <2>1, <2>2, <1>1, <1>7, <1>8, <1>9
<1>10. CASE len # 0
  <2>1. 1 \in 1 .. len /\ g[1] = ss[1]
    <3>1. 1 \in 1 .. len /\ 1 - 1 = 0
      BY <1>10
    <3>2. g[1] = g[0] \o ss[1]
      BY <1>6, <3>1
    <3>3. <<>> \o ss[1] = ss[1]
      BY <1>2, <3>1, ConcatEmptySeq
    <3> QED BY <1>7, <3>1, <3>2, <3>3
  <2> DEFINE f == [i \in 1 .. len |-> g[i]]
  <2>2. Joins(f, ss)
    <3>1. ASSUME NEW i \in 1 .. len PROVE f[i] = IF i = 1 THEN ss[i] ELSE f[i - 1] \o ss[i]
      <4>1. CASE i = 1
        BY <2>1, <4>1
      <4>2. CASE i # 1
        <5>1. i - 1 \in 1 .. len
          BY <4>2
        <5> QED BY <1>6, <4>2, <5>1
      <4> QED BY <4>1, <4>2
    <3> QED BY <1>1, <3>1 DEF Joins
  <2> DEFINE c == CHOOSE x : Joins(x, ss)
  <2>3. Joins(c, ss)
    <3> HIDE DEF f
    <3> QED BY <2>2
  <2>4. FlattenSeq(ss) = c[len]
    BY <1>1, <1>10, FlattenDef
  <2> HIDE DEF c
  <2>5. \A i \in 1 .. len : c[i] = IF i = 1 THEN ss[i] ELSE c[i - 1] \o ss[i]
    BY <1>1, <2>3 DEF Joins
  <2> DEFINE d == [i \in 0 .. len |-> IF i = 0 THEN <<>> ELSE c[i]]
  <2>6. g[0] = d[0]
    BY <1>7
  <2>7. ASSUME NEW i \in 1 .. len, g[i - 1] = d[i - 1] PROVE g[i] = d[i]
    <3>1. g[i] = g[i - 1] \o ss[i]
      BY <1>6
    <3>2. i \in 0 .. len /\ i # 0
      OBVIOUS
    <3>3. d[i] = c[i]
      BY <3>2
    <3>4. CASE i = 1
      BY <2>1, <2>5, <3>3, <3>4
    <3>5. CASE i # 1
      <4>1. i - 1 \in 1 .. len /\ d[i - 1] = c[i - 1]
        BY <3>5
      <4> QED BY <2>5, <2>7, <3>1, <3>3, <3>5, <4>1
    <3> QED BY <3>4, <3>5
  <2>8. Same(g, d, len)
    <3> HIDE DEF d
    <3>1. StepsAlike(g, d, len)
      BY <2>7 DEF StepsAlike
    <3> QED BY <2>6, <3>1, Alike
  <2>9. g[len] = c[len]
    BY <1>10, <2>8 DEF Same
  <2> QED BY <1>1, <1>8, <2>4, <2>9
<1> QED BY <1>9, <1>10

\* FlattenSeq joins sequences of T to a sequence of T, of none to none, and of
\* one more to the join so far and that one.
LEMMA FlattenAppend ==
  ASSUME NEW T, NEW ss \in Seq(Seq(T)), NEW s \in Seq(T)
  PROVE  /\ FlattenSeq(ss) \in Seq(T)
         /\ ss = <<>> => FlattenSeq(ss) = <<>>
         /\ FlattenSeq(Append(ss, s)) = FlattenSeq(ss) \o s
<1>1. PICK len \in Nat : len = Len(ss)
  OBVIOUS
<1>2. PICK tt \in Seq(Seq(T)) : tt = Append(ss, s)
  BY AppendProperties
<1>3. Len(tt) = len + 1 /\ tt[len + 1] = s /\ \A i \in 1 .. len : tt[i] = ss[i]
  BY <1>1, <1>2
<1>4. PICK g \in [0 .. len -> Seq(T)] : IsJoin(g, ss) /\ FlattenSeq(ss) = g[len]
  BY <1>1, FlattenRun
<1>5. PICK h \in [0 .. len + 1 -> Seq(T)] : IsJoin(h, tt) /\ FlattenSeq(tt) = h[len + 1]
  BY <1>3, FlattenRun
<1>6. g[0] = h[0] /\ g[0] = <<>>
  BY <1>4, <1>5 DEF IsJoin
<1>7. Same(g, h, len)
  <2>1. ASSUME NEW i \in 1 .. len, g[i - 1] = h[i - 1] PROVE g[i] = h[i]
    <3>1. i \in 1 .. len + 1
      OBVIOUS
    <3>2. g[i] = g[i - 1] \o ss[i] /\ h[i] = h[i - 1] \o tt[i]
      BY <1>1, <1>3, <1>4, <1>5, <3>1 DEF IsJoin
    <3> QED BY <1>3, <2>1, <3>2
  <2>2. StepsAlike(g, h, len)
    BY <2>1 DEF StepsAlike
  <2> QED BY <1>6, <2>2, Alike
<1>8. PICK k \in 1 .. Len(tt) : k = len + 1
  BY <1>3
<1>9. h[k] = h[len] \o s /\ h[len] = g[len]
  <2>1. k - 1 = len /\ len \in 0 .. len
    BY <1>8
  <2>2. h[k] = h[k - 1] \o tt[k]
    BY <1>5 DEF IsJoin
  <2>3. tt[k] = s
    BY <1>3, <1>8
  <2>4. h[len] = g[len]
    BY <1>7, <2>1 DEF Same
  <2> QED BY <2>1, <2>2, <2>3, <2>4
<1>10. FlattenSeq(tt) = FlattenSeq(ss) \o s
  BY <1>4, <1>5, <1>8, <1>9
<1>11. ss = <<>> => FlattenSeq(ss) = <<>>
  BY <1>1, <1>4, <1>6
<1>12. FlattenSeq(ss) \in Seq(T)
  BY <1>4, <1>8
<1> QED BY <1>2, <1>10, <1>11, <1>12

\* A table that is one entry longer is the shorter one with that entry appended.
LEMMA IsAppend ==
  ASSUME NEW T, NEW ss \in Seq(T), NEW s \in T, NEW tt \in Seq(T),
         Len(tt) = Len(ss) + 1, tt[Len(ss) + 1] = s,
         \A i \in 1 .. Len(ss) : tt[i] = ss[i]
  PROVE  tt = Append(ss, s)
<1>1. PICK len \in Nat : len = Len(ss)
  OBVIOUS
<1>2. PICK uu \in Seq(T) : uu = Append(ss, s)
  BY AppendProperties
<1>3. Len(uu) = len + 1 /\ uu[len + 1] = s /\ \A i \in 1 .. len : uu[i] = ss[i]
  BY <1>1, <1>2, AppendProperties
<1>4. \A i \in 1 .. len + 1 : i \in 1 .. len \/ i = len + 1
  OBVIOUS
<1>5. \A i \in 1 .. Len(tt) : tt[i] = uu[i]
  BY <1>1, <1>3, <1>4
<1>6. tt = uu
  BY <1>1, <1>3, <1>5, SeqEqual
<1> QED BY <1>2, <1>6

-----------------------------------------------------------------------------
(* Lines and events *)

Row == [kind : AllKinds, ts : Texts, count : [Heads -> Counts]]
Event == [head : Heads, ts : Texts, seq : Counts, delta : Int,
          aggregated : BOOLEAN, reset : BOOLEAN]
Before == [Heads -> Counts \cup {Unseen}]

\* What a line is read against before the first.
Nothing == [h \in Heads |-> Unseen]

\* The heads are numbered from one.
LEMMA HeadsAreNumbers == NumHeads \in Nat /\ NumHeads >= 1 /\ Heads = 1 .. NumHeads
BY HeadsAssumption DEF Heads

\* Counters are integers, and Unseen is none of them.
LEMMA CountsAreNumbers ==
  /\ \A c \in Counts : c \in Int /\ c # Unseen
  /\ IntMax \in Int /\ IntMax > 1
<1>1. Counts \subseteq Int /\ Unseen \notin Counts
  BY DomainAssumption
<1>2. IntMax \in Nat \ {0, 1}
  BY SizesAssumption
<1>3. IntMax \in Int /\ IntMax > 1
  BY <1>2
<1> QED BY <1>1, <1>3

\* Texts are ordered as numbers are, and so are the instants they are cast to.
LEMMA TextsAreNumbers == \A t \in Texts : t \in Nat /\ Instant[t] \in Nat /\ Spelled[t] \in Texts
BY TextsAssumption

\* A text that ts_expr makes.
Respelled(text) == \E t \in Texts : text = Spelled[t]

\* ts_expr gives two texts of one instant the same spelling.
LEMMA OneSpelling ==
  ASSUME NEW d, NEW e, Respelled(d), Respelled(e),
         Instant[d] # NoStamp, Instant[d] = Instant[e]
  PROVE  d = e
<1>1. PICK s \in Texts, t \in Texts : d = Spelled[s] /\ e = Spelled[t]
  BY DEF Respelled
<1>2. Instant[s] # NoStamp /\ Instant[t] # NoStamp
  BY <1>1, TextsAssumption
<1> QED BY <1>1, <1>2, TextsAssumption

\* A line that is read has a kind, a text and a count per head, and in a Parquet
\* or JSON file a text that ts_expr made.
LEMMA EveryLineIsARow ==
  ASSUME NEW line \in Offered, format \in Formats
  PROVE  line \in Row /\ (format = "tabular" => Respelled(line.ts))
<1>1. PICK own \in Lines[format] : line = [own EXCEPT !.ts = TsText(own)]
  BY DEF Offered
<1>2. own \in Row
  BY <1>1, LinesAssumption DEF Row
<1>3. own.ts \in Texts
  BY <1>2 DEF Row
<1>4. TsText(own) \in Texts /\ (format = "tabular" => Respelled(TsText(own)))
  BY <1>3, TextsAreNumbers DEF TsText, Respelled
<1>5. line \in Row /\ line.ts = TsText(own)
  BY <1>1, <1>2, <1>4 DEF Row
<1> QED BY <1>4, <1>5

\* A line's counts are what the next one may be read against.
LEMMA CountsOfARow == \A r \in Row : r.count \in [Heads -> Counts] /\ r.count \in Before
BY DEF Row, Before

\* The event of head h in a line read against the counts before, if there is one.
Moved(line, before, h) == before[h] \notin {Unseen, line.count[h]}
OneEvent(line, before, h) ==
  IF before[h] \in {Unseen, line.count[h]} THEN <<>> ELSE <<MakeEvent(line, h, before[h])>>

\* A head that moved gives one event.
LEMMA MakeEventType ==
  ASSUME NEW line \in Row, NEW before \in Before, NEW h \in Heads, Moved(line, before, h)
  PROVE  MakeEvent(line, h, before[h]) \in Event
<1>1. line.count[h] \in Counts /\ before[h] \in Counts
  BY DEF Row, Before, Moved
<1>2. line.count[h] \in Int /\ before[h] \in Int /\ IntMax \in Int
  BY <1>1, CountsAreNumbers
<1>3. SaturatedDelta(line.count[h], before[h]) \in Int
  BY <1>2 DEF SaturatedDelta
<1>4. line.ts \in Texts
  BY DEF Row
<1> QED BY <1>1, <1>3, <1>4 DEF MakeEvent, Event

\* A head gives at most one event.
LEMMA OneEventType ==
  ASSUME NEW line \in Row, NEW before \in Before, NEW h \in Heads
  PROVE  OneEvent(line, before, h) \in Seq(Event)
<1>1. CASE Moved(line, before, h)
  <2>1. OneEvent(line, before, h) = <<MakeEvent(line, h, before[h])>>
    BY <1>1 DEF OneEvent, Moved
  <2> QED BY <1>1, <2>1, MakeEventType
<1>2. CASE ~Moved(line, before, h)
  <2>1. OneEvent(line, before, h) = <<>>
    BY <1>2 DEF OneEvent, Moved
  <2> QED BY <2>1
<1> QED BY <1>1, <1>2

\* The events of the first m heads.
FirstHeads(line, before, m) == FlattenSeq([h \in 1 .. m |-> OneEvent(line, before, h)])

\* A row's events are built head by head.
LEMMA HeadByHead ==
  ASSUME NEW line \in Row, NEW before \in Before
  PROVE  /\ \A m \in 0 .. NumHeads : FirstHeads(line, before, m) \in Seq(Event)
         /\ FirstHeads(line, before, 0) = <<>>
         /\ \A m \in 1 .. NumHeads : FirstHeads(line, before, m) =
              FirstHeads(line, before, m - 1) \o OneEvent(line, before, m)
         /\ RowEvents(line, before) = FirstHeads(line, before, NumHeads)
<1> DEFINE Table(m) == [h \in 1 .. m |-> OneEvent(line, before, h)]
<1>1. \A m \in 0 .. NumHeads : Table(m) \in Seq(Seq(Event)) /\ Len(Table(m)) = m
  <2>1. ASSUME NEW m \in 0 .. NumHeads PROVE Table(m) \in Seq(Seq(Event)) /\ Len(Table(m)) = m
    <3>1. m \in Nat /\ \A h \in 1 .. m : h \in Heads
      BY HeadsAreNumbers
    <3>2. \A h \in 1 .. m : OneEvent(line, before, h) \in Seq(Event)
      BY <3>1, OneEventType
    <3> QED BY <3>1, <3>2
  <2> QED BY <2>1
<1>2. ASSUME NEW m \in 1 .. NumHeads PROVE
         /\ m - 1 \in 0 .. NumHeads /\ m \in 0 .. NumHeads /\ m \in Heads
         /\ Table(m) = Append(Table(m - 1), OneEvent(line, before, m))
  <2>1. m - 1 \in 0 .. NumHeads /\ m \in 0 .. NumHeads /\ m \in Heads
    BY HeadsAreNumbers
  <2>2. OneEvent(line, before, m) \in Seq(Event)
    BY <2>1, OneEventType
  <2>3. /\ Len(Table(m)) = Len(Table(m - 1)) + 1
        /\ Table(m)[Len(Table(m - 1)) + 1] = OneEvent(line, before, m)
        /\ \A i \in 1 .. Len(Table(m - 1)) : Table(m)[i] = Table(m - 1)[i]
    BY <1>1, <2>1
  <2>4. Table(m) \in Seq(Seq(Event)) /\ Table(m - 1) \in Seq(Seq(Event))
    BY <1>1, <2>1
  <2> HIDE DEF Table
  <2>5. Table(m) = Append(Table(m - 1), OneEvent(line, before, m))
    BY <2>2, <2>3, <2>4, IsAppend
  <2> QED BY <2>1, <2>5
<1>3. \A m \in 0 .. NumHeads : FirstHeads(line, before, m) = FlattenSeq(Table(m))
  BY DEF FirstHeads
<1>4. RowEvents(line, before) = FlattenSeq(Table(NumHeads))
  BY DEF RowEvents, OneEvent, Heads
<1>5. Table(0) = <<>>
  OBVIOUS
<1> HIDE DEF Table
<1>6. <<>> \in Seq(Event)
  OBVIOUS
<1>7. \A m \in 0 .. NumHeads : FirstHeads(line, before, m) \in Seq(Event)
  BY <1>1, <1>3, <1>6, FlattenAppend
<1>8. 0 \in 0 .. NumHeads /\ NumHeads \in 0 .. NumHeads
  BY HeadsAreNumbers
<1>9. FirstHeads(line, before, 0) = <<>>
  BY <1>1, <1>3, <1>5, <1>6, <1>8, FlattenAppend
<1>10. ASSUME NEW m \in 1 .. NumHeads
       PROVE  FirstHeads(line, before, m) =
                FirstHeads(line, before, m - 1) \o OneEvent(line, before, m)
  <2>1. OneEvent(line, before, m) \in Seq(Event)
    BY <1>2, OneEventType
  <2>2. Table(m - 1) \in Seq(Seq(Event)) /\ Table(m) = Append(Table(m - 1), OneEvent(line, before, m))
    BY <1>1, <1>2
  <2>3. FlattenSeq(Append(Table(m - 1), OneEvent(line, before, m))) =
          FlattenSeq(Table(m - 1)) \o OneEvent(line, before, m)
    BY <2>1, <2>2, FlattenAppend
  <2>4. m \in 0 .. NumHeads /\ m - 1 \in 0 .. NumHeads
    BY <1>2
  <2> QED BY <1>3, <2>2, <2>3, <2>4
<1> QED BY <1>3, <1>4, <1>7, <1>8, <1>9, <1>10

\* The events of the first m heads: one for each head that moved, in order.
HeadsInOrder(events, line, before, m) ==
  /\ \A k \in 1 .. Len(events) : \E h \in 1 .. m :
       Moved(line, before, h) /\ events[k] = MakeEvent(line, h, before[h])
  /\ \A j, k \in 1 .. Len(events) : j < k => events[j].head < events[k].head
  /\ \A h \in 1 .. m : Moved(line, before, h) =>
       \E k \in 1 .. Len(events) : events[k] = MakeEvent(line, h, before[h])

\* An event is of the head it was made for.
LEMMA HeadOfEvent == \A line, h, prv : MakeEvent(line, h, prv).head = h
BY DEF MakeEvent

\* The next head adds its event at the end, if it moved.
LEMMA NextHead ==
  ASSUME NEW line \in Row, NEW before \in Before, NEW m \in 1 .. NumHeads,
         NEW events \in Seq(Event), HeadsInOrder(events, line, before, m - 1)
  PROVE  HeadsInOrder(events \o OneEvent(line, before, m), line, before, m)
<1>1. m \in Heads /\ m \in Nat
  BY HeadsAreNumbers
<1>2. PICK len \in Nat : len = Len(events)
  OBVIOUS
<1>3. \A h \in 1 .. m : h = m \/ h \in 1 .. m - 1
  BY <1>1
<1>4. \A h \in 1 .. m - 1 : h \in 1 .. m /\ h < m
  BY <1>1
<1>5. CASE ~Moved(line, before, m)
  <2>1. events \o OneEvent(line, before, m) = events
    BY <1>5, ConcatEmptySeq DEF OneEvent, Moved
  <2> QED BY <1>3, <1>4, <1>5, <2>1 DEF HeadsInOrder
<1>6. CASE Moved(line, before, m)
  <2>1. PICK e \in Event : e = MakeEvent(line, m, before[m])
    BY <1>1, <1>6, MakeEventType
  <2>2. PICK all \in Seq(Event) : all = events \o OneEvent(line, before, m)
    BY <1>1, OneEventType, ConcatProperties
  <2>3. all = Append(events, e)
    BY <1>6, <2>1, <2>2, AppendIsConcat DEF OneEvent, Moved
  <2>4. Len(all) = len + 1 /\ all[len + 1] = e /\ \A i \in 1 .. len : all[i] = events[i]
    BY <1>2, <2>3, AppendProperties
  <2>5. \A i \in 1 .. len + 1 : i \in 1 .. len \/ i = len + 1
    OBVIOUS
  <2>6. e.head = m /\ m \in 1 .. m
    BY <1>1, <2>1, HeadOfEvent
  <2>7. ASSUME NEW k \in 1 .. Len(all) PROVE \E h \in 1 .. m :
          Moved(line, before, h) /\ all[k] = MakeEvent(line, h, before[h])
    <3>1. CASE k = len + 1
      BY <1>6, <2>1, <2>4, <2>6, <3>1
    <3>2. CASE k \in 1 .. len
      BY <1>2, <1>4, <2>4, <3>2 DEF HeadsInOrder
    <3> QED BY <2>4, <2>5, <3>1, <3>2
  <2>8. ASSUME NEW j \in 1 .. Len(all), NEW k \in 1 .. Len(all), j < k
        PROVE  all[j].head < all[k].head
    <3>1. j \in 1 .. len
      BY <2>4, <2>8
    <3>2. CASE k = len + 1
      <4>1. PICK h \in 1 .. m - 1 : events[j] = MakeEvent(line, h, before[h])
        BY <1>2, <3>1 DEF HeadsInOrder
      <4>2. all[j].head = h /\ all[k].head = m
        BY <2>4, <2>6, <3>1, <3>2, <4>1, HeadOfEvent
      <4> QED BY <1>4, <4>2
    <3>3. CASE k \in 1 .. len
      BY <1>2, <2>4, <2>8, <3>1, <3>3 DEF HeadsInOrder
    <3> QED BY <2>4, <2>5, <3>2, <3>3
  <2>9. ASSUME NEW h \in 1 .. m, Moved(line, before, h)
        PROVE  \E k \in 1 .. Len(all) : all[k] = MakeEvent(line, h, before[h])
    <3>1. CASE h = m
      <4>1. len + 1 \in 1 .. Len(all)
        BY <2>4
      <4> QED BY <2>1, <2>4, <3>1, <4>1
    <3>2. CASE h \in 1 .. m - 1
      <4>1. PICK k \in 1 .. len : events[k] = MakeEvent(line, h, before[h])
        BY <1>2, <2>9, <3>2 DEF HeadsInOrder
      <4>2. k \in 1 .. Len(all)
        BY <2>4
      <4> QED BY <2>4, <4>1, <4>2
    <3> QED BY <1>3, <3>1, <3>2
  <2>10. HeadsInOrder(all, line, before, m)
    BY <2>7, <2>8, <2>9 DEF HeadsInOrder
  <2> QED BY <2>2, <2>10
<1> QED BY <1>5, <1>6

\* The events of a row: one for each head that moved, in the order of the heads.
LEMMA RowIsInOrder ==
  ASSUME NEW line \in Row, NEW before \in Before
  PROVE  /\ RowEvents(line, before) \in Seq(Event)
         /\ HeadsInOrder(RowEvents(line, before), line, before, NumHeads)
<1> DEFINE T == {m \in 0 .. NumHeads :
                   HeadsInOrder(FirstHeads(line, before, m), line, before, m)}
<1>1. NumHeads \in Nat
  BY HeadsAreNumbers
<1>2. 0 \in T
  <2>1. 0 \in 0 .. NumHeads /\ FirstHeads(line, before, 0) = <<>>
    BY <1>1, HeadByHead
  <2>2. HeadsInOrder(<<>>, line, before, 0)
    BY DEF HeadsInOrder
  <2> QED BY <2>1, <2>2
<1>3. ASSUME NEW m \in 1 .. NumHeads, m - 1 \in T PROVE m \in T
  <2>1. m - 1 \in 0 .. NumHeads /\ m \in 0 .. NumHeads
    BY <1>1
  <2>2. FirstHeads(line, before, m - 1) \in Seq(Event)
    BY <2>1, HeadByHead
  <2>3. FirstHeads(line, before, m) = FirstHeads(line, before, m - 1) \o OneEvent(line, before, m)
    BY HeadByHead
  <2>4. HeadsInOrder(FirstHeads(line, before, m - 1), line, before, m - 1)
    BY <1>3
  <2>5. HeadsInOrder(FirstHeads(line, before, m), line, before, m)
    BY <2>2, <2>3, <2>4, NextHead
  <2> QED BY <2>1, <2>5
<1>4. NumHeads \in T
  <2>1. \A m \in 0 .. NumHeads : m \in T
    <3> HIDE DEF T
    <3> QED BY <1>1, <1>2, <1>3, UpTo
  <2>2. NumHeads \in 0 .. NumHeads
    BY <1>1
  <2> HIDE DEF T
  <2> QED BY <2>1, <2>2
<1>5. NumHeads \in 0 .. NumHeads
  BY <1>1
<1> QED BY <1>4, <1>5, HeadByHead

\* The first line ever has no events.
LEMMA NothingBefore ==
  ASSUME NEW line \in Row
  PROVE  Nothing \in Before /\ RowEvents(line, Nothing) = <<>>
<1>1. Nothing \in Before /\ \A h \in Heads : ~Moved(line, Nothing, h)
  BY DEF Nothing, Before, Moved
<1>2. PICK all \in Seq(Event) : all = RowEvents(line, Nothing)
  BY <1>1, RowIsInOrder
<1>3. HeadsInOrder(all, line, Nothing, NumHeads)
  BY <1>1, <1>2, RowIsInOrder
<1>4. \A k \in 1 .. Len(all) : FALSE
  BY <1>1, <1>3, HeadsAreNumbers DEF HeadsInOrder
<1>5. all = <<>>
  <2>1. SUFFICES ASSUME all # <<>> PROVE FALSE
    OBVIOUS
  <2>2. Len(all) \in Nat \ {0}
    BY <2>1, EmptySeq
  <2>3. 1 \in 1 .. Len(all)
    BY <2>2
  <2> QED BY <1>4, <2>3
<1> QED BY <1>1, <1>2, <1>5

\* A line without events repeats the counts before it.
LEMMA NoEventsNoMove ==
  ASSUME NEW line \in Row, NEW before \in [Heads -> Counts], RowEvents(line, before) = <<>>
  PROVE  line.count = before
<1>1. before \in Before
  BY DEF Before
<1>2. HeadsInOrder(<<>>, line, before, NumHeads)
  BY <1>1, RowIsInOrder
<1>3. ASSUME NEW h \in Heads PROVE line.count[h] = before[h]
  <2>1. ~Moved(line, before, h)
    <3>1. \A k \in 1 .. Len(<<>>) : FALSE
      OBVIOUS
    <3> QED BY <1>2, <3>1, HeadsAreNumbers DEF HeadsInOrder
  <2>2. before[h] # Unseen
    BY CountsAreNumbers
  <2> QED BY <2>1, <2>2 DEF Moved
<1>4. line.count \in [Heads -> Counts]
  BY DEF Row
<1> QED BY <1>3, <1>4

-----------------------------------------------------------------------------
(* The lines a path keeps, and its events from line to line *)

KeptIn(f, K) == FlattenSeq([i \in 1 .. Len(f) |-> IF f[i] \in K THEN <<f[i]>> ELSE <<>>])

\* A kept line is added at the end, any other line changes nothing.
LEMMA KeptAppend ==
  ASSUME NEW K \in SUBSET Row, NEW f \in Seq(Row), NEW x \in Row
  PROVE  /\ KeptIn(f, K) \in Seq(K)
         /\ f = <<>> => KeptIn(f, K) = <<>>
         /\ KeptIn(Append(f, x), K) =
              IF x \in K THEN Append(KeptIn(f, K), x) ELSE KeptIn(f, K)
<1> DEFINE Table(g) == [i \in 1 .. Len(g) |-> IF g[i] \in K THEN <<g[i]>> ELSE <<>>]
           entry == IF x \in K THEN <<x>> ELSE <<>>
<1>1. ASSUME NEW g \in Seq(Row) PROVE Table(g) \in Seq(Seq(K)) /\ Len(Table(g)) = Len(g)
  <2>1. \A i \in 1 .. Len(g) : Table(g)[i] \in Seq(K)
    OBVIOUS
  <2> QED BY <2>1
<1>2. PICK g \in Seq(Row) : g = Append(f, x)
  BY AppendProperties
<1>3. Len(g) = Len(f) + 1 /\ g[Len(f) + 1] = x /\ \A i \in 1 .. Len(f) : g[i] = f[i]
  BY <1>2, AppendProperties
<1>4. entry \in Seq(K)
  OBVIOUS
<1>5. /\ Table(f) \in Seq(Seq(K)) /\ Table(g) \in Seq(Seq(K))
      /\ Len(Table(g)) = Len(Table(f)) + 1
      /\ Table(g)[Len(Table(f)) + 1] = entry
      /\ \A i \in 1 .. Len(Table(f)) : Table(g)[i] = Table(f)[i]
  <2>1. Table(f) \in Seq(Seq(K)) /\ Table(g) \in Seq(Seq(K)) /\ Len(Table(f)) = Len(f) /\ Len(Table(g)) = Len(g)
    BY <1>1
  <2>2. Len(f) + 1 \in 1 .. Len(g) /\ \A i \in 1 .. Len(f) : i \in 1 .. Len(g)
    BY <1>3
  <2> QED BY <1>3, <2>1, <2>2
<1>6. KeptIn(f, K) = FlattenSeq(Table(f)) /\ KeptIn(g, K) = FlattenSeq(Table(g))
  BY DEF KeptIn
<1>7. f = <<>> => Table(f) = <<>>
  OBVIOUS
<1> HIDE DEF Table, entry
<1>8. Table(g) = Append(Table(f), entry)
  BY <1>4, <1>5, IsAppend
<1>9. /\ FlattenSeq(Table(f)) \in Seq(K)
      /\ Table(f) = <<>> => FlattenSeq(Table(f)) = <<>>
      /\ FlattenSeq(Table(g)) = FlattenSeq(Table(f)) \o entry
  BY <1>4, <1>5, <1>8, FlattenAppend
<1>10. FlattenSeq(Table(f)) \o entry =
         IF x \in K THEN Append(FlattenSeq(Table(f)), x) ELSE FlattenSeq(Table(f))
  <2>1. CASE x \in K
    BY <1>9, <2>1, AppendIsConcat DEF entry
  <2>2. CASE x \notin K
    BY <1>9, <2>2, ConcatEmptySeq DEF entry
  <2> QED BY <2>1, <2>2
<1> QED BY <1>2, <1>6, <1>7, <1>9, <1>10

\* The events of each row against the row before it, for any reading ev of a row.
Pairs(ev, rows) ==
  FlattenSeq([i \in 1 .. Len(rows) |->
    IF i = 1 THEN <<>> ELSE ev[<<rows[i], rows[i - 1].count>>]])

\* One more row adds its events against what was the last.
LEMMA PairsAppend ==
  ASSUME NEW ev \in [Row \X Before -> Seq(Event)], NEW rows \in Seq(Row), NEW x \in Row
  PROVE  /\ Pairs(ev, rows) \in Seq(Event)
         /\ rows = <<>> => Pairs(ev, rows) = <<>>
         /\ Pairs(ev, Append(rows, x)) = Pairs(ev, rows) \o
              (IF rows = <<>> THEN <<>> ELSE ev[<<x, rows[Len(rows)].count>>])
<1> DEFINE Table(g) == [i \in 1 .. Len(g) |-> IF i = 1 THEN <<>> ELSE ev[<<g[i], g[i - 1].count>>]]
           entry == IF rows = <<>> THEN <<>> ELSE ev[<<x, rows[Len(rows)].count>>]
<1>1. ASSUME NEW g \in Seq(Row)
      PROVE  /\ Table(g) \in Seq(Seq(Event)) /\ Len(Table(g)) = Len(g)
             /\ \A i \in 1 .. Len(g) : Table(g)[i] = IF i = 1 THEN <<>> ELSE ev[<<g[i], g[i - 1].count>>]
  <2>1. ASSUME NEW i \in 1 .. Len(g), i # 1 PROVE ev[<<g[i], g[i - 1].count>>] \in Seq(Event)
    <3>1. i - 1 \in 1 .. Len(g)
      BY <2>1
    <3>2. g[i] \in Row /\ g[i - 1].count \in Before
      BY <3>1, CountsOfARow
    <3> QED BY <3>2
  <2> QED BY <2>1
<1>2. PICK g \in Seq(Row) : g = Append(rows, x)
  BY AppendProperties
<1>3. PICK len \in Nat : len = Len(rows)
  OBVIOUS
<1>4. Len(g) = len + 1 /\ g[len + 1] = x /\ \A i \in 1 .. len : g[i] = rows[i]
  BY <1>2, <1>3, AppendProperties
<1>5. rows = <<>> <=> len = 0
  BY <1>3, EmptySeq
<1>6. entry \in Seq(Event)
  <2>1. CASE rows = <<>>
    BY <2>1
  <2>2. CASE rows # <<>>
    <3>1. len \in 1 .. Len(rows)
      BY <1>3, <1>5, <2>2
    <3>2. rows[len].count \in Before
      BY <1>3, <3>1, CountsOfARow
    <3> QED BY <1>3, <2>2, <3>2
  <2> QED BY <2>1, <2>2
<1>7. Table(g)[len + 1] = entry
  <2>1. len + 1 \in 1 .. Len(g) /\ len + 1 - 1 = len
    BY <1>4
  <2>2. Table(g)[len + 1] = IF len + 1 = 1 THEN <<>> ELSE ev[<<g[len + 1], g[len].count>>]
    BY <1>1, <2>1
  <2>3. CASE len = 0
    BY <1>5, <2>2, <2>3
  <2>4. CASE len # 0
    <3>1. len \in 1 .. len /\ len + 1 # 1
      BY <2>4
    <3>2. g[len] = rows[len]
      BY <1>4, <3>1
    <3> QED BY <1>3, <1>4, <1>5, <2>2, <2>4, <3>1, <3>2
  <2> QED BY <2>3, <2>4
<1>8. ASSUME NEW i \in 1 .. len PROVE Table(g)[i] = Table(rows)[i]
  <2>1. i \in 1 .. Len(g) /\ i \in 1 .. Len(rows) /\ (i # 1 => i - 1 \in 1 .. len)
    BY <1>3, <1>4
  <2>2. Table(g)[i] = IF i = 1 THEN <<>> ELSE ev[<<g[i], g[i - 1].count>>]
    BY <1>1, <2>1
  <2>3. Table(rows)[i] = IF i = 1 THEN <<>> ELSE ev[<<rows[i], rows[i - 1].count>>]
    BY <1>1, <2>1
  <2>4. g[i] = rows[i] /\ (i # 1 => g[i - 1] = rows[i - 1])
    BY <1>4, <2>1
  <2> HIDE DEF Table
  <2> QED BY <2>2, <2>3, <2>4
<1>9. Pairs(ev, rows) = FlattenSeq(Table(rows)) /\ Pairs(ev, g) = FlattenSeq(Table(g))
  BY DEF Pairs
<1>10. rows = <<>> => Table(rows) = <<>>
  OBVIOUS
<1>11. Table(rows) \in Seq(Seq(Event)) /\ Table(g) \in Seq(Seq(Event))
       /\ Len(Table(rows)) = len /\ Len(Table(g)) = len + 1
  <2> HIDE DEF Table
  <2> QED BY <1>1, <1>3, <1>4
<1> HIDE DEF Table, entry
<1>12. Table(g) = Append(Table(rows), entry)
  BY <1>6, <1>7, <1>8, <1>11, IsAppend
<1>13. /\ FlattenSeq(Table(rows)) \in Seq(Event)
       /\ Table(rows) = <<>> => FlattenSeq(Table(rows)) = <<>>
       /\ FlattenSeq(Table(g)) = FlattenSeq(Table(rows)) \o entry
  BY <1>6, <1>11, <1>12, FlattenAppend
<1>14. entry = IF rows = <<>> THEN <<>> ELSE ev[<<x, rows[Len(rows)].count>>]
  BY DEF entry
<1> QED BY <1>2, <1>9, <1>10, <1>13, <1>14

\* The counts the next line is read against.
LastOf(rows) == IF rows = <<>> THEN Nothing ELSE rows[Len(rows)].count

\* After one more row, they are its counts.
LEMMA LastOfAppend ==
  ASSUME NEW rows \in Seq(Row), NEW x \in Row
  PROVE  LastOf(rows) \in Before /\ LastOf(Append(rows, x)) = x.count
<1>1. CASE rows = <<>>
  BY <1>1, NothingBefore, AppendProperties DEF LastOf
<1>2. CASE rows # <<>>
  <2>1. Len(rows) \in 1 .. Len(rows)
    BY <1>2, EmptySeq
  <2> QED BY <1>2, <2>1, CountsOfARow, AppendProperties DEF LastOf
<1>3. LastOf(Append(rows, x)) = x.count
  BY AppendProperties DEF LastOf
<1> QED BY <1>1, <1>2, <1>3

\* load_columns, one line further.
LEMMA LoadedAppend ==
  ASSUME NEW f \in Seq(Row), NEW x \in Row
  PROVE  /\ Loaded(f) \in Seq(Row)
         /\ f = <<>> => Loaded(f) = <<>>
         /\ Loaded(Append(f, x)) = IF RowOk(x) THEN Append(Loaded(f), x) ELSE Loaded(f)
<1> DEFINE K == {r \in Row : RowOk(r)}
<1>1. ASSUME NEW g \in Seq(Row) PROVE Loaded(g) = KeptIn(g, K)
  <2>1. \A i \in 1 .. Len(g) : g[i] \in K <=> RowOk(g[i])
    OBVIOUS
  <2> QED BY <2>1 DEF Loaded, KeptIn
<1>2. K \in SUBSET Row /\ (x \in K <=> RowOk(x))
  OBVIOUS
<1> HIDE DEF K
<1>3. Append(f, x) \in Seq(Row)
  BY AppendProperties
<1>4. KeptIn(f, K) \in Seq(Row)
  <2>1. KeptIn(f, K) \in Seq(K)
    BY <1>2, KeptAppend
  <2> QED BY <1>2, <2>1
<1>5. /\ f = <<>> => KeptIn(f, K) = <<>>
      /\ KeptIn(Append(f, x), K) = IF x \in K THEN Append(KeptIn(f, K), x) ELSE KeptIn(f, K)
  BY <1>2, KeptAppend
<1>6. Loaded(f) = KeptIn(f, K) /\ Loaded(Append(f, x)) = KeptIn(Append(f, x), K)
  BY <1>1, <1>3
<1> QED BY <1>2, <1>4, <1>5, <1>6

\* What is loaded are rows, also from an empty file.
LEMMA LoadedType ==
  ASSUME NEW f \in Seq(Row)
  PROVE  Loaded(f) \in Seq(Row)
<1> DEFINE Table == [i \in 1 .. Len(f) |-> IF RowOk(f[i]) THEN <<f[i]>> ELSE <<>>]
<1>1. \A i \in 1 .. Len(f) : Table[i] \in Seq(Row)
  OBVIOUS
<1>2. Table \in Seq(Seq(Row))
  BY <1>1
<1>3. Loaded(f) = FlattenSeq(Table)
  BY DEF Loaded
<1>4. <<>> \in Seq(Row)
  OBVIOUS
<1> HIDE DEF Table
<1> QED BY <1>2, <1>3, <1>4, FlattenAppend

\* What read_csv takes, one line further.
LEMMA FrameAppend ==
  ASSUME NEW f \in Seq(Row), NEW x \in Row
  PROVE  /\ Frame(f) \in Seq(Row)
         /\ f = <<>> => Frame(f) = <<>>
         /\ Frame(Append(f, x)) = IF IsBlank(x) THEN Frame(f) ELSE Append(Frame(f), x)
<1> DEFINE K == {r \in Row : ~IsBlank(r)}
<1>1. ASSUME NEW g \in Seq(Row) PROVE Frame(g) = KeptIn(g, K)
  <2>1. \A i \in 1 .. Len(g) : g[i] \in K <=> ~IsBlank(g[i])
    OBVIOUS
  <2> QED BY <2>1 DEF Frame, KeptIn
<1>2. K \in SUBSET Row /\ (x \in K <=> ~IsBlank(x))
  OBVIOUS
<1> HIDE DEF K
<1>3. Append(f, x) \in Seq(Row)
  BY AppendProperties
<1>4. KeptIn(f, K) \in Seq(Row)
  <2>1. KeptIn(f, K) \in Seq(K)
    BY <1>2, KeptAppend
  <2> QED BY <1>2, <2>1
<1>5. /\ f = <<>> => KeptIn(f, K) = <<>>
      /\ KeptIn(Append(f, x), K) = IF x \in K THEN Append(KeptIn(f, K), x) ELSE KeptIn(f, K)
  BY <1>2, KeptAppend
<1>6. Frame(f) = KeptIn(f, K) /\ Frame(Append(f, x)) = KeptIn(Append(f, x), K)
  BY <1>1, <1>3
<1> QED BY <1>2, <1>4, <1>5, <1>6

FlatEv == [x \in Row \X Before |-> RowEvents(x[1], x[2])]

\* A row against any counts before it gives a sequence of events.
LEMMA FlatEvType == FlatEv \in [Row \X Before -> Seq(Event)]
BY RowIsInOrder DEF FlatEv

\* extract_flat, one line further: a kept line against the kept line before it.
LEMMA FlatAppend ==
  ASSUME NEW f \in Seq(Row), NEW x \in Row
  PROVE  /\ Flat(f) \in Seq(Event)
         /\ f = <<>> => Flat(f) = <<>>
         /\ Flat(Append(f, x)) =
              IF RowOk(x) THEN Flat(f) \o RowEvents(x, LastOf(Loaded(f))) ELSE Flat(f)
<1>1. ASSUME NEW g \in Seq(Row) PROVE Flat(g) = Pairs(FlatEv, Loaded(g))
  <2>1. PICK rows \in Seq(Row) : rows = Loaded(g)
    BY LoadedAppend
  <2>2. ASSUME NEW i \in 1 .. Len(rows), i # 1
        PROVE  FlatEv[<<rows[i], rows[i - 1].count>>] = RowEvents(rows[i], rows[i - 1].count)
    <3>1. i - 1 \in 1 .. Len(rows)
      BY <2>2
    <3>2. <<rows[i], rows[i - 1].count>> \in Row \X Before
      BY <3>1, CountsOfARow
    <3> QED BY <3>2 DEF FlatEv
  <2>3. [i \in 1 .. Len(rows) |-> IF i = 1 THEN <<>> ELSE FlatEv[<<rows[i], rows[i - 1].count>>]]
        = [i \in 1 .. Len(rows) |-> IF i = 1 THEN <<>> ELSE RowEvents(rows[i], rows[i - 1].count)]
    BY <2>2
  <2> QED BY <2>1, <2>3 DEF Flat, Pairs
<1>2. PICK rows \in Seq(Row) : rows = Loaded(f)
  BY LoadedAppend
<1>3. PICK g \in Seq(Row) : g = Append(f, x)
  BY AppendProperties
<1>4. Flat(f) = Pairs(FlatEv, rows)
  BY <1>1, <1>2
<1>5. Flat(f) \in Seq(Event) /\ (f = <<>> => Flat(f) = <<>>)
  <2>1. f = <<>> => rows = <<>>
    BY <1>2, LoadedAppend
  <2> QED BY <1>4, <2>1, FlatEvType, PairsAppend
<1>6. Flat(g) = IF RowOk(x) THEN Flat(f) \o RowEvents(x, LastOf(rows)) ELSE Flat(f)
  <2>1. CASE ~RowOk(x)
    <3>1. Loaded(g) = rows
      BY <1>2, <1>3, <2>1, LoadedAppend
    <3> QED BY <1>1, <1>4, <2>1, <3>1
  <2>2. CASE RowOk(x)
    <3>1. Loaded(g) = Append(rows, x)
      BY <1>2, <1>3, <2>2, LoadedAppend
    <3>2. Flat(g) = Pairs(FlatEv, Append(rows, x))
      BY <1>1, <3>1
    <3>3. Pairs(FlatEv, Append(rows, x)) = Pairs(FlatEv, rows) \o
            (IF rows = <<>> THEN <<>> ELSE FlatEv[<<x, rows[Len(rows)].count>>])
      BY FlatEvType, PairsAppend
    <3>4. (IF rows = <<>> THEN <<>> ELSE FlatEv[<<x, rows[Len(rows)].count>>]) =
            RowEvents(x, LastOf(rows))
      <4>1. CASE rows = <<>>
        BY <4>1, NothingBefore DEF LastOf
      <4>2. CASE rows # <<>>
        <5>1. LastOf(rows) = rows[Len(rows)].count /\ LastOf(rows) \in Before
          BY <4>2, LastOfAppend DEF LastOf
        <5>2. <<x, LastOf(rows)>> \in Row \X Before
          BY <5>1
        <5> QED BY <4>2, <5>1, <5>2 DEF FlatEv
      <4> QED BY <4>1, <4>2
    <3> QED BY <1>4, <2>2, <3>2, <3>3, <3>4
  <2> QED BY <2>1, <2>2
<1> QED BY <1>2, <1>3, <1>5, <1>6

-----------------------------------------------------------------------------
(* The oracle *)

\* What the union oracle calls an event by: its head and its text.
TextKey(e) == <<e.head, e.ts>>
TextKeysOf(events) == {TextKey(e) : e \in Range(events)}

\* The oracle's events of a row are the extractors', with deltas of its own.
LEMMA OracleEventsAre ==
  ASSUME NEW line \in Row, NEW before \in Before
  PROVE  /\ OracleEvents(line, before) \in Seq(Event)
         /\ Len(OracleEvents(line, before)) = Len(RowEvents(line, before))
         /\ \A k \in 1 .. Len(RowEvents(line, before)) :
              TextKey(OracleEvents(line, before)[k]) = TextKey(RowEvents(line, before)[k])
<1>1. PICK all \in Seq(Event) : all = RowEvents(line, before)
  BY RowIsInOrder
<1> DEFINE D(k) == IF all[k].reset THEN 0 ELSE all[k].seq - before[all[k].head]
<1>2. OracleEvents(line, before) = [k \in 1 .. Len(all) |-> [all[k] EXCEPT !.delta = D(k)]]
  BY <1>1 DEF OracleEvents
<1>3. ASSUME NEW k \in 1 .. Len(all)
      PROVE  D(k) \in Int
  <2>1. PICK h \in Heads : Moved(line, before, h) /\ all[k] = MakeEvent(line, h, before[h])
    BY <1>1, RowIsInOrder, HeadsAreNumbers DEF HeadsInOrder
  <2>2. before[h] \in Counts /\ line.count[h] \in Counts
    BY <2>1 DEF Before, Moved, Row
  <2>3. all[k].head = h /\ all[k].seq = line.count[h]
    BY <2>1 DEF MakeEvent
  <2>4. before[h] \in Int /\ line.count[h] \in Int
    BY <2>2, CountsAreNumbers
  <2> QED BY <2>3, <2>4
<1> HIDE DEF D
<1>4. ASSUME NEW k \in 1 .. Len(all)
      PROVE  /\ [all[k] EXCEPT !.delta = D(k)] \in Event
             /\ TextKey([all[k] EXCEPT !.delta = D(k)]) = TextKey(all[k])
  <2>1. all[k] \in Event
    OBVIOUS
  <2> QED BY <1>3, <2>1 DEF Event, TextKey
<1>5. OracleEvents(line, before) \in Seq(Event) /\ Len(OracleEvents(line, before)) = Len(all)
  <2>1. Len(all) \in Nat
    OBVIOUS
  <2>2. PICK r \in [1 .. Len(all) -> Event] : r = OracleEvents(line, before)
    BY <1>2, <1>4
  <2>3. r \in Seq(Event) /\ Len(r) = Len(all)
    BY <2>1
  <2> QED BY <2>2, <2>3
<1>6. ASSUME NEW k \in 1 .. Len(all) PROVE TextKey(OracleEvents(line, before)[k]) = TextKey(all[k])
  BY <1>2, <1>4
<1> QED BY <1>1, <1>5, <1>6

\* Where nothing saturates, the deltas are the same too.
LEMMA OracleSameEvents ==
  ASSUME NEW line \in Row, NEW before \in Before,
         \A k \in 1 .. Len(RowEvents(line, before)) : RowEvents(line, before)[k].delta < IntMax
  PROVE  OracleEvents(line, before) = RowEvents(line, before)
<1>1. PICK all \in Seq(Event) : all = RowEvents(line, before)
  BY RowIsInOrder
<1> DEFINE D(k) == IF all[k].reset THEN 0 ELSE all[k].seq - before[all[k].head]
<1>2. OracleEvents(line, before) = [k \in 1 .. Len(all) |-> [all[k] EXCEPT !.delta = D(k)]]
  BY <1>1 DEF OracleEvents
<1>3. ASSUME NEW k \in 1 .. Len(all)
      PROVE  D(k) = all[k].delta
  <2>1. PICK h \in Heads : Moved(line, before, h) /\ all[k] = MakeEvent(line, h, before[h])
    BY <1>1, RowIsInOrder, HeadsAreNumbers DEF HeadsInOrder
  <2>2. before[h] \in Counts /\ line.count[h] \in Counts /\ line.count[h] # before[h]
    BY <2>1 DEF Before, Moved, Row
  <2>3. PICK c \in Int, p \in Int : c = line.count[h] /\ p = before[h] /\ c # p
    BY <2>2, CountsAreNumbers
  <2>4. /\ all[k].head = h /\ all[k].seq = c /\ all[k].reset = (c < p)
        /\ all[k].delta = SaturatedDelta(c, p)
    BY <2>1, <2>3 DEF MakeEvent
  <2>5. all[k].delta < IntMax
    BY <1>1
  <2>6. SaturatedDelta(c, p) = IF c < p THEN 0 ELSE c - p
    BY <2>3, <2>4, <2>5, CountsAreNumbers DEF SaturatedDelta
  <2> QED BY <2>3, <2>4, <2>6
<1> HIDE DEF D
<1>4. ASSUME NEW k \in 1 .. Len(all) PROVE [all[k] EXCEPT !.delta = D(k)] = all[k]
  <2>1. all[k] \in Event
    OBVIOUS
  <2> QED BY <1>3, <2>1 DEF Event
<1>5. OracleEvents(line, before) \in Seq(Event) /\ Len(OracleEvents(line, before)) = Len(all)
  BY <1>1, OracleEventsAre
<1>6. \A k \in 1 .. Len(all) : OracleEvents(line, before)[k] = all[k]
  BY <1>2, <1>4
<1>7. OracleEvents(line, before) = all
  BY <1>5, <1>6, SeqEqual
<1> QED BY <1>1, <1>7

OState == [events : Seq(Event), last : Before]
OBase == [events |-> <<>>, last |-> Nothing]

\* A line takes the oracle's state to another.
LEMMA OracleStepType ==
  ASSUME NEW acc \in OState, NEW line \in Row
  PROVE  OracleStep(acc, line) \in OState
<1>1. acc.events \in Seq(Event) /\ acc.last \in Before
  BY DEF OState
<1>2. OracleEvents(line, acc.last) \in Seq(Event)
  BY <1>1, OracleEventsAre
<1>3. acc.events \o OracleEvents(line, acc.last) \in Seq(Event)
  BY <1>1, <1>2, ConcatProperties
<1> QED BY <1>3, CountsOfARow DEF OracleStep, OState

\* run is the table of the oracle's state after i lines, for every i.
OracleTable(run, f) ==
  run = [i \in 0 .. Len(f) |-> IF i = 0 THEN OBase ELSE OracleStep(run[i - 1], f[i])]

\* The oracle's run, with the table it chooses named.
LEMMA OracleDef == \A f : OracleRun(f) = (CHOOSE run : OracleTable(run, f))[Len(f)]
BY DEF OracleRun, OracleTable, OBase, Nothing

IsOracle(g, f) == g[0] = OBase /\ \A i \in 1 .. Len(f) : g[i] = OracleStep(g[i - 1], f[i])

\* There is such a table, and the oracle's run is its end.
LEMMA OracleRunIs ==
  ASSUME NEW f \in Seq(Row)
  PROVE  \E g \in [0 .. Len(f) -> OState] : IsOracle(g, f) /\ OracleRun(f) = g[Len(f)]
<1>1. PICK len \in Nat : len = Len(f)
  OBVIOUS
<1> DEFINE st == [x \in OState \X (1 .. len) |-> OracleStep(x[1], f[x[2]])]
<1>2. \A i \in 1 .. len : f[i] \in Row
  BY <1>1
<1>3. st \in [OState \X (1 .. len) -> OState]
  BY <1>2, OracleStepType
<1>4. OBase \in OState
  BY NothingBefore, EmptySeq DEF OBase, OState, Nothing, Before
<1>5. PICK g \in [0 .. len -> OState] : IsRun(g, len, OBase, st)
  <2> HIDE DEF st
  <2> QED BY <1>3, <1>4, RunExists
<1>6. g[0] = OBase
  BY <1>5 DEF IsRun
<1>7. \A i \in 1 .. len : g[i] = OracleStep(g[i - 1], f[i])
  <2>1. ASSUME NEW i \in 1 .. len PROVE g[i] = OracleStep(g[i - 1], f[i])
    <3>1. i - 1 \in 0 .. len
      OBVIOUS
    <3>2. <<g[i - 1], i>> \in OState \X (1 .. len)
      BY <3>1
    <3>3. st[<<g[i - 1], i>>] = OracleStep(g[i - 1], f[i])
      BY <3>2
    <3>4. g[i] = st[<<g[i - 1], i>>]
      BY <1>5 DEF IsRun
    <3> QED BY <3>3, <3>4
  <2> QED BY <2>1
<1> HIDE DEF st
<1>8. OracleTable(g, f)
  <2>1. \A i \in 0 .. len : g[i] = IF i = 0 THEN OBase ELSE OracleStep(g[i - 1], f[i])
    BY <1>6, <1>7
  <2> QED BY <1>1, <2>1 DEF OracleTable
<1> DEFINE c == CHOOSE run : OracleTable(run, f)
<1>9. OracleTable(c, f) /\ OracleRun(f) = c[len]
  BY <1>1, <1>8, OracleDef
<1> HIDE DEF c
<1>10. \A i \in 0 .. len : c[i] = IF i = 0 THEN OBase ELSE OracleStep(c[i - 1], f[i])
  BY <1>1, <1>9 DEF OracleTable
<1>11. Same(g, c, len)
  <2>1. c[0] = OBase
    BY <1>10
  <2>2. ASSUME NEW i \in 1 .. len, g[i - 1] = c[i - 1] PROVE g[i] = c[i]
    BY <1>7, <1>10, <2>2
  <2>3. StepsAlike(g, c, len)
    BY <2>2 DEF StepsAlike
  <2> QED BY <1>6, <2>1, <2>3, Alike
<1>12. g[len] = c[len]
  BY <1>11 DEF Same
<1> QED BY <1>1, <1>6, <1>7, <1>9, <1>12 DEF IsOracle

\* The oracle, one line further.
LEMMA OracleAppend ==
  ASSUME NEW f \in Seq(Row), NEW x \in Row
  PROVE  /\ OracleRun(f) \in OState
         /\ f = <<>> => OracleRun(f) = OBase
         /\ OracleRun(Append(f, x)) = OracleStep(OracleRun(f), x)
<1>1. PICK len \in Nat : len = Len(f)
  OBVIOUS
<1>2. PICK ff \in Seq(Row) : ff = Append(f, x)
  BY AppendProperties
<1>3. Len(ff) = len + 1 /\ ff[len + 1] = x /\ \A i \in 1 .. len : ff[i] = f[i]
  BY <1>1, <1>2, AppendProperties
<1>4. PICK g \in [0 .. len -> OState] : IsOracle(g, f) /\ OracleRun(f) = g[len]
  BY <1>1, OracleRunIs
<1>5. PICK h \in [0 .. len + 1 -> OState] : IsOracle(h, ff) /\ OracleRun(ff) = h[len + 1]
  BY <1>3, OracleRunIs
<1>6. g[0] = h[0] /\ g[0] = OBase
  BY <1>4, <1>5 DEF IsOracle
<1>7. Same(g, h, len)
  <2>1. ASSUME NEW i \in 1 .. len, g[i - 1] = h[i - 1] PROVE g[i] = h[i]
    <3>1. i \in 1 .. len + 1
      OBVIOUS
    <3>2. g[i] = OracleStep(g[i - 1], f[i]) /\ h[i] = OracleStep(h[i - 1], ff[i])
      BY <1>1, <1>3, <1>4, <1>5, <3>1 DEF IsOracle
    <3> QED BY <1>3, <2>1, <3>2
  <2>2. StepsAlike(g, h, len)
    BY <2>1 DEF StepsAlike
  <2> QED BY <1>6, <2>2, Alike
<1>8. PICK k \in 1 .. Len(ff) : k = len + 1
  BY <1>3
<1>9. h[k] = OracleStep(g[len], x)
  <2>1. k - 1 = len /\ len \in 0 .. len
    BY <1>8
  <2>2. h[k] = OracleStep(h[k - 1], ff[k])
    BY <1>5 DEF IsOracle
  <2>3. ff[k] = x
    BY <1>3, <1>8
  <2>4. h[len] = g[len]
    BY <1>7, <2>1 DEF Same
  <2> QED BY <2>1, <2>2, <2>3, <2>4
<1>10. OracleRun(f) \in OState
  BY <1>4
<1> QED BY <1>1, <1>2, <1>4, <1>5, <1>6, <1>8, <1>9, <1>10

\* What the oracle finds where the row policies agree on every line of f.
OracleInv(f) ==
  SamePolicy(f) =>
    /\ OracleRun(f).last = LastOf(Loaded(f))
    /\ TextKeysOf(Oracle(f)) = TextKeysOf(Flat(f))
    /\ (\A k \in 1 .. Len(Flat(f)) : Flat(f)[k].delta < IntMax) => Oracle(f) = Flat(f)

KeysOf(events) == {Key(e) : e \in Range(events)}

\* Two sequences of events joined have the keys of both.
LEMMA KeysOfJoin ==
  ASSUME NEW s \in Seq(Event), NEW t \in Seq(Event)
  PROVE  /\ KeysOf(s \o t) = KeysOf(s) \cup KeysOf(t)
         /\ TextKeysOf(s \o t) = TextKeysOf(s) \cup TextKeysOf(t)
<1>1. Range(s \o t) = Range(s) \cup Range(t)
  <2>1. DOMAIN s = 1 .. Len(s) /\ DOMAIN t = 1 .. Len(t) /\ DOMAIN (s \o t) = 1 .. Len(s) + Len(t)
    BY ConcatProperties, LenProperties
  <2>2. Len(s) \in Nat /\ Len(t) \in Nat
    OBVIOUS
  <2>3. \A i \in 1 .. Len(s) + Len(t) :
          (s \o t)[i] = IF i <= Len(s) THEN s[i] ELSE t[i - Len(s)]
    BY ConcatProperties
  <2>4. ASSUME NEW i \in 1 .. Len(s) + Len(t) PROVE (s \o t)[i] \in Range(s) \cup Range(t)
    <3>1. CASE i <= Len(s)
      BY <2>1, <2>2, <2>3, <3>1 DEF Range
    <3>2. CASE ~(i <= Len(s))
      <4>1. i - Len(s) \in 1 .. Len(t)
        BY <2>2, <3>2
      <4> QED BY <2>1, <2>3, <3>2, <4>1 DEF Range
    <3> QED BY <3>1, <3>2
  <2>5. ASSUME NEW i \in 1 .. Len(s) PROVE s[i] \in Range(s \o t)
    <3>1. i \in 1 .. Len(s) + Len(t) /\ (s \o t)[i] = s[i]
      BY <2>2, <2>3
    <3> QED BY <2>1, <3>1 DEF Range
  <2>6. ASSUME NEW i \in 1 .. Len(t) PROVE t[i] \in Range(s \o t)
    <3>1. PICK j \in 1 .. Len(s) + Len(t) : j = Len(s) + i
      BY <2>2
    <3>2. (s \o t)[j] = t[i]
      <4>1. ~(j <= Len(s)) /\ j - Len(s) = i
        BY <2>2, <3>1
      <4> QED BY <2>3, <4>1
    <3> QED BY <2>1, <3>1, <3>2 DEF Range
  <2> QED BY <2>1, <2>4, <2>5, <2>6 DEF Range
<1> QED BY <1>1 DEF KeysOf, TextKeysOf

\* Two sequences of events that match entry by entry have the same keys.
LEMMA KeysOfMatch ==
  ASSUME NEW s \in Seq(Event), NEW t \in Seq(Event), Len(s) = Len(t),
         \A k \in 1 .. Len(s) : TextKey(s[k]) = TextKey(t[k])
  PROVE  TextKeysOf(s) = TextKeysOf(t)
<1>1. DOMAIN s = 1 .. Len(s) /\ DOMAIN t = 1 .. Len(s)
  OBVIOUS
<1> QED BY <1>1 DEF TextKeysOf, Range

\* A line that both policies keep or neither: the oracle stays in step.
LEMMA OracleStays ==
  ASSUME NEW f \in Seq(Row), NEW x \in Row, OracleInv(f)
  PROVE  OracleInv(Append(f, x))
<1>1. PICK g \in Seq(Row) : g = Append(f, x)
  BY AppendProperties
<1>2. SUFFICES ASSUME SamePolicy(g)
               PROVE  /\ OracleRun(g).last = LastOf(Loaded(g))
                      /\ TextKeysOf(Oracle(g)) = TextKeysOf(Flat(g))
                      /\ (\A k \in 1 .. Len(Flat(g)) : Flat(g)[k].delta < IntMax) => Oracle(g) = Flat(g)
  BY <1>1 DEF OracleInv
<1>3. SamePolicy(f) /\ (OracleKeeps(x) <=> RowOk(x))
  <2>1. Len(g) = Len(f) + 1 /\ g[Len(f) + 1] = x /\ \A i \in 1 .. Len(f) : g[i] = f[i]
    BY <1>1, AppendProperties
  <2>2. DOMAIN f = 1 .. Len(f) /\ DOMAIN g = 1 .. Len(f) + 1 /\ Len(f) \in Nat
    BY <2>1
  <2>3. \A i \in 1 .. Len(f) : i \in DOMAIN g
    BY <2>2
  <2>4. Len(f) + 1 \in DOMAIN g
    BY <2>2
  <2> QED BY <1>2, <2>1, <2>2, <2>3, <2>4 DEF SamePolicy
<1>4. /\ OracleRun(f).last = LastOf(Loaded(f))
      /\ TextKeysOf(Oracle(f)) = TextKeysOf(Flat(f))
      /\ (\A k \in 1 .. Len(Flat(f)) : Flat(f)[k].delta < IntMax) => Oracle(f) = Flat(f)
  BY <1>3 DEF OracleInv
<1>5. /\ OracleRun(g) = OracleStep(OracleRun(f), x)
      /\ Oracle(f) \in Seq(Event) /\ Flat(f) \in Seq(Event) /\ Loaded(f) \in Seq(Row)
      /\ Flat(g) = IF RowOk(x) THEN Flat(f) \o RowEvents(x, LastOf(Loaded(f))) ELSE Flat(f)
      /\ Loaded(g) = IF RowOk(x) THEN Append(Loaded(f), x) ELSE Loaded(f)
  BY <1>1, OracleAppend, FlatAppend, LoadedAppend DEF Oracle, OState
<1>6. CASE ~RowOk(x)
  <2>1. OracleRun(g) = OracleRun(f)
    BY <1>3, <1>5, <1>6 DEF OracleStep
  <2> QED BY <1>4, <1>5, <1>6, <2>1 DEF Oracle
<1>7. CASE RowOk(x)
  <2>1. PICK before \in Before : before = LastOf(Loaded(f))
    BY <1>5, LastOfAppend
  <2>2. PICK new \in Seq(Event) : new = RowEvents(x, before)
    BY RowIsInOrder
  <2>3. PICK own \in Seq(Event) : own = OracleEvents(x, before)
    BY OracleEventsAre
  <2>4. Oracle(g) = Oracle(f) \o own /\ OracleRun(g).last = x.count
    BY <1>3, <1>4, <1>5, <1>7, <2>1, <2>3 DEF OracleStep, Oracle
  <2>5. Flat(g) = Flat(f) \o new /\ LastOf(Loaded(g)) = x.count
    BY <1>5, <1>7, <2>1, <2>2, LastOfAppend
  <2>6. TextKeysOf(own) = TextKeysOf(new)
    BY <2>2, <2>3, OracleEventsAre, KeysOfMatch
  <2>7. TextKeysOf(Oracle(g)) = TextKeysOf(Flat(g))
    <3>1. TextKeysOf(Oracle(g)) = TextKeysOf(Oracle(f)) \cup TextKeysOf(own)
      BY <1>5, <2>4, KeysOfJoin
    <3>2. TextKeysOf(Flat(g)) = TextKeysOf(Flat(f)) \cup TextKeysOf(new)
      BY <1>5, <2>5, KeysOfJoin
    <3> QED BY <1>4, <2>6, <3>1, <3>2
  <2>8. ASSUME \A k \in 1 .. Len(Flat(g)) : Flat(g)[k].delta < IntMax
        PROVE  Oracle(g) = Flat(g)
    <3>1. Len(Flat(f)) \in Nat /\ Len(new) \in Nat /\ Len(Flat(g)) = Len(Flat(f)) + Len(new)
      BY <1>5, <2>5, ConcatProperties
    <3>2. ASSUME NEW k \in 1 .. Len(Flat(f)) PROVE Flat(f)[k].delta < IntMax
      <4>1. k \in 1 .. Len(Flat(g)) /\ Flat(g)[k] = Flat(f)[k]
        BY <1>5, <2>5, <3>1, ConcatProperties
      <4> QED BY <2>8, <4>1
    <3>3. ASSUME NEW k \in 1 .. Len(new) PROVE new[k].delta < IntMax
      <4>1. PICK j \in 1 .. Len(Flat(g)) : j = Len(Flat(f)) + k
        BY <3>1
      <4>2. ~(j <= Len(Flat(f))) /\ j - Len(Flat(f)) = k
        BY <3>1, <4>1
      <4>3. (Flat(f) \o new)[j] = IF j <= Len(Flat(f)) THEN Flat(f)[j] ELSE new[j - Len(Flat(f))]
        BY <1>5, <3>1, <4>1, ConcatProperties
      <4>4. Flat(g)[j] = new[k]
        BY <2>5, <4>2, <4>3
      <4> QED BY <2>8, <4>1, <4>4
    <3>4. own = new
      BY <2>2, <2>3, <3>3, OracleSameEvents
    <3> QED BY <1>4, <2>4, <2>5, <3>2, <3>4
  <2> QED BY <2>4, <2>5, <2>7, <2>8
<1> QED BY <1>6, <1>7

OracleEv == [x \in Row \X Before |-> OracleEvents(x[1], x[2])]

\* What the vectorized oracle finds in lines that read_csv takes.
VectorizedInv(f) ==
  (\A i \in 1 .. Len(Frame(f)) : PandasTakes(Frame(f)[i])) =>
    /\ Pairs(OracleEv, Frame(f)) = Oracle(f)
    /\ OracleRun(f).last = LastOf(Frame(f))

\* read_csv's rows are rows, also of an empty file.
LEMMA FrameType ==
  ASSUME NEW f \in Seq(Row)
  PROVE  Frame(f) \in Seq(Row)
<1> DEFINE Table == [i \in 1 .. Len(f) |-> IF IsBlank(f[i]) THEN <<>> ELSE <<f[i]>>]
<1>1. \A i \in 1 .. Len(f) : Table[i] \in Seq(Row)
  OBVIOUS
<1>2. Table \in Seq(Seq(Row))
  BY <1>1
<1>3. Frame(f) = FlattenSeq(Table)
  BY DEF Frame
<1>4. <<>> \in Seq(Row)
  OBVIOUS
<1> HIDE DEF Table
<1> QED BY <1>2, <1>3, <1>4, FlattenAppend

\* The two oracles agree: on dirty input one is the other.
LEMMA VectorizedIsOracle ==
  ASSUME NEW f \in Seq(Row), VectorizedInv(f)
  PROVE  Vectorized(f) = Oracle(f)
<1>1. PICK rows \in Seq(Row) : rows = Frame(f)
  BY FrameType
<1>2. DOMAIN rows = 1 .. Len(rows)
  OBVIOUS
<1>3. CASE \E i \in DOMAIN rows : ~PandasTakes(rows[i])
  BY <1>1, <1>3 DEF Vectorized
<1>4. CASE ~\E i \in DOMAIN rows : ~PandasTakes(rows[i])
  <2>1. ASSUME NEW i \in 1 .. Len(rows), i # 1
        PROVE  OracleEv[<<rows[i], rows[i - 1].count>>] = OracleEvents(rows[i], rows[i - 1].count)
    <3>1. i - 1 \in 1 .. Len(rows)
      BY <2>1
    <3>2. <<rows[i], rows[i - 1].count>> \in Row \X Before
      BY <3>1, CountsOfARow
    <3> QED BY <3>2 DEF OracleEv
  <2>2. [i \in 1 .. Len(rows) |-> IF i = 1 THEN <<>> ELSE OracleEv[<<rows[i], rows[i - 1].count>>]]
        = [i \in 1 .. Len(rows) |-> IF i = 1 THEN <<>> ELSE OracleEvents(rows[i], rows[i - 1].count)]
    BY <2>1
  <2>3. Vectorized(f) = Pairs(OracleEv, rows)
    BY <1>1, <1>4, <2>2 DEF Vectorized, Pairs
  <2>4. Pairs(OracleEv, rows) = Oracle(f)
    BY <1>1, <1>2, <1>4 DEF VectorizedInv
  <2> QED BY <2>3, <2>4
<1> QED BY <1>3, <1>4

\* One more line keeps the vectorized oracle in step.
LEMMA VectorizedStays ==
  ASSUME NEW f \in Seq(Row), NEW x \in Row, VectorizedInv(f)
  PROVE  VectorizedInv(Append(f, x))
<1>1. PICK g \in Seq(Row) : g = Append(f, x)
  BY AppendProperties
<1>2. PICK rows \in Seq(Row) : rows = Frame(f)
  BY FrameAppend
<1>3. PICK all \in Seq(Row) : all = Frame(g)
  BY <1>1, FrameAppend
<1>4. SUFFICES ASSUME \A i \in 1 .. Len(all) : PandasTakes(all[i])
               PROVE  Pairs(OracleEv, all) = Oracle(g) /\ OracleRun(g).last = LastOf(all)
  BY <1>1, <1>3 DEF VectorizedInv
<1>5. /\ OracleRun(g) = OracleStep(OracleRun(f), x)
      /\ all = IF IsBlank(x) THEN rows ELSE Append(rows, x)
  BY <1>1, <1>2, <1>3, OracleAppend, FrameAppend
<1>6. CASE IsBlank(x)
  <2>1. OracleRun(g) = OracleRun(f)
    BY <1>5, <1>6 DEF OracleStep, OracleKeeps, RowOk, IsBlank
  <2>2. Pairs(OracleEv, rows) = Oracle(f) /\ OracleRun(f).last = LastOf(rows)
    BY <1>2, <1>4, <1>5, <1>6 DEF VectorizedInv
  <2> QED BY <1>5, <1>6, <2>1, <2>2 DEF Oracle
<1>7. CASE ~IsBlank(x)
  <2>1. all = Append(rows, x) /\ Len(all) = Len(rows) + 1 /\ all[Len(rows) + 1] = x
        /\ \A i \in 1 .. Len(rows) : all[i] = rows[i]
    BY <1>5, <1>7, AppendProperties
  <2>2. Len(rows) \in Nat
    OBVIOUS
  <2>3. \A i \in 1 .. Len(rows) : PandasTakes(rows[i])
    <3>1. \A i \in 1 .. Len(rows) : i \in 1 .. Len(all)
      BY <2>1, <2>2
    <3> QED BY <1>4, <2>1, <3>1
  <2>4. PandasTakes(x)
    <3>1. Len(rows) + 1 \in 1 .. Len(all)
      BY <2>1, <2>2
    <3> QED BY <1>4, <2>1, <3>1
  <2>5. OracleKeeps(x)
    BY <2>4 DEF PandasTakes, OracleKeeps, RowOk
  <2>6. Pairs(OracleEv, rows) = Oracle(f) /\ OracleRun(f).last = LastOf(rows)
    BY <1>2, <2>3 DEF VectorizedInv
  <2>7. Oracle(g) = Oracle(f) \o OracleEvents(x, LastOf(rows)) /\ OracleRun(g).last = x.count
    BY <1>5, <2>5, <2>6 DEF OracleStep, Oracle
  <2>8. OracleEv \in [Row \X Before -> Seq(Event)]
    BY OracleEventsAre DEF OracleEv
  <2>9. Pairs(OracleEv, all) = Pairs(OracleEv, rows) \o
          (IF rows = <<>> THEN <<>> ELSE OracleEv[<<x, rows[Len(rows)].count>>])
    BY <2>1, <2>8, PairsAppend
  <2>10. (IF rows = <<>> THEN <<>> ELSE OracleEv[<<x, rows[Len(rows)].count>>]) =
            OracleEvents(x, LastOf(rows))
    <3>1. CASE rows = <<>>
      <4>1. LastOf(rows) = Nothing
        BY <3>1 DEF LastOf
      <4>2. PICK own \in Seq(Event) : own = OracleEvents(x, Nothing) /\ Len(own) = Len(RowEvents(x, Nothing))
        BY NothingBefore, OracleEventsAre
      <4>3. Len(own) = 0
        BY <4>2, NothingBefore
      <4>4. own = <<>>
        BY <4>3, EmptySeq
      <4> QED BY <3>1, <4>1, <4>2, <4>4
    <3>2. CASE rows # <<>>
      <4>1. LastOf(rows) = rows[Len(rows)].count /\ LastOf(rows) \in Before
        BY <3>2, LastOfAppend DEF LastOf
      <4>2. <<x, LastOf(rows)>> \in Row \X Before
        BY <4>1
      <4> QED BY <3>2, <4>1, <4>2 DEF OracleEv
    <3> QED BY <3>1, <3>2
  <2>11. LastOf(all) = x.count
    BY <2>1, LastOfAppend
  <2> QED BY <2>6, <2>7, <2>9, <2>10, <2>11
<1> QED BY <1>6, <1>7

-----------------------------------------------------------------------------
(* The CUDA pipeline *)

\* A bounded set of numbers has a greatest member.
LEMMA Greatest ==
  ASSUME NEW len \in Nat, NEW T \in SUBSET (1 .. len), T # {}
  PROVE  \E m \in T : \A k \in T : k <= m
<1> DEFINE U == {len - k : k \in T}
<1>1. U \in SUBSET Nat /\ U # {}
  <2>1. PICK t \in T : TRUE
    OBVIOUS
  <2>2. len - t \in U
    BY <2>1
  <2>3. \A k \in T : len - k \in Nat
    OBVIOUS
  <2> QED BY <2>2, <2>3
<1>2. PICK u \in U : \A v \in U : u <= v
  <2> HIDE DEF U
  <2> QED BY <1>1, Least
<1>3. PICK m \in T : u = len - m
  OBVIOUS
<1>4. ASSUME NEW k \in T PROVE k <= m
  <2>1. len - k \in U /\ k \in 1 .. len /\ m \in 1 .. len
    OBVIOUS
  <2>2. u <= len - k
    BY <1>2, <2>1
  <2> QED BY <1>3, <2>1, <2>2
<1> QED BY <1>4

\* The lines with cells in them, and the counts of the last of them.
Real(f) == {j \in 1 .. Len(f) : ~IsBlank(f[j])}
LastReal(f) == CHOOSE j \in Real(f) : \A k \in Real(f) : k <= j
DeviceLast(f) == f[LastReal(f)].count

\* A file with a line that is not blank has a last one.
LEMMA LastRealIs ==
  ASSUME NEW f \in Seq(Row), Real(f) # {}
  PROVE  /\ LastReal(f) \in Real(f) /\ \A k \in Real(f) : k <= LastReal(f)
         /\ DeviceLast(f) \in [Heads -> Counts]
<1>1. PICK len \in Nat : len = Len(f)
  OBVIOUS
<1>2. Real(f) \in SUBSET (1 .. len)
  BY <1>1 DEF Real
<1>3. \E m \in Real(f) : \A k \in Real(f) : k <= m
  BY <1>2, Greatest
<1>4. LastReal(f) \in Real(f) /\ \A k \in Real(f) : k <= LastReal(f)
  BY <1>3 DEF LastReal
<1>5. f[LastReal(f)] \in Row
  BY <1>1, <1>2, <1>4
<1> QED BY <1>4, <1>5, CountsOfARow DEF DeviceLast

\* What the device finds in line x after the lines of f.
NewDeviceEvents(f, x) ==
  IF IsBlank(x) \/ Real(f) = {} THEN <<>> ELSE RowEvents(x, DeviceLast(f))

\* What a line adds to the device's events is a sequence of events.
LEMMA NewDeviceType ==
  ASSUME NEW f \in Seq(Row), NEW x \in Row
  PROVE  NewDeviceEvents(f, x) \in Seq(Event)
<1>1. Real(f) # {} => DeviceLast(f) \in Before
  BY LastRealIs DEF Before
<1>2. <<>> \in Seq(Event)
  OBVIOUS
<1> QED BY <1>1, <1>2, RowIsInOrder DEF NewDeviceEvents

\* Every line's device events are those of a new line after the lines before it.
LEMMA DeviceIsLocal ==
  ASSUME NEW f \in Seq(Row), NEW i \in 1 .. Len(f), NEW g \in Seq(Row),
         Len(g) = i - 1, \A j \in 1 .. i - 1 : g[j] = f[j]
  PROVE  DeviceEvents(f, i) = NewDeviceEvents(g, f[i])
<1>1. RealBefore(f, i) = Real(g)
  BY DEF RealBefore, Real
<1>2. CASE Real(g) = {}
  BY <1>1, <1>2 DEF DeviceEvents, NewDeviceEvents
<1>3. CASE Real(g) # {}
  <2>1. LastReal(g) \in Real(g)
    BY <1>3, LastRealIs
  <2>2. LastReal(g) \in 1 .. i - 1
    BY <2>1 DEF Real
  <2>3. f[LastReal(g)].count = DeviceLast(g)
    BY <2>2 DEF DeviceLast
  <2>4. RowBefore(f, i) = LastReal(g)
    BY <1>1 DEF RowBefore, LastReal
  <2>5. DeviceEvents(f, i) = IF IsBlank(f[i]) \/ RealBefore(f, i) = {} THEN <<>>
                             ELSE RowEvents(f[i], f[LastReal(g)].count)
    BY <2>4 DEF DeviceEvents
  <2> QED BY <1>1, <2>3, <2>5 DEF NewDeviceEvents
<1> QED BY <1>2, <1>3

\* The first lines of a file.
LEMMA FirstLines ==
  ASSUME NEW f \in Seq(Row), NEW i \in 1 .. Len(f)
  PROVE  \E g \in Seq(Row) : Len(g) = i - 1 /\ \A j \in 1 .. i - 1 : g[j] = f[j]
<1> DEFINE g == [j \in 1 .. i - 1 |-> f[j]]
<1>1. i - 1 \in Nat /\ \A j \in 1 .. i - 1 : j \in 1 .. Len(f)
  OBVIOUS
<1>2. g \in Seq(Row) /\ Len(g) = i - 1 /\ \A j \in 1 .. i - 1 : g[j] = f[j]
  BY <1>1
<1> QED BY <1>2

\* The device, one line further: the lines before keep their events.
LEMMA DeviceAppend ==
  ASSUME NEW f \in Seq(Row), NEW x \in Row
  PROVE  /\ \A i \in 1 .. Len(f) : /\ DeviceEvents(f, i) \in Seq(Event)
                                  /\ DeviceEvents(Append(f, x), i) = DeviceEvents(f, i)
         /\ DeviceEvents(Append(f, x), Len(f) + 1) = NewDeviceEvents(f, x)
<1>1. PICK len \in Nat : len = Len(f)
  OBVIOUS
<1>2. PICK ff \in Seq(Row) : ff = Append(f, x)
  BY AppendProperties
<1>3. Len(ff) = len + 1 /\ ff[len + 1] = x /\ \A i \in 1 .. len : ff[i] = f[i]
  BY <1>1, <1>2, AppendProperties
<1>4. ASSUME NEW i \in 1 .. len
      PROVE  DeviceEvents(f, i) \in Seq(Event) /\ DeviceEvents(ff, i) = DeviceEvents(f, i)
  <2>1. PICK g \in Seq(Row) : Len(g) = i - 1 /\ \A j \in 1 .. i - 1 : g[j] = f[j]
    BY <1>1, FirstLines
  <2>2. i \in 1 .. Len(ff) /\ f[i] \in Row /\ ff[i] = f[i] /\ \A j \in 1 .. i - 1 : g[j] = ff[j]
    <3>1. \A j \in 1 .. i - 1 : j \in 1 .. len
      OBVIOUS
    <3> QED BY <1>1, <1>3, <2>1, <3>1
  <2>3. DeviceEvents(f, i) = NewDeviceEvents(g, f[i])
    BY <1>1, <2>1, DeviceIsLocal
  <2>4. DeviceEvents(ff, i) = NewDeviceEvents(g, ff[i])
    BY <2>1, <2>2, DeviceIsLocal
  <2> QED BY <2>2, <2>3, <2>4, NewDeviceType
<1>5. DeviceEvents(ff, len + 1) = NewDeviceEvents(f, x)
  <2>1. PICK i \in 1 .. Len(ff) : i = len + 1
    BY <1>3
  <2>2. Len(f) = i - 1 /\ \A j \in 1 .. i - 1 : f[j] = ff[j]
    BY <1>1, <1>3, <2>1
  <2>3. DeviceEvents(ff, i) = NewDeviceEvents(f, ff[i])
    BY <2>2, DeviceIsLocal
  <2> QED BY <1>3, <2>1, <2>3
<1> QED BY <1>1, <1>2, <1>4, <1>5

\* The pipeline's events, one line further.
LEMMA CudaAppend ==
  ASSUME NEW f \in Seq(Row), NEW x \in Row
  PROVE  /\ Cuda(f) \in Seq(Event)
         /\ f = <<>> => Cuda(f) = <<>>
         /\ Cuda(Append(f, x)) = Cuda(f) \o NewDeviceEvents(f, x)
<1> DEFINE Table(g) == [i \in 1 .. Len(g) |-> DeviceEvents(g, i)]
<1>1. PICK len \in Nat : len = Len(f)
  OBVIOUS
<1>2. PICK ff \in Seq(Row) : ff = Append(f, x)
  BY AppendProperties
<1>3. Len(ff) = len + 1
  BY <1>1, <1>2, AppendProperties
<1>4. PICK new \in Seq(Event) : new = NewDeviceEvents(f, x)
  BY NewDeviceType
<1>5. /\ \A i \in 1 .. len : /\ DeviceEvents(f, i) \in Seq(Event)
                             /\ DeviceEvents(ff, i) = DeviceEvents(f, i)
      /\ DeviceEvents(ff, len + 1) = new
  BY <1>1, <1>2, <1>4, DeviceAppend
<1>6. Table(f) \in Seq(Seq(Event)) /\ Len(Table(f)) = len
  BY <1>1, <1>5
<1>7. \A i \in 1 .. len + 1 : DeviceEvents(ff, i) \in Seq(Event)
  <2>1. \A i \in 1 .. len + 1 : i \in 1 .. len \/ i = len + 1
    OBVIOUS
  <2> QED BY <1>5, <2>1
<1>8. Table(ff) \in Seq(Seq(Event)) /\ Len(Table(ff)) = len + 1
  BY <1>3, <1>7
<1>9. Table(ff)[len + 1] = new /\ \A i \in 1 .. len : Table(ff)[i] = Table(f)[i]
  <2>1. len + 1 \in 1 .. Len(ff) /\ \A i \in 1 .. len : i \in 1 .. Len(ff)
    BY <1>3
  <2> QED BY <1>1, <1>5, <2>1
<1>10. f = <<>> => Table(f) = <<>>
  OBVIOUS
<1>11. Cuda(f) = FlattenSeq(Table(f)) /\ Cuda(ff) = FlattenSeq(Table(ff))
  BY DEF Cuda
<1> HIDE DEF Table
<1>12. Table(ff) = Append(Table(f), new)
  BY <1>6, <1>8, <1>9, IsAppend
<1>13. /\ FlattenSeq(Table(f)) \in Seq(Event)
       /\ Table(f) = <<>> => FlattenSeq(Table(f)) = <<>>
       /\ FlattenSeq(Table(ff)) = FlattenSeq(Table(f)) \o new
  BY <1>6, <1>12, FlattenAppend
<1> QED BY <1>2, <1>4, <1>10, <1>11, <1>13

\* The lines with cells, one line further.
LEMMA RealAppend ==
  ASSUME NEW f \in Seq(Row), NEW x \in Row
  PROVE  /\ f = <<>> => Real(f) = {}
         /\ IsBlank(x) => /\ Real(Append(f, x)) = Real(f)
                          /\ Real(f) # {} => DeviceLast(Append(f, x)) = DeviceLast(f)
         /\ ~IsBlank(x) => /\ Real(Append(f, x)) # {}
                           /\ DeviceLast(Append(f, x)) = x.count
<1>1. PICK len \in Nat : len = Len(f)
  OBVIOUS
<1>2. PICK g \in Seq(Row) : g = Append(f, x)
  BY AppendProperties
<1>3. Len(g) = len + 1 /\ g[len + 1] = x /\ \A i \in 1 .. len : g[i] = f[i]
  BY <1>1, <1>2, AppendProperties
<1>4. \A i \in 1 .. len + 1 : i \in 1 .. len \/ i = len + 1
  OBVIOUS
<1>5. ASSUME IsBlank(x)
      PROVE  Real(g) = Real(f) /\ (Real(f) # {} => DeviceLast(g) = DeviceLast(f))
  <2>1. Real(g) = Real(f)
    BY <1>1, <1>3, <1>4, <1>5 DEF Real
  <2>2. ASSUME Real(f) # {} PROVE DeviceLast(g) = DeviceLast(f)
    <3>1. LastReal(f) \in Real(f) /\ LastReal(g) = LastReal(f)
      BY <2>1, <2>2, LastRealIs DEF LastReal
    <3>2. LastReal(f) \in 1 .. len
      BY <1>1, <3>1 DEF Real
    <3> QED BY <1>3, <3>1, <3>2 DEF DeviceLast
  <2> QED BY <2>1, <2>2
<1>6. ASSUME ~IsBlank(x)
      PROVE  Real(g) # {} /\ DeviceLast(g) = x.count
  <2>1. len + 1 \in Real(g) /\ \A k \in Real(g) : k \in 1 .. len + 1
    BY <1>3, <1>6 DEF Real
  <2>2. LastReal(g) \in Real(g) /\ len + 1 <= LastReal(g)
    BY <2>1, LastRealIs
  <2>3. LastReal(g) = len + 1
    BY <2>1, <2>2
  <2> QED BY <1>3, <2>1, <2>3 DEF DeviceLast
<1>7. f = <<>> => Real(f) = {}
  BY DEF Real
<1> QED BY <1>2, <1>5, <1>6, <1>7

\* What the host lets through, whatever the length of the file.
Checked(f) ==
  \A i \in 1 .. Len(f) :
    /\ f[i].kind \notin {"oddCount", "junkCount", "short", "extra", "comma"}
    /\ f[i].kind \in {"junkCell", "nanCell"} => DeviceEvents(f, i) = <<>>

\* Where the pipeline is, next to the flat extractor.
CudaInv(f) ==
  /\ Real(f) = {} => Loaded(f) = <<>> /\ Flat(f) = <<>> /\ Cuda(f) = <<>>
  /\ Len(f) <= 1 => Flat(f) = <<>> /\ Cuda(f) = <<>>
  /\ SeedKept(f) /\ Checked(f) =>
       /\ Cuda(f) = Flat(f)
       /\ Real(f) # {} /\ DeviceLast(f) = LastOf(Loaded(f))

\* From it, what CudaAgreesPastTheSeed says of the file.
LEMMA CudaFinds ==
  ASSUME NEW f \in Seq(Row), CudaInv(f), SeedKept(f), ~CudaRefuses(f)
  PROVE  Cuda(f) = Flat(f)
<1>1. DOMAIN f = 1 .. Len(f) /\ Len(f) \in Nat
  OBVIOUS
<1>2. CASE Len(f) >= 2
  <2>1. Checked(f)
    BY <1>1, <1>2 DEF CudaRefuses, Checked
  <2> QED BY <2>1 DEF CudaInv
<1>3. CASE ~(Len(f) >= 2)
  BY <1>1, <1>3 DEF CudaInv
<1> QED BY <1>2, <1>3

\* The pipeline stays in step: a kept line is read against the same counts, a
\* line that is let through although it is not kept repeats them.
LEMMA CudaStays ==
  ASSUME NEW f \in Seq(Row), NEW x \in Row, CudaInv(f)
  PROVE  CudaInv(Append(f, x))
<1>1. PICK len \in Nat : len = Len(f)
  OBVIOUS
<1>2. PICK g \in Seq(Row) : g = Append(f, x)
  BY AppendProperties
<1>3. Len(g) = len + 1 /\ g[len + 1] = x /\ (\A i \in 1 .. len : g[i] = f[i])
      /\ DOMAIN f = 1 .. len /\ DOMAIN g = 1 .. len + 1
  BY <1>1, <1>2, AppendProperties
<1>4. \A i \in 1 .. len + 1 : i \in 1 .. len \/ i = len + 1
  OBVIOUS
<1>5. PICK rows \in Seq(Row) : rows = Loaded(f)
  BY LoadedAppend
<1>6. /\ Loaded(g) = IF RowOk(x) THEN Append(rows, x) ELSE rows
      /\ Flat(f) \in Seq(Event) /\ Cuda(f) \in Seq(Event)
      /\ Flat(g) = IF RowOk(x) THEN Flat(f) \o RowEvents(x, LastOf(rows)) ELSE Flat(f)
      /\ Cuda(g) = Cuda(f) \o NewDeviceEvents(f, x)
      /\ DeviceEvents(g, len + 1) = NewDeviceEvents(f, x)
  BY <1>1, <1>2, <1>5, LoadedAppend, FlatAppend, CudaAppend, DeviceAppend
<1>7. ASSUME Real(f) = {}
      PROVE  /\ Flat(g) = <<>> /\ Cuda(g) = <<>>
             /\ IsBlank(x) => Loaded(g) = <<>>
             /\ RowOk(x) => LastOf(Loaded(g)) = x.count
  <2>1. rows = <<>> /\ Flat(f) = <<>> /\ Cuda(f) = <<>> /\ NewDeviceEvents(f, x) = <<>>
    BY <1>5, <1>7 DEF CudaInv, NewDeviceEvents
  <2>2. RowEvents(x, LastOf(rows)) = <<>>
    BY <2>1, NothingBefore DEF LastOf
  <2>3. <<>> \o <<>> = <<>>
    OBVIOUS
  <2>4. IsBlank(x) => ~RowOk(x)
    BY DEF IsBlank, RowOk
  <2>5. RowOk(x) => LastOf(Loaded(g)) = x.count
    BY <1>6, LastOfAppend
  <2> QED BY <1>6, <2>1, <2>2, <2>3, <2>4, <2>5
<1>8. ASSUME Real(g) = {} PROVE Loaded(g) = <<>> /\ Flat(g) = <<>> /\ Cuda(g) = <<>>
  <2>1. IsBlank(x) /\ Real(f) = {}
    BY <1>2, <1>8, RealAppend
  <2> QED BY <1>7, <2>1
<1>9. ASSUME Len(g) <= 1 PROVE Flat(g) = <<>> /\ Cuda(g) = <<>>
  <2>1. len = 0
    BY <1>3, <1>9
  <2>2. f = <<>>
    BY <1>1, <2>1, EmptySeq
  <2>3. Real(f) = {}
    BY <2>2, RealAppend
  <2> QED BY <1>7, <2>3
<1>10. ASSUME SeedKept(g), Checked(g)
       PROVE  /\ Cuda(g) = Flat(g)
              /\ Real(g) # {} /\ DeviceLast(g) = LastOf(Loaded(g))
  <2>1. CASE Real(f) = {}
    <3>1. RowOk(x)
      <4>1. PICK i \in 1 .. len + 1 : RowOk(g[i])
        BY <1>3, <1>10 DEF SeedKept
      <4>2. i \notin 1 .. len
        <5>1. SUFFICES ASSUME i \in 1 .. len PROVE FALSE
          OBVIOUS
        <5>2. ~IsBlank(f[i])
          BY <1>3, <4>1, <5>1 DEF IsBlank, RowOk
        <5> QED BY <1>1, <2>1, <5>1, <5>2 DEF Real
      <4> QED BY <1>3, <1>4, <4>1, <4>2
    <3>2. ~IsBlank(x)
      BY <3>1 DEF IsBlank, RowOk
    <3>3. Real(g) # {} /\ DeviceLast(g) = x.count
      BY <1>2, <3>2, RealAppend
    <3> QED BY <1>7, <2>1, <3>1, <3>3
  <2>2. CASE Real(f) # {}
    <3>1. SeedKept(f)
      <4>1. PICK i \in 1 .. len + 1 : RowOk(g[i]) /\ \A k \in 1 .. i - 1 : IsBlank(g[k])
        BY <1>3, <1>10 DEF SeedKept
      <4>2. PICK r \in 1 .. len : ~IsBlank(f[r])
        BY <1>1, <2>2 DEF Real
      <4>3. r \notin 1 .. i - 1
        BY <1>3, <4>1, <4>2
      <4>4. i \in 1 .. len /\ \A k \in 1 .. i - 1 : k \in 1 .. len
        BY <4>2, <4>3
      <4>5. RowOk(f[i]) /\ \A k \in 1 .. i - 1 : IsBlank(f[k])
        BY <1>3, <4>1, <4>4
      <4> QED BY <1>3, <4>4, <4>5 DEF SeedKept
    <3>2. Checked(f)
      <4>1. ASSUME NEW i \in 1 .. len
            PROVE  /\ f[i].kind \notin {"oddCount", "junkCount", "short", "extra", "comma"}
                   /\ f[i].kind \in {"junkCell", "nanCell"} => DeviceEvents(f, i) = <<>>
        <5>1. i \in 1 .. Len(g) /\ g[i] = f[i] /\ DeviceEvents(g, i) = DeviceEvents(f, i)
          BY <1>1, <1>2, <1>3, DeviceAppend
        <5> QED BY <1>10, <5>1 DEF Checked
      <4> QED BY <1>1, <4>1 DEF Checked
    <3>3. Cuda(f) = Flat(f) /\ DeviceLast(f) = LastOf(rows) /\ DeviceLast(f) \in [Heads -> Counts]
      BY <1>5, <2>2, <3>1, <3>2, LastRealIs DEF CudaInv
    <3>4. /\ x.kind \notin {"oddCount", "junkCount", "short", "extra", "comma"}
          /\ x.kind \in {"junkCell", "nanCell"} => NewDeviceEvents(f, x) = <<>>
      <4>1. len + 1 \in 1 .. Len(g)
        BY <1>3
      <4> QED BY <1>3, <1>6, <1>10, <4>1 DEF Checked
    <3>5. CASE IsBlank(x)
      <4>1. NewDeviceEvents(f, x) = <<>> /\ ~RowOk(x)
        BY <3>5 DEF NewDeviceEvents, IsBlank, RowOk
      <4>2. Cuda(g) = Cuda(f)
        BY <1>6, <4>1, ConcatEmptySeq
      <4>3. Real(g) = Real(f) /\ DeviceLast(g) = DeviceLast(f)
        BY <1>2, <2>2, <3>5, RealAppend
      <4> QED BY <1>6, <2>2, <3>3, <4>1, <4>2, <4>3
    <3>6. CASE RowOk(x)
      <4>1. ~IsBlank(x)
        BY <3>6 DEF IsBlank, RowOk
      <4>2. NewDeviceEvents(f, x) = RowEvents(x, LastOf(rows))
        BY <2>2, <3>3, <4>1 DEF NewDeviceEvents
      <4>3. Real(g) # {} /\ DeviceLast(g) = x.count /\ LastOf(Loaded(g)) = x.count
        BY <1>2, <1>6, <3>6, <4>1, RealAppend, LastOfAppend
      <4> QED BY <1>6, <3>3, <3>6, <4>2, <4>3
    <3>7. CASE ~IsBlank(x) /\ ~RowOk(x)
      <4>1. x.kind \in {"junkCell", "nanCell"}
        BY <3>4, <3>7 DEF Row, AllKinds, CellKinds, IsBlank, RowOk
      <4>2. NewDeviceEvents(f, x) = <<>> /\ RowEvents(x, DeviceLast(f)) = <<>>
        BY <2>2, <3>4, <3>7, <4>1 DEF NewDeviceEvents
      <4>3. x.count = DeviceLast(f)
        BY <3>3, <4>2, NoEventsNoMove
      <4>4. Cuda(g) = Cuda(f)
        BY <1>6, <4>2, ConcatEmptySeq
      <4>5. Real(g) # {} /\ DeviceLast(g) = x.count
        BY <1>2, <3>7, RealAppend
      <4> QED BY <1>6, <3>3, <3>7, <4>3, <4>4, <4>5
    <3> QED BY <3>5, <3>6, <3>7
  <2> QED BY <2>1, <2>2
<1>11. CudaInv(g)
  BY <1>8, <1>9, <1>10 DEF CudaInv
<1> QED BY <1>2, <1>11

-----------------------------------------------------------------------------
(* Replaying a head's events *)

RState == [count : Int, exact : BOOLEAN]
RBase(seed) == [count |-> seed, exact |-> TRUE]
RStep(acc, e, h) == IF e.head = h THEN Counted(acc, e) ELSE acc

\* A counted event leaves a count and whether it is exact.
LEMMA CountedType ==
  ASSUME NEW acc \in RState, NEW e \in Event
  PROVE  Counted(acc, e) \in RState
<1>1. e.seq \in Int /\ e.delta \in Int /\ acc.count \in Int /\ acc.exact \in BOOLEAN
  BY CountsAreNumbers DEF Event, RState
<1>2. acc.count + e.delta \in Int
  BY <1>1
<1> QED BY <1>1, <1>2 DEF Counted, RState

\* run is the table of what the first k events make of a seed, for every k.
ReplayTable(run, events, h, seed) ==
  run = [k \in 0 .. Len(events) |->
           IF k = 0 THEN [count |-> seed, exact |-> TRUE]
           ELSE IF events[k].head = h THEN Counted(run[k - 1], events[k]) ELSE run[k - 1]]

\* A replay, with the table it chooses named.
LEMMA ReplayDef ==
  \A events, h, seed :
    Replay(events, h, seed) = (CHOOSE run : ReplayTable(run, events, h, seed))[Len(events)]
BY DEF Replay, ReplayTable

IsReplay(g, events, h, seed) ==
  g[0] = RBase(seed) /\ \A k \in 1 .. Len(events) : g[k] = RStep(g[k - 1], events[k], h)

\* There is such a table, and a replay is its end.
LEMMA ReplayRun ==
  ASSUME NEW events \in Seq(Event), NEW h, NEW seed \in Int
  PROVE  \E g \in [0 .. Len(events) -> RState] :
           IsReplay(g, events, h, seed) /\ Replay(events, h, seed) = g[Len(events)]
<1>1. PICK len \in Nat : len = Len(events)
  OBVIOUS
<1> DEFINE st == [x \in RState \X (1 .. len) |-> RStep(x[1], events[x[2]], h)]
<1>2. \A k \in 1 .. len : events[k] \in Event
  BY <1>1
<1>3. st \in [RState \X (1 .. len) -> RState]
  BY <1>2, CountedType DEF RStep
<1>4. RBase(seed) \in RState
  BY DEF RBase, RState
<1>5. PICK g \in [0 .. len -> RState] : IsRun(g, len, RBase(seed), st)
  <2> HIDE DEF st
  <2> QED BY <1>3, <1>4, RunExists
<1>6. g[0] = RBase(seed)
  BY <1>5 DEF IsRun
<1>7. \A k \in 1 .. len : g[k] = RStep(g[k - 1], events[k], h)
  <2>1. ASSUME NEW k \in 1 .. len PROVE g[k] = RStep(g[k - 1], events[k], h)
    <3>1. k - 1 \in 0 .. len
      OBVIOUS
    <3>2. <<g[k - 1], k>> \in RState \X (1 .. len)
      BY <3>1
    <3>3. st[<<g[k - 1], k>>] = RStep(g[k - 1], events[k], h)
      BY <3>2
    <3>4. g[k] = st[<<g[k - 1], k>>]
      BY <1>5 DEF IsRun
    <3> QED BY <3>3, <3>4
  <2> QED BY <2>1
<1> HIDE DEF st
<1>8. ReplayTable(g, events, h, seed)
  <2>1. \A k \in 0 .. len : g[k] =
          IF k = 0 THEN [count |-> seed, exact |-> TRUE]
          ELSE IF events[k].head = h THEN Counted(g[k - 1], events[k]) ELSE g[k - 1]
    BY <1>6, <1>7 DEF RBase, RStep
  <2> QED BY <1>1, <2>1 DEF ReplayTable
<1> DEFINE c == CHOOSE run : ReplayTable(run, events, h, seed)
<1>9. ReplayTable(c, events, h, seed) /\ Replay(events, h, seed) = c[len]
  BY <1>1, <1>8, ReplayDef
<1> HIDE DEF c
<1>10. \A k \in 0 .. len : c[k] = IF k = 0 THEN RBase(seed) ELSE RStep(c[k - 1], events[k], h)
  BY <1>1, <1>9 DEF ReplayTable, RBase, RStep
<1>11. Same(g, c, len)
  <2>1. c[0] = RBase(seed)
    BY <1>10
  <2>2. ASSUME NEW k \in 1 .. len, g[k - 1] = c[k - 1] PROVE g[k] = c[k]
    BY <1>7, <1>10, <2>2
  <2>3. StepsAlike(g, c, len)
    BY <2>2 DEF StepsAlike
  <2> QED BY <1>6, <2>1, <2>3, Alike
<1>12. g[len] = c[len]
  BY <1>11 DEF Same
<1> QED BY <1>1, <1>6, <1>7, <1>9, <1>12 DEF IsReplay

\* A replay reaches a count, exact or not.
LEMMA ReplayType ==
  ASSUME NEW events \in Seq(Event), NEW h, NEW seed \in Int
  PROVE  Replay(events, h, seed) \in RState
<1>1. PICK len \in Nat : len = Len(events)
  OBVIOUS
<1>2. PICK g \in [0 .. len -> RState] : Replay(events, h, seed) = g[len]
  BY <1>1, ReplayRun
<1> QED BY <1>2

\* A replay of no events is its seed.
LEMMA ReplayEmpty ==
  ASSUME NEW h, NEW seed \in Int
  PROVE  Replay(<<>>, h, seed) = RBase(seed)
<1>1. <<>> \in Seq(Event) /\ Len(<<>>) = 0
  OBVIOUS
<1>2. PICK g \in [0 .. 0 -> RState] :
        IsReplay(g, <<>>, h, seed) /\ Replay(<<>>, h, seed) = g[0]
  BY <1>1, ReplayRun
<1> QED BY <1>2 DEF IsReplay

\* A replay, one event further.
LEMMA ReplayAppend ==
  ASSUME NEW events \in Seq(Event), NEW e \in Event, NEW h, NEW seed \in Int
  PROVE  /\ Replay(events, h, seed) \in RState
         /\ events = <<>> => Replay(events, h, seed) = RBase(seed)
         /\ Replay(Append(events, e), h, seed) = RStep(Replay(events, h, seed), e, h)
<1>1. PICK len \in Nat : len = Len(events)
  OBVIOUS
<1>2. PICK more \in Seq(Event) : more = Append(events, e)
  BY AppendProperties
<1>3. Len(more) = len + 1 /\ more[len + 1] = e /\ \A k \in 1 .. len : more[k] = events[k]
  BY <1>1, <1>2, AppendProperties
<1>4. PICK g \in [0 .. len -> RState] :
        IsReplay(g, events, h, seed) /\ Replay(events, h, seed) = g[len]
  BY <1>1, ReplayRun
<1>5. PICK d \in [0 .. len + 1 -> RState] :
        IsReplay(d, more, h, seed) /\ Replay(more, h, seed) = d[len + 1]
  BY <1>3, ReplayRun
<1>6. g[0] = d[0] /\ g[0] = RBase(seed)
  BY <1>4, <1>5 DEF IsReplay
<1>7. Same(g, d, len)
  <2>1. ASSUME NEW k \in 1 .. len, g[k - 1] = d[k - 1] PROVE g[k] = d[k]
    <3>1. k \in 1 .. len + 1
      OBVIOUS
    <3>2. g[k] = RStep(g[k - 1], events[k], h) /\ d[k] = RStep(d[k - 1], more[k], h)
      BY <1>1, <1>3, <1>4, <1>5, <3>1 DEF IsReplay
    <3> QED BY <1>3, <2>1, <3>2
  <2>2. StepsAlike(g, d, len)
    BY <2>1 DEF StepsAlike
  <2> QED BY <1>6, <2>2, Alike
<1>8. PICK k \in 1 .. Len(more) : k = len + 1
  BY <1>3
<1>9. d[k] = RStep(g[len], e, h)
  <2>1. k - 1 = len /\ len \in 0 .. len
    BY <1>8
  <2>2. d[k] = RStep(d[k - 1], more[k], h)
    BY <1>5 DEF IsReplay
  <2>3. more[k] = e
    BY <1>3, <1>8
  <2>4. d[len] = g[len]
    BY <1>7, <2>1 DEF Same
  <2> QED BY <2>1, <2>2, <2>3, <2>4
<1>10. Replay(events, h, seed) \in RState
  BY <1>4
<1> QED BY <1>1, <1>2, <1>4, <1>5, <1>6, <1>8, <1>9, <1>10

\* Of a row's events, a replay of head h takes the one of head h.
LEMMA ReplayRow ==
  ASSUME NEW events \in Seq(Event), NEW line \in Row, NEW before \in Before,
         NEW h \in Heads, NEW seed \in Int
  PROVE  Replay(events \o RowEvents(line, before), h, seed) =
           IF Moved(line, before, h)
           THEN Counted(Replay(events, h, seed), MakeEvent(line, h, before[h]))
           ELSE Replay(events, h, seed)
<1> DEFINE Want(m) == IF h <= m /\ Moved(line, before, h)
                      THEN Counted(Replay(events, h, seed), MakeEvent(line, h, before[h]))
                      ELSE Replay(events, h, seed)
           T == {m \in 0 .. NumHeads :
                   Replay(events \o FirstHeads(line, before, m), h, seed) = Want(m)}
<1>1. NumHeads \in Nat /\ h \in Nat /\ h >= 1 /\ h <= NumHeads
  BY HeadsAreNumbers
<1>2. 0 \in T
  <2>1. 0 \in 0 .. NumHeads /\ FirstHeads(line, before, 0) = <<>> /\ ~(h <= 0)
    BY <1>1, HeadByHead
  <2>2. events \o <<>> = events
    BY ConcatEmptySeq
  <2> QED BY <2>1, <2>2
<1>3. ASSUME NEW m \in 1 .. NumHeads, m - 1 \in T PROVE m \in T
  <2>1. m - 1 \in 0 .. NumHeads /\ m \in 0 .. NumHeads /\ m \in Heads /\ m \in Nat
    BY HeadsAreNumbers
  <2>2. PICK sofar \in Seq(Event) : sofar = FirstHeads(line, before, m - 1)
    BY <2>1, HeadByHead
  <2>3. PICK one \in Seq(Event) : one = OneEvent(line, before, m)
    BY <2>1, OneEventType
  <2>4. FirstHeads(line, before, m) = sofar \o one
    BY <2>2, <2>3, HeadByHead
  <2>5. PICK joined \in Seq(Event) : joined = events \o sofar
    BY ConcatProperties
  <2>6. events \o FirstHeads(line, before, m) = joined \o one
    BY <2>4, <2>5, ConcatAssociative
  <2>7. Replay(joined, h, seed) = Want(m - 1)
    BY <1>3, <2>2, <2>5
  <2>8. CASE ~Moved(line, before, m)
    <3>1. one = <<>>
      BY <2>3, <2>8 DEF OneEvent, Moved
    <3>2. joined \o one = joined
      BY <3>1, ConcatEmptySeq
    <3>3. Want(m) = Want(m - 1)
      <4>1. CASE h = m
        BY <2>8, <4>1
      <4>2. CASE h # m
        <5>1. h <= m <=> h <= m - 1
          BY <1>1, <2>1, <4>2
        <5> QED BY <5>1
      <4> QED BY <4>1, <4>2
    <3>4. Replay(events \o FirstHeads(line, before, m), h, seed) = Want(m)
      <4> HIDE DEF Want
      <4> QED BY <2>6, <2>7, <3>2, <3>3
    <3> QED BY <2>1, <3>4
  <2>9. CASE Moved(line, before, m)
    <3>1. PICK e \in Event : e = MakeEvent(line, m, before[m])
      BY <2>1, <2>9, MakeEventType
    <3>2. joined \o one = Append(joined, e)
      BY <2>3, <2>9, <3>1, AppendIsConcat DEF OneEvent, Moved
    <3>3. Replay(joined \o one, h, seed) = RStep(Want(m - 1), e, h)
      BY <2>7, <3>2, ReplayAppend
    <3>4. e.head = m
      BY <3>1, HeadOfEvent
    <3>5. RStep(Want(m - 1), e, h) = Want(m)
      <4>1. CASE h = m
        <5>1. ~(h <= m - 1) /\ h <= m
          BY <1>1, <2>1, <4>1
        <5> QED BY <2>9, <3>1, <3>4, <4>1, <5>1 DEF RStep
      <4>2. CASE h # m
        <5>1. h <= m <=> h <= m - 1
          BY <1>1, <2>1, <4>2
        <5> QED BY <3>4, <4>2, <5>1 DEF RStep
      <4> QED BY <4>1, <4>2
    <3> QED BY <2>1, <2>6, <3>3, <3>5
  <2> QED BY <2>8, <2>9
<1>4. NumHeads \in T
  <2>1. \A m \in 0 .. NumHeads : m \in T
    <3> HIDE DEF T
    <3> QED BY <1>1, <1>2, <1>3, UpTo
  <2>2. NumHeads \in 0 .. NumHeads
    BY <1>1
  <2> HIDE DEF T
  <2> QED BY <2>1, <2>2
<1>5. Replay(events \o FirstHeads(line, before, NumHeads), h, seed) = Want(NumHeads)
  BY <1>4
<1>6. RowEvents(line, before) = FirstHeads(line, before, NumHeads)
  BY HeadByHead
<1> QED BY <1>1, <1>5, <1>6

\* A head's counter, replayed so far: never ahead, and exact unless a delta saturated.
Replayed(acc, now) == acc.count <= now /\ (acc.exact => acc.count = now)

\* The event of a move keeps a replay in step with the counter.
LEMMA MoveIsCounted ==
  ASSUME NEW acc \in RState, NEW line \in Row, NEW before \in Before, NEW h \in Heads,
         Moved(line, before, h), Replayed(acc, before[h])
  PROVE  Replayed(Counted(acc, MakeEvent(line, h, before[h])), line.count[h])
<1>1. before[h] \in Counts /\ line.count[h] \in Counts /\ line.count[h] # before[h]
  BY DEF Before, Moved, Row
<1>2. PICK c \in Int, p \in Int : c = line.count[h] /\ p = before[h] /\ c # p
  BY <1>1, CountsAreNumbers
<1>3. PICK e \in Event : e = MakeEvent(line, h, before[h])
  BY MakeEventType
<1>4. e.seq = c /\ e.reset = (c < p) /\ e.delta = SaturatedDelta(c, p)
  BY <1>2, <1>3 DEF MakeEvent
<1>5. PICK n0 \in Int : n0 = acc.count
  BY DEF RState
<1>6. n0 <= p /\ (acc.exact => n0 = p)
  BY <1>2, <1>5 DEF Replayed
<1>7. CASE c < p
  <2>1. Counted(acc, e) = [count |-> c, exact |-> TRUE]
    BY <1>4, <1>7 DEF Counted
  <2> QED BY <1>2, <1>3, <2>1 DEF Replayed
<1>8. CASE ~(c < p)
  <2>1. Counted(acc, e) = [count |-> n0 + e.delta, exact |-> acc.exact /\ e.delta # IntMax]
    BY <1>4, <1>5, <1>8 DEF Counted
  <2>2. e.delta = IF c - p > IntMax THEN IntMax ELSE c - p
    BY <1>2, <1>4, <1>8 DEF SaturatedDelta
  <2>3. IntMax \in Int
    BY CountsAreNumbers
  <2>4. n0 + e.delta <= c
    BY <1>2, <1>6, <1>8, <2>2, <2>3
  <2>5. acc.exact /\ e.delta # IntMax => n0 + e.delta = c
    BY <1>2, <1>6, <1>8, <2>2, <2>3
  <2>6. PICK r : r = Counted(acc, e)
    OBVIOUS
  <2>7. r.count = n0 + e.delta /\ (r.exact => acc.exact /\ e.delta # IntMax)
    <3>1. r.count = n0 + e.delta
      BY <2>1, <2>6
    <3>2. PICK b \in BOOLEAN : b = (acc.exact /\ e.delta # IntMax)
      BY Zenon
    <3>3. r = [count |-> n0 + e.delta, exact |-> b]
      BY <2>1, <2>6, <3>2, Zenon
    <3>4. r.exact = b
      BY <3>3
    <3> QED BY <3>1, <3>2, <3>4, Zenon
  <2>8. Replayed(r, c)
    BY <2>4, <2>5, <2>7 DEF Replayed
  <2> QED BY <1>2, <1>3, <2>6, <2>8
<1> QED BY <1>7, <1>8

-----------------------------------------------------------------------------
(* The inductive invariant *)

TypeInv ==
  /\ format \in Formats /\ file \in Seq(Row) /\ last \in Before
  /\ batch \in Seq(Event) /\ written \in Seq(Event)
  /\ n \in Int /\ outOfOrder \in Nat /\ lastTs \in Nat

\* Every engine, next to the flat extractor on the lines read so far.
EngineInv ==
  /\ Events = Flat(file) /\ last = LastOf(Loaded(file))
  /\ CudaInv(file) /\ OracleInv(file) /\ VectorizedInv(file)

CapsInv ==
  \A h \in Heads : last[h] # Unseen =>
    /\ Loaded(file) # <<>>
    /\ Replayed(Replay(Events, h, Loaded(file)[1].count[h]), last[h])

\* While no row came out of order or without a text, no two events have head and
\* text in common, and none has a text behind the last row's.
Ordered(events, ts) ==
  /\ \A j, k \in 1 .. Len(events) : j # k => TextKey(events[j]) # TextKey(events[k])
  /\ \A k \in 1 .. Len(events) : events[k].ts <= ts

OrderInv == outOfOrder = 0 /\ AllStamped(file) => Ordered(Events, lastTs)

\* The texts of a Parquet or JSON file are those of ts_expr.
SpellInv == format = "tabular" => \A k \in 1 .. Len(Events) : Respelled(Events[k].ts)

\* One row for each key that was written.
StoreInv ==
  /\ {Key(e) : e \in stored} = KeysOf(written)
  /\ \A d, e \in stored : Key(d) = Key(e) => d = e
  /\ \A k \in 1 .. Len(written) : Instant[written[k].ts] # NoStamp
  /\ returned # "refused" => n = Len(written)
  /\ returned = "yes" => batch = <<>>

IInv == TypeInv /\ EngineInv /\ CapsInv /\ OrderInv /\ SpellInv /\ StoreInv

\* The reader takes a line that occurs, and the file is one line longer.
LEMMA ReadIs ==
  ASSUME NEW line, Read(line), format \in Formats
  PROVE  /\ line \in Row /\ file' = Append(file, line) /\ format' = format
         /\ format = "tabular" => Respelled(line.ts)
BY EveryLineIsARow DEF Read, given

\* A batch goes to the store in the order it was built in, and leaves nothing out.
LEMMA WriteKeepsEvents ==
  ASSUME NEW full \in Seq(Event), written \in Seq(Event), Write(full), batch' = <<>>
  PROVE  Events' = written \o full
<1>1. written' \in Seq(Event) /\ written' = written \o full
  BY ConcatProperties DEF Write
<1>2. written' \o <<>> = written'
  BY <1>1, ConcatEmptySeq
<1> QED BY <1>1, <1>2 DEF Events

\* What ProcessRow does to the events, whether the batch is full or not.
LEMMA ProcessRowAdds ==
  ASSUME TypeInv, NEW line, ProcessRow(line)
  PROVE  /\ Events' = Events \o RowEvents(line, last)
         /\ batch' \in Seq(Event) /\ written' \in Seq(Event) /\ n' \in Int
<1>1. line \in Row
  BY ReadIs DEF ProcessRow, TypeInv
<1>2. PICK new \in Seq(Event) : new = RowEvents(line, last)
  BY <1>1, RowIsInOrder DEF TypeInv
<1>3. PICK full \in Seq(Event) : full = batch \o new
  BY ConcatProperties DEF TypeInv
<1>4. (written \o batch) \o new = written \o full
  BY <1>3, ConcatAssociative DEF TypeInv
<1>5. CASE batch' = full /\ written' = written /\ n' = n
  BY <1>2, <1>4, <1>5 DEF Events, TypeInv
<1>6. CASE Write(full) /\ batch' = <<>>
  <2>1. Events' = written \o full
    BY <1>6, WriteKeepsEvents DEF TypeInv
  <2>2. written' \in Seq(Event) /\ n' \in Int
    BY <1>6, ConcatProperties DEF Write, TypeInv
  <2> QED BY <1>2, <1>4, <1>6, <2>1, <2>2 DEF Events
<1>7. \/ batch' = full /\ written' = written /\ n' = n
      \/ Write(full) /\ batch' = <<>>
  BY <1>2, <1>3 DEF ProcessRow
<1> QED BY <1>5, <1>6, <1>7

\* Texts compare as numbers, and the empty one comes first.
LEMMA TextsCompare == \A r \in Row : r.ts \in Nat /\ (r.ts # Empty => r.ts > 0)
<1>1. ASSUME NEW r \in Row PROVE r.ts \in Nat
  BY TextsAreNumbers DEF Row
<1> QED BY <1>1 DEF Empty

\* The final batch is written or left.
LEMMA EndKeepsEvents ==
  ASSUME TypeInv, EndOfFile
  PROVE  Events' = Events /\ batch' \in Seq(Event) /\ written' \in Seq(Event) /\ n' \in Int
<1>1. CASE Write(batch) /\ batch' = <<>>
  <2>1. Events' = written \o batch
    BY <1>1, WriteKeepsEvents DEF TypeInv
  <2>2. written' \in Seq(Event) /\ n' \in Int
    BY <1>1, ConcatProperties DEF Write, TypeInv
  <2> QED BY <1>1, <2>1, <2>2 DEF Events
<1>2. CASE UNCHANGED <<written, n, batch>>
  BY <1>2 DEF Events, TypeInv
<1> QED BY <1>1, <1>2 DEF EndOfFile

\* A step keeps every variable in its type.
LEMMA TypeStays == TypeInv /\ [Next]_vars => TypeInv'
<1> SUFFICES ASSUME TypeInv, [Next]_vars PROVE TypeInv'
  OBVIOUS
<1>1. ASSUME NEW line, ReadBlank(line) PROVE TypeInv'
  BY <1>1, ReadIs, AppendProperties DEF ReadBlank, TypeInv
<1>2. ASSUME NEW line, SkipRow(line) PROVE TypeInv'
  <2>1. line \in Row /\ file' = Append(file, line) /\ format' = format
    BY <1>2, ReadIs DEF SkipRow, TypeInv
  <2>2. file' \in Seq(Row)
    BY <2>1, AppendProperties DEF TypeInv
  <2> QED BY <1>2, <2>1, <2>2 DEF SkipRow, TypeInv
<1>3. ASSUME NEW line, ProcessRow(line) PROVE TypeInv'
  <2>1. line \in Row /\ file' = Append(file, line) /\ format' = format
    BY <1>3, ReadIs DEF ProcessRow, TypeInv
  <2>2. file' \in Seq(Row)
    BY <2>1, AppendProperties DEF TypeInv
  <2>3. last' = line.count /\ lastTs' = line.ts
        /\ outOfOrder' = outOfOrder + (IF Disordered(line) THEN 1 ELSE 0)
    BY <1>3 DEF ProcessRow, LastAfter
  <2>4. last' \in Before /\ lastTs' \in Nat /\ outOfOrder' \in Nat
    BY <2>1, <2>3, CountsOfARow, TextsCompare DEF TypeInv
  <2> QED BY <1>3, <2>1, <2>2, <2>4, ProcessRowAdds DEF TypeInv
<1>4. ASSUME EndOfFile PROVE TypeInv'
  <2>1. UNCHANGED <<given, file, last, skipped, outOfOrder, lastTs>>
    BY <1>4 DEF EndOfFile
  <2> QED BY <1>4, <2>1, EndKeepsEvents DEF TypeInv, given
<1>5. ASSUME FetchThrows PROVE TypeInv'
  BY <1>5 DEF FetchThrows, TypeInv, given
<1>6. ASSUME Refuse PROVE TypeInv'
  BY <1>6 DEF Refuse, TypeInv, given
<1>7. ASSUME UNCHANGED vars PROVE TypeInv'
  BY <1>7 DEF vars, given, TypeInv
<1> QED BY <1>1, <1>2, <1>3, <1>4, <1>5, <1>6, <1>7 DEF Next

\* A file has one format.
LEMMA FormatStays == [Next]_vars => format' = format
BY DEF Next, ReadBlank, SkipRow, ProcessRow, EndOfFile, FetchThrows, Refuse, Read, given, vars

\* A step either reads a line that is dropped, or reads one that is kept, or
\* leaves the file and the events as they are.
LEMMA EveryStep ==
  ASSUME TypeInv, [Next]_vars
  PROVE  \/ \E line \in Row : /\ file' = Append(file, line) /\ ~RowOk(line)
                              /\ Events' = Events /\ UNCHANGED <<last, outOfOrder, lastTs>>
         \/ \E line \in Row : /\ file' = Append(file, line) /\ RowOk(line)
                              /\ Events' = Events \o RowEvents(line, last)
                              /\ last' = line.count /\ lastTs' = line.ts
                              /\ (format = "tabular" => Respelled(line.ts))
                              /\ outOfOrder' = outOfOrder + (IF Disordered(line) THEN 1 ELSE 0)
         \/ Events' = Events /\ UNCHANGED <<file, last, outOfOrder, lastTs>>
<1> DEFINE Dropped(line) == /\ file' = Append(file, line) /\ ~RowOk(line)
                            /\ Events' = Events /\ UNCHANGED <<last, outOfOrder, lastTs>>
           Kept(line) == /\ file' = Append(file, line) /\ RowOk(line)
                         /\ Events' = Events \o RowEvents(line, last)
                         /\ last' = line.count /\ lastTs' = line.ts
                         /\ (format = "tabular" => Respelled(line.ts))
                         /\ outOfOrder' = outOfOrder + (IF Disordered(line) THEN 1 ELSE 0)
           Still == Events' = Events /\ UNCHANGED <<file, last, outOfOrder, lastTs>>
<1>1. ASSUME NEW line, ReadBlank(line) PROVE line \in Row /\ Dropped(line)
  <2>1. IsBlank(line) => ~RowOk(line)
    BY DEF IsBlank, RowOk
  <2> QED BY <1>1, <2>1, ReadIs DEF ReadBlank, TypeInv, Events
<1>2. ASSUME NEW line, SkipRow(line) PROVE line \in Row /\ Dropped(line)
  BY <1>2, ReadIs DEF SkipRow, TypeInv, Events
<1>3. ASSUME NEW line, ProcessRow(line) PROVE line \in Row /\ Kept(line)
  BY <1>3, ReadIs, ProcessRowAdds DEF ProcessRow, TypeInv, LastAfter
<1>4. ASSUME EndOfFile PROVE Still
  BY <1>4, EndKeepsEvents DEF EndOfFile
<1>5. ASSUME FetchThrows PROVE Still
  BY <1>5 DEF FetchThrows, Events
<1>6. ASSUME Refuse PROVE Still
  BY <1>6 DEF Refuse, Events
<1>7. ASSUME UNCHANGED vars PROVE Still
  BY <1>7 DEF vars, Events
<1> HIDE DEF Dropped, Kept, Still
<1>8. (\E line \in Row : Dropped(line)) \/ (\E line \in Row : Kept(line)) \/ Still
  BY <1>1, <1>2, <1>3, <1>4, <1>5, <1>6, <1>7 DEF Next
<1> QED BY <1>8 DEF Dropped, Kept, Still

\* The engines stay in step, line by line.
LEMMA EnginesStay == TypeInv /\ EngineInv /\ [Next]_vars => EngineInv'
<1> SUFFICES ASSUME TypeInv, EngineInv, [Next]_vars PROVE EngineInv'
  OBVIOUS
<1>1. file \in Seq(Row) /\ Events = Flat(file) /\ last = LastOf(Loaded(file))
  BY DEF TypeInv, EngineInv
<1>2. ASSUME NEW line \in Row, file' = Append(file, line)
      PROVE  CudaInv(file') /\ OracleInv(file') /\ VectorizedInv(file')
  BY <1>1, <1>2, CudaStays, OracleStays, VectorizedStays DEF EngineInv
<1>3. ASSUME NEW line \in Row, file' = Append(file, line), ~RowOk(line),
             Events' = Events, UNCHANGED last
      PROVE  EngineInv'
  <2>1. Loaded(file') = Loaded(file) /\ Flat(file') = Flat(file)
    BY <1>1, <1>3, LoadedAppend, FlatAppend
  <2> QED BY <1>1, <1>2, <1>3, <2>1 DEF EngineInv
<1>4. ASSUME NEW line \in Row, file' = Append(file, line), RowOk(line),
             Events' = Events \o RowEvents(line, last), last' = line.count
      PROVE  EngineInv'
  <2>1. Flat(file') = Flat(file) \o RowEvents(line, LastOf(Loaded(file)))
    BY <1>1, <1>4, FlatAppend
  <2>2. Loaded(file) \in Seq(Row) /\ Loaded(file') = Append(Loaded(file), line)
    BY <1>1, <1>4, LoadedAppend
  <2>3. LastOf(Loaded(file')) = line.count
    BY <2>2, LastOfAppend
  <2> QED BY <1>1, <1>2, <1>4, <2>1, <2>3 DEF EngineInv
<1>5. ASSUME Events' = Events, UNCHANGED <<file, last>> PROVE EngineInv'
  BY <1>5 DEF EngineInv
<1> QED BY <1>3, <1>4, <1>5, EveryStep

\* So do the counters: each move adds what its event says.
LEMMA CapsStay == TypeInv /\ EngineInv /\ CapsInv /\ [Next]_vars => CapsInv'
<1> SUFFICES ASSUME TypeInv, EngineInv, CapsInv, [Next]_vars PROVE CapsInv'
  OBVIOUS
<1>1. file \in Seq(Row) /\ last \in Before /\ Events = Flat(file) /\ last = LastOf(Loaded(file))
  BY DEF TypeInv, EngineInv
<1>2. PICK rows \in Seq(Row) : rows = Loaded(file)
  BY <1>1, LoadedType
<1>3. PICK events \in Seq(Event) : events = Events
  BY <1>1, ConcatProperties DEF TypeInv, Events
<1>4. rows # <<>> => rows[1] \in Row
  BY EmptySeq
<1>5. ASSUME Loaded(file') = rows, Events' = Events, UNCHANGED last PROVE CapsInv'
  BY <1>2, <1>5 DEF CapsInv
<1>6. ASSUME NEW line \in Row, file' = Append(file, line), RowOk(line),
             Events' = Events \o RowEvents(line, last), last' = line.count
      PROVE  CapsInv'
  <2>1. PICK more \in Seq(Row) : more = Loaded(file') /\ more = Append(rows, line)
    BY <1>1, <1>2, <1>6, LoadedAppend, AppendProperties
  <2>2. more # <<>> /\ Len(more) = Len(rows) + 1 /\ more[Len(rows) + 1] = line
        /\ \A i \in 1 .. Len(rows) : more[i] = rows[i]
    BY <2>1, AppendProperties
  <2>3. ASSUME NEW h \in Heads
        PROVE  Replayed(Replay(Events', h, more[1].count[h]), line.count[h])
    <3>1. line.count[h] \in Counts /\ line.count[h] \in Int
      BY CountsAreNumbers DEF Row
    <3>2. CASE rows = <<>>
      <4>1. last = Nothing /\ events = <<>>
        <5>1. last = Nothing
          BY <1>1, <1>2, <3>2 DEF LastOf
        <5>2. Flat(file) = <<>>
          BY <1>1, <1>2, <3>2 DEF Flat, FlattenSeq
        <5> QED BY <1>1, <1>3, <5>1, <5>2
      <4>2. Events' = <<>>
        <5>1. <<>> \o <<>> = <<>>
          OBVIOUS
        <5> QED BY <1>3, <1>6, <4>1, <5>1, NothingBefore
      <4>3. more[1] = line
        BY <2>2, <3>2
      <4>4. Replay(<<>>, h, line.count[h]) = RBase(line.count[h])
        BY <3>1, ReplayEmpty
      <4> QED BY <3>1, <4>2, <4>3, <4>4 DEF Replayed, RBase
    <3>3. CASE rows # <<>>
      <4>1. 1 \in 1 .. Len(rows)
        BY <3>3, EmptySeq
      <4>2. PICK seed \in Int : seed = rows[1].count[h] /\ more[1].count[h] = seed
        <5>1. rows[1].count[h] \in Counts
          BY <1>4, <3>3 DEF Row
        <5> QED BY <2>2, <4>1, <5>1, CountsAreNumbers
      <4>3. last[h] # Unseen
        <5>1. Len(rows) \in 1 .. Len(rows)
          BY <3>3, EmptySeq
        <5>2. last = rows[Len(rows)].count /\ rows[Len(rows)] \in Row
          BY <1>1, <1>2, <3>3, <5>1 DEF LastOf
        <5>3. last[h] \in Counts
          BY <5>2 DEF Row
        <5> QED BY <5>3, CountsAreNumbers
      <4>4. PICK acc : acc = Replay(events, h, seed)
        OBVIOUS
      <4>5. acc \in RState /\ Replayed(acc, last[h])
        <5>1. acc \in RState
          BY <4>2, <4>4, ReplayType
        <5> QED BY <1>2, <1>3, <4>2, <4>3, <4>4, <5>1 DEF CapsInv
      <4>6. Replay(Events', h, seed) =
              IF Moved(line, last, h) THEN Counted(acc, MakeEvent(line, h, last[h])) ELSE acc
        BY <1>1, <1>3, <1>6, <4>2, <4>4, ReplayRow
      <4>7. CASE Moved(line, last, h)
        BY <1>1, <4>2, <4>5, <4>6, <4>7, MoveIsCounted
      <4>8. CASE ~Moved(line, last, h)
        BY <4>2, <4>3, <4>5, <4>6, <4>8 DEF Moved
      <4> QED BY <4>7, <4>8
    <3> QED BY <3>2, <3>3
  <2> QED BY <1>6, <2>1, <2>2, <2>3 DEF CapsInv
<1>7. ASSUME NEW line \in Row, file' = Append(file, line), ~RowOk(line)
      PROVE  Loaded(file') = rows
  BY <1>1, <1>2, <1>7, LoadedAppend
<1>8. UNCHANGED file => Loaded(file') = rows
  BY <1>2
<1> QED BY <1>5, <1>6, <1>7, <1>8, EveryStep

\* A file all of whose kept rows have a text had them before its last line.
LEMMA StampedAppend ==
  ASSUME NEW f \in Seq(Row), NEW x \in Row, AllStamped(Append(f, x))
  PROVE  AllStamped(f) /\ (RowOk(x) => x.ts # Empty)
<1>1. PICK g \in Seq(Row) : g = Append(f, x)
  BY AppendProperties
<1>2. Len(g) = Len(f) + 1 /\ g[Len(f) + 1] = x /\ \A i \in 1 .. Len(f) : g[i] = f[i]
  BY <1>1, AppendProperties
<1>3. DOMAIN f = 1 .. Len(f) /\ DOMAIN g = 1 .. Len(f) + 1 /\ Len(f) \in Nat
  BY <1>2
<1>4. Len(f) + 1 \in DOMAIN g /\ \A i \in 1 .. Len(f) : i \in DOMAIN g
  BY <1>3
<1> QED BY <1>1, <1>2, <1>3, <1>4 DEF AllStamped

\* The events of a row that came in order have texts behind all before it.
LEMMA OrderStays == TypeInv /\ EngineInv /\ OrderInv /\ [Next]_vars => OrderInv'
<1> SUFFICES ASSUME TypeInv, EngineInv, OrderInv, [Next]_vars PROVE OrderInv'
  OBVIOUS
<1>1. last \in Before /\ outOfOrder \in Nat /\ lastTs \in Nat /\ file \in Seq(Row)
  BY DEF TypeInv
<1>2. PICK events \in Seq(Event) : events = Events
  BY ConcatProperties DEF TypeInv, Events
<1>3. ASSUME NEW line \in Row, file' = Append(file, line), RowOk(line),
             Events' = Events \o RowEvents(line, last), lastTs' = line.ts,
             outOfOrder' = outOfOrder + (IF Disordered(line) THEN 1 ELSE 0)
      PROVE  OrderInv'
  <2>1. SUFFICES ASSUME outOfOrder' = 0, AllStamped(file') PROVE Ordered(Events', line.ts)
    BY <1>3 DEF OrderInv
  <2>2. outOfOrder = 0 /\ ~Disordered(line)
    BY <1>1, <1>3, <2>1
  <2>3. PICK t \in Nat : t = line.ts
    BY TextsCompare
  <2>4. t > lastTs
    <3>1. line.ts # Empty /\ AllStamped(file)
      BY <1>1, <1>3, <2>1, StampedAppend
    <3>2. t > 0
      BY <2>3, <3>1, TextsCompare
    <3> QED BY <1>1, <2>2, <2>3, <3>2 DEF Disordered, Empty
  <2>5. Ordered(events, lastTs)
    BY <1>1, <1>2, <1>3, <2>1, <2>2, StampedAppend DEF OrderInv
  <2>6. PICK new \in Seq(Event) : new = RowEvents(line, last) /\ HeadsInOrder(new, line, last, NumHeads)
    BY <1>1, RowIsInOrder
  <2>7. PICK all \in Seq(Event) : all = events \o new
    BY ConcatProperties
  <2>8. /\ Len(all) = Len(events) + Len(new) /\ Len(events) \in Nat /\ Len(new) \in Nat
        /\ \A i \in 1 .. Len(all) :
             all[i] = IF i <= Len(events) THEN events[i] ELSE new[i - Len(events)]
    BY <2>7, ConcatProperties
  <2>9. ASSUME NEW i \in 1 .. Len(all)
        PROVE  \/ i \in 1 .. Len(events) /\ all[i] = events[i]
               \/ i - Len(events) \in 1 .. Len(new) /\ all[i] = new[i - Len(events)]
    BY <2>8
  <2>10. ASSUME NEW i \in 1 .. Len(events)
         PROVE  events[i].ts \in Nat /\ events[i].ts <= lastTs /\ events[i].ts < t
    <3>1. events[i] \in Event
      OBVIOUS
    <3>2. events[i].ts \in Nat
      BY <3>1, TextsAreNumbers DEF Event
    <3>3. events[i].ts <= lastTs
      BY <2>5 DEF Ordered
    <3> QED BY <1>1, <2>4, <3>2, <3>3
  <2>11. ASSUME NEW k \in 1 .. Len(new)
         PROVE  new[k].ts = t
    <3>1. PICK h \in 1 .. NumHeads : new[k] = MakeEvent(line, h, last[h])
      BY <2>6 DEF HeadsInOrder
    <3> QED BY <2>3, <3>1 DEF MakeEvent
  <2>12. ASSUME NEW j \in 1 .. Len(new), NEW k \in 1 .. Len(new), j # k
         PROVE  new[j].head # new[k].head
    <3>1. new[j].head \in Heads /\ new[k].head \in Heads
      <4>1. new[j] \in Event /\ new[k] \in Event
        OBVIOUS
      <4> QED BY <4>1 DEF Event
    <3>2. new[j].head \in Nat /\ new[k].head \in Nat
      BY <3>1, HeadsAreNumbers
    <3>3. CASE j < k
      <4>1. new[j].head < new[k].head
        BY <2>6, <3>3 DEF HeadsInOrder
      <4> QED BY <3>2, <4>1
    <3>4. CASE k < j
      <4>1. new[k].head < new[j].head
        BY <2>6, <3>4 DEF HeadsInOrder
      <4> QED BY <3>2, <4>1
    <3> QED BY <2>12, <3>3, <3>4
  <2>13. ASSUME NEW j \in 1 .. Len(all), NEW k \in 1 .. Len(all), j # k
         PROVE  TextKey(all[j]) # TextKey(all[k])
    <3>1. CASE j \in 1 .. Len(events) /\ all[j] = events[j] /\ k \in 1 .. Len(events) /\ all[k] = events[k]
      BY <2>5, <2>13, <3>1 DEF Ordered
    <3>2. CASE j \in 1 .. Len(events) /\ all[j] = events[j]
               /\ k - Len(events) \in 1 .. Len(new) /\ all[k] = new[k - Len(events)]
      <4>1. all[j].ts \in Nat /\ all[j].ts < t
        BY <2>10, <3>2
      <4>2. all[k].ts = t
        BY <2>11, <3>2
      <4> QED BY <2>3, <4>1, <4>2 DEF TextKey
    <3>3. CASE k \in 1 .. Len(events) /\ all[k] = events[k]
               /\ j - Len(events) \in 1 .. Len(new) /\ all[j] = new[j - Len(events)]
      <4>1. all[k].ts \in Nat /\ all[k].ts < t
        BY <2>10, <3>3
      <4>2. all[j].ts = t
        BY <2>11, <3>3
      <4> QED BY <2>3, <4>1, <4>2 DEF TextKey
    <3>4. CASE j - Len(events) \in 1 .. Len(new) /\ all[j] = new[j - Len(events)]
               /\ k - Len(events) \in 1 .. Len(new) /\ all[k] = new[k - Len(events)]
      <4>1. j - Len(events) # k - Len(events)
        BY <2>8, <2>13
      <4> QED BY <2>12, <3>4, <4>1 DEF TextKey
    <3> QED BY <2>9, <3>1, <3>2, <3>3, <3>4
  <2>14. ASSUME NEW k \in 1 .. Len(all) PROVE all[k].ts <= t
    <3>1. CASE k \in 1 .. Len(events) /\ all[k] = events[k]
      BY <2>3, <2>10, <3>1
    <3>2. CASE k - Len(events) \in 1 .. Len(new) /\ all[k] = new[k - Len(events)]
      BY <2>3, <2>11, <3>2
    <3> QED BY <2>9, <3>1, <3>2
  <2>15. Ordered(all, t)
    BY <2>13, <2>14 DEF Ordered
  <2> QED BY <1>2, <1>3, <2>3, <2>6, <2>7, <2>15
<1>4. ASSUME Events' = Events, UNCHANGED <<file, outOfOrder, lastTs>> PROVE OrderInv'
  BY <1>4 DEF OrderInv
<1>5. ASSUME NEW line \in Row, file' = Append(file, line),
             Events' = Events, UNCHANGED <<outOfOrder, lastTs>>
      PROVE  OrderInv'
  BY <1>1, <1>5, StampedAppend DEF OrderInv
<1> QED BY <1>3, <1>4, <1>5, EveryStep

\* The events of a row have its text, as ts_expr made it.
LEMMA SpellingStays == TypeInv /\ SpellInv /\ [Next]_vars => SpellInv'
<1> SUFFICES ASSUME TypeInv, SpellInv, [Next]_vars, format' = "tabular"
             PROVE  \A k \in 1 .. Len(Events') : Respelled(Events'[k].ts)
  BY DEF SpellInv
<1>1. PICK events \in Seq(Event) : events = Events
  BY ConcatProperties DEF TypeInv, Events
<1>2. format = "tabular"
  BY FormatStays
<1>3. \A k \in 1 .. Len(events) : Respelled(events[k].ts)
  BY <1>1, <1>2 DEF SpellInv
<1>4. ASSUME NEW line \in Row, Respelled(line.ts), Events' = events \o RowEvents(line, last)
      PROVE  \A k \in 1 .. Len(Events') : Respelled(Events'[k].ts)
  <2>1. PICK new \in Seq(Event) : new = RowEvents(line, last) /\ HeadsInOrder(new, line, last, NumHeads)
    BY RowIsInOrder DEF TypeInv
  <2>2. ASSUME NEW k \in 1 .. Len(new) PROVE new[k].ts = line.ts
    <3>1. PICK h \in 1 .. NumHeads : new[k] = MakeEvent(line, h, last[h])
      BY <2>1 DEF HeadsInOrder
    <3> QED BY <3>1 DEF MakeEvent
  <2>3. PICK all \in Seq(Event) : all = events \o new
    BY ConcatProperties
  <2>4. ASSUME NEW k \in 1 .. Len(all)
        PROVE  \/ k \in 1 .. Len(events) /\ all[k] = events[k]
               \/ k - Len(events) \in 1 .. Len(new) /\ all[k] = new[k - Len(events)]
    BY <2>3, ConcatProperties
  <2>5. \A k \in 1 .. Len(all) : Respelled(all[k].ts)
    BY <1>3, <1>4, <2>2, <2>4
  <2> QED BY <1>4, <2>1, <2>3, <2>5
<1>5. Events' = Events => \A k \in 1 .. Len(Events') : Respelled(Events'[k].ts)
  BY <1>1, <1>3
<1> QED BY <1>1, <1>2, <1>4, <1>5, EveryStep

-----------------------------------------------------------------------------
(* The store *)

OneRowPerKey(rows) == \A d, e \in rows : Key(d) = Key(e) => d = e

\* INSERT OR IGNORE adds the keys of the batch, and no key twice.
LEMMA UpsertKeys ==
  ASSUME NEW rows, NEW events \in Seq(Event), OneRowPerKey(rows)
  PROVE  /\ OneRowPerKey(Upsert(rows, events))
         /\ {Key(e) : e \in Upsert(rows, events)} = {Key(e) : e \in rows} \cup KeysOf(events)
<1> DEFINE Free(i) == /\ \A d \in rows : Key(d) # Key(events[i])
                      /\ \A j \in 1 .. i - 1 : Key(events[j]) # Key(events[i])
           F == {i \in 1 .. Len(events) : Free(i)}
<1>1. DOMAIN events = 1 .. Len(events) /\ Len(events) \in Nat
  OBVIOUS
<1>2. Upsert(rows, events) = rows \cup {events[k] : k \in F}
  BY <1>1 DEF Upsert
<1>3. ASSUME NEW j \in F, NEW k \in F, Key(events[j]) = Key(events[k]) PROVE j = k
  <2>1. j \in 1 .. Len(events) /\ k \in 1 .. Len(events)
    OBVIOUS
  <2>2. CASE j < k
    <3>1. j \in 1 .. k - 1
      BY <2>1, <2>2
    <3> QED BY <1>3, <3>1
  <2>3. CASE k < j
    <3>1. k \in 1 .. j - 1
      BY <2>1, <2>3
    <3> QED BY <1>3, <3>1
  <2> QED BY <2>1, <2>2, <2>3
<1>4. \A k \in F, d \in rows : Key(d) # Key(events[k])
  OBVIOUS
<1>5. ASSUME NEW i \in 1 .. Len(events)
      PROVE  (\E d \in rows : Key(d) = Key(events[i])) \/ (\E k \in F : Key(events[k]) = Key(events[i]))
  <2> DEFINE T == {k \in 1 .. Len(events) : Key(events[k]) = Key(events[i])}
  <2>1. T \in SUBSET Nat /\ i \in T
    OBVIOUS
  <2>2. PICK k \in T : \A j \in T : k <= j
    <3> HIDE DEF T
    <3> QED BY <2>1, Least
  <2>3. k \in 1 .. Len(events) /\ Key(events[k]) = Key(events[i])
    OBVIOUS
  <2>4. ASSUME NEW j \in 1 .. k - 1 PROVE Key(events[j]) # Key(events[k])
    <3>1. j \in 1 .. Len(events) /\ ~(k <= j)
      BY <2>3
    <3>2. j \notin T
      BY <2>2, <3>1
    <3> QED BY <2>3, <3>1, <3>2
  <2> HIDE DEF T
  <2>5. CASE \E d \in rows : Key(d) = Key(events[k])
    BY <2>3, <2>5
  <2>6. CASE ~\E d \in rows : Key(d) = Key(events[k])
    <3>1. k \in F
      BY <2>3, <2>4, <2>6
    <3> QED BY <2>3, <3>1
  <2> QED BY <2>5, <2>6
<1>6. \A k \in F : k \in 1 .. Len(events)
  OBVIOUS
<1> HIDE DEF F
<1>7. OneRowPerKey(Upsert(rows, events))
  BY <1>2, <1>3, <1>4 DEF OneRowPerKey
<1>8. KeysOf(events) = {Key(events[i]) : i \in 1 .. Len(events)}
  BY <1>1 DEF KeysOf, Range
<1>9. {Key(e) : e \in Upsert(rows, events)} = {Key(e) : e \in rows} \cup {Key(events[k]) : k \in F}
  BY <1>2
<1>10. {Key(e) : e \in rows} \cup {Key(events[k]) : k \in F}
         = {Key(e) : e \in rows} \cup {Key(events[i]) : i \in 1 .. Len(events)}
  <2>1. ASSUME NEW i \in 1 .. Len(events)
        PROVE  Key(events[i]) \in {Key(e) : e \in rows} \cup {Key(events[k]) : k \in F}
    BY <1>5
  <2> QED BY <1>6, <2>1
<1> QED BY <1>7, <1>8, <1>9, <1>10

\* A batch without a bad timestamp goes in, and the store has the keys written.
LEMMA WriteStores ==
  ASSUME TypeInv, StoreInv, NEW full \in Seq(Event), Write(full), ~Rejected(full)
  PROVE  /\ {Key(e) : e \in stored'} = KeysOf(written') /\ OneRowPerKey(stored')
         /\ \A k \in 1 .. Len(written') : Instant[written'[k].ts] # NoStamp
         /\ returned # "refused" => n' = Len(written')
<1>1. PICK old \in Seq(Event) : old = written
  BY DEF TypeInv
<1>2. PICK all \in Seq(Event) : all = written' /\ all = old \o full
  BY <1>1, ConcatProperties DEF Write
<1>3. stored' = Upsert(stored, full) /\ n' = n + Len(full)
  BY DEF Write
<1>4. {Key(e) : e \in stored'} = {Key(e) : e \in stored} \cup KeysOf(full) /\ OneRowPerKey(stored')
  BY <1>3, UpsertKeys DEF StoreInv, OneRowPerKey
<1>5. KeysOf(all) = KeysOf(old) \cup KeysOf(full)
  BY <1>2, KeysOfJoin
<1>6. {Key(e) : e \in stored} = KeysOf(old)
  BY <1>1 DEF StoreInv
<1>7. Len(all) = Len(old) + Len(full) /\ Len(old) \in Nat /\ Len(full) \in Nat
      /\ \A k \in 1 .. Len(all) : all[k] = IF k <= Len(old) THEN old[k] ELSE full[k - Len(old)]
  BY <1>2, ConcatProperties
<1>8. \A k \in 1 .. Len(full) : Instant[full[k].ts] # NoStamp
  BY DEF Rejected
<1>9. ASSUME NEW k \in 1 .. Len(all) PROVE Instant[all[k].ts] # NoStamp
  <2>1. CASE k <= Len(old)
    <3>1. k \in 1 .. Len(old) /\ all[k] = old[k]
      BY <1>7, <2>1
    <3> QED BY <1>1, <3>1 DEF StoreInv
  <2>2. CASE ~(k <= Len(old))
    <3>1. k - Len(old) \in 1 .. Len(full) /\ all[k] = full[k - Len(old)]
      BY <1>7, <2>2
    <3> QED BY <1>8, <3>1
  <2> QED BY <2>1, <2>2
<1>10. returned # "refused" => n' = Len(all)
  BY <1>1, <1>3, <1>7 DEF StoreInv
<1> QED BY <1>2, <1>4, <1>5, <1>6, <1>9, <1>10

\* The store holds one row for each key written, and n counts what was written.
LEMMA StoreStays == TypeInv /\ StoreInv /\ [Next]_vars => StoreInv'
<1> SUFFICES ASSUME TypeInv, StoreInv, [Next]_vars PROVE StoreInv'
  OBVIOUS
<1>1. ASSUME UNCHANGED <<written, stored, n, returned>>, returned # "yes"
      PROVE  StoreInv'
  BY <1>1 DEF StoreInv
<1>2. ASSUME NEW line, ProcessRow(line) PROVE StoreInv'
  <2>1. returned = "no" /\ line \in Row
    BY <1>2, ReadIs DEF ProcessRow, Read, TypeInv
  <2>2. RowEvents(line, last) \in Seq(Event)
    BY <2>1, RowIsInOrder DEF TypeInv
  <2>3. PICK full \in Seq(Event) : full = batch \o RowEvents(line, last)
    BY <2>2, ConcatProperties DEF TypeInv
  <2>4. CASE UNCHANGED <<written, stored, n, returned>>
    BY <1>1, <2>1, <2>4
  <2>5. CASE ~Rejected(full) /\ Write(full) /\ UNCHANGED returned
    BY <2>1, <2>5, WriteStores DEF StoreInv, OneRowPerKey
  <2>6. CASE returned' = "threw" /\ UNCHANGED <<written, stored, n>>
    BY <2>1, <2>6 DEF StoreInv
  <2> QED BY <1>2, <2>3, <2>4, <2>5, <2>6 DEF ProcessRow
<1>3. ASSUME EndOfFile PROVE StoreInv'
  <2>1. returned = "no"
    BY <1>3 DEF EndOfFile
  <2>2. CASE ~Rejected(batch) /\ Write(batch) /\ batch' = <<>> /\ returned' = "yes"
    BY <2>1, <2>2, WriteStores DEF StoreInv, OneRowPerKey, TypeInv
  <2>3. CASE returned' = "threw" /\ UNCHANGED <<written, stored, n, batch>>
    BY <2>1, <2>3 DEF StoreInv
  <2> QED BY <1>3, <2>2, <2>3 DEF EndOfFile
<1>4. ASSUME NEW line, ReadBlank(line) \/ SkipRow(line) PROVE StoreInv'
  BY <1>1, <1>4 DEF ReadBlank, SkipRow, Read
<1>5. ASSUME FetchThrows PROVE StoreInv'
  BY <1>5 DEF FetchThrows, StoreInv
<1>6. ASSUME Refuse PROVE StoreInv'
  BY <1>6 DEF Refuse, StoreInv
<1>7. ASSUME UNCHANGED vars PROVE StoreInv'
  BY <1>7 DEF vars, StoreInv
<1> QED BY <1>2, <1>3, <1>4, <1>5, <1>6, <1>7 DEF Next

-----------------------------------------------------------------------------
(* The initial state *)

\* Of an empty file, no engine finds anything.
LEMMA EmptyFile ==
  /\ Loaded(<<>>) = <<>> /\ Flat(<<>>) = <<>> /\ Frame(<<>>) = <<>> /\ Cuda(<<>>) = <<>>
  /\ OracleRun(<<>>) = OBase
<1>1. Len(<<>>) = 0 /\ 1 .. Len(<<>>) = {}
  OBVIOUS
<1>2. Loaded(<<>>) = <<>>
  BY <1>1 DEF Loaded, FlattenSeq
<1>3. Frame(<<>>) = <<>>
  BY <1>1 DEF Frame, FlattenSeq
<1>4. Cuda(<<>>) = <<>>
  BY <1>1 DEF Cuda, FlattenSeq
<1>5. Flat(<<>>) = <<>>
  BY <1>1, <1>2 DEF Flat, FlattenSeq
<1>6. OracleRun(<<>>) = OBase
  <2>1. <<>> \in Seq(Row)
    OBVIOUS
  <2> QED BY <1>1, <2>1, OracleRunIs DEF IsOracle
<1> QED BY <1>2, <1>3, <1>4, <1>5, <1>6

\* Before the first line, every part of the invariant holds.
LEMMA InitHolds == Init => IInv
<1> SUFFICES ASSUME Init PROVE IInv
  OBVIOUS
<1>1. file = <<>> /\ batch = <<>> /\ written = <<>> /\ stored = {} /\ last = Nothing
      /\ n = 0 /\ outOfOrder = 0 /\ lastTs = 0 /\ returned = "no" /\ format \in Formats
  BY DEF Init, Nothing, Empty
<1>2. <<>> \in Seq(Row) /\ <<>> \in Seq(Event) /\ Len(<<>>) = 0 /\ 1 .. Len(<<>>) = {}
      /\ DOMAIN <<>> = {} /\ <<>> \o <<>> = <<>>
  OBVIOUS
<1>3. TypeInv
  <2>1. last \in Before
    BY <1>1 DEF Nothing, Before
  <2> QED BY <1>1, <1>2, <2>1 DEF TypeInv
<1>4. Events = <<>>
  BY <1>1, <1>2 DEF Events
<1>5. LastOf(<<>>) = Nothing
  BY DEF LastOf
<1>6. EngineInv
  <2>1. CudaInv(<<>>)
    BY <1>2, EmptyFile DEF CudaInv, SeedKept
  <2>2. OracleInv(<<>>)
    BY <1>2, <1>5, EmptyFile DEF OracleInv, Oracle, OBase
  <2>3. VectorizedInv(<<>>)
    <3>1. Pairs(OracleEv, <<>>) = <<>>
      BY <1>2 DEF Pairs, FlattenSeq
    <3> QED BY <1>5, <3>1, EmptyFile DEF VectorizedInv, Oracle, OBase
  <2> QED BY <1>1, <1>4, <1>5, <2>1, <2>2, <2>3, EmptyFile DEF EngineInv
<1>7. CapsInv
  BY <1>1 DEF CapsInv, Nothing
<1>8. OrderInv /\ SpellInv
  BY <1>2, <1>4 DEF OrderInv, Ordered, SpellInv
<1>9. StoreInv
  <2>1. KeysOf(<<>>) = {}
    BY <1>2 DEF KeysOf, Range
  <2> QED BY <1>1, <1>2, <2>1 DEF StoreInv
<1> QED BY <1>3, <1>6, <1>7, <1>8, <1>9 DEF IInv

-----------------------------------------------------------------------------
(* What the invariant says *)

\* With one row for each key, the rows of a store are as many as its keys.
LEMMA RowsAreKeys ==
  ASSUME NEW rows, OneRowPerKey(rows),
         NEW events \in Seq(Event), {Key(e) : e \in rows} = KeysOf(events)
  PROVE  Cardinality(rows) = Cardinality(KeysOf(events))
<1> DEFINE K == KeysOf(events)
           keyed == [k \in 1 .. Len(events) |-> Key(events[k])]
           f == [x \in K |-> CHOOSE d \in rows : Key(d) = x]
<1>1. IsFiniteSet(K)
  <2>1. DOMAIN events = 1 .. Len(events) /\ Len(events) \in Nat
    OBVIOUS
  <2>2. \A x \in K : \E k \in 1 .. Len(events) : keyed[k] = x
    BY <2>1 DEF KeysOf, Range
  <2>3. \A k \in 1 .. Len(events) : keyed[k] \in K
    BY <2>1 DEF KeysOf, Range
  <2>4. keyed \in Surjection(1 .. Len(events), K)
    BY <2>2, <2>3 DEF Surjection
  <2>5. IsFiniteSet(1 .. Len(events))
    BY <2>1, FS_Interval
  <2> HIDE DEF K, keyed
  <2> QED BY <2>4, <2>5, FS_Surjection
<1>2. \A x \in K : \E d \in rows : Key(d) = x
  OBVIOUS
<1>3. \A x \in K : f[x] \in rows /\ Key(f[x]) = x
  BY <1>2
<1>4. \A d \in rows : Key(d) \in K
  OBVIOUS
<1>5. \A d \in rows : f[Key(d)] = d
  BY <1>3, <1>4 DEF OneRowPerKey
<1>6. f \in [K -> rows]
  BY <1>3
<1> HIDE DEF K, f
<1>7. f \in Injection(K, rows)
  BY <1>3, <1>6 DEF Injection, IsInjective
<1>8. f \in Surjection(K, rows)
  BY <1>4, <1>5, <1>6 DEF Surjection
<1>9. ExistsBijection(K, rows)
  BY <1>7, <1>8 DEF ExistsBijection, Bijection
<1>10. Cardinality(rows) = Cardinality(K)
  BY <1>1, <1>9, FS_Bijection
<1> QED BY <1>10 DEF K

\* Where no two events share head and text, those are as many as the events.
LEMMA TextsAreEvents ==
  ASSUME NEW events \in Seq(Event),
         \A j, k \in 1 .. Len(events) : j # k => TextKey(events[j]) # TextKey(events[k])
  PROVE  Cardinality(TextKeysOf(events)) = Len(events)
<1> DEFINE K == TextKeysOf(events)
           keyed == [k \in 1 .. Len(events) |-> TextKey(events[k])]
<1>1. DOMAIN events = 1 .. Len(events) /\ Len(events) \in Nat
  OBVIOUS
<1>2. \A x \in K : \E k \in 1 .. Len(events) : keyed[k] = x
  BY <1>1 DEF TextKeysOf, Range
<1>3. \A k \in 1 .. Len(events) : keyed[k] \in K
  BY <1>1 DEF TextKeysOf, Range
<1>4. \A j, k \in 1 .. Len(events) : keyed[j] = keyed[k] => j = k
  OBVIOUS
<1>5. keyed \in [1 .. Len(events) -> K] /\ DOMAIN keyed = 1 .. Len(events)
  BY <1>3
<1> HIDE DEF K, keyed
<1>6. keyed \in Injection(1 .. Len(events), K)
  BY <1>4, <1>5 DEF Injection, IsInjective
<1>7. keyed \in Surjection(1 .. Len(events), K)
  BY <1>2, <1>5 DEF Surjection
<1>8. ExistsBijection(1 .. Len(events), K)
  BY <1>6, <1>7 DEF ExistsBijection, Bijection
<1>9. Cardinality(K) = Len(events)
  BY <1>1, <1>8, FS_CountingElements
<1> QED BY <1>9 DEF K

\* The store has as many keys as there are texts exactly if no instant of a head
\* is spelled in two ways.
LEMMA KeysAreTexts ==
  ASSUME NEW events \in Seq(Event)
  PROVE  Cardinality(KeysOf(events)) = Cardinality(TextKeysOf(events))
           <=> \A d, e \in Range(events) : Key(d) = Key(e) => d.ts = e.ts
<1> DEFINE K == KeysOf(events)
           T == TextKeysOf(events)
           cast == [x \in T |-> <<x[1], Instant[x[2]]>>]
           texted == [k \in 1 .. Len(events) |-> TextKey(events[k])]
<1>1. IsFiniteSet(T)
  <2>1. DOMAIN events = 1 .. Len(events) /\ Len(events) \in Nat
    OBVIOUS
  <2>2. \A x \in T : \E k \in 1 .. Len(events) : texted[k] = x
    BY <2>1 DEF TextKeysOf, Range
  <2>3. \A k \in 1 .. Len(events) : texted[k] \in T
    BY <2>1 DEF TextKeysOf, Range
  <2>4. texted \in Surjection(1 .. Len(events), T)
    BY <2>2, <2>3 DEF Surjection
  <2>5. IsFiniteSet(1 .. Len(events))
    BY <2>1, FS_Interval
  <2> HIDE DEF T, texted
  <2> QED BY <2>4, <2>5, FS_Surjection
<1>2. \A e \in Range(events) : TextKey(e) \in T /\ Key(e) \in K /\ cast[TextKey(e)] = Key(e)
  BY DEF TextKeysOf, KeysOf, TextKey, Key
<1>3. (\A x \in T : \E e \in Range(events) : x = TextKey(e))
      /\ (\A y \in K : \E e \in Range(events) : y = Key(e))
  BY DEF TextKeysOf, KeysOf
<1>4. DOMAIN cast = T /\ \A x \in T : cast[x] = <<x[1], Instant[x[2]]>>
  OBVIOUS
<1>5. cast = [x \in T |-> cast[x]]
  OBVIOUS
<1> HIDE DEF K, T, cast
<1>6. cast \in Surjection(T, K)
  <2>1. \A x \in T : cast[x] \in K
    BY <1>2, <1>3
  <2>2. \A y \in K : \E x \in T : cast[x] = y
    BY <1>2, <1>3
  <2> QED BY <1>5, <2>1, <2>2 DEF Surjection
<1>7. Cardinality(K) = Cardinality(T) <=> cast \in Injection(T, K)
  BY <1>1, <1>6, FS_Surjection
<1>8. cast \in Injection(T, K) <=> \A x, y \in T : cast[x] = cast[y] => x = y
  <2>1. cast \in [T -> K]
    BY <1>6 DEF Surjection
  <2> QED BY <1>4, <2>1 DEF Injection, IsInjective
<1>9. (\A x, y \in T : cast[x] = cast[y] => x = y)
        <=> \A d, e \in Range(events) : Key(d) = Key(e) => TextKey(d) = TextKey(e)
  BY <1>2, <1>3
<1>10. \A d, e \in Range(events) :
         (Key(d) = Key(e) => TextKey(d) = TextKey(e)) <=> (Key(d) = Key(e) => d.ts = e.ts)
  BY DEF Key, TextKey
<1> QED BY <1>7, <1>8, <1>9, <1>10 DEF K, T

\* A step keeps every part of the invariant.
LEMMA StepHolds == IInv /\ [Next]_vars => IInv'
BY TypeStays, EnginesStay, CapsStay, OrderStays, SpellingStays, StoreStays DEF IInv

\* Every engine finds what the flat extractor finds, under its condition.
LEMMA InvGivesEngines == IInv => EnginesAgree
<1> SUFFICES ASSUME IInv PROVE EnginesAgree
  OBVIOUS
<1>1. file \in Seq(Row) /\ Events = Flat(file)
      /\ CudaInv(file) /\ OracleInv(file) /\ VectorizedInv(file)
  BY DEF IInv, TypeInv, EngineInv
<1>2. PICK events \in Seq(Event) : events = Events
  BY ConcatProperties DEF IInv, TypeInv, Events
<1>3. DOMAIN events = 1 .. Len(events)
  OBVIOUS
<1>4. CudaAgreesPastTheSeed
  BY <1>1, CudaFinds DEF CudaAgreesPastTheSeed, CudaAgrees
<1>5. OracleAgrees
  BY <1>1, <1>2, <1>3 DEF OracleAgrees, OracleInv
<1>6. VectorizedAgrees
  BY <1>1, VectorizedIsOracle DEF VectorizedAgrees
<1> QED BY <1>1, <1>4, <1>5, <1>6 DEF EnginesAgree, FlatAgrees

\* What a replay reaches is the counter, or below it where a delta saturated.
LEMMA InvGivesCaps == IInv => CapsAreConserved
BY DEF IInv, CapsInv, Replayed, CapsAreConserved

\* The store has one row for each key, an ordered file one text for each event, and
\* the oracle one row for each text.
LEMMA InvGivesRows == IInv => OnlySpellingsCollapse
<1> SUFFICES ASSUME IInv, returned = "yes" PROVE
      /\ format = "tabular" => SpelledOnce
      /\ outOfOrder = 0 /\ AllStamped(file) => (n = Cardinality(stored) <=> SpelledOnce)
      /\ SamePolicy(file) => (Cardinality(stored) = Cardinality(OracleUnion(file)) <=> SpelledOnce)
  BY DEF OnlySpellingsCollapse
<1>1. PICK events \in Seq(Event) : events = written
  BY DEF IInv, TypeInv
<1>2. batch = <<>> /\ n = Len(events) /\ OneRowPerKey(stored)
      /\ {Key(e) : e \in stored} = KeysOf(events)
      /\ \A k \in 1 .. Len(events) : Instant[events[k].ts] # NoStamp
  BY <1>1 DEF IInv, StoreInv, OneRowPerKey
<1>3. Events = events
  BY <1>1, <1>2, ConcatEmptySeq DEF Events
<1>4. Cardinality(stored) = Cardinality(KeysOf(events))
  BY <1>2, RowsAreKeys
<1>5. Cardinality(stored) = Cardinality(TextKeysOf(events)) <=> SpelledOnce
  BY <1>3, <1>4, KeysAreTexts DEF SpelledOnce
<1>6. ASSUME outOfOrder = 0, AllStamped(file) PROVE n = Cardinality(stored) <=> SpelledOnce
  <2>1. Ordered(events, lastTs)
    BY <1>3, <1>6 DEF IInv, OrderInv
  <2>2. Cardinality(TextKeysOf(events)) = Len(events)
    BY <2>1, TextsAreEvents DEF Ordered
  <2> QED BY <1>2, <1>5, <2>2
<1>7. ASSUME SamePolicy(file)
      PROVE  Cardinality(stored) = Cardinality(OracleUnion(file)) <=> SpelledOnce
  <2>1. TextKeysOf(Oracle(file)) = TextKeysOf(events)
    BY <1>3, <1>7 DEF IInv, EngineInv, OracleInv
  <2>2. OracleUnion(file) = TextKeysOf(events)
    BY <2>1 DEF OracleUnion, TextKeysOf, TextKey
  <2> QED BY <1>5, <2>2
<1>8. ASSUME format = "tabular" PROVE SpelledOnce
  <2>1. DOMAIN events = 1 .. Len(events)
    OBVIOUS
  <2>2. \A e \in Range(events) : Respelled(e.ts) /\ Instant[e.ts] # NoStamp
    BY <1>2, <1>3, <1>8, <2>1 DEF IInv, SpellInv, Range
  <2>3. \A d, e \in Range(events) : Key(d) = Key(e) => d.ts = e.ts
    BY <2>2, OneSpelling DEF Key
  <2> QED BY <1>3, <2>3 DEF SpelledOnce
<1> QED BY <1>6, <1>7, <1>8

-----------------------------------------------------------------------------
(* Theorems *)

\* The inductive invariant holds in every state of an extraction.
LEMMA InvariantHolds == Spec => []IInv
BY InitHolds, StepHolds, PTL DEF Spec

\* clean_file and extract_flat emit the same events in the same order, whatever
\* lines are dropped and wherever batches are cut; the CUDA pipeline refuses a
\* CSV file or agrees past a kept seed row, and the oracles find those events
\* where their row policy is the readers'.
THEOREM EnginesAlwaysAgree == Spec => []EnginesAgree
BY InvariantHolds, InvGivesEngines, PTL

\* CapEventExtractor loses and repeats no cap: since the last reset, a head's
\* deltas add up to what its counter moved, unless one saturated at INT_MAX.
THEOREM CapsAlwaysConserved == Spec => []CapsAreConserved
BY InvariantHolds, InvGivesCaps, PTL

\* Of a file that CsvRawReader or TabularRawReader counts as in order, the store
\* keeps fewer events than clean_file returns exactly if an instant is spelled in
\* two ways; a CSV file leaves as many rows as oracle_union.py counts exactly if
\* not; and ts_expr leaves no second spelling in a Parquet or JSON file.
THEOREM NothingElseIsLost == Spec => []OnlySpellingsCollapse
BY InvariantHolds, InvGivesRows, PTL
==============================================================================
