--------------------------- MODULE EventToolsProofs ---------------------------
(***************************************************************************)
(* Proofs about EventTools for any store, any heads and stamps, any band,  *)
(* thresholds and calendar.  What a query counts is compared by counting   *)
(* subsets of one finite set, and what it sums by the recursive function   *)
(* SumRec, shown to exist; where it sorts or takes row numbers, by the     *)
(* rows between two stamps or below a rank.                                *)
(***************************************************************************)
EXTENDS EventTools, SequenceTheorems, FiniteSetTheorems, WellFoundedInduction, TLAPS

-----------------------------------------------------------------------------
(* The rows in scope *)

Rows == [machine : {Machine}, head : Heads, ts : Stamps, status : Int, torque : {k[2] : k \in Kinds}]

\* One row for each head and stamp: the identity of the store.
Keyed(R) == \A q, r \in R : q.head = r.head /\ q.ts = r.ts => q = r

\* What a query sees.
InScope(R) == IsFiniteSet(R) /\ R \subseteq Rows /\ Keyed(R)

TypeInv == IsFiniteSet(store) /\ InScope({r \in store : r.machine = Machine})

\* A kind of closure is a status and a torque.
LEMMA RowIsARow ==
  ASSUME NEW h \in Heads, NEW t \in Stamps, NEW k \in Kinds
  PROVE  Row(h, t, k) \in Rows /\ Row(h, t, k).machine = Machine
         /\ Row(h, t, k).head = h /\ Row(h, t, k).ts = t
<1>1. k[1] \in Int /\ k[2] \in {j[2] : j \in Kinds}
  BY StoreAssumption
<1> QED BY <1>1 DEF Row, Rows

\* The store keeps its identity as it grows.
LEMMA TypeHolds == Spec => []TypeInv
<1>1. Init => TypeInv
  <2> SUFFICES ASSUME Init PROVE TypeInv
    OBVIOUS
  <2>1. IsFiniteSet(store) /\ {r \in store : r.machine = Machine} = {}
    BY StoreAssumption DEF Init
  <2> QED BY <2>1, FS_EmptySet DEF TypeInv, InScope, Keyed
<1>2. TypeInv /\ [Next]_store => TypeInv'
  <2> SUFFICES ASSUME TypeInv, [Next]_store PROVE TypeInv'
    OBVIOUS
  <2>1. CASE UNCHANGED store
    BY <2>1 DEF TypeInv, InScope, Keyed
  <2>2. ASSUME NEW h \in Heads, NEW t \in Stamps, NEW k \in Kinds, Record(h, t, k)
        PROVE  TypeInv'
    <3> DEFINE S == {r \in store : r.machine = Machine}
               x == Row(h, t, k)
    <3>1. x \in Rows /\ x.machine = Machine /\ x.head = h /\ x.ts = t
      BY RowIsARow
    <3>2. Scope(WholeStore) = S
      BY DEF Scope, InPeriod
    <3>3. store' = store \cup {x} /\ \A r \in S : ~(r.head = h /\ r.ts = t)
      BY <2>2, <3>2 DEF Record
    <3> HIDE DEF x
    <3>4. {r \in store' : r.machine = Machine} = S \cup {x}
      BY <3>1, <3>3
    <3>5. IsFiniteSet(store') /\ IsFiniteSet(S \cup {x})
      BY <3>3, FS_AddElement DEF TypeInv, InScope
    <3>6. S \cup {x} \subseteq Rows
      BY <3>1 DEF TypeInv, InScope
    <3>7. Keyed(S \cup {x})
      BY <3>1, <3>3 DEF TypeInv, InScope, Keyed
    <3> HIDE DEF S
    <3>8. InScope(S \cup {x})
      BY <3>5, <3>6, <3>7 DEF InScope
    <3> QED BY <3>4, <3>5, <3>8 DEF TypeInv
  <2> QED BY <2>1, <2>2 DEF Next
<1> QED BY <1>1, <1>2, PTL DEF Spec

\* So does every part of it that a query reads.
LEMMA PartInScope ==
  ASSUME NEW R, InScope(R), NEW S \in SUBSET R
  PROVE  InScope(S)
BY FS_Subset DEF InScope, Keyed

LEMMA ScopesAreInScope == TypeInv => \A R \in Scopes : InScope(R)
<1> SUFFICES ASSUME TypeInv, NEW p \in Periods PROVE InScope(Scope(p))
  BY DEF Scopes
<1>1. Scope(p) \in SUBSET {r \in store : r.machine = Machine}
  BY DEF Scope
<1> QED BY <1>1, PartInScope DEF TypeInv

-----------------------------------------------------------------------------
(* Numbers *)

\* A set of naturals has a least member.
LEMMA Least ==
  ASSUME NEW T \in SUBSET Nat, T # {}
  PROVE  \E m \in T : \A k \in T : m <= k
<1>1. PICK m \in T : \A k \in T : ~(<<k, m>> \in OpToRel(<, Nat))
  BY NatLessThanWellFounded, WFMin
<1>2. ASSUME NEW k \in T PROVE m <= k
  <2>1. k \in Nat /\ m \in Nat /\ ~(k < m)
    BY <1>1 DEF OpToRel
  <2> QED BY <2>1
<1> QED BY <1>2

\* A bounded set of naturals has a greatest member.
LEMMA Greatest ==
  ASSUME NEW len \in Nat, NEW T \in SUBSET (0 .. len), T # {}
  PROVE  \E m \in T : \A k \in T : k <= m
<1> DEFINE U == {len - k : k \in T}
<1>1. U \in SUBSET Nat /\ U # {}
  <2>1. PICK t \in T : TRUE
    OBVIOUS
  <2>2. len - t \in U
    BY <2>1
  <2>3. \A k \in T : len - k \in Nat
    OBVIOUS
  <2> QED BY <2>2, <2>3
<1>2. PICK u \in U : \A v \in U : u <= v
  <2> HIDE DEF U
  <2> QED BY <1>1, Least
<1>3. PICK m \in T : u = len - m
  OBVIOUS
<1>4. ASSUME NEW k \in T PROVE k <= m
  <2>1. len - k \in U /\ k \in 0 .. len /\ m \in 0 .. len
    OBVIOUS
  <2>2. u <= len - k
    BY <1>2, <2>1
  <2> QED BY <1>3, <2>1, <2>2
<1> QED BY <1>4

\* The greatest member, and the least, are what Max and Min choose.
LEMMA MaxIs ==
  ASSUME NEW T \in SUBSET Int, NEW m \in T, \A k \in T : k <= m
  PROVE  Max(T) = m
<1>1. Max(T) \in T /\ \A y \in T : Max(T) >= y
  BY DEF Max
<1>2. Max(T) \in Int /\ m \in Int /\ Max(T) >= m /\ Max(T) <= m
  BY <1>1
<1> QED BY <1>2

\* The least member likewise.
LEMMA MinIs ==
  ASSUME NEW T \in SUBSET Int, NEW m \in T, \A k \in T : m <= k
  PROVE  Min(T) = m
<1>1. Min(T) \in T /\ \A y \in T : Min(T) <= y
  BY DEF Min
<1>2. Min(T) \in Int /\ m \in Int /\ Min(T) <= m /\ m <= Min(T)
  BY <1>1
<1> QED BY <1>2

-----------------------------------------------------------------------------
(* Counting up to a stamp *)

Upto(S, t) == {x \in S : x.ts <= t}
Within(S, s, t) == {x \in S : s < x.ts /\ x.ts <= t}

\* Stamps are numbers, and so are their seconds.
LEMMA StampsAreNumbers ==
  /\ \A r \in Rows : r.ts \in Nat /\ r.ts \in Int /\ r.status \in Int /\ r.torque \in Int
  /\ \A s, t \in Nat : Seconds(s, t) \in Int
  /\ MaxGap \in Int /\ IdleMin \in Int
<1>1. \A r \in Rows : r.ts \in Nat /\ r.ts \in Int /\ r.status \in Int /\ r.torque \in Int
  <2> SUFFICES ASSUME NEW r \in Rows PROVE r.ts \in Nat /\ r.status \in Int /\ r.torque \in Int
    OBVIOUS
  <2>1. r.ts \in Stamps /\ r.status \in Int /\ r.torque \in {k[2] : k \in Kinds}
    BY DEF Rows
  <2>2. r.torque \in Int
    BY <2>1, StoreAssumption
  <2> QED BY <2>1, StoreAssumption
<1>2. \A s, t \in Nat : Seconds(s, t) \in Int
  BY DEF Seconds
<1>3. MaxGap \in Int /\ IdleMin \in Int
  BY ConfigAssumption
<1> QED BY <1>1, <1>2, <1>3

\* The rows up to a stamp, counted in two parts.
LEMMA CountsBetween ==
  ASSUME NEW S, IsFiniteSet(S), S \subseteq Rows, NEW s \in Int, NEW t \in Int, s <= t
  PROVE  /\ Cardinality(Upto(S, t)) = Cardinality(Upto(S, s)) + Cardinality(Within(S, s, t))
         /\ Cardinality(Upto(S, s)) \in Nat /\ Cardinality(Within(S, s, t)) \in Nat
         /\ IsFiniteSet(Within(S, s, t))
<1>1. IsFiniteSet(Upto(S, s)) /\ IsFiniteSet(Within(S, s, t))
  BY FS_Subset DEF Upto, Within
<1>2. \A x \in S : x.ts \in Int
  BY StampsAreNumbers
<1>3. Upto(S, t) = Upto(S, s) \cup Within(S, s, t) /\ Upto(S, s) \cap Within(S, s, t) = {}
  BY <1>2 DEF Upto, Within
<1>4. Cardinality({}) = 0
  BY FS_EmptySet
<1>5. Cardinality(Upto(S, s)) \in Nat /\ Cardinality(Within(S, s, t)) \in Nat
  BY <1>1, FS_CardinalityType
<1>6. Cardinality(Upto(S, t)) = Cardinality(Upto(S, s)) + Cardinality(Within(S, s, t)) - 0
  BY <1>1, <1>3, <1>4, FS_Union
<1> QED BY <1>1, <1>5, <1>6

\* rn_all - rn_grp stays the same as long as the machine idles.
LEMMA IslandMeans ==
  ASSUME NEW R, InScope(R), NEW q \in R, NEW r \in R, q.head = r.head, q.ts <= r.ts
  PROVE  Island(q, R) = Island(r, R) <=> \A x \in Within(OfHead(R, r.head), q.ts, r.ts) : IsNoLoad(x)
<1> DEFINE A == OfHead(R, r.head)
           L == {x \in R : IsNoLoad(x)}
           B == OfHead(L, r.head)
<1>1. IsFiniteSet(A) /\ IsFiniteSet(B) /\ A \subseteq Rows /\ B \subseteq Rows
  BY FS_Subset DEF InScope, OfHead
<1>2. q.ts \in Int /\ r.ts \in Int
  BY StampsAreNumbers DEF InScope
<1>3. B = {x \in A : IsNoLoad(x)}
  BY DEF OfHead
<1>4. Island(q, R) = Cardinality(Upto(A, q.ts)) - Cardinality(Upto(B, q.ts))
      /\ Island(r, R) = Cardinality(Upto(A, r.ts)) - Cardinality(Upto(B, r.ts))
  BY DEF Island, RowNumber, Upto
<1> HIDE DEF A, B, L
<1>5. Within(B, q.ts, r.ts) = {x \in Within(A, q.ts, r.ts) : IsNoLoad(x)}
  BY <1>3 DEF Within
<1>6. Island(q, R) = Island(r, R)
        <=> Cardinality(Within(A, q.ts, r.ts)) = Cardinality(Within(B, q.ts, r.ts))
  <2>1. PICK a \in Nat, a1 \in Nat : a = Cardinality(Upto(A, q.ts)) /\ a1 = Cardinality(Within(A, q.ts, r.ts))
        /\ Cardinality(Upto(A, r.ts)) = a + a1
    BY <1>1, <1>2, CountsBetween
  <2>2. PICK b \in Nat, b1 \in Nat : b = Cardinality(Upto(B, q.ts)) /\ b1 = Cardinality(Within(B, q.ts, r.ts))
        /\ Cardinality(Upto(B, r.ts)) = b + b1
    BY <1>1, <1>2, CountsBetween
  <2> QED BY <1>4, <2>1, <2>2
<1>7. IsFiniteSet(Within(A, q.ts, r.ts))
  BY <1>1, <1>2, CountsBetween
<1>8. Cardinality(Within(A, q.ts, r.ts)) = Cardinality(Within(B, q.ts, r.ts))
        <=> Within(A, q.ts, r.ts) = Within(B, q.ts, r.ts)
  BY <1>5, <1>7, FS_Subset
<1>9. Within(A, q.ts, r.ts) = Within(B, q.ts, r.ts) <=> \A x \in Within(A, q.ts, r.ts) : IsNoLoad(x)
  BY <1>5
<1> QED BY <1>6, <1>8, <1>9 DEF A

\* SUM(gap_break) stays the same as long as there is no hole.
LEMMA SegmentMeans ==
  ASSUME NEW I, IsFiniteSet(I), I \subseteq Rows, NEW q \in I, NEW r \in I, q.ts <= r.ts
  PROVE  Segment(q, I) = Segment(r, I) <=> \A x \in Within(I, q.ts, r.ts) : ~GapBreak(x, I)
<1> DEFINE B == {x \in I : GapBreak(x, I)}
<1>1. IsFiniteSet(B) /\ B \subseteq Rows
  BY FS_Subset
<1>2. q.ts \in Int /\ r.ts \in Int
  BY StampsAreNumbers
<1>3. Segment(q, I) = Cardinality(Upto(B, q.ts)) /\ Segment(r, I) = Cardinality(Upto(B, r.ts))
  <2>1. \A t : Upto(B, t) = {x \in I : x.ts <= t /\ GapBreak(x, I)}
    BY DEF Upto
  <2> QED BY <2>1 DEF Segment
<1>4. Within(B, q.ts, r.ts) = {x \in Within(I, q.ts, r.ts) : GapBreak(x, I)}
  BY DEF Within
<1> HIDE DEF B
<1>5. PICK b \in Nat, b1 \in Nat : b = Cardinality(Upto(B, q.ts)) /\ b1 = Cardinality(Within(B, q.ts, r.ts))
      /\ Cardinality(Upto(B, r.ts)) = b + b1 /\ IsFiniteSet(Within(B, q.ts, r.ts))
  BY <1>1, <1>2, CountsBetween
<1>6. Segment(q, I) = Segment(r, I) <=> b1 = 0
  BY <1>3, <1>5
<1>7. b1 = 0 <=> Within(B, q.ts, r.ts) = {}
  BY <1>5, FS_EmptySet
<1> QED BY <1>4, <1>6, <1>7

-----------------------------------------------------------------------------
(* idle_periods: islands and segments are maximal runs *)

Idling(R) == {q \in R : IsNoLoad(q)}
RunOf(r, R) == {q \in IslandOf(r, R) : Segment(q, IslandOf(r, R)) = Segment(r, IslandOf(r, R))}

\* An island has no row of its head that is not in it between two that are.
LEMMA IslandIsConvex ==
  ASSUME NEW R, InScope(R), NEW r \in Idling(R)
  PROVE  /\ InScope(IslandOf(r, R)) /\ r \in IslandOf(r, R) /\ IslandOf(r, R) \subseteq Idling(R)
         /\ \A q \in IslandOf(r, R) : q.head = r.head
         /\ \A q, s \in IslandOf(r, R), x \in R :
              x.head = r.head /\ q.ts <= x.ts /\ x.ts <= s.ts => x \in IslandOf(r, R)
<1> DEFINE I == IslandOf(r, R)
<1>1. I \in SUBSET R /\ I \subseteq Idling(R) /\ r \in I
      /\ \A q \in I : q.head = r.head /\ Island(q, R) = Island(r, R)
  BY DEF IslandOf, Idling
<1>2. \A x \in R : x.ts \in Int
  BY StampsAreNumbers DEF InScope
<1>3. ASSUME NEW q \in I, NEW s \in I, NEW x \in R, x.head = r.head, q.ts <= x.ts, x.ts <= s.ts
      PROVE  x \in I
  <2>1. q \in R /\ s \in R /\ q.head = r.head /\ s.head = r.head /\ q.ts <= s.ts
        /\ Island(q, R) = Island(s, R) /\ Island(q, R) = Island(r, R)
    BY <1>1, <1>2, <1>3
  <2>2. \A y \in Within(OfHead(R, r.head), q.ts, s.ts) : IsNoLoad(y)
    BY <2>1, IslandMeans
  <2>3. CASE x.ts = q.ts
    BY <1>3, <2>1, <2>3 DEF InScope, Keyed
  <2>4. CASE q.ts < x.ts
    <3>1. IsNoLoad(x)
      BY <1>3, <2>2, <2>4 DEF Within, OfHead
    <3>2. \A y \in Within(OfHead(R, r.head), q.ts, x.ts) : IsNoLoad(y)
      <4>1. \A y \in OfHead(R, r.head) : y \in R
        BY DEF OfHead
      <4> QED BY <1>2, <1>3, <2>1, <2>2, <4>1 DEF Within
    <3>3. Island(q, R) = Island(x, R)
      BY <1>3, <2>1, <3>2, IslandMeans
    <3> QED BY <1>3, <2>1, <3>1, <3>3 DEF IslandOf
  <2>5. x.ts = q.ts \/ q.ts < x.ts
    BY <1>2, <1>3, <2>1
  <2> QED BY <2>3, <2>4, <2>5
<1>4. InScope(I)
  BY <1>1, PartInScope
<1> QED BY <1>1, <1>3, <1>4

\* So has the run within it.
LEMMA RunIsConvex ==
  ASSUME NEW R, InScope(R), NEW r \in Idling(R),
         NEW q \in RunOf(r, R), NEW s \in RunOf(r, R), NEW x \in R,
         x.head = r.head, q.ts <= x.ts, x.ts <= s.ts
  PROVE  x \in RunOf(r, R)
<1>1. PICK I : I = IslandOf(r, R)
  OBVIOUS
<1>2. q \in I /\ s \in I /\ Segment(q, I) = Segment(r, I) /\ Segment(s, I) = Segment(r, I)
  BY <1>1 DEF RunOf
<1>3. x \in I /\ IsFiniteSet(I) /\ I \subseteq Rows
  BY <1>1, <1>2, IslandIsConvex DEF InScope
<1>4. \A y \in I : y.ts \in Int
  BY <1>3, StampsAreNumbers
<1>5. \A y \in Within(I, q.ts, s.ts) : ~GapBreak(y, I)
  <2>1. q.ts <= s.ts
    BY <1>2, <1>3, <1>4
  <2> QED BY <1>2, <1>3, <2>1, SegmentMeans
<1>6. \A y \in Within(I, q.ts, x.ts) : ~GapBreak(y, I)
  BY <1>2, <1>3, <1>4, <1>5 DEF Within
<1>7. Segment(q, I) = Segment(x, I)
  BY <1>2, <1>3, <1>6, SegmentMeans
<1> QED BY <1>1, <1>2, <1>3, <1>7 DEF RunOf

\* LAG(ts) is the stamp of the row before.
LEMMA LagIs ==
  ASSUME NEW I, I \subseteq Rows, NEW x \in I, NEW q \in Earlier(x, I),
         \A y \in Earlier(x, I) : y.ts <= q.ts
  PROVE  Lag(x, I) = q.ts
<1> DEFINE T == {y.ts : y \in Earlier(x, I)}
<1>1. T \in SUBSET Int /\ q.ts \in T /\ \A t \in T : t <= q.ts
  BY StampsAreNumbers DEF Earlier
<1>2. Lag(x, I) = Max(T)
  BY DEF Lag
<1> HIDE DEF T
<1> QED BY <1>1, <1>2, MaxIs

\* A row that has rows before it has one right before it.
LEMMA RowBeforeIt ==
  ASSUME NEW I, I \subseteq Rows, NEW x \in I, Earlier(x, I) # {}
  PROVE  \E q \in Earlier(x, I) : \A y \in Earlier(x, I) : y.ts <= q.ts
<1> DEFINE T == {y.ts : y \in Earlier(x, I)}
<1>1. x.ts \in Nat /\ T \in SUBSET (0 .. x.ts) /\ T # {}
  BY StampsAreNumbers DEF Earlier
<1>2. PICK m \in T : \A k \in T : k <= m
  <2> HIDE DEF T
  <2> QED BY <1>1, Greatest
<1>3. PICK q \in Earlier(x, I) : q.ts = m
  OBVIOUS
<1>4. \A y \in Earlier(x, I) : y.ts \in T
  OBVIOUS
<1> QED BY <1>2, <1>3, <1>4

\* A run has no hole and no row of another kind in it.
LEMMA RunIsUnbroken ==
  ASSUME NEW R, InScope(R), NEW r \in Idling(R)
  PROVE  Unbroken(RunOf(r, R), R)
<1>1. PICK I : I = IslandOf(r, R)
  OBVIOUS
<1>2. IsFiniteSet(I) /\ I \subseteq Rows /\ I \subseteq R /\ r \in I /\ \A q \in I : q.head = r.head
  BY <1>1, IslandIsConvex DEF InScope, Idling
<1>3. r \in RunOf(r, R) /\ RunOf(r, R) \subseteq I
      /\ \A q \in RunOf(r, R) : Segment(q, I) = Segment(r, I)
  BY <1>1, <1>2 DEF RunOf
<1>4. \A y \in R : y.ts \in Nat /\ y.ts \in Int
  BY StampsAreNumbers DEF InScope
<1>5. ASSUME NEW q \in RunOf(r, R), NEW s \in RunOf(r, R), q.ts < s.ts
      PROVE  LET between == {x \in OfHead(R, q.head) : q.ts < x.ts /\ x.ts < s.ts}
             IN  between \subseteq RunOf(r, R) /\ (between = {} => Seconds(q.ts, s.ts) <= MaxGap)
  <2> DEFINE between == {x \in OfHead(R, q.head) : q.ts < x.ts /\ x.ts < s.ts}
  <2>1. q \in I /\ s \in I /\ q \in R /\ s \in R /\ q.head = r.head /\ s.head = r.head
    BY <1>2, <1>3
  <2>2. ASSUME NEW x \in between PROVE x \in RunOf(r, R)
    <3>1. x \in R /\ x.head = r.head /\ q.ts < x.ts /\ x.ts < s.ts
      BY <2>1 DEF OfHead
    <3>2. q.ts <= x.ts /\ x.ts <= s.ts
      BY <1>4, <2>1, <3>1
    <3> QED BY <3>1, <3>2, RunIsConvex
  <2>3. ASSUME between = {} PROVE Seconds(q.ts, s.ts) <= MaxGap
    <3>1. q.ts <= s.ts /\ Segment(q, I) = Segment(s, I)
      BY <1>3, <1>4, <1>5, <2>1
    <3>2. s \in Within(I, q.ts, s.ts)
      BY <1>4, <1>5, <2>1 DEF Within
    <3>3. ~GapBreak(s, I)
      BY <1>2, <2>1, <3>1, <3>2, SegmentMeans
    <3>4. q \in Earlier(s, I)
      BY <1>5, <2>1 DEF Earlier
    <3>5. ASSUME NEW y \in Earlier(s, I) PROVE y.ts <= q.ts
      <4>1. y \in R /\ y.head = q.head /\ y.ts < s.ts
        BY <1>2, <2>1 DEF Earlier
      <4>2. ~(q.ts < y.ts)
        BY <2>3, <4>1 DEF OfHead
      <4> QED BY <1>4, <2>1, <4>1, <4>2
    <3>6. Lag(s, I) = q.ts
      BY <1>2, <2>1, <3>4, <3>5, LagIs
    <3>7. ~(Seconds(q.ts, s.ts) > MaxGap)
      BY <3>3, <3>4, <3>6 DEF GapBreak
    <3> QED BY <1>4, <2>1, <3>7, StampsAreNumbers
  <2> HIDE DEF between
  <2>4. between \subseteq RunOf(r, R) /\ (between = {} => Seconds(q.ts, s.ts) <= MaxGap)
    BY <2>2, <2>3
  <2> QED BY <2>4 DEF between
<1>6. \A q, s \in RunOf(r, R) : q.head = s.head
  BY <1>2, <1>3
<1> QED BY <1>3, <1>5, <1>6 DEF Unbroken

\* What Unbroken says of two rows, without its LET.
Between(R, q, s) == {x \in OfHead(R, q.head) : q.ts < x.ts /\ x.ts < s.ts}

LEMMA UnbrokenMeans ==
  ASSUME NEW S, NEW R
  PROVE  Unbroken(S, R) <=>
           /\ S # {} /\ \A q, s \in S : q.head = s.head
           /\ \A q, s \in S : q.ts < s.ts =>
                /\ Between(R, q, s) \subseteq S
                /\ Between(R, q, s) = {} => Seconds(q.ts, s.ts) <= MaxGap
BY DEF Unbroken, Between

\* Two rows of an unbroken set are in one island and in one segment of it.
LEMMA UnbrokenIsOneRun ==
  ASSUME NEW R, InScope(R), NEW S \in SUBSET Idling(R), Unbroken(S, R),
         NEW q \in S, NEW s \in S, q.ts <= s.ts
  PROVE  /\ Island(q, R) = Island(s, R)
         /\ q.head = s.head
         /\ \A I : I = IslandOf(q, R) => Segment(q, I) = Segment(s, I)
<1>1. \A y \in R : y.ts \in Nat /\ y.ts \in Int
  BY StampsAreNumbers DEF InScope
<1>2. q \in R /\ s \in R /\ q.head = s.head /\ S \subseteq R /\ \A x \in S : IsNoLoad(x)
  BY UnbrokenMeans DEF Idling
<1>3. ASSUME NEW x \in R, x.head = s.head, q.ts < x.ts, x.ts <= s.ts PROVE x \in S
  <2>1. CASE x.ts = s.ts
    BY <1>2, <1>3, <2>1 DEF InScope, Keyed
  <2>2. CASE x.ts < s.ts
    <3>1. x \in Between(R, q, s) /\ q.ts < s.ts
      BY <1>1, <1>2, <1>3, <2>2 DEF Between, OfHead
    <3> QED BY <3>1, UnbrokenMeans
  <2> QED BY <1>1, <1>2, <1>3, <2>1, <2>2
<1>4. Island(q, R) = Island(s, R)
  <2>1. \A x \in Within(OfHead(R, s.head), q.ts, s.ts) : IsNoLoad(x)
    BY <1>2, <1>3 DEF Within, OfHead
  <2> QED BY <1>2, <2>1, IslandMeans
<1>5. ASSUME NEW I, I = IslandOf(q, R) PROVE Segment(q, I) = Segment(s, I)
  <2>1. q \in Idling(R)
    OBVIOUS
  <2>2. /\ IsFiniteSet(I) /\ I \subseteq Rows /\ I \subseteq R /\ q \in I
        /\ \A y \in I : y.head = q.head
        /\ \A a, b \in I, x \in R : x.head = q.head /\ a.ts <= x.ts /\ x.ts <= b.ts => x \in I
    BY <1>5, <2>1, IslandIsConvex DEF InScope, Idling
  <2>3. s \in I
    BY <1>2, <1>4, <1>5 DEF IslandOf
  <2>4. ASSUME NEW x \in Within(I, q.ts, s.ts) PROVE ~GapBreak(x, I)
    <3>1. x \in I /\ x \in R /\ x.head = q.head /\ q.ts < x.ts /\ x.ts <= s.ts
      BY <2>2 DEF Within
    <3>2. x \in S
      BY <1>2, <1>3, <3>1
    <3>3. q \in Earlier(x, I)
      BY <2>2, <3>1 DEF Earlier
    <3>4. PICK p \in Earlier(x, I) : \A y \in Earlier(x, I) : y.ts <= p.ts
      BY <2>2, <3>1, <3>3, RowBeforeIt
    <3>5. p \in I /\ p \in R /\ p.head = q.head /\ p.ts < x.ts /\ q.ts <= p.ts
      BY <2>2, <3>3, <3>4 DEF Earlier
    <3>6. p \in S
      <4>1. CASE q.ts = p.ts
        BY <1>2, <3>5, <4>1 DEF InScope, Keyed
      <4>2. CASE q.ts < p.ts
        <5>1. p.ts <= s.ts
          BY <1>1, <1>2, <3>1, <3>5
        <5> QED BY <1>2, <1>3, <3>5, <4>2, <5>1
      <4> QED BY <1>1, <1>2, <3>5, <4>1, <4>2
    <3>7. Between(R, p, x) = {}
      <4> SUFFICES ASSUME NEW y \in Between(R, p, x) PROVE FALSE
        OBVIOUS
      <4>1. y \in R /\ y.head = q.head /\ p.ts < y.ts /\ y.ts < x.ts
        BY <3>5 DEF Between, OfHead
      <4>2. p.ts <= y.ts /\ y.ts <= x.ts
        BY <1>1, <3>1, <3>5, <4>1
      <4>3. y \in I
        BY <2>2, <3>1, <3>5, <4>1, <4>2
      <4>4. y \in Earlier(x, I)
        BY <4>1, <4>3 DEF Earlier
      <4> QED BY <1>1, <3>4, <3>5, <4>1, <4>4
    <3>8. Seconds(p.ts, x.ts) <= MaxGap
      BY <3>2, <3>5, <3>6, <3>7, UnbrokenMeans
    <3>9. Lag(x, I) = p.ts
      BY <2>2, <3>1, <3>4, LagIs
    <3> QED BY <1>1, <3>1, <3>5, <3>8, <3>9, StampsAreNumbers DEF GapBreak
  <2> QED BY <2>2, <2>3, <2>4, SegmentMeans
<1> QED BY <1>2, <1>4, <1>5

\* So an unbroken set is within the run of each of its rows.
LEMMA UnbrokenIsInRun ==
  ASSUME NEW R, InScope(R), NEW S \in SUBSET Idling(R), Unbroken(S, R), NEW r \in S
  PROVE  S \subseteq RunOf(r, R)
<1> SUFFICES ASSUME NEW q \in S PROVE q \in RunOf(r, R)
  OBVIOUS
<1>1. q \in Idling(R) /\ r \in Idling(R) /\ q \in R /\ r \in R /\ q.ts \in Int /\ r.ts \in Int
  BY StampsAreNumbers DEF InScope, Idling
<1>2. CASE r.ts <= q.ts
  <2>1. Island(r, R) = Island(q, R) /\ r.head = q.head
        /\ Segment(r, IslandOf(r, R)) = Segment(q, IslandOf(r, R))
    BY <1>2, UnbrokenIsOneRun
  <2> QED BY <1>1, <2>1 DEF RunOf, IslandOf, Idling
<1>3. CASE q.ts <= r.ts
  <2>1. Island(q, R) = Island(r, R) /\ q.head = r.head
        /\ Segment(q, IslandOf(q, R)) = Segment(r, IslandOf(q, R))
    BY <1>3, UnbrokenIsOneRun
  <2>2. IslandOf(q, R) = IslandOf(r, R)
    BY <2>1 DEF IslandOf
  <2>3. q \in IslandOf(r, R)
    BY <1>1, <2>1 DEF IslandOf, Idling
  <2> QED BY <2>1, <2>2, <2>3 DEF RunOf
<1> QED BY <1>1, <1>2, <1>3

\* Of a run, an unbroken part can be made larger by the row next to it.
LEMMA RunsNextRow ==
  ASSUME NEW R, InScope(R), NEW r \in Idling(R),
         NEW S \in SUBSET RunOf(r, R), r \in S, Unbroken(S, R), S # RunOf(r, R)
  PROVE  \E x \in Idling(R) \ S : Unbroken(S \cup {x}, R)
<1> DEFINE O == RunOf(r, R)
<1>1. Unbroken(O, R) /\ O \subseteq Idling(R) /\ O \subseteq R
  BY RunIsUnbroken, IslandIsConvex DEF RunOf, Idling
<1>2. \A y \in R : y.ts \in Nat /\ y.ts \in Int
  BY StampsAreNumbers DEF InScope
<1>3. /\ \A q, s \in O : q.head = s.head
      /\ \A q, s \in O : q.ts < s.ts =>
           /\ Between(R, q, s) \subseteq O
           /\ Between(R, q, s) = {} => Seconds(q.ts, s.ts) <= MaxGap
  BY <1>1, UnbrokenMeans
<1>4. /\ S # {} /\ \A q, s \in S : q.head = s.head
      /\ \A q, s \in S : q.ts < s.ts =>
           /\ Between(R, q, s) \subseteq S
           /\ Between(R, q, s) = {} => Seconds(q.ts, s.ts) <= MaxGap
  BY UnbrokenMeans
<1> HIDE DEF O
<1>5. S \subseteq O /\ r \in O /\ r \in R
  BY <1>1 DEF O
<1>6. PICK y \in O : y \notin S
  BY DEF O
<1>7. \A x \in O, z \in R : z.head = x.head /\ z.ts = x.ts => z = x
  BY <1>1 DEF InScope, Keyed
\* A row of the run that has none between it and S.
<1>8. ASSUME NEW x \in O, x \notin S,
             \A q \in S : q.ts < x.ts => Between(R, q, x) \subseteq S,
             \A q \in S : x.ts < q.ts => Between(R, x, q) \subseteq S
      PROVE  Unbroken(S \cup {x}, R)
  <2>1. \A q, s \in S \cup {x} : q.head = s.head
    BY <1>3, <1>5, <1>8
  <2>2. ASSUME NEW q \in S \cup {x}, NEW s \in S \cup {x}, q.ts < s.ts
        PROVE  /\ Between(R, q, s) \subseteq S \cup {x}
               /\ Between(R, q, s) = {} => Seconds(q.ts, s.ts) <= MaxGap
    <3>1. Between(R, q, s) = {} => Seconds(q.ts, s.ts) <= MaxGap
      BY <1>3, <1>5, <1>8, <2>2
    <3>2. ~(x.ts < x.ts)
      BY <1>1, <1>2, <1>8
    <3>3. Between(R, q, s) \subseteq S \cup {x}
      <4>1. CASE q = x /\ s = x
        BY <2>2, <3>2, <4>1
      <4>2. CASE q = x /\ s \in S
        BY <1>8, <2>2, <4>2
      <4>3. CASE q \in S /\ s = x
        BY <1>8, <2>2, <4>3
      <4>4. CASE q \in S /\ s \in S
        BY <1>4, <2>2, <4>4
      <4> QED BY <4>1, <4>2, <4>3, <4>4
    <3> QED BY <3>1, <3>3
  <2> QED BY <2>1, <2>2, UnbrokenMeans
\* Nothing outside S is between two rows of it.
<1>9. ASSUME NEW z \in O, z \notin S, NEW q \in S, NEW s \in S PROVE ~(q.ts <= z.ts /\ z.ts <= s.ts)
  <2> SUFFICES ASSUME q.ts <= z.ts, z.ts <= s.ts PROVE FALSE
    OBVIOUS
  <2>1. q \in R /\ s \in R /\ z \in R /\ q.head = z.head /\ s.head = z.head
    BY <1>1, <1>3, <1>5, <1>9
  <2>2. q.ts # z.ts /\ s.ts # z.ts
    BY <1>7, <1>9, <2>1
  <2>3. q.ts < z.ts /\ z.ts < s.ts /\ q.ts < s.ts
    BY <1>2, <2>1, <2>2
  <2>4. z \in Between(R, q, s)
    BY <2>1, <2>3 DEF Between, OfHead
  <2> QED BY <1>4, <1>9, <2>3, <2>4
<1>10. CASE r.ts < y.ts
  <2> DEFINE T == {z.ts : z \in {z \in O \ S : r.ts < z.ts}}
  <2>1. T \in SUBSET Nat /\ y.ts \in T
    BY <1>1, <1>2, <1>6, <1>10
  <2>2. PICK m \in T : \A k \in T : m <= k
    <3> HIDE DEF T
    <3> QED BY <2>1, Least
  <2>3. PICK x \in O \ S : r.ts < x.ts /\ x.ts = m
    OBVIOUS
  <2>4. ASSUME NEW z \in O, r.ts < z.ts, z.ts < x.ts PROVE z \in S
    <3>1. z \notin S => z.ts \in T
      BY <2>4
    <3> QED BY <1>1, <1>2, <2>2, <2>3, <2>4, <3>1
  <2> HIDE DEF T
  <2>5. ASSUME NEW q \in S, q.ts < x.ts PROVE Between(R, q, x) \subseteq S
    <3> SUFFICES ASSUME NEW z \in Between(R, q, x) PROVE z \in S
      OBVIOUS
    <3>1. z \in O /\ z \in R /\ q.ts < z.ts /\ z.ts < x.ts
      BY <1>1, <1>3, <1>5, <2>3, <2>5 DEF Between, OfHead
    <3>2. CASE r.ts < z.ts
      BY <2>4, <3>1, <3>2
    <3>3. CASE ~(r.ts < z.ts)
      <4>1. q.ts <= z.ts /\ z.ts <= r.ts
        BY <1>1, <1>2, <1>5, <3>1, <3>3
      <4> QED BY <1>9, <3>1, <4>1
    <3> QED BY <3>2, <3>3
  <2>6. ASSUME NEW q \in S, x.ts < q.ts PROVE FALSE
    <3>1. r.ts <= x.ts /\ x.ts <= q.ts
      BY <1>1, <1>2, <1>5, <2>3, <2>6
    <3> QED BY <1>9, <2>3, <3>1
  <2>7. Unbroken(S \cup {x}, R)
    BY <1>8, <2>3, <2>5, <2>6
  <2> QED BY <1>1, <2>3, <2>7
<1>11. CASE y.ts < r.ts
  <2> DEFINE T == {z.ts : z \in {z \in O \ S : z.ts < r.ts}}
  <2>1. T \in SUBSET (0 .. r.ts) /\ y.ts \in T /\ r.ts \in Nat
    BY <1>1, <1>2, <1>5, <1>6, <1>11
  <2>2. PICK m \in T : \A k \in T : k <= m
    <3> HIDE DEF T
    <3> QED BY <2>1, Greatest
  <2>3. PICK x \in O \ S : x.ts < r.ts /\ x.ts = m
    OBVIOUS
  <2>4. ASSUME NEW z \in O, x.ts < z.ts, z.ts < r.ts PROVE z \in S
    <3>1. z \notin S => z.ts \in T
      BY <2>4
    <3> QED BY <1>1, <1>2, <2>2, <2>3, <2>4, <3>1
  <2> HIDE DEF T
  <2>5. ASSUME NEW q \in S, x.ts < q.ts PROVE Between(R, x, q) \subseteq S
    <3> SUFFICES ASSUME NEW z \in Between(R, x, q) PROVE z \in S
      OBVIOUS
    <3>1. z \in O /\ z \in R /\ x.ts < z.ts /\ z.ts < q.ts
      BY <1>1, <1>3, <1>5, <2>3, <2>5 DEF Between, OfHead
    <3>2. CASE z.ts < r.ts
      BY <2>4, <3>1, <3>2
    <3>3. CASE ~(z.ts < r.ts)
      <4>1. r.ts <= z.ts /\ z.ts <= q.ts
        BY <1>1, <1>2, <1>5, <3>1, <3>3
      <4> QED BY <1>9, <3>1, <4>1
    <3> QED BY <3>2, <3>3
  <2>6. ASSUME NEW q \in S, q.ts < x.ts PROVE FALSE
    <3>1. q.ts <= x.ts /\ x.ts <= r.ts
      BY <1>1, <1>2, <1>5, <2>3, <2>6
    <3> QED BY <1>9, <2>3, <3>1
  <2>7. Unbroken(S \cup {x}, R)
    BY <1>8, <2>3, <2>5, <2>6
  <2> QED BY <1>1, <2>3, <2>7
<1>12. r.ts < y.ts \/ y.ts < r.ts
  <2>1. y.ts # r.ts
    BY <1>1, <1>3, <1>5, <1>6, <1>7
  <2> QED BY <1>1, <1>2, <1>5, <1>6, <2>1
<1> QED BY <1>10, <1>11, <1>12

\* The runs of the query are the maximal ones.
LEMMA RunsAreTheMaximal ==
  ASSUME NEW R, InScope(R)
  PROVE  {RunOf(r, R) : r \in Idling(R)} =
           {S \in SUBSET Idling(R) :
              Unbroken(S, R) /\ \A x \in Idling(R) \ S : ~Unbroken(S \cup {x}, R)}
<1>1. ASSUME NEW r \in Idling(R)
      PROVE  /\ RunOf(r, R) \in SUBSET Idling(R) /\ Unbroken(RunOf(r, R), R)
             /\ \A x \in Idling(R) \ RunOf(r, R) : ~Unbroken(RunOf(r, R) \cup {x}, R)
  <2>1. RunOf(r, R) \in SUBSET Idling(R) /\ r \in RunOf(r, R)
    BY IslandIsConvex DEF RunOf
  <2>2. ASSUME NEW x \in Idling(R) \ RunOf(r, R), Unbroken(RunOf(r, R) \cup {x}, R)
        PROVE  FALSE
    <3>1. RunOf(r, R) \cup {x} \in SUBSET Idling(R) /\ r \in RunOf(r, R) \cup {x}
      BY <2>1
    <3>2. RunOf(r, R) \cup {x} \subseteq RunOf(r, R)
      BY <2>2, <3>1, UnbrokenIsInRun
    <3> QED BY <3>2
  <2> QED BY <2>1, <2>2, RunIsUnbroken
<1>2. ASSUME NEW S \in SUBSET Idling(R), Unbroken(S, R),
             \A x \in Idling(R) \ S : ~Unbroken(S \cup {x}, R)
      PROVE  \E r \in Idling(R) : S = RunOf(r, R)
  <2>1. PICK r \in S : TRUE
    BY <1>2, UnbrokenMeans
  <2>2. S \in SUBSET RunOf(r, R) /\ r \in Idling(R)
    BY <1>2, UnbrokenIsInRun
  <2>3. S = RunOf(r, R)
    BY <1>2, <2>2, RunsNextRow
  <2> QED BY <2>2, <2>3
<1> QED BY <1>1, <1>2

\* The idle periods of every report are the maximal runs, in any store.
LEMMA IdlePeriodsAreMaximal == TypeInv => IdleRunsAreMaximal
<1> SUFFICES ASSUME TypeInv PROVE IdleRunsAreMaximal
  OBVIOUS
<1>1. ASSUME NEW R, InScope(R)
      PROVE  LET loaded == {r \in R : IsNoLoad(r)}
                 runs == {S \in SUBSET loaded : Unbroken(S, R) /\ \A x \in loaded \ S : ~Unbroken(S \cup {x}, R)}
                 span(S) == [head |-> (CHOOSE r \in S : TRUE).head, cycles |-> Cardinality(S),
                             start |-> Min({r.ts : r \in S}), end |-> Max({r.ts : r \in S})]
             IN  IdlePeriods(R, IdleMin) = {s \in {span(S) : S \in runs} : Seconds(s.start, s.end) >= IdleMin}
  <2> DEFINE span(S) == [head |-> (CHOOSE r \in S : TRUE).head, cycles |-> Cardinality(S),
                         start |-> Min({r.ts : r \in S}), end |-> Max({r.ts : r \in S})]
             mine == {RunOf(r, R) : r \in Idling(R)}
             theirs == {S \in SUBSET Idling(R) :
                          Unbroken(S, R) /\ \A x \in Idling(R) \ S : ~Unbroken(S \cup {x}, R)}
  <2>1. IdlePeriods(R, IdleMin) = {s \in {span(S) : S \in mine} : Seconds(s.start, s.end) >= IdleMin}
    BY DEF IdlePeriods, RunOf, Idling
  <2>2. mine = theirs
    BY <1>1, RunsAreTheMaximal
  <2> HIDE DEF span
  <2>3. {span(S) : S \in mine} = {span(S) : S \in theirs}
    BY <2>2
  <2>4. IdlePeriods(R, IdleMin) = {s \in {span(S) : S \in theirs} : Seconds(s.start, s.end) >= IdleMin}
    BY <2>1, <2>3
  <2> QED BY <2>4 DEF span, Idling
<1> QED BY <1>1, ScopesAreInScope DEF IdleRunsAreMaximal

-----------------------------------------------------------------------------
(* compare_periods: the days a bucket is divided by *)

\* Of two numbers, one or the other.
LEMMA MaxOfTwo ==
  ASSUME NEW a \in Int, NEW b \in Int
  PROVE  Max({a, b}) = (IF a >= b THEN a ELSE b) /\ Min({a, b}) = (IF a <= b THEN a ELSE b)
<1>1. CASE a >= b
  <2>1. Max({a, b}) = a /\ Min({a, b}) = b
    BY <1>1, MaxIs, MinIs
  <2> QED BY <1>1, <2>1
<1>2. CASE ~(a >= b)
  <2>1. Max({a, b}) = b /\ Min({a, b}) = a
    BY <1>2, MaxIs, MinIs
  <2> QED BY <1>2, <2>1
<1> QED BY <1>1, <1>2

\* A finite set of integers has a greatest and a least member.
HasEnds(T) == (\E m \in T : \A k \in T : k <= m) /\ (\E m \in T : \A k \in T : m <= k)

LEMMA FiniteSetsHaveEnds ==
  ASSUME NEW S \in SUBSET Int, IsFiniteSet(S), S # {}
  PROVE  HasEnds(S)
<1> DEFINE Bad(T) == T # {} /\ IsFiniteSet(T) /\ ~HasEnds(T)
           sizes == {Cardinality(T) : T \in {T \in SUBSET Int : Bad(T)}}
<1>1. SUFFICES ASSUME Bad(S) PROVE FALSE
  OBVIOUS
<1>2. sizes \in SUBSET Nat /\ sizes # {}
  BY <1>1, FS_CardinalityType
<1>3. PICK c \in sizes : \A d \in sizes : c <= d
  <2> HIDE DEF sizes
  <2> QED BY <1>2, Least
<1>4. PICK T \in SUBSET Int : Bad(T) /\ Cardinality(T) = c
  OBVIOUS
<1>5. PICK x \in T : TRUE
  BY <1>4
<1>6. PICK U \in SUBSET Int : U = T \ {x} /\ T = U \cup {x}
  BY <1>4, <1>5
<1>7. IsFiniteSet(U) /\ Cardinality(U) = c - 1 /\ c \in Nat
  BY <1>2, <1>4, <1>5, <1>6, FS_RemoveElement
<1>8. U = {} \/ HasEnds(U)
  <2>1. Bad(U) => c <= c - 1
    BY <1>3, <1>7
  <2> QED BY <1>7, <2>1
<1>9. x \in Int
  BY <1>5
<1>10. CASE U = {}
  BY <1>4, <1>6, <1>9, <1>10 DEF HasEnds
<1>11. CASE HasEnds(U)
  <2>1. PICK hi \in U, lo \in U : \A k \in U : k <= hi /\ lo <= k
    BY <1>11 DEF HasEnds
  <2>2. \E m \in T : \A k \in T : k <= m
    <3>1. CASE x <= hi
      BY <1>6, <1>9, <2>1, <3>1
    <3>2. CASE ~(x <= hi)
      <4>1. \A k \in U : k <= x
        BY <1>9, <2>1, <3>2
      <4> QED BY <1>6, <1>9, <4>1
    <3> QED BY <3>1, <3>2
  <2>3. \E m \in T : \A k \in T : m <= k
    <3>1. CASE lo <= x
      BY <1>6, <1>9, <2>1, <3>1
    <3>2. CASE ~(lo <= x)
      <4>1. \A k \in U : x <= k
        BY <1>9, <2>1, <3>2
      <4> QED BY <1>6, <1>9, <4>1
    <3> QED BY <3>1, <3>2
  <2> QED BY <1>4, <2>2, <2>3 DEF HasEnds
<1> QED BY <1>8, <1>10, <1>11

\* So Max and Min are what their names say.
LEMMA EndsOfFinite ==
  ASSUME NEW S \in SUBSET Int, IsFiniteSet(S), S # {}
  PROVE  Max(S) \in S /\ Min(S) \in S /\ \A k \in S : Min(S) <= k /\ k <= Max(S)
<1>1. PICK hi \in S, lo \in S : \A k \in S : k <= hi /\ lo <= k
  BY FiniteSetsHaveEnds DEF HasEnds
<1>2. Max(S) = hi /\ Min(S) = lo
  BY <1>1, MaxIs, MinIs
<1> QED BY <1>1, <1>2

\* The months are in order and none lies between one and the next.
LEMMA MonthsInOrder ==
  ASSUME NEW m \in DOMAIN MonthStart, NEW k \in DOMAIN MonthStart
  PROVE  /\ MonthStart[m] \in Int
         /\ MonthStart[m] = MonthStart[k] => m = k
         /\ NextMonth(m) \in DOMAIN MonthStart =>
              ~(MonthStart[m] < MonthStart[k] /\ MonthStart[k] < MonthStart[NextMonth(m)])
         /\ NextMonth(m) \in DOMAIN MonthStart => MonthStart[m] < MonthStart[NextMonth(m)]
         /\ Before(m, NextMonth(k)) /\ {NextMonth(m), NextMonth(k)} \subseteq DOMAIN MonthStart =>
              MonthStart[NextMonth(m)] <= MonthStart[NextMonth(k)]
<1>1. PICK y \in Int, n \in 1 .. 12 : m = <<y, n>>
  BY CalendarAssumption
<1>2. PICK z \in Int, j \in 1 .. 12 : k = <<z, j>>
  BY CalendarAssumption
<1>3. \A a, b \in DOMAIN MonthStart :
        MonthStart[a] \in Int /\ (Before(a, b) <=> MonthStart[a] < MonthStart[b])
  BY CalendarAssumption
<1>4. MonthStart[m] = MonthStart[k] => m = k
  <2>1. MonthStart[m] = MonthStart[k] => ~Before(m, k) /\ ~Before(k, m)
    BY <1>3
  <2>2. ~Before(m, k) /\ ~Before(k, m) => y = z /\ n = j
    BY <1>1, <1>2 DEF Before
  <2> QED BY <1>1, <1>2, <2>1, <2>2
<1>5. Before(m, NextMonth(m)) /\ ~(Before(m, k) /\ Before(k, NextMonth(m)))
  BY <1>1, <1>2 DEF Before, NextMonth
<1>6. Before(m, NextMonth(k)) => ~Before(NextMonth(k), NextMonth(m))
  BY <1>1, <1>2 DEF Before, NextMonth
<1> QED BY <1>3, <1>4, <1>5, <1>6

\* A row is dated by a month and by a week of the calendar.
LEMMA RowIsDated ==
  ASSUME NEW r \in Rows
  PROVE  /\ Month[r.ts] \in DOMAIN MonthStart /\ NextMonth(Month[r.ts]) \in DOMAIN MonthStart
         /\ Day[r.ts] \in Int /\ Week[r.ts] \in Int
         /\ MonthStart[Month[r.ts]] <= Day[r.ts]
         /\ Day[r.ts] < MonthStart[NextMonth(Month[r.ts])]
         /\ Week[r.ts] <= Day[r.ts] /\ Day[r.ts] < Week[r.ts] + 7
<1>1. r.ts \in Stamps
  BY DEF Rows
<1>2. PICK t \in Stamps : t = r.ts
  BY <1>1
<1>3. Month[t] \in DOMAIN MonthStart /\ NextMonth(Month[t]) \in DOMAIN MonthStart
      /\ Day[t] \in MonthStart[Month[t]] .. MonthStart[NextMonth(Month[t])] - 1
      /\ Week[t] \in Int /\ Day[t] - Week[t] \in 0 .. 6
  BY CalendarAssumption
<1>4. PICK a \in Int, b \in Int : a = MonthStart[Month[t]] /\ b = MonthStart[NextMonth(Month[t])]
  BY <1>3, MonthsInOrder
<1>5. Day[t] \in Int /\ a <= Day[t] /\ Day[t] < b
  BY <1>3, <1>4
<1>6. Week[t] <= Day[t] /\ Day[t] < Week[t] + 7
  BY <1>3, <1>5
<1> QED BY <1>2, <1>3, <1>4, <1>5, <1>6

Starts == {MonthStart[m] : m \in DOMAIN MonthStart}

\* The calendar ends.
LEMMA StartsHaveEnds ==
  /\ Range(MonthStart) = Starts
  /\ DOMAIN MonthStart # {} =>
       /\ Min(Starts) \in Int /\ Max(Starts) \in Int
       /\ \A m \in DOMAIN MonthStart : Min(Starts) <= MonthStart[m] /\ MonthStart[m] <= Max(Starts)
<1>1. Range(MonthStart) = Starts
  BY DEF Range, Starts
<1>2. SUFFICES ASSUME DOMAIN MonthStart # {}
      PROVE  /\ Min(Starts) \in Int /\ Max(Starts) \in Int
             /\ \A m \in DOMAIN MonthStart : Min(Starts) <= MonthStart[m] /\ MonthStart[m] <= Max(Starts)
  BY <1>1
<1>3. Starts \in SUBSET Int /\ Starts # {}
  BY <1>2, MonthsInOrder DEF Starts
<1>4. IsFiniteSet(Starts)
  <2> DEFINE g == [m \in DOMAIN MonthStart |-> MonthStart[m]]
  <2>1. g \in Surjection(DOMAIN MonthStart, Starts)
    BY DEF Surjection, Starts
  <2>2. IsFiniteSet(DOMAIN MonthStart)
    BY CalendarAssumption
  <2> HIDE DEF g
  <2> QED BY <2>1, <2>2, FS_Surjection
<1>5. \A m \in DOMAIN MonthStart : MonthStart[m] \in Starts
  BY DEF Starts
<1> QED BY <1>3, <1>4, <1>5, EndsOfFinite

\* The month a day of the calendar falls in is the one it is in the days of.
LEMMA MonthOfIs ==
  ASSUME NEW m \in DOMAIN MonthStart, NextMonth(m) \in DOMAIN MonthStart,
         NEW d \in Min(Starts) .. Max(Starts)
  PROVE  MonthOf[d] = m <=> MonthStart[m] <= d /\ d < MonthStart[NextMonth(m)]
<1> DEFINE In(k) == k \in DOMAIN MonthStart /\ MonthStart[k] <= d
                    /\ ~\E n \in DOMAIN MonthStart : MonthStart[k] < MonthStart[n] /\ MonthStart[n] <= d
<1>1. d \in Int /\ d \in Min(Range(MonthStart)) .. Max(Range(MonthStart))
  BY StartsHaveEnds
<1>2. MonthOf[d] = CHOOSE k \in DOMAIN MonthStart :
        MonthStart[k] <= d
        /\ ~\E n \in DOMAIN MonthStart : MonthStart[k] < MonthStart[n] /\ MonthStart[n] <= d
  BY <1>1 DEF MonthOf
<1>3. \A k \in DOMAIN MonthStart : MonthStart[k] \in Int
  BY MonthsInOrder
<1>4. \E k : In(k)
  <2> DEFINE T == {MonthStart[k] : k \in {k \in DOMAIN MonthStart : MonthStart[k] <= d}}
  <2>1. T \in SUBSET Starts
    BY DEF Starts
  <2>2. Starts \in SUBSET Int /\ IsFiniteSet(Starts) /\ Starts # {}
    <3>1. Starts \in SUBSET Int /\ Starts # {}
      BY <1>3 DEF Starts
    <3> DEFINE g == [k \in DOMAIN MonthStart |-> MonthStart[k]]
    <3>2. g \in Surjection(DOMAIN MonthStart, Starts)
      BY DEF Surjection, Starts
    <3>3. IsFiniteSet(DOMAIN MonthStart)
      BY CalendarAssumption
    <3> HIDE DEF g
    <3> QED BY <3>1, <3>2, <3>3, FS_Surjection
  <2>3. IsFiniteSet(T)
    <3> HIDE DEF T
    <3> QED BY <2>1, <2>2, FS_Subset
  <2>4. Min(Starts) \in T
    <3>1. Min(Starts) \in Starts
      BY <2>2, EndsOfFinite
    <3>2. PICK k \in DOMAIN MonthStart : MonthStart[k] = Min(Starts)
      BY <3>1 DEF Starts
    <3>3. MonthStart[k] <= d
      BY <1>1, <1>3, <3>2
    <3> QED BY <3>2, <3>3
  <2>5. Max(T) \in T /\ \A x \in T : x <= Max(T)
    <3> HIDE DEF T
    <3> QED BY <2>1, <2>2, <2>3, <2>4, EndsOfFinite
  <2>6. PICK k \in DOMAIN MonthStart : MonthStart[k] <= d /\ MonthStart[k] = Max(T)
    BY <2>5
  <2>7. ASSUME NEW n \in DOMAIN MonthStart, MonthStart[k] < MonthStart[n], MonthStart[n] <= d
        PROVE  FALSE
    <3>1. MonthStart[n] \in T
      BY <2>7
    <3>2. MonthStart[n] \in Int /\ MonthStart[k] \in Int
      BY <1>3
    <3> HIDE DEF T
    <3>3. MonthStart[n] <= MonthStart[k]
      BY <2>5, <2>6, <3>1
    <3> QED BY <2>7, <3>2, <3>3
  <2> QED BY <2>6, <2>7
<1>5. In(MonthOf[d])
  BY <1>2, <1>4
<1>6. \A k : In(k) <=> k \in DOMAIN MonthStart /\ MonthStart[k] <= d
        /\ ~\E n \in DOMAIN MonthStart : MonthStart[k] < MonthStart[n] /\ MonthStart[n] <= d
  OBVIOUS
<1> HIDE DEF In
<1>7. PICK k : k = MonthOf[d]
  OBVIOUS
<1>8. ASSUME MonthStart[m] <= d, d < MonthStart[NextMonth(m)] PROVE k = m
  <2>1. k \in DOMAIN MonthStart /\ MonthStart[k] <= d
        /\ ~(MonthStart[k] < MonthStart[m] /\ MonthStart[m] <= d)
    BY <1>5, <1>6, <1>7
  <2>2. ~(MonthStart[m] < MonthStart[k] /\ MonthStart[k] < MonthStart[NextMonth(m)])
    BY <2>1, MonthsInOrder
  <2>3. MonthStart[m] = MonthStart[k]
    BY <1>1, <1>3, <1>8, <2>1, <2>2
  <2> QED BY <2>1, <2>3, MonthsInOrder
<1>9. ASSUME k = m PROVE MonthStart[m] <= d /\ d < MonthStart[NextMonth(m)]
  <2>1. MonthStart[m] <= d
        /\ ~(MonthStart[m] < MonthStart[NextMonth(m)] /\ MonthStart[NextMonth(m)] <= d)
    BY <1>5, <1>6, <1>7, <1>9
  <2>2. MonthStart[m] < MonthStart[NextMonth(m)]
    BY MonthsInOrder
  <2> QED BY <1>1, <1>3, <2>1, <2>2
<1> QED BY <1>7, <1>8, <1>9

\* The window of a comparison holds the days of its rows, and lies in the
\* calendar.
LEMMA WindowHolds ==
  ASSUME TypeInv, NEW p \in Periods, NEW r \in Scope(p)
  PROVE  /\ Lo(p) \in Int /\ Hi(p) \in Int
         /\ Lo(p) <= Day[r.ts] /\ Day[r.ts] < Hi(p)
         /\ Min(Starts) \in Int /\ Max(Starts) \in Int
         /\ Min(Starts) <= Lo(p) /\ Hi(p) <= Max(Starts)
<1>1. Scope(p) \in SUBSET Rows /\ IsFiniteSet(Scope(p))
  BY ScopesAreInScope DEF InScope, Scopes
<1>2. \A q \in Scope(p) :
        /\ Month[q.ts] \in DOMAIN MonthStart /\ NextMonth(Month[q.ts]) \in DOMAIN MonthStart
        /\ Day[q.ts] \in Int
        /\ MonthStart[Month[q.ts]] <= Day[q.ts]
        /\ Day[q.ts] < MonthStart[NextMonth(Month[q.ts])]
  BY <1>1, RowIsDated
<1>3. DOMAIN MonthStart # {}
  BY <1>2
<1>4. /\ Min(Starts) \in Int /\ Max(Starts) \in Int
      /\ \A m \in DOMAIN MonthStart : /\ MonthStart[m] \in Int
                                      /\ Min(Starts) <= MonthStart[m] /\ MonthStart[m] <= Max(Starts)
  BY <1>3, StartsHaveEnds, MonthsInOrder
<1>5. CASE p = WholeStore
  <2> DEFINE D == {Day[q.ts] : q \in Scope(p)}
  <2>1. Lo(p) = Min(D) /\ Hi(p) = Max(D) + 1
    BY <1>5 DEF Lo, Hi, Buckets
  <2>2. D \in SUBSET Int /\ Day[r.ts] \in D
    BY <1>2
  <2>3. IsFiniteSet(D)
    <3> DEFINE g == [q \in Scope(p) |-> Day[q.ts]]
    <3>1. g \in Surjection(Scope(p), D)
      BY DEF Surjection
    <3> HIDE DEF g, D
    <3> QED BY <1>1, <3>1, FS_Surjection
  <2>4. \A k \in D : k \in Int /\ Min(Starts) <= k /\ k + 1 <= Max(Starts)
    <3>1. SUFFICES ASSUME NEW q \in Scope(p)
                   PROVE  Min(Starts) <= Day[q.ts] /\ Day[q.ts] + 1 <= Max(Starts)
      BY <1>2
    <3>2. PICK lo \in Int, hi \in Int, d \in Int :
            lo = MonthStart[Month[q.ts]] /\ hi = MonthStart[NextMonth(Month[q.ts])] /\ d = Day[q.ts]
      BY <1>2, <1>4
    <3>3. lo <= d /\ d < hi /\ Min(Starts) <= lo /\ hi <= Max(Starts)
      BY <1>2, <1>4, <3>2
    <3> QED BY <1>4, <3>2, <3>3
  <2> HIDE DEF D
  <2>5. Max(D) \in D /\ Min(D) \in D /\ \A k \in D : Min(D) <= k /\ k <= Max(D)
    BY <2>2, <2>3, EndsOfFinite
  <2>6. PICK lo \in Int, hi \in Int, d \in Int : lo = Min(D) /\ hi = Max(D) /\ d = Day[r.ts]
    BY <2>2, <2>5
  <2>7. lo <= d /\ d <= hi /\ Min(Starts) <= lo /\ hi + 1 <= Max(Starts)
    BY <2>2, <2>4, <2>5, <2>6
  <2> QED BY <1>4, <2>1, <2>6, <2>7
<1>6. CASE p # WholeStore
  <2>1. p \in Months \X Months
    BY <1>6 DEF Periods
  <2>2. PICK s \in Stamps, t \in Stamps : p[1] = Month[s] /\ p[2] = Month[t]
    BY <2>1 DEF Months
  <2>3. p[1] \in DOMAIN MonthStart /\ p[2] \in DOMAIN MonthStart
        /\ NextMonth(p[2]) \in DOMAIN MonthStart
    BY <2>2, CalendarAssumption
  <2>4. ~Before(Month[r.ts], p[1]) /\ Before(Month[r.ts], NextMonth(p[2]))
    BY <1>6 DEF Scope, InPeriod
  <2>5. PICK m : m = Month[r.ts]
    OBVIOUS
  <2>6. m \in DOMAIN MonthStart /\ NextMonth(m) \in DOMAIN MonthStart
    BY <1>2, <2>5
  <2>7. PICK a \in Int, lo \in Int, hi \in Int, last \in Int, d \in Int :
          a = MonthStart[m] /\ lo = MonthStart[p[1]] /\ hi = MonthStart[NextMonth(m)]
          /\ last = MonthStart[NextMonth(p[2])] /\ d = Day[r.ts]
    BY <1>2, <1>4, <2>3, <2>6
  <2>8. a <= d /\ d < hi
    BY <1>2, <2>5, <2>7
  <2>9. lo <= a
    <3>1. ~(MonthStart[m] < MonthStart[p[1]])
      BY <2>3, <2>4, <2>5, <2>6, CalendarAssumption
    <3> QED BY <2>7, <3>1
  <2>10. hi <= last
    BY <2>3, <2>4, <2>5, <2>6, <2>7, MonthsInOrder
  <2>11. Min(Starts) <= lo /\ last <= Max(Starts)
    BY <1>4, <2>3, <2>7
  <2>12. Lo(p) = lo /\ Hi(p) = last
    BY <1>6, <2>7 DEF Lo, Hi
  <2> QED BY <1>4, <2>7, <2>8, <2>9, <2>10, <2>11, <2>12
<1> QED BY <1>5, <1>6

\* The days that fall in the bucket of a row are those from its start to the
\* start of the next one.
LEMMA BucketIs ==
  ASSUME NEW r \in Rows, NEW by \in {"month", "week"}, NEW b, b = Unit(by)[r.ts]
  PROVE  /\ StartOf(b, by) \in Int /\ NextStart(b, by) \in Int
         /\ StartOf(b, by) <= Day[r.ts] /\ Day[r.ts] < NextStart(b, by)
         /\ \A d \in Min(Starts) .. Max(Starts) :
              FallsIn(d, b, by) <=> StartOf(b, by) <= d /\ d < NextStart(b, by)
<1>1. CASE by = "week"
  <2>1. b = Week[r.ts] /\ b \in Int /\ b <= Day[r.ts] /\ Day[r.ts] < b + 7 /\ Day[r.ts] \in Int
    BY <1>1, RowIsDated DEF Unit
  <2>2. StartOf(b, by) = b /\ NextStart(b, by) = b + 7
    BY <1>1 DEF StartOf, NextStart
  <2>3. DOMAIN MonthStart # {}
    BY RowIsDated
  <2>4. \A d \in Int : FallsIn(d, b, by) <=> b <= d /\ d < b + 7
    BY <1>1, <2>1 DEF FallsIn
  <2>5. \A d \in Min(Starts) .. Max(Starts) : d \in Int
    BY <2>3, StartsHaveEnds
  <2> QED BY <2>1, <2>2, <2>4, <2>5
<1>2. CASE by = "month"
  <2>1. b = Month[r.ts]
    BY <1>2 DEF Unit
  <2>2. b \in DOMAIN MonthStart /\ NextMonth(b) \in DOMAIN MonthStart
        /\ MonthStart[b] <= Day[r.ts] /\ Day[r.ts] < MonthStart[NextMonth(b)]
    BY <2>1, RowIsDated
  <2>3. PICK y \in Int, n \in 1 .. 12 : b = <<y, n>>
    BY <2>2, CalendarAssumption
  <2>4. <<b[1] + b[2] \div 12, (b[2] % 12) + 1>> = NextMonth(b)
    <3>1. b[1] = y /\ b[2] = n
      BY <2>3
    <3>2. CASE n = 12
      <4>1. n \div 12 = 1 /\ n % 12 = 0
        BY <3>2
      <4> QED BY <3>1, <3>2, <4>1 DEF NextMonth
    <3>3. CASE n # 12
      <4>1. n \div 12 = 0 /\ n % 12 = n
        BY <3>3
      <4> QED BY <3>1, <3>3, <4>1 DEF NextMonth
    <3> QED BY <3>2, <3>3
  <2>5. StartOf(b, by) = MonthStart[b] /\ NextStart(b, by) = MonthStart[NextMonth(b)]
    BY <1>2, <2>4 DEF StartOf, NextStart
  <2>6. \A d : FallsIn(d, b, by) <=> MonthOf[d] = b
    BY <1>2 DEF FallsIn
  <2>7. MonthStart[b] \in Int /\ MonthStart[NextMonth(b)] \in Int
    BY <2>2, MonthsInOrder
  <2> QED BY <2>2, <2>5, <2>6, <2>7, MonthOfIs
<1> QED BY <1>1, <1>2

\* What a bucket's volume is divided by is the days of the window in it.
LEMMA DaysOfBuckets == TypeInv => DaysAddUp
<1> SUFFICES ASSUME TypeInv, NEW p \in Periods, NEW by \in {"month", "week"},
                    NEW b \in DOMAIN ComparePeriods(p, by)
             PROVE  LET c == ComparePeriods(p, by)[b]
                    IN  /\ c.calendar_days = Cardinality({d \in Lo(p) .. Hi(p) - 1 : FallsIn(d, b, by)})
                        /\ c.calendar_days >= Max({c.active_days, 1})
  BY DEF DaysAddUp
<1> DEFINE B == InBucket(Scope(p), Unit(by), b)
           T == {d \in Lo(p) .. Hi(p) - 1 : FallsIn(d, b, by)}
<1>1. b \in Buckets(Scope(p), Unit(by))
  BY DEF ComparePeriods
<1>2. ComparePeriods(p, by)[b].calendar_days = CalendarDays(b, by, p)
      /\ ComparePeriods(p, by)[b].active_days = Cardinality(Buckets(Caps(B), Day))
  BY <1>1 DEF ComparePeriods
<1>3. PICK r \in Scope(p) : b = Unit(by)[r.ts]
  BY <1>1 DEF Buckets
<1>4. Scope(p) \in SUBSET Rows
  BY ScopesAreInScope DEF InScope, Scopes
<1>5. PICK lo \in Int, hi \in Int, s \in Int, n \in Int, dr \in Int :
        /\ lo = Lo(p) /\ hi = Hi(p) /\ s = StartOf(b, by) /\ n = NextStart(b, by) /\ dr = Day[r.ts]
        /\ lo <= dr /\ dr < hi /\ s <= dr /\ dr < n
  BY <1>3, <1>4, WindowHolds, BucketIs, RowIsDated
<1>6. \A d \in lo .. hi - 1 : FallsIn(d, b, by) <=> s <= d /\ d < n
  <2>1. \A d \in lo .. hi - 1 : d \in Min(Starts) .. Max(Starts)
    <3>1. PICK u \in Int, v \in Int : u = Min(Starts) /\ v = Max(Starts) /\ u <= lo /\ hi <= v
      BY <1>5, WindowHolds
    <3> QED BY <3>1
  <2> QED BY <1>3, <1>4, <1>5, <2>1, BucketIs
<1>7. PICK x \in Int, y \in Int :
        /\ x = Max({s, lo}) /\ y = Min({n, hi})
        /\ x = (IF s >= lo THEN s ELSE lo) /\ y = (IF n <= hi THEN n ELSE hi)
  <2>1. Max({s, lo}) = (IF s >= lo THEN s ELSE lo) /\ Min({n, hi}) = (IF n <= hi THEN n ELSE hi)
    BY MaxOfTwo
  <2> QED BY <2>1
<1>8. x <= dr /\ dr < y
  BY <1>5, <1>7
<1>9. T = x .. y - 1
  BY <1>5, <1>6, <1>7
<1>10. CalendarDays(b, by, p) = y - x
  <2>1. CalendarDays(b, by, p) = Max({y - x, 0})
    BY <1>5, <1>7 DEF CalendarDays
  <2>2. y - x \in Int /\ y - x >= 0
    BY <1>8
  <2> QED BY <2>1, <2>2, MaxOfTwo
<1> HIDE DEF T
<1>11. IsFiniteSet(T) /\ Cardinality(T) = y - x /\ y - x >= 1
  <2>1. IsFiniteSet(x .. y - 1) /\ Cardinality(x .. y - 1) = y - 1 - x + 1
    <3>1. y - 1 \in Int /\ ~(x > y - 1)
      BY <1>8
    <3> QED BY <3>1, FS_Interval
  <2> QED BY <1>8, <1>9, <2>1
<1>12. Buckets(Caps(B), Day) \in SUBSET T
  <2> SUFFICES ASSUME NEW q \in Caps(B) PROVE Day[q.ts] \in T
    BY DEF Buckets
  <2>1. q \in Scope(p) /\ b = Unit(by)[q.ts]
    BY DEF Caps, InBucket
  <2>2. PICK dq \in Int : dq = Day[q.ts]
    BY <1>4, <2>1, RowIsDated
  <2>3. lo <= dq /\ dq < hi /\ s <= dq /\ dq < n
    BY <1>4, <1>5, <2>1, <2>2, WindowHolds, BucketIs
  <2> QED BY <1>7, <1>9, <2>2, <2>3
<1>13. PICK a \in Nat : a = Cardinality(Buckets(Caps(B), Day)) /\ a <= y - x
  BY <1>11, <1>12, FS_Subset, FS_CardinalityType
<1>14. Max({a, 1}) = (IF a >= 1 THEN a ELSE 1)
  BY MaxOfTwo
<1> HIDE DEF B
<1>15. CalendarDays(b, by, p) >= Max({Cardinality(Buckets(Caps(B), Day)), 1})
  BY <1>10, <1>11, <1>13, <1>14
<1>16. CalendarDays(b, by, p) = Cardinality(T)
  BY <1>10, <1>11
<1> QED BY <1>2, <1>15, <1>16 DEF T

-----------------------------------------------------------------------------
(* anomalies: medians and the deviation band *)

\* The members of V are pairs, the first a number.
Numbered(V) == IsFiniteSet(V) /\ \A v \in V : v[1] \in Int

Firsts(V) == {v[1] : v \in V}

\* The first members of finitely many pairs are finitely many numbers.
LEMMA FirstsFinite ==
  ASSUME NEW V, Numbered(V)
  PROVE  Firsts(V) \in SUBSET Int /\ IsFiniteSet(Firsts(V)) /\ (V # {} => Firsts(V) # {})
<1> DEFINE g == [v \in V |-> v[1]]
<1>1. g \in Surjection(V, Firsts(V))
  BY DEF Surjection, Firsts
<1>2. Firsts(V) \in SUBSET Int /\ (V # {} => Firsts(V) # {})
  BY DEF Firsts, Numbered
<1> HIDE DEF g
<1> QED BY <1>1, <1>2, FS_Surjection DEF Numbered

\* Of any number of values, there is a k-th.
LEMMA KthExists ==
  ASSUME NEW V, Numbered(V), NEW k \in 1 .. Cardinality(V)
  PROVE  \E x \in Firsts(V) : Cardinality(Below(V, x)) < k /\ k <= Cardinality(NotAbove(V, x))
<1> DEFINE T == {x \in Firsts(V) : k <= Cardinality(NotAbove(V, x))}
<1>1. Cardinality(V) \in Nat /\ V # {} /\ k \in Nat /\ 1 <= k /\ k <= Cardinality(V)
  <2>1. Cardinality(V) \in Nat /\ Cardinality({}) = 0
    BY FS_CardinalityType, FS_EmptySet DEF Numbered
  <2>2. k \in Nat /\ 1 <= k /\ k <= Cardinality(V)
    BY <2>1
  <2> QED BY <2>1, <2>2
<1>2. Firsts(V) \in SUBSET Int /\ IsFiniteSet(Firsts(V)) /\ Firsts(V) # {}
  BY <1>1, FirstsFinite
<1>3. Max(Firsts(V)) \in T
  <2>1. Max(Firsts(V)) \in Firsts(V) /\ \A x \in Firsts(V) : x <= Max(Firsts(V))
    BY <1>2, EndsOfFinite
  <2>2. NotAbove(V, Max(Firsts(V))) = V
    BY <2>1 DEF NotAbove, Firsts
  <2> QED BY <1>1, <2>1, <2>2
<1>4. T \in SUBSET Firsts(V) /\ IsFiniteSet(T) /\ T \in SUBSET Int
  BY <1>2, FS_Subset
<1> DEFINE m == Min(T)
<1>5. m \in T /\ \A x \in T : m <= x
  <2> HIDE DEF T
  <2> QED BY <1>3, <1>4, EndsOfFinite
<1>6. m \in Firsts(V) /\ m \in Int /\ k <= Cardinality(NotAbove(V, m))
  <2> HIDE DEF m
  <2> QED BY <1>2, <1>5
<1> HIDE DEF m
<1>7. ASSUME k <= Cardinality(Below(V, m)) PROVE FALSE
  <2> DEFINE U == {x \in Firsts(V) : x < m}
  <2>1. Below(V, m) # {}
    BY <1>1, <1>7, FS_EmptySet
  <2>2. U # {} /\ U \in SUBSET Firsts(V) /\ U \in SUBSET Int
    BY <1>2, <2>1 DEF Below, Firsts
  <2>3. IsFiniteSet(U)
    BY <1>2, FS_Subset
  <2>4. PICK y \in Int : y \in U /\ \A x \in U : x <= y
    <3> HIDE DEF U
    <3> QED BY <2>2, <2>3, EndsOfFinite
  <2>5. NotAbove(V, y) = Below(V, m)
    <3>1. \A v \in V : v[1] \in Int /\ v[1] \in Firsts(V)
      BY DEF Numbered, Firsts
    <3> QED BY <1>6, <2>4, <3>1 DEF NotAbove, Below
  <2>6. y \in T
    BY <1>7, <2>4, <2>5
  <2> QED BY <1>5, <1>6, <2>4, <2>6
<1>8. Cardinality(Below(V, m)) \in Nat
  BY FS_Subset, FS_CardinalityType DEF Below, Numbered
<1>9. Cardinality(Below(V, m)) < k
  BY <1>1, <1>7, <1>8
<1> QED BY <1>6, <1>9

\* Sorted is a list of the values, each at its rank.
LEMMA SortedIs ==
  ASSUME NEW V, Numbered(V)
  PROVE  /\ Sorted(V) \in [1 .. Cardinality(V) -> Firsts(V)]
         /\ \A k \in 1 .. Cardinality(V) : /\ Cardinality(Below(V, Sorted(V)[k])) < k
                                           /\ k <= Cardinality(NotAbove(V, Sorted(V)[k]))
<1> DEFINE f == [k \in 1 .. Cardinality(V) |->
                   CHOOSE x \in Firsts(V) : Cardinality(Below(V, x)) < k
                                            /\ k <= Cardinality(NotAbove(V, x))]
<1>1. \A k \in 1 .. Cardinality(V) :
        f[k] \in Firsts(V) /\ Cardinality(Below(V, f[k])) < k /\ k <= Cardinality(NotAbove(V, f[k]))
  BY KthExists
<1>2. f \in [1 .. Cardinality(V) -> Firsts(V)]
  BY <1>1
<1>3. Sorted(V) = CHOOSE s \in [1 .. Cardinality(V) -> Firsts(V)] :
        \A k \in DOMAIN s : Cardinality(Below(V, s[k])) < k /\ k <= Cardinality(NotAbove(V, s[k]))
  BY DEF Sorted, Firsts
<1>4. DOMAIN f = 1 .. Cardinality(V)
  OBVIOUS
<1> HIDE DEF f
<1>5. Sorted(V) \in [1 .. Cardinality(V) -> Firsts(V)]
      /\ \A k \in DOMAIN Sorted(V) : /\ Cardinality(Below(V, Sorted(V)[k])) < k
                                     /\ k <= Cardinality(NotAbove(V, Sorted(V)[k]))
  BY <1>1, <1>2, <1>3, <1>4
<1> QED BY <1>5

\* It is in order.
LEMMA SortedInOrder ==
  ASSUME NEW V, Numbered(V)
  PROVE  /\ Sorted(V) \in [1 .. Cardinality(V) -> Int] /\ Cardinality(V) \in Nat
         /\ Len(Sorted(V)) = Cardinality(V)
         /\ \A i, j \in 1 .. Cardinality(V) : i <= j => Sorted(V)[i] <= Sorted(V)[j]
<1>1. Cardinality(V) \in Nat
  BY FS_CardinalityType DEF Numbered
<1>2. Sorted(V) \in [1 .. Cardinality(V) -> Int]
  BY SortedIs, FirstsFinite
<1>3. Len(Sorted(V)) = Cardinality(V)
  BY <1>1, <1>2
<1>4. ASSUME NEW i \in 1 .. Cardinality(V), NEW j \in 1 .. Cardinality(V), i <= j,
             ~(Sorted(V)[i] <= Sorted(V)[j])
      PROVE  FALSE
  <2>1. PICK x \in Int, y \in Int : x = Sorted(V)[i] /\ y = Sorted(V)[j]
    BY <1>2
  <2>2. Cardinality(Below(V, x)) < i /\ j <= Cardinality(NotAbove(V, y))
    BY <2>1, SortedIs
  <2>3. y < x
    BY <1>4, <2>1
  <2>4. NotAbove(V, y) \in SUBSET Below(V, x)
    BY <2>3 DEF NotAbove, Below, Numbered
  <2>5. IsFiniteSet(Below(V, x))
    BY FS_Subset DEF Below, Numbered
  <2>6. Cardinality(NotAbove(V, y)) <= Cardinality(Below(V, x))
        /\ Cardinality(NotAbove(V, y)) \in Nat /\ Cardinality(Below(V, x)) \in Nat
    BY <2>4, <2>5, FS_Subset, FS_CardinalityType
  <2> QED BY <1>1, <1>4, <2>2, <2>6
<1> QED BY <1>1, <1>2, <1>3, <1>4

\* A quartile of any values is a number.
LEMMA QuartileType ==
  ASSUME NEW V, Numbered(V), V # {}, NEW q \in 1 .. 3
  PROVE  Quartile4(q, Sorted(V)) \in Int
<1>1. PICK n \in Nat : n = Cardinality(V) /\ n >= 1
  <2>1. Cardinality(V) \in Nat /\ Cardinality(V) # 0
    BY FS_CardinalityType, FS_EmptySet DEF Numbered
  <2> QED BY <2>1
<1>2. PICK s : s = Sorted(V)
  OBVIOUS
<1>3. s \in [1 .. n -> Int] /\ Len(s) = n
  BY <1>1, <1>2, SortedInOrder
<1>4. PICK pos \in Nat : pos = (n - 1) * q /\ pos \div 4 + 1 \in 1 .. n
  <2>1. CASE q = 1
    BY <1>1, <2>1
  <2>2. CASE q = 2
    BY <1>1, <2>2
  <2>3. CASE q = 3
    BY <1>1, <2>3
  <2> QED BY <2>1, <2>2, <2>3
<1>5. Min({pos \div 4 + 2, n}) \in 1 .. n
  <2>1. PICK a \in Nat : a = pos \div 4 + 2 /\ a >= 1
    BY <1>4
  <2>2. Min({a, n}) = (IF a <= n THEN a ELSE n)
    BY MaxOfTwo
  <2> QED BY <1>1, <2>1, <2>2
<1>6. PICK lo \in Int, hi \in Int : lo = s[pos \div 4 + 1] /\ hi = s[Min({pos \div 4 + 2, n})]
  BY <1>3, <1>4, <1>5
<1>7. Quartile4(q, s) = 4 * lo + (pos % 4) * (hi - lo)
  BY <1>3, <1>4, <1>6 DEF Quartile4
<1>8. pos % 4 \in Int
  BY <1>4
<1> QED BY <1>2, <1>6, <1>7, <1>8

\* At most half of the values are above their median.
LEMMA HalfAreNotAbove ==
  ASSUME NEW V, Numbered(V), V # {}
  PROVE  2 * Cardinality({v \in V : 4 * v[1] > Quartile4(2, Sorted(V))}) <= Cardinality(V)
<1>1. PICK n \in Nat : n = Cardinality(V) /\ n >= 1
  <2>1. Cardinality(V) \in Nat /\ Cardinality(V) # 0
    BY FS_CardinalityType, FS_EmptySet DEF Numbered
  <2> QED BY <2>1
<1>2. PICK s : s = Sorted(V)
  OBVIOUS
<1>3. s \in [1 .. n -> Int] /\ Len(s) = n /\ \A i, j \in 1 .. n : i <= j => s[i] <= s[j]
  BY <1>1, <1>2, SortedInOrder
<1>4. PICK k \in 1 .. n : k = ((n - 1) * 2) \div 4 + 1 /\ 2 * k >= n
  BY <1>1
<1>5. PICK l \in 1 .. n : l = Min({((n - 1) * 2) \div 4 + 2, n}) /\ k <= l
  <2>1. PICK a \in Nat : a = ((n - 1) * 2) \div 4 + 2 /\ a = k + 1
    BY <1>1, <1>4
  <2>2. Min({a, n}) = (IF a <= n THEN a ELSE n)
    BY MaxOfTwo
  <2> QED BY <1>1, <1>4, <2>1, <2>2
<1>6. PICK lo \in Int, hi \in Int : lo = s[k] /\ hi = s[l] /\ lo <= hi
  BY <1>3, <1>4, <1>5
<1>7. PICK r \in 0 .. 3 : r = ((n - 1) * 2) % 4
  BY <1>1
<1>8. Quartile4(2, s) = 4 * lo + r * (hi - lo)
  BY <1>3, <1>4, <1>5, <1>6, <1>7 DEF Quartile4
<1>9. 4 * lo + r * (hi - lo) \in Int /\ 4 * lo + r * (hi - lo) >= 4 * lo
  <2>1. CASE r = 0
    BY <1>6, <2>1
  <2>2. CASE r = 1
    BY <1>6, <2>2
  <2>3. CASE r = 2
    BY <1>6, <2>3
  <2>4. CASE r = 3
    BY <1>6, <2>4
  <2> QED BY <2>1, <2>2, <2>3, <2>4
<1> DEFINE U == {v \in V : 4 * v[1] > Quartile4(2, s)}
<1>10. PICK m \in Int : m = 4 * lo + r * (hi - lo) /\ m >= 4 * lo
  BY <1>9
<1>11. U \cap NotAbove(V, lo) = {} /\ U \in SUBSET V /\ NotAbove(V, lo) \in SUBSET V
  <2>1. \A v \in V : v[1] \in Int
    BY DEF Numbered
  <2>2. \A v \in U : v[1] \in Int /\ 4 * v[1] > m
    BY <1>8, <1>10, <2>1
  <2>3. \A v \in U : ~(v[1] <= lo)
    BY <1>6, <1>10, <2>2
  <2> QED BY <2>3 DEF NotAbove
<1>12. k <= Cardinality(NotAbove(V, lo))
  BY <1>1, <1>2, <1>6, SortedIs
<1> HIDE DEF U
<1>13. IsFiniteSet(U) /\ IsFiniteSet(NotAbove(V, lo)) /\ IsFiniteSet(U \cup NotAbove(V, lo))
       /\ Cardinality(U \cup NotAbove(V, lo)) <= n
  BY <1>1, <1>11, FS_Subset DEF Numbered
<1>14. PICK a \in Nat, b \in Nat : a = Cardinality(U) /\ b = Cardinality(NotAbove(V, lo))
  BY <1>13, FS_CardinalityType
<1>15. a + b <= n
  <2>1. Cardinality(U \cup NotAbove(V, lo)) = a + b - Cardinality(U \cap NotAbove(V, lo))
    BY <1>13, <1>14, FS_Union
  <2>2. Cardinality(U \cap NotAbove(V, lo)) = 0
    BY <1>11, FS_EmptySet
  <2> QED BY <1>13, <1>14, <2>1, <2>2
<1>16. 2 * a <= n
  BY <1>4, <1>12, <1>14, <1>15
<1> QED BY <1>1, <1>2, <1>14, <1>16 DEF U

\* The torques of a head, and how far each is off their median.
HeadTorques(R, h) == {<<r.torque, r>> : r \in OfHead(Caps(R), h)}
HeadOffs(R, h)    == {<<Off4(r, R), r>> : r \in OfHead(Caps(R), h)}

LEMMA HeadsNumbers ==
  ASSUME NEW R, InScope(R), NEW h \in HeadsOf(Caps(R))
  PROVE  /\ IsFiniteSet(OfHead(Caps(R), h))
         /\ Numbered(HeadTorques(R, h)) /\ HeadTorques(R, h) # {}
         /\ Numbered(HeadOffs(R, h)) /\ HeadOffs(R, h) # {}
         /\ Cardinality(HeadOffs(R, h)) = Cardinality(OfHead(Caps(R), h))
         /\ \A r \in OfHead(Caps(R), h) : Off4(r, R) \in Int
<1> DEFINE H == OfHead(Caps(R), h)
           V == {<<r.torque, r>> : r \in H}
           W == {<<Off4(r, R), r>> : r \in H}
<1>1. H \in SUBSET R /\ IsFiniteSet(H)
  <2>1. H \in SUBSET R
    BY DEF OfHead, Caps
  <2> HIDE DEF H
  <2> QED BY <2>1, FS_Subset DEF InScope
<1>2. H # {} /\ \A r \in H : r.head = h /\ r.torque \in Int
  <2>1. \A r \in H : r.head = h /\ r \in R
    BY DEF OfHead, Caps
  <2>2. H # {}
    BY DEF OfHead, HeadsOf
  <2> QED BY <2>1, <2>2, StampsAreNumbers DEF InScope
<1> HIDE DEF H
<1>3. Numbered(V) /\ V # {}
  <2> DEFINE g == [r \in H |-> <<r.torque, r>>]
  <2>1. g \in Surjection(H, V)
    BY DEF Surjection
  <2>2. V # {} /\ \A v \in V : v[1] \in Int
    <3>1. PICK r \in H : TRUE
      BY <1>2
    <3>2. <<r.torque, r>> \in V
      BY <3>1
    <3>3. ASSUME NEW v \in V PROVE v[1] \in Int
      <4>1. PICK q \in H : v = <<q.torque, q>>
        OBVIOUS
      <4>2. q.torque \in Int
        BY <1>2
      <4> QED BY <4>1, <4>2
    <3> QED BY <3>2, <3>3
  <2> HIDE DEF g, V
  <2> QED BY <1>1, <2>1, <2>2, FS_Surjection DEF Numbered
<1>4. Median4(R, h) \in Int
  <2>1. Median4(R, h) = Quartile4(2, Sorted(V))
    BY DEF Median4, Torques, H
  <2> HIDE DEF V
  <2> QED BY <1>3, <2>1, QuartileType
<1>5. \A r \in H : Off4(r, R) \in Int
  <2> SUFFICES ASSUME NEW r \in H PROVE Off4(r, R) \in Int
    OBVIOUS
  <2>1. PICK t \in Int, m \in Int : t = r.torque /\ m = Median4(R, r.head)
    BY <1>2, <1>4
  <2> QED BY <2>1 DEF Off4
<1> DEFINE g == [r \in H |-> <<Off4(r, R), r>>]
<1>6. g \in Bijection(H, W)
  BY DEF Bijection, Injection, Surjection, IsInjective
<1>7. W # {} /\ \A v \in W : v[1] \in Int
  <2>1. PICK r \in H : TRUE
    BY <1>2
  <2>2. <<Off4(r, R), r>> \in W
    BY <2>1
  <2>3. ASSUME NEW v \in W PROVE v[1] \in Int
    <3>1. PICK q \in H : v = <<Off4(q, R), q>>
      OBVIOUS
    <3>2. Off4(q, R) \in Int
      BY <1>5
    <3> QED BY <3>1, <3>2
  <2> QED BY <2>2, <2>3
<1> HIDE DEF g, W
<1>8. IsFiniteSet(W) /\ Cardinality(W) = Cardinality(H)
  <2>1. ExistsBijection(H, W)
    BY <1>6 DEF ExistsBijection
  <2> QED BY <1>1, <2>1, FS_Bijection
<1> QED BY <1>1, <1>2, <1>3, <1>5, <1>7, <1>8 DEF Numbered, HeadTorques, HeadOffs, W, V, H

\* A deviation is further off the median than the median of what they are off.
LEMMA DeviationIsFar ==
  ASSUME NEW R, InScope(R), NEW h \in HeadsOf(Caps(R)), NEW r \in OfHead(Deviations(R), h)
  PROVE  r \in OfHead(Caps(R), h) /\ 4 * Off4(r, R) > Mad16(R, h)
<1> DEFINE V == HeadTorques(R, h)
           W == HeadOffs(R, h)
<1>1. r \in OfHead(Caps(R), h) /\ r.head = h /\ 40000 * Off4(r, R) > MadK * Scale(R, h)
  BY DEF Deviations, OfHead
<1>2. Numbered(V) /\ V # {} /\ Numbered(W) /\ W # {}
  BY HeadsNumbers
<1>3. Mad16(R, h) = Quartile4(2, Sorted(W))
      /\ HalfIqr16(R, h) = 2 * (Quartile4(3, Sorted(V)) - Quartile4(1, Sorted(V)))
  BY DEF Mad16, HalfIqr16, Torques, HeadTorques, HeadOffs
<1> HIDE DEF V, W
<1>4. PICK mad \in Int, top \in Int, low \in Int :
        mad = Mad16(R, h) /\ top = Quartile4(3, Sorted(V)) /\ low = Quartile4(1, Sorted(V))
  BY <1>2, <1>3, QuartileType
<1>5. PICK spread \in Int : spread = Spread(R, h) /\ (mad > 0 => spread = mad)
  <2>1. 2 * (top - low) \in Int
    OBVIOUS
  <2> QED BY <1>3, <1>4, <2>1 DEF Spread
<1>6. PICK off \in Int : off = Off4(r, R)
  BY <1>1, HeadsNumbers
<1>7. PICK scale \in Int : scale = Scale(R, h) /\ scale >= 14826 * spread /\ scale >= 0
  <2>1. 14826 * spread \in Int /\ 160000 * MadFloor \in Int /\ 160000 * MadFloor >= 0
    BY ConfigAssumption
  <2>2. PICK a \in Int, b \in Int : a = 14826 * spread /\ b = 160000 * MadFloor /\ b >= 0
    BY <2>1
  <2>3. Scale(R, h) = (IF a >= b THEN a ELSE b)
    BY <1>5, <2>2, MaxOfTwo DEF Scale
  <2> QED BY <2>2, <2>3
<1>8. MadK * scale >= scale /\ MadK * scale \in Int
  <2>1. MadK \in Nat /\ MadK >= 1
    BY ConfigAssumption
  <2> QED BY <1>7, <2>1
<1>9. 40000 * off > scale
  <2>1. PICK x \in Int : x = MadK * scale
    BY <1>8
  <2> QED BY <1>1, <1>6, <1>7, <1>8, <2>1
<1>10. 4 * off > mad
  <2>1. CASE mad > 0
    BY <1>5, <1>7, <1>9, <2>1
  <2>2. CASE ~(mad > 0)
    BY <1>7, <1>9, <2>2
  <2> QED BY <2>1, <2>2
<1> QED BY <1>1, <1>4, <1>6, <1>10

\* The band flags at most half of a head's closures, whatever the readings.
LEMMA FlagsAreFew == TypeInv => FlagsAreAMinority
<1> SUFFICES ASSUME NEW R, InScope(R), NEW h \in HeadsOf(Caps(R))
             PROVE  2 * Cardinality(OfHead(Deviations(R), h)) <= Cardinality(OfHead(Caps(R), h))
  BY ScopesAreInScope DEF FlagsAreAMinority
<1> DEFINE H == OfHead(Caps(R), h)
           D == OfHead(Deviations(R), h)
           W == HeadOffs(R, h)
           U == {v \in W : 4 * v[1] > Quartile4(2, Sorted(W))}
<1>1. Numbered(W) /\ W # {} /\ Cardinality(W) = Cardinality(H)
  BY HeadsNumbers
<1>2. Mad16(R, h) = Quartile4(2, Sorted(W))
  BY DEF Mad16, HeadOffs
<1>3. 2 * Cardinality(U) <= Cardinality(H)
  <2> HIDE DEF W
  <2> QED BY <1>1, HalfAreNotAbove
<1>4. Cardinality(D) <= Cardinality(U) /\ Cardinality(D) \in Nat /\ Cardinality(U) \in Nat
  <2> DEFINE g == [r \in D |-> <<Off4(r, R), r>>]
  <2>1. \A r \in D : <<Off4(r, R), r>> \in U
    <3> SUFFICES ASSUME NEW r \in D PROVE <<Off4(r, R), r>> \in U
      OBVIOUS
    <3>1. r \in H /\ 4 * Off4(r, R) > Mad16(R, h)
      BY DeviationIsFar
    <3> QED BY <1>2, <3>1 DEF HeadOffs
  <2>2. g \in Injection(D, U)
    BY <2>1 DEF Injection, IsInjective
  <2>3. IsFiniteSet(U)
    <3> HIDE DEF W
    <3> QED BY <1>1, FS_Subset DEF Numbered
  <2> HIDE DEF g, D, U
  <2> QED BY <2>2, <2>3, FS_Injection, FS_CardinalityType
<1>5. Cardinality(H) \in Nat
  BY HeadsNumbers, FS_CardinalityType
<1> QED BY <1>3, <1>4, <1>5

-----------------------------------------------------------------------------
(* Sums over finite sets *)

Pick(s) == CHOOSE x \in s : TRUE

\* f is the function a sum recurs with.
SumRec(w, S, f) ==
  f = [s \in SUBSET S |-> IF s = {} THEN 0 ELSE w[Pick(s)] + f[s \ {Pick(s)}]]

\* A sum, unfolded down to its recursive function.
LEMMA SumDef ==
  /\ \A w, S : SumFunctionOnSet(w, S) = (CHOOSE f : SumRec(w, S, f))[S]
  /\ \A w : SumFunction(w) = SumFunctionOnSet(w, DOMAIN w)
BY DEF SumFunction, SumFunctionOnSet, FoldFunctionOnSet, MapThenFoldSet, SumRec, Pick

\* Any set of subsets of a finite set has a member with no smaller one in it.
LEMMA SmallestMember ==
  ASSUME NEW S, IsFiniteSet(S), NEW T \in SUBSET SUBSET S, T # {}
  PROVE  \E U \in T : \A V \in SUBSET U : V # U => V \notin T
<1>1. IsWellFoundedOn(StrictSubsetOrdering(S), FiniteSubsetsOf(S))
  BY FS_StrictSubsetOrderingWellFounded
<1>2. FiniteSubsetsOf(S) = SUBSET S
  BY FS_FiniteSubsetsOfFinite
<1>3. PICK U \in T : \A V \in T : ~ (<<V, U>> \in StrictSubsetOrdering(S))
  BY <1>1, <1>2, WFMin
<1>4. \A V \in SUBSET U : V # U /\ V \in T => FALSE
  BY <1>3 DEF StrictSubsetOrdering
<1> QED BY <1>4

\* The member that is taken out of a set is in it.
LEMMA PickIn == \A s : s # {} => Pick(s) \in s
BY DEF Pick

\* Two such functions, for weights that agree, agree where both are defined.
LEMMA SumRecAgree ==
  ASSUME NEW w, NEW u, NEW A, IsFiniteSet(A), NEW B, NEW f, NEW g,
         SumRec(w, A, f), SumRec(u, B, g), \A x \in A \cap B : w[x] = u[x]
  PROVE  \A U \in SUBSET (A \cap B) : f[U] = g[U]
<1> DEFINE T == {U \in SUBSET (A \cap B) : f[U] # g[U]}
<1>1. SUFFICES ASSUME T # {} PROVE FALSE
  OBVIOUS
<1>2. T \in SUBSET SUBSET A
  OBVIOUS
<1>3. PICK U \in T : \A V \in SUBSET U : V # U => V \notin T
  <2> HIDE DEF T
  <2> QED BY <1>1, <1>2, SmallestMember
<1>4. U \in SUBSET A /\ U \in SUBSET B /\ f[U] # g[U]
  OBVIOUS
<1>5. f[U] = IF U = {} THEN 0 ELSE w[Pick(U)] + f[U \ {Pick(U)}]
  BY <1>4 DEF SumRec
<1>6. g[U] = IF U = {} THEN 0 ELSE u[Pick(U)] + g[U \ {Pick(U)}]
  BY <1>4 DEF SumRec
<1>7. U # {}
  BY <1>4, <1>5, <1>6
<1>8. f[U \ {Pick(U)}] = g[U \ {Pick(U)}]
  <2>1. U \ {Pick(U)} # U /\ U \ {Pick(U)} \in SUBSET U
    BY <1>7, PickIn
  <2> QED BY <1>3, <1>4, <2>1
<1>9. w[Pick(U)] = u[Pick(U)]
  BY <1>4, <1>7, PickIn
<1> QED BY <1>4, <1>5, <1>6, <1>7, <1>8, <1>9

\* There is such a function for every finite set.
LEMMA SumRecExists ==
  ASSUME NEW w, NEW S, IsFiniteSet(S)
  PROVE  \E f : SumRec(w, S, f)
<1> DEFINE T == {U \in SUBSET S : ~ \E f : SumRec(w, U, f)}
<1>1. SUFFICES ASSUME T # {} PROVE FALSE
  OBVIOUS
<1>3. PICK U \in T : \A V \in SUBSET U : V # U => V \notin T
  <2>1. T \in SUBSET SUBSET S
    OBVIOUS
  <2> HIDE DEF T
  <2> QED BY <1>1, <2>1, SmallestMember
<1>4. U \in SUBSET S /\ ~ \E f : SumRec(w, U, f)
  OBVIOUS
<1> DEFINE G(V) == CHOOSE g : SumRec(w, V, g)
<1>5. \A V \in SUBSET U : V # U => SumRec(w, V, G(V))
  BY <1>3, <1>4
<1> HIDE DEF G
<1> DEFINE W(V) == V \ {Pick(V)}
           f == [s \in SUBSET U |-> IF s = {} THEN 0 ELSE w[Pick(s)] + G(W(s))[W(s)]]
<1>6. \A s \in SUBSET U : s # {} => W(s) \in SUBSET U /\ W(s) # U /\ W(s) \in SUBSET s /\ W(s) # s
  BY PickIn
<1> HIDE DEF W
<1>7. \A s \in SUBSET U : s # {} => f[W(s)] = G(W(s))[W(s)]
  <2> SUFFICES ASSUME NEW s \in SUBSET U, s # {} PROVE f[W(s)] = G(W(s))[W(s)]
    OBVIOUS
  <2> DEFINE v == W(s)
  <2>1. v \in SUBSET U /\ v # U
    BY <1>6
  <2>2. SumRec(w, v, G(v))
    BY <1>5, <2>1
  <2> HIDE DEF v
  <2>3. G(v)[v] = IF v = {} THEN 0 ELSE w[Pick(v)] + G(v)[W(v)]
    BY <2>2 DEF SumRec, W
  <2>4. f[v] = IF v = {} THEN 0 ELSE w[Pick(v)] + G(W(v))[W(v)]
    BY <2>1
  <2>5. v # {} => G(v)[W(v)] = G(W(v))[W(v)]
    <3>1. SUFFICES ASSUME v # {} PROVE G(v)[W(v)] = G(W(v))[W(v)]
      OBVIOUS
    <3>2. W(v) \in SUBSET U /\ W(v) # U /\ W(v) \in SUBSET v
      BY <1>6, <2>1, <3>1
    <3>3. SumRec(w, W(v), G(W(v)))
      BY <1>5, <3>2
    <3>4. IsFiniteSet(v)
      BY <1>4, <2>1, FS_Subset
    <3>5. W(v) \in SUBSET (v \cap W(v))
      BY <3>2
    <3> QED BY <2>2, <3>3, <3>4, <3>5, SumRecAgree
  <2>6. f[v] = G(v)[v]
    BY <2>3, <2>4, <2>5
  <2> QED BY <2>6 DEF v
<1>8. SumRec(w, U, f)
  BY <1>7 DEF SumRec, W
<1> QED BY <1>4, <1>8

\* Weights that agree on a set have one sum over it.
LEMMA SumSame ==
  ASSUME NEW w, NEW u, NEW S, IsFiniteSet(S), \A x \in S : w[x] = u[x]
  PROVE  SumFunctionOnSet(w, S) = SumFunctionOnSet(u, S)
<1> DEFINE F(v) == CHOOSE f : SumRec(v, S, f)
<1>1. SumRec(w, S, F(w)) /\ SumRec(u, S, F(u))
  BY SumRecExists
<1>2. SumFunctionOnSet(w, S) = F(w)[S] /\ SumFunctionOnSet(u, S) = F(u)[S]
  BY SumDef
<1> HIDE DEF F
<1>3. F(w)[S] = F(u)[S]
  BY <1>1, SumRecAgree
<1> QED BY <1>2, <1>3

\* What a sum over a set is in terms of the sum over a smaller one.
LEMMA SumUnfold ==
  ASSUME NEW w, NEW S, IsFiniteSet(S)
  PROVE  SumFunctionOnSet(w, S) =
           IF S = {} THEN 0 ELSE w[Pick(S)] + SumFunctionOnSet(w, S \ {Pick(S)})
<1> DEFINE R == S \ {Pick(S)}
           F(V) == CHOOSE f : SumRec(w, V, f)
<1>1. R \in SUBSET S /\ IsFiniteSet(R)
  BY FS_Subset
<1>2. SumRec(w, S, F(S)) /\ SumRec(w, R, F(R))
  BY <1>1, SumRecExists
<1>3. SumFunctionOnSet(w, S) = F(S)[S] /\ SumFunctionOnSet(w, R) = F(R)[R]
  BY SumDef
<1> HIDE DEF F
<1>4. F(S)[S] = IF S = {} THEN 0 ELSE w[Pick(S)] + F(S)[R]
  BY <1>2 DEF SumRec
<1>5. F(S)[R] = F(R)[R]
  BY <1>1, <1>2, SumRecAgree
<1> QED BY <1>3, <1>4, <1>5

\* A sum of integers is an integer, and any member may be taken out of it.
LEMMA SumRemove ==
  ASSUME NEW S, IsFiniteSet(S), NEW w, \A x \in S : w[x] \in Int
  PROVE  /\ SumFunctionOnSet(w, S) \in Int /\ SumFunctionOnSet(w, {}) = 0
         /\ \A x \in S : SumFunctionOnSet(w, S) = w[x] + SumFunctionOnSet(w, S \ {x})
<1> DEFINE Good(U) == /\ SumFunctionOnSet(w, U) \in Int
                      /\ \A x \in U : SumFunctionOnSet(w, U) = w[x] + SumFunctionOnSet(w, U \ {x})
           T == {U \in SUBSET S : ~Good(U)}
<1>1. SumFunctionOnSet(w, {}) = 0
  BY SumUnfold, FS_EmptySet
<1>2. SUFFICES ASSUME T # {} PROVE FALSE
  BY <1>1
<1>3. PICK U \in T : \A V \in SUBSET U : V # U => V \notin T
  <2>1. T \in SUBSET SUBSET S
    OBVIOUS
  <2> HIDE DEF T
  <2> QED BY <1>2, <2>1, SmallestMember
<1>4. U \in SUBSET S /\ ~Good(U)
  OBVIOUS
<1>5. \A V \in SUBSET U : V # U => Good(V)
  BY <1>3, <1>4
<1>6. \A V \in SUBSET U : IsFiniteSet(V)
  BY <1>4, FS_Subset
<1>7. U # {}
  <2>1. Good({})
    BY <1>1
  <2> QED BY <1>4, <2>1
<1> DEFINE p == Pick(U)
<1>8. p \in U /\ p \in S
  BY <1>4, <1>7, PickIn
<1>9. SumFunctionOnSet(w, U) = w[p] + SumFunctionOnSet(w, U \ {p})
  BY <1>6, <1>7, SumUnfold
<1> HIDE DEF p
<1>10. \A x \in U : U \ {x} \in SUBSET U /\ U \ {x} # U /\ SumFunctionOnSet(w, U \ {x}) \in Int
  BY <1>5
<1>11. \A x \in U : w[x] \in Int
  BY <1>4
<1>12. SumFunctionOnSet(w, U) \in Int
  BY <1>8, <1>9, <1>10, <1>11
<1>13. ASSUME NEW x \in U, x # p
       PROVE  SumFunctionOnSet(w, U) = w[x] + SumFunctionOnSet(w, U \ {x})
  <2> DEFINE B == (U \ {x}) \ {p}
  <2>1. B = (U \ {p}) \ {x} /\ B \in SUBSET U /\ B # U
    BY <1>8
  <2>2. SumFunctionOnSet(w, U \ {p}) = w[x] + SumFunctionOnSet(w, B)
    BY <1>5, <1>8, <1>10, <1>13, <2>1
  <2>3. SumFunctionOnSet(w, U \ {x}) = w[p] + SumFunctionOnSet(w, B)
    BY <1>5, <1>8, <1>10, <1>13
  <2>4. SumFunctionOnSet(w, B) \in Int
    BY <1>5, <2>1
  <2> HIDE DEF B
  <2> QED BY <1>8, <1>9, <1>11, <1>13, <2>2, <2>3, <2>4
<1> QED BY <1>4, <1>9, <1>12, <1>13

\* The sums over two sets with nothing in common make the sum over both.
LEMMA SumParts ==
  ASSUME NEW P, NEW Q, IsFiniteSet(P), IsFiniteSet(Q), P \cap Q = {},
         NEW w, \A x \in P \cup Q : w[x] \in Int
  PROVE  SumFunctionOnSet(w, P \cup Q) = SumFunctionOnSet(w, P) + SumFunctionOnSet(w, Q)
<1> DEFINE T == {U \in SUBSET P : SumFunctionOnSet(w, U \cup Q)
                                    # SumFunctionOnSet(w, U) + SumFunctionOnSet(w, Q)}
<1>1. SUFFICES ASSUME T # {} PROVE FALSE
  OBVIOUS
<1>2. PICK U \in T : \A V \in SUBSET U : V # U => V \notin T
  <2>1. T \in SUBSET SUBSET P
    OBVIOUS
  <2> HIDE DEF T
  <2> QED BY <1>1, <2>1, SmallestMember
<1>3. U \in SUBSET P /\ SumFunctionOnSet(w, U \cup Q) # SumFunctionOnSet(w, U) + SumFunctionOnSet(w, Q)
  OBVIOUS
<1>4. \A V \in SUBSET P : IsFiniteSet(V) /\ IsFiniteSet(V \cup Q)
  BY FS_Subset, FS_Union
<1>5. \A V \in SUBSET P : /\ SumFunctionOnSet(w, V) \in Int /\ SumFunctionOnSet(w, {}) = 0
                          /\ \A x \in V : SumFunctionOnSet(w, V) = w[x] + SumFunctionOnSet(w, V \ {x})
  BY <1>4, SumRemove
<1>6. \A V \in SUBSET P :
        /\ SumFunctionOnSet(w, V \cup Q) \in Int
        /\ \A x \in V \cup Q :
             SumFunctionOnSet(w, V \cup Q) = w[x] + SumFunctionOnSet(w, (V \cup Q) \ {x})
  <2> SUFFICES ASSUME NEW V \in SUBSET P
               PROVE  /\ SumFunctionOnSet(w, V \cup Q) \in Int
                      /\ \A x \in V \cup Q :
                           SumFunctionOnSet(w, V \cup Q) = w[x] + SumFunctionOnSet(w, (V \cup Q) \ {x})
    OBVIOUS
  <2>1. IsFiniteSet(V \cup Q) /\ \A x \in V \cup Q : w[x] \in Int
    BY <1>4
  <2> QED BY <2>1, SumRemove
<1>7. SumFunctionOnSet(w, Q) \in Int
  BY SumRemove
<1>8. U # {}
  <2> SUFFICES ASSUME U = {} PROVE FALSE
    OBVIOUS
  <2>1. U \cup Q = Q
    OBVIOUS
  <2>2. SumFunctionOnSet(w, U) = 0
    BY <1>5
  <2>3. PICK c \in Int : c = SumFunctionOnSet(w, Q)
    BY <1>7
  <2> QED BY <1>3, <2>1, <2>2, <2>3
<1>9. PICK x \in U : TRUE
  BY <1>8
<1>10. (U \ {x}) \cup Q = (U \cup Q) \ {x} /\ U \ {x} \in SUBSET U /\ U \ {x} # U /\ U \ {x} \in SUBSET P
  BY <1>3, <1>9
<1>11. SumFunctionOnSet(w, (U \ {x}) \cup Q) = SumFunctionOnSet(w, U \ {x}) + SumFunctionOnSet(w, Q)
  BY <1>2, <1>10
<1>12. SumFunctionOnSet(w, U \cup Q) = w[x] + SumFunctionOnSet(w, (U \ {x}) \cup Q)
  BY <1>3, <1>6, <1>9, <1>10
<1>13. SumFunctionOnSet(w, U) = w[x] + SumFunctionOnSet(w, U \ {x})
  BY <1>3, <1>5, <1>9
<1>14. PICK a \in Int, b \in Int, c \in Int :
         a = w[x] /\ b = SumFunctionOnSet(w, U \ {x}) /\ c = SumFunctionOnSet(w, Q)
  BY <1>3, <1>5, <1>7, <1>9, <1>10
<1> QED BY <1>3, <1>11, <1>12, <1>13, <1>14

-----------------------------------------------------------------------------
(* The tools agree *)

\* What is counted by its key is counted once.
LEMMA CountsAddUp ==
  ASSUME NEW C, IsFiniteSet(C), NEW key, NEW B, IsFiniteSet(B), \A r \in C : key[r] \in B,
         NEW f, DOMAIN f = B, \A b \in B : f[b] = Cardinality({r \in C : key[r] = b})
  PROVE  SumFunction(f) = Cardinality(C)
<1> DEFINE Of(V) == {r \in C : key[r] \in V}
           T == {V \in SUBSET B : SumFunctionOnSet(f, V) # Cardinality(Of(V))}
<1>1. ASSUME T # {} PROVE FALSE
  <2>1. PICK U \in T : \A V \in SUBSET U : V # U => V \notin T
    <3>1. T \in SUBSET SUBSET B
      OBVIOUS
    <3> HIDE DEF T
    <3> QED BY <1>1, <3>1, SmallestMember
  <2>2. U \in SUBSET B /\ SumFunctionOnSet(f, U) # Cardinality(Of(U)) /\ IsFiniteSet(U)
    BY FS_Subset
  <2>3. \A V \in SUBSET B : IsFiniteSet(Of(V)) /\ Cardinality(Of(V)) \in Nat
    BY FS_Subset, FS_CardinalityType
  <2>4. \A b \in B : f[b] \in Int
    <3>1. \A b : {r \in C : key[r] = b} \in SUBSET C
      OBVIOUS
    <3>2. \A b : Cardinality({r \in C : key[r] = b}) \in Nat
      BY <3>1, FS_Subset, FS_CardinalityType
    <3>3. ASSUME NEW b \in B PROVE f[b] \in Int
      <4>1. PICK n \in Nat : n = Cardinality({r \in C : key[r] = b})
        BY <3>2
      <4> QED BY <4>1
    <3> QED BY <3>3
  <2>5. SumFunctionOnSet(f, {}) = 0
        /\ \A x \in U : SumFunctionOnSet(f, U) = f[x] + SumFunctionOnSet(f, U \ {x})
    BY <2>2, <2>4, SumRemove
  <2>6. U # {}
    <3>1. Of({}) = {}
      OBVIOUS
    <3>2. Cardinality(Of({})) = 0
      BY <3>1, FS_EmptySet
    <3> HIDE DEF Of
    <3> QED BY <2>2, <2>5, <3>2
  <2>7. PICK x \in U : TRUE
    BY <2>6
  <2>8. SumFunctionOnSet(f, U \ {x}) = Cardinality(Of(U \ {x})) /\ U \ {x} \in SUBSET B
    <3>1. U \ {x} \in SUBSET U /\ U \ {x} # U
      BY <2>7
    <3> QED BY <2>1, <2>2, <3>1
  <2> DEFINE mine == {r \in C : key[r] = x}
  <2>9. Of(U) = mine \cup Of(U \ {x}) /\ mine \cap Of(U \ {x}) = {}
    BY <2>7
  <2>10. IsFiniteSet(mine) /\ f[x] = Cardinality(mine) /\ Cardinality(mine) \in Nat
    BY <2>2, <2>7, FS_Subset, FS_CardinalityType
  <2> HIDE DEF mine, Of
  <2>11. Cardinality(Of(U)) = Cardinality(mine) + Cardinality(Of(U \ {x}))
    <3>1. Cardinality(mine \cap Of(U \ {x})) = 0
      BY <2>9, FS_EmptySet
    <3>2. Cardinality(Of(U)) = Cardinality(mine) + Cardinality(Of(U \ {x})) - 0
      BY <2>3, <2>8, <2>9, <2>10, <3>1, FS_Union
    <3> QED BY <2>3, <2>8, <2>10, <3>2
  <2> QED BY <2>2, <2>5, <2>7, <2>8, <2>10, <2>11
<1>2. SumFunctionOnSet(f, B) = Cardinality(Of(B))
  BY <1>1
<1>3. Of(B) = C
  OBVIOUS
<1> QED BY <1>2, <1>3, SumDef

\* A tally is the sum of the tallies by any key.
LEMMA TalliesAddUp ==
  ASSUME NEW C, IsFiniteSet(C), NEW key, NEW B, IsFiniteSet(B), \A r \in C : key[r] \in B,
         NEW f, f = [b \in B |-> Tally({r \in C : key[r] = b})]
  PROVE  Sums(f, Plain, Tally(C))
<1>1. Passed(C) \in SUBSET C /\ Rejected(C) \in SUBSET C
  BY DEF Passed, Rejected
<1>2. IsFiniteSet(Passed(C)) /\ IsFiniteSet(Rejected(C))
  BY <1>1, FS_Subset
<1> DEFINE total == [x \in B |-> f[x].total]
           successful == [x \in B |-> f[x].successful]
           failed == [x \in B |-> f[x].failed]
<1>3. SumFunction(total) = Cardinality(C)
  <2>1. DOMAIN total = B /\ \A b \in B : total[b] = Cardinality({r \in C : key[r] = b})
    BY DEF Tally
  <2> HIDE DEF total
  <2> QED BY <2>1, CountsAddUp
<1>4. SumFunction(successful) = Cardinality(Passed(C))
  <2>1. \A b : Passed({r \in C : key[r] = b}) = {r \in Passed(C) : key[r] = b}
    BY DEF Passed
  <2>2. DOMAIN successful = B
        /\ \A b \in B : successful[b] = Cardinality({r \in Passed(C) : key[r] = b})
    BY <2>1 DEF Tally
  <2> HIDE DEF successful
  <2> QED BY <1>1, <1>2, <2>2, CountsAddUp
<1>5. SumFunction(failed) = Cardinality(Rejected(C))
  <2>1. \A b : Rejected({r \in C : key[r] = b}) = {r \in Rejected(C) : key[r] = b}
    BY DEF Rejected
  <2>2. DOMAIN failed = B /\ \A b \in B : failed[b] = Cardinality({r \in Rejected(C) : key[r] = b})
    BY <2>1 DEF Tally
  <2> HIDE DEF failed
  <2> QED BY <1>1, <1>2, <2>2, CountsAddUp
<1>6. DOMAIN f = B
  OBVIOUS
<1> HIDE DEF total, successful, failed
<1>7. Tally(C).total = Cardinality(C) /\ Tally(C).successful = Cardinality(Passed(C))
      /\ Tally(C).failed = Cardinality(Rejected(C))
  BY DEF Tally
<1>8. Total(f, LAMBDA x : Plain(x).total) = SumFunction(total)
  BY <1>6 DEF Total, Plain, total
<1>9. Total(f, LAMBDA x : Plain(x).successful) = SumFunction(successful)
  BY <1>6 DEF Total, Plain, successful
<1>10. Total(f, LAMBDA x : Plain(x).failed) = SumFunction(failed)
  BY <1>6 DEF Total, Plain, failed
<1> QED BY <1>3, <1>4, <1>5, <1>7, <1>8, <1>9, <1>10 DEF Sums

\* The rows of a store are in order of time and head.
LEMMA EarliestIsAnOrder ==
  ASSUME NEW H, InScope(H)
  PROVE  \A q, r, x \in H : /\ ~Earliest(r, r)
                            /\ Earliest(q, r) /\ Earliest(r, x) => Earliest(q, x)
                            /\ q # r => Earliest(q, r) \/ Earliest(r, q)
<1> SUFFICES ASSUME NEW q \in H, NEW r \in H, NEW x \in H
             PROVE  /\ ~Earliest(r, r)
                    /\ Earliest(q, r) /\ Earliest(r, x) => Earliest(q, x)
                    /\ q # r => Earliest(q, r) \/ Earliest(r, q)
  OBVIOUS
<1>1. \A y \in H : y.ts \in Int /\ y.head \in Int
  <2>1. \A y \in H : y \in Rows /\ y.ts \in Int /\ y.head \in Heads
    BY StampsAreNumbers DEF InScope, Rows
  <2>2. \A h \in Heads : h \in Int
    BY StoreAssumption
  <2> QED BY <2>1, <2>2
<1>2. q.head = r.head /\ q.ts = r.ts => q = r
  BY DEF InScope, Keyed
<1>3. PICK a \in Int, b \in Int, c \in Int : a = q.ts /\ b = r.ts /\ c = x.ts
  BY <1>1
<1>4. PICK i \in Int, j \in Int, k \in Int : i = q.head /\ j = r.head /\ k = x.head
  BY <1>1
<1> QED BY <1>2, <1>3, <1>4 DEF Earliest

\* So they can be listed in that order.
LEMMA OrderExists ==
  ASSUME NEW H, InScope(H)
  PROVE  \E s \in [1 .. Cardinality(H) -> H] :
           \A i, j \in DOMAIN s : i < j => Earliest(s[i], s[j])
<1> DEFINE n == Cardinality(H)
           Not(r) == {q \in H : q = r \/ Earliest(q, r)}
           rank == [r \in H |-> Cardinality(Not(r))]
<1>1. IsFiniteSet(H) /\ n \in Nat
  BY FS_CardinalityType DEF InScope
<1>2. \A r \in H : IsFiniteSet(Not(r)) /\ Cardinality(Not(r)) \in 1 .. n
  <2> SUFFICES ASSUME NEW r \in H PROVE IsFiniteSet(Not(r)) /\ Cardinality(Not(r)) \in 1 .. n
    OBVIOUS
  <2>1. Not(r) \in SUBSET H /\ Not(r) # {}
    OBVIOUS
  <2> HIDE DEF Not
  <2>2. IsFiniteSet(Not(r)) /\ Cardinality(Not(r)) <= n /\ Cardinality(Not(r)) \in Nat
        /\ Cardinality(Not(r)) # 0
    BY <1>1, <2>1, FS_Subset, FS_CardinalityType, FS_EmptySet
  <2> QED BY <1>1, <2>2
<1>3. \A q, r \in H : Earliest(q, r) => rank[q] < rank[r]
  <2> SUFFICES ASSUME NEW q \in H, NEW r \in H, Earliest(q, r)
               PROVE  Cardinality(Not(q)) < Cardinality(Not(r))
    OBVIOUS
  <2>1. Not(q) \in SUBSET Not(r) /\ r \in Not(r) /\ r \notin Not(q)
    BY EarliestIsAnOrder
  <2> HIDE DEF Not
  <2>2. Cardinality(Not(q)) <= Cardinality(Not(r))
        /\ (Cardinality(Not(r)) = Cardinality(Not(q)) => Not(r) = Not(q))
    BY <1>2, <2>1, FS_Subset
  <2>3. PICK a \in Int, b \in Int : a = Cardinality(Not(q)) /\ b = Cardinality(Not(r))
    BY <1>2
  <2> QED BY <2>1, <2>2, <2>3
<1>4. rank \in [H -> 1 .. n]
  BY <1>2
<1> HIDE DEF rank
<1>5. \A q, r \in H : rank[q] = rank[r] => q = r
  <2> SUFFICES ASSUME NEW q \in H, NEW r \in H, rank[q] = rank[r], q # r PROVE FALSE
    OBVIOUS
  <2>1. PICK a \in Int : a = rank[q] /\ a = rank[r]
    BY <1>4
  <2> QED BY <1>3, <2>1, EarliestIsAnOrder
<1>6. rank \in Surjection(H, 1 .. n)
  <2>1. rank \in Injection(H, 1 .. n)
    BY <1>4, <1>5 DEF Injection, IsInjective
  <2>2. IsFiniteSet(1 .. n) /\ Cardinality(1 .. n) = n
    BY <1>1, FS_Interval
  <2> QED BY <2>1, <2>2, FS_Injection
<1>7. \A k \in 1 .. n : \E r \in H : rank[r] = k
  BY <1>6 DEF Surjection
<1> DEFINE s == [k \in 1 .. n |-> CHOOSE r \in H : rank[r] = k]
<1>8. \A k \in 1 .. n : s[k] \in H /\ rank[s[k]] = k
  BY <1>7
<1>9. s \in [1 .. n -> H]
  BY <1>8
<1>10. DOMAIN s = 1 .. n
  OBVIOUS
<1> HIDE DEF s, n
<1>11. ASSUME NEW i \in 1 .. n, NEW j \in 1 .. n, i < j PROVE Earliest(s[i], s[j])
  <2>1. s[i] \in H /\ s[j] \in H /\ rank[s[i]] = i /\ rank[s[j]] = j
    BY <1>8
  <2>2. i \in Int /\ j \in Int
    BY <1>1
  <2>3. s[i] # s[j] /\ ~Earliest(s[j], s[i])
    BY <1>3, <1>11, <2>1, <2>2
  <2> QED BY <2>1, <2>3, EarliestIsAnOrder
<1>12. s \in [1 .. Cardinality(H) -> H] /\ \A i, j \in DOMAIN s : i < j => Earliest(s[i], s[j])
  BY <1>9, <1>10, <1>11 DEF n
<1> QED BY <1>12

\* In time order, every row is listed once.
LEMMA TimeOrderIs ==
  ASSUME NEW H, InScope(H)
  PROVE  /\ InTimeOrder(H) \in [1 .. Cardinality(H) -> H] /\ Cardinality(H) \in Nat
         /\ Len(InTimeOrder(H)) = Cardinality(H) /\ Range(InTimeOrder(H)) = H
         /\ \A i, j \in 1 .. Cardinality(H) : InTimeOrder(H)[i] = InTimeOrder(H)[j] => i = j
<1>1. PICK n \in Nat : n = Cardinality(H)
  BY FS_CardinalityType DEF InScope
<1>2. PICK s : s = InTimeOrder(H)
  OBVIOUS
<1>3. s \in [1 .. n -> H] /\ \A i, j \in 1 .. n : i < j => Earliest(s[i], s[j])
  <2>1. s \in [1 .. n -> H] /\ \A i, j \in DOMAIN s : i < j => Earliest(s[i], s[j])
    BY <1>1, <1>2, OrderExists DEF InTimeOrder
  <2> QED BY <2>1
<1>4. \A i, j \in 1 .. n : s[i] = s[j] => i = j
  <2> SUFFICES ASSUME NEW i \in 1 .. n, NEW j \in 1 .. n, s[i] = s[j], i # j PROVE FALSE
    OBVIOUS
  <2>1. s[i] \in H /\ s[j] \in H
    BY <1>3
  <2>2. i < j \/ j < i
    OBVIOUS
  <2> QED BY <1>3, <2>1, <2>2, EarliestIsAnOrder
<1>5. Len(s) = n
  BY <1>3
<1>6. s \in Surjection(1 .. n, H)
  <2>1. s \in Injection(1 .. n, H)
    BY <1>3, <1>4 DEF Injection, IsInjective
  <2>2. IsFiniteSet(H) /\ Cardinality(1 .. n) = n
    BY FS_Interval DEF InScope
  <2> QED BY <1>1, <2>1, <2>2, FS_Injection
<1>7. Range(s) = H
  BY <1>3, <1>6 DEF Range, Surjection
<1> QED BY <1>1, <1>2, <1>3, <1>4, <1>5, <1>7

\* What is grouped by head, by stamp or by torque has finitely many groups.
LEMMA GroupsFinite ==
  ASSUME NEW C, IsFiniteSet(C)
  PROVE  IsFiniteSet(HeadsOf(C)) /\ \A unit : IsFiniteSet(Buckets(C, unit))
<1>1. IsFiniteSet(HeadsOf(C))
  <2> DEFINE g == [r \in C |-> r.head]
  <2>1. g \in Surjection(C, HeadsOf(C))
    BY DEF Surjection, HeadsOf
  <2> HIDE DEF g
  <2> QED BY <2>1, FS_Surjection
<1>2. ASSUME NEW unit PROVE IsFiniteSet(Buckets(C, unit))
  <2> DEFINE g == [r \in C |-> unit[r.ts]]
  <2>1. g \in Surjection(C, Buckets(C, unit))
    BY DEF Surjection, Buckets
  <2> HIDE DEF g
  <2> QED BY <2>1, FS_Surjection
<1> QED BY <1>1, <1>2

\* No status is both a pass and a reject.
LEMMA SuccessIsNoReject == \A s : s = Success => ~RejectSQL(s)
BY DEF Success, RejectSQL, TruncMod2

\* Heads, days, torque bands and hours of the day all add up to the overview.
LEMMA TalliesAgree ==
  ASSUME NEW R, InScope(R)
  PROVE  LET o == Overview(R)
             verdicts == [o.capping EXCEPT !.total = o.capping.successful + o.capping.failed]
         IN  /\ Sums(RatesByHead(R), Plain, o.capping) /\ Sums(RatesByDay(R), Plain, o.capping)
             /\ Sums(ByZone(R), Plain, verdicts) /\ Sums(ByHour(R), Plain, verdicts)
<1> DEFINE o == Overview(R)
           verdicts == [o.capping EXCEPT !.total = o.capping.successful + o.capping.failed]
           C == Caps(R)
           W == Verdicts(R)
<1>1. C \in SUBSET R /\ W \in SUBSET C
  BY DEF Caps, Verdicts
<1>2. IsFiniteSet(C) /\ IsFiniteSet(W)
  BY <1>1, FS_Subset DEF InScope
<1>3. o.capping = Tally(C)
  BY DEF Overview
<1>4. Sums(RatesByHead(R), Plain, Tally(C))
  <2> DEFINE key == [r \in C |-> r.head]
             f == [b \in HeadsOf(C) |-> Tally({r \in C : key[r] = b})]
  <2>1. \A r \in C : key[r] \in HeadsOf(C)
    BY DEF HeadsOf
  <2>2. RatesByHead(R) = f
    BY DEF RatesByHead, OfHead
  <2>3. IsFiniteSet(HeadsOf(C))
    BY <1>2, GroupsFinite
  <2> HIDE DEF key, C
  <2>4. Sums(f, Plain, Tally(C))
    BY <1>2, <2>1, <2>3, TalliesAddUp
  <2> QED BY <2>2, <2>4
<1>5. Sums(RatesByDay(R), Plain, Tally(C))
  <2> DEFINE key == [r \in C |-> Day[r.ts]]
             f == [b \in Buckets(C, Day) |-> Tally({r \in C : key[r] = b})]
  <2>1. \A r \in C : key[r] \in Buckets(C, Day)
    BY DEF Buckets
  <2>2. RatesByDay(R) = f
    BY DEF RatesByDay, InBucket
  <2>3. IsFiniteSet(Buckets(C, Day))
    BY <1>2, GroupsFinite
  <2> HIDE DEF key, C
  <2>4. Sums(f, Plain, Tally(C))
    BY <1>2, <2>1, <2>3, TalliesAddUp
  <2> QED BY <2>2, <2>4
<1>6. Sums(ByZone(R), Plain, Tally(W))
  <2> DEFINE key == [r \in W |-> Zone(r)]
             B == {"below", "inside", "above"}
             f == [b \in B |-> Tally({r \in W : key[r] = b})]
  <2>1. \A r \in W : key[r] \in B
    BY DEF Zone
  <2>2. ByZone(R) = f
    BY DEF ByZone
  <2>3. IsFiniteSet(B)
    <3>1. IsFiniteSet({"below"} \cup {"inside"}) /\ IsFiniteSet({"above"})
      BY FS_Singleton, FS_Union
    <3>2. B = ({"below"} \cup {"inside"}) \cup {"above"}
      OBVIOUS
    <3> QED BY <3>1, <3>2, FS_Union
  <2> HIDE DEF key, W, B
  <2>4. Sums(f, Plain, Tally(W))
    BY <1>2, <2>1, <2>3, TalliesAddUp
  <2> QED BY <2>2, <2>4
<1>7. Sums(ByHour(R), Plain, Tally(W))
  <2> DEFINE key == [r \in W |-> Clock[r.ts]]
             f == [b \in Buckets(W, Clock) |-> Tally({r \in W : key[r] = b})]
  <2>1. \A r \in W : key[r] \in Buckets(W, Clock)
    BY DEF Buckets
  <2>2. ByHour(R) = f
    BY DEF ByHour, InBucket
  <2>3. IsFiniteSet(Buckets(W, Clock))
    BY <1>2, GroupsFinite
  <2> HIDE DEF key, W
  <2>4. Sums(f, Plain, Tally(W))
    BY <1>2, <2>1, <2>3, TalliesAddUp
  <2> QED BY <2>2, <2>4
<1>8. Tally(W) = verdicts
  <2>1. Passed(W) = Passed(C) /\ Rejected(W) = Rejected(C) /\ W = Passed(C) \cup Rejected(C)
    BY DEF Verdicts, Passed, Rejected
  <2>2. Passed(C) \cap Rejected(C) = {}
    BY SuccessIsNoReject DEF Passed, Rejected
  <2>3. Passed(C) \in SUBSET C /\ Rejected(C) \in SUBSET C
    BY DEF Passed, Rejected
  <2>4. IsFiniteSet(Passed(C)) /\ IsFiniteSet(Rejected(C))
    BY <1>2, <2>3, FS_Subset
  <2>5. PICK a \in Nat, b \in Nat : a = Cardinality(Passed(C)) /\ b = Cardinality(Rejected(C))
    BY <2>4, FS_CardinalityType
  <2>6. Cardinality(W) = a + b
    <3>1. Cardinality(Passed(C) \cap Rejected(C)) = 0
      BY <2>2, FS_EmptySet
    <3>2. Cardinality(Passed(C) \cup Rejected(C)) = a + b - 0
      BY <2>4, <2>5, <3>1, FS_Union
    <3> QED BY <2>1, <3>2
  <2>7. Tally(C) = [total |-> Cardinality(C), successful |-> a, failed |-> b]
    BY <2>5 DEF Tally
  <2>8. Tally(W) = [total |-> a + b, successful |-> a, failed |-> b]
    BY <2>1, <2>5, <2>6 DEF Tally
  <2> HIDE DEF o
  <2>9. verdicts = [total |-> a + b, successful |-> a, failed |-> b]
    BY <1>3, <2>7
  <2> QED BY <2>8, <2>9
<1> HIDE DEF o, C, W
<1> QED BY <1>3, <1>4, <1>5, <1>6, <1>7, <1>8 DEF o

\* Speeds, torques and filters count what the overview counts.
LEMMA OutcomesAgree ==
  ASSUME NEW R, InScope(R)
  PROVE  LET o == Overview(R)
             outcomes == {<<"all", o.capping.total>>, <<"successful", o.capping.successful>>,
                          <<"failed", o.capping.failed>>}
         IN  /\ Total(SpeedCaps(R, Day), LAMBDA b : b.caps) = o.capping.total
             /\ \A x \in outcomes :
                  /\ Total(TorqueStatsN(R, x[1]), Plain) = x[2]
                  /\ Cardinality(ClosureFilter(R, None, None, x[1], None)) = x[2]
                  /\ \A h \in DOMAIN TorqueStatsN(R, x[1]) :
                       Cardinality(ClosureFilter(R, None, None, x[1], h)) = TorqueStatsN(R, x[1])[h]
<1> DEFINE C == Caps(R)
<1>1. IsFiniteSet(C)
  <2>1. C \in SUBSET R
    BY DEF Caps
  <2> QED BY <2>1, FS_Subset DEF InScope
<1>2. Overview(R).capping.total = Cardinality(C)
      /\ Overview(R).capping.successful = Cardinality(Passed(C))
      /\ Overview(R).capping.failed = Cardinality(Rejected(C))
  BY DEF Overview, Tally
<1>3. Total(SpeedCaps(R, Day), LAMBDA b : b.caps) = Cardinality(C)
  <2> DEFINE key == [r \in C |-> Day[r.ts]]
             B == Buckets(C, Day)
             f == [b \in B |-> SpeedCaps(R, Day)[b].caps]
  <2>1. DOMAIN SpeedCaps(R, Day) = B
        /\ \A b \in B : SpeedCaps(R, Day)[b].caps = Cardinality(InBucket(C, Day, b))
    BY DEF SpeedCaps
  <2>2. Total(SpeedCaps(R, Day), LAMBDA b : b.caps) = SumFunction(f)
    BY <2>1 DEF Total
  <2>3. \A b : InBucket(C, Day, b) = {r \in C : key[r] = b}
    BY DEF InBucket
  <2>4. DOMAIN f = B /\ \A b \in B : f[b] = Cardinality({r \in C : key[r] = b})
    BY <2>1, <2>3
  <2>5. \A r \in C : key[r] \in B
    BY DEF Buckets
  <2>6. IsFiniteSet(B)
    BY <1>1, GroupsFinite
  <2> HIDE DEF f, key, C, B
  <2>7. SumFunction(f) = Cardinality(C)
    BY <1>1, <2>4, <2>5, <2>6, CountsAddUp
  <2> QED BY <2>2, <2>7
<1>4. ASSUME NEW outcome \in {"all", "successful", "failed"}
      PROVE  /\ Total(TorqueStatsN(R, outcome), Plain) = Cardinality(OfOutcome(R, outcome))
             /\ ClosureFilter(R, None, None, outcome, None) = OfOutcome(R, outcome)
             /\ \A h \in DOMAIN TorqueStatsN(R, outcome) :
                  Cardinality(ClosureFilter(R, None, None, outcome, h)) = TorqueStatsN(R, outcome)[h]
  <2> DEFINE O == OfOutcome(R, outcome)
             B == HeadsOf(O)
             key == [r \in O |-> r.head]
             f == [x \in DOMAIN TorqueStatsN(R, outcome) |-> Plain(TorqueStatsN(R, outcome)[x])]
  <2>1. O \in SUBSET C /\ ClosureFilter(R, None, None, outcome, None) = O
    BY DEF OfOutcome, ClosureFilter, Passed, Rejected
  <2>8. ASSUME NEW h \in DOMAIN TorqueStatsN(R, outcome)
        PROVE  Cardinality(ClosureFilter(R, None, None, outcome, h)) = TorqueStatsN(R, outcome)[h]
    <3>1. h \in HeadsOf(O) /\ TorqueStatsN(R, outcome)[h] = Cardinality(OfHead(O, h))
      BY DEF TorqueStatsN
    <3>2. h # None
      <4>1. O \subseteq Rows
        BY <2>1 DEF InScope, Caps
      <4>2. h \in Heads
        BY <3>1, <4>1 DEF HeadsOf, Rows
      <4> QED BY <4>2, StoreAssumption, ConfigAssumption
    <3>3. ClosureFilter(R, None, None, outcome, h) = OfHead(O, h)
      BY <3>2 DEF OfOutcome, ClosureFilter, Passed, Rejected, OfHead
    <3> QED BY <3>1, <3>3
  <2>2. IsFiniteSet(O)
    BY <1>1, <2>1, FS_Subset
  <2>3. DOMAIN f = B /\ \A b \in B : f[b] = Cardinality({r \in O : key[r] = b})
    BY DEF TorqueStatsN, Plain, OfHead
  <2>4. \A r \in O : key[r] \in B
    BY DEF HeadsOf
  <2>5. IsFiniteSet(B)
    BY <2>2, GroupsFinite
  <2>6. Total(TorqueStatsN(R, outcome), Plain) = SumFunction(f)
    BY DEF Total
  <2> HIDE DEF O, B, key, f
  <2>7. SumFunction(f) = Cardinality(O)
    BY <2>2, <2>3, <2>4, <2>5, CountsAddUp
  <2> QED BY <2>1, <2>6, <2>7, <2>8 DEF O
<1>5. OfOutcome(R, "all") = C /\ OfOutcome(R, "successful") = Passed(C)
      /\ OfOutcome(R, "failed") = Rejected(C)
  BY DEF OfOutcome
<1> HIDE DEF C
<1> QED BY <1>2, <1>3, <1>4, <1>5

\* The cast of a limit moves it past no reading, and the limits not past each
\* other.
LEMMA CastKeepsOrder ==
  ASSUME NEW r \in Rows
  PROVE  \E x \in Int, a \in Int, b \in Int, low \in Int, high \in Int :
           /\ x = r.torque /\ a = TorqueMin /\ b = TorqueMax
           /\ low = Real[TorqueMin] /\ high = Real[TorqueMax]
           /\ a < b /\ low <= high
           /\ (x <= a => x <= low) /\ (x >= a => x >= low)
           /\ (x <= b => x <= high) /\ (x >= b => x >= high)
<1>1. r.torque \in {k[2] : k \in Kinds}
  BY DEF Rows
<1>2. PICK x \in Int : x = r.torque
  BY StampsAreNumbers
<1>3. PICK a \in Int, b \in Int : a = TorqueMin /\ b = TorqueMax /\ a < b
  BY ConfigAssumption
<1>4. TorqueMin \in Limits /\ TorqueMax \in Limits
  BY RealAssumption
<1>5. PICK low \in Int, high \in Int : low = Real[TorqueMin] /\ high = Real[TorqueMax]
  BY <1>4, RealAssumption
<1>6. low <= high
  BY <1>3, <1>4, <1>5, RealAssumption
<1>7. \A l \in Limits : (x <= l => x <= Real[l]) /\ (x >= l => x >= Real[l])
  BY <1>1, <1>2, RealAssumption
<1>8. /\ (x <= a => x <= low) /\ (x >= a => x >= low)
      /\ (x <= b => x <= high) /\ (x >= b => x >= high)
  BY <1>3, <1>4, <1>5, <1>7
<1> QED BY <1>2, <1>3, <1>5, <1>6, <1>8

\* The limits of the band are given: neither is left out of a filter.
LEMMA LimitsAreGiven == TorqueMin # None /\ TorqueMax # None
BY ConfigAssumption

\* A zone beyond the band is what closure_filter finds beyond that limit.
LEMMA ZonesAgree ==
  ASSUME NEW R, InScope(R)
  PROVE  ZoneIs(R, "above", TorqueMax, None) /\ ZoneIs(R, "below", None, TorqueMin)
<1>1. ASSUME NEW r \in Caps(R)
      PROVE  /\ Zone(r) = "above" <=> r.torque > Real[TorqueMax]
             /\ Zone(r) = "below" <=> r.torque < Real[TorqueMin]
  <2>1. PICK x \in Int, a \in Int, b \in Int, low \in Int, high \in Int :
          x = r.torque /\ low = Real[TorqueMin] /\ high = Real[TorqueMax] /\ low <= high
    BY CastKeepsOrder DEF InScope, Caps
  <2>2. Zone(r) = IF x < low THEN "below" ELSE IF x > high THEN "above" ELSE "inside"
    BY <2>1 DEF Zone
  <2> QED BY <2>1, <2>2
<1> DEFINE in(zone) == {r \in Verdicts(R) : Zone(r) = zone}
<1>2. \A zone \in {"below", "above"} :
        /\ ByZone(R)[zone].successful = Cardinality(Passed(in(zone)))
        /\ ByZone(R)[zone].failed = Cardinality(Rejected(in(zone)))
  BY DEF ByZone, Tally
<1>3. /\ Passed(in("above")) = ClosureFilter(R, TorqueMax, None, "successful", None)
      /\ Rejected(in("above")) = ClosureFilter(R, TorqueMax, None, "failed", None)
  BY <1>1, LimitsAreGiven DEF Passed, Rejected, Verdicts, ClosureFilter
<1>4. /\ Passed(in("below")) = ClosureFilter(R, None, TorqueMin, "successful", None)
      /\ Rejected(in("below")) = ClosureFilter(R, None, TorqueMin, "failed", None)
  BY <1>1, LimitsAreGiven DEF Passed, Rejected, Verdicts, ClosureFilter
<1> HIDE DEF in
<1> QED BY <1>2, <1>3, <1>4 DEF ZoneIs

\* What is out of the band is counted alike by the overview and by anomalies,
\* and by the two limits of closure_filter but for the readings at the cast.
LEMMA BandAgrees ==
  ASSUME NEW R, InScope(R)
  PROVE  /\ Overview(R).invalid = Anomalies(R).threshold.count
         /\ Overview(R).invalid = Total(Anomalies(R).by_head, Plain)
         /\ Overview(R).invalid = Cardinality(ClosureFilter(R, TorqueMax, None, "all", None))
                                  + Cardinality(ClosureFilter(R, None, TorqueMin, "all", None))
                                  + Cardinality(AtTheCast(R))
<1> DEFINE O == {r \in R : OutOfBand(r)}
           hits == InTimeOrder(O)
<1>1. O = {r \in Caps(R) : OutOfBand(r)} /\ O \in SUBSET R
  BY DEF Caps, OutOfBand
<1>2. InScope(O) /\ IsFiniteSet(O)
  <2>1. InScope(O)
    BY <1>1, PartInScope
  <2> QED BY <2>1 DEF InScope
<1>3. Overview(R).invalid = Cardinality(O)
  BY DEF Overview
<1>4. Len(hits) = Cardinality(O) /\ Range(hits) = O
  BY <1>2, TimeOrderIs
<1>5. Anomalies(R).threshold.count = Len(hits)
      /\ Anomalies(R).by_head = [h \in HeadsOf(Range(hits)) |-> Cardinality(OfHead(Range(hits), h))]
  BY <1>1 DEF Anomalies
<1>6. Total(Anomalies(R).by_head, Plain) = Cardinality(O)
  <2> DEFINE B == HeadsOf(O)
             key == [r \in O |-> r.head]
             f == [h \in B |-> Cardinality(OfHead(O, h))]
             g == [x \in DOMAIN f |-> Plain(f[x])]
  <2>1. DOMAIN g = B /\ \A b \in B : g[b] = Cardinality({r \in O : key[r] = b})
    BY DEF Plain, OfHead
  <2>2. \A r \in O : key[r] \in B
    BY DEF HeadsOf
  <2>3. IsFiniteSet(B)
    BY <1>2, GroupsFinite
  <2>4. Total(f, Plain) = SumFunction(g)
    BY DEF Total
  <2>5. Anomalies(R).by_head = f
    BY <1>4, <1>5
  <2> HIDE DEF O, B, key, f, g
  <2>6. SumFunction(g) = Cardinality(O)
    BY <1>2, <2>1, <2>2, <2>3, CountsAddUp
  <2> QED BY <2>4, <2>5, <2>6
<1> DEFINE above == ClosureFilter(R, TorqueMax, None, "all", None)
           under == ClosureFilter(R, None, TorqueMin, "all", None)
           at == AtTheCast(R)
<1>7. /\ above = {r \in Caps(R) : r.torque > Real[TorqueMax]}
      /\ under = {r \in Caps(R) : r.torque < Real[TorqueMin]}
      /\ at = {r \in O : r.torque = Real[TorqueMin] \/ r.torque = Real[TorqueMax]}
  BY <1>1, LimitsAreGiven DEF ClosureFilter, AtTheCast
<1>8. O = {r \in Caps(R) : r.torque < TorqueMin \/ r.torque > TorqueMax}
  BY <1>1 DEF OutOfBand, Caps
<1>9. ASSUME NEW r \in Caps(R)
      PROVE  /\ r \in O <=> r \in above \/ r \in under \/ r \in at
             /\ ~(r \in above /\ r \in under)
             /\ ~(r \in at /\ (r \in above \/ r \in under))
  <2>1. PICK x \in Int, a \in Int, b \in Int, low \in Int, high \in Int :
          /\ x = r.torque /\ a = TorqueMin /\ b = TorqueMax
          /\ low = Real[TorqueMin] /\ high = Real[TorqueMax]
          /\ a < b /\ low <= high
          /\ (x <= a => x <= low) /\ (x >= a => x >= low)
          /\ (x <= b => x <= high) /\ (x >= b => x >= high)
    BY CastKeepsOrder DEF InScope, Caps
  <2>2. (r \in O <=> x < a \/ x > b) /\ (r \in above <=> x > high) /\ (r \in under <=> x < low)
    BY <1>7, <1>8, <2>1
  <2>3. r \in at <=> (x < a \/ x > b) /\ (x = low \/ x = high)
    BY <1>7, <2>1, <2>2
  <2> HIDE DEF O, above, under, at
  <2> QED BY <2>1, <2>2, <2>3
<1>10. above \subseteq Caps(R) /\ under \subseteq Caps(R) /\ at \subseteq Caps(R) /\ O \subseteq Caps(R)
  BY <1>1, <1>7
<1> HIDE DEF O, above, under, at
<1>11. /\ O = (above \cup under) \cup at
       /\ above \cap under = {} /\ (above \cup under) \cap at = {}
  BY <1>9, <1>10
<1>12. IsFiniteSet(above) /\ IsFiniteSet(under) /\ IsFiniteSet(at)
  <2>1. above \in SUBSET O /\ under \in SUBSET O /\ at \in SUBSET O
    BY <1>11
  <2> QED BY <1>2, <2>1, FS_Subset
<1>13. Cardinality(O) = Cardinality(above) + Cardinality(under) + Cardinality(at)
  <2>1. PICK a \in Nat, b \in Nat, c \in Nat :
          a = Cardinality(above) /\ b = Cardinality(under) /\ c = Cardinality(at)
    BY <1>12, FS_CardinalityType
  <2>2. Cardinality(above \cap under) = 0 /\ Cardinality((above \cup under) \cap at) = 0
    BY <1>11, FS_EmptySet
  <2> DEFINE both == above \cup under
  <2>3. IsFiniteSet(both)
    BY <1>12, FS_Union
  <2>4. Cardinality(above \cup under) = Cardinality(above) + Cardinality(under) - Cardinality(above \cap under)
    BY <1>12, FS_Union
  <2>5. Cardinality(both) = a + b
    BY <2>1, <2>2, <2>4
  <2> HIDE DEF both
  <2>6. Cardinality(both \cup at) = Cardinality(both) + Cardinality(at) - Cardinality(both \cap at)
    BY <1>12, <2>3, FS_Union
  <2>7. Cardinality(both \cap at) = 0 /\ O = both \cup at
    BY <1>11, <2>2 DEF both
  <2> QED BY <2>1, <2>5, <2>6, <2>7
<1> QED BY <1>3, <1>4, <1>5, <1>6, <1>13 DEF above, under, at

\* Every count of every tool is the overview's.
LEMMA AllCountsAgree == ASSUME NEW R, InScope(R) PROVE CountsAgree(R)
BY TalliesAgree, OutcomesAgree, BandAgrees, ZonesAgree DEF CountsAgree

\* The time of a stop between two polls is not within a run of idling.
LEMMA StopIsNotIdling == ASSUME NEW R, InScope(R) PROVE SilenceIsNotIdling(R)
<1> SUFFICES ASSUME NEW run \in IdlePeriods(R, IdleMin), NEW gap \in EventGaps(R, MaxGap),
                    run.start <= gap.start, gap.end <= run.end
             PROVE  FALSE
  BY DEF SilenceIsNotIdling
<1> DEFINE polls == {r.ts : r \in R}
           prev(t) == Max({u \in polls : u < t})
<1>1. \A r \in R : r.ts \in Nat /\ r.ts \in Int
  BY StampsAreNumbers DEF InScope
<1>2. polls \in SUBSET Int /\ IsFiniteSet(polls)
  <2> DEFINE g == [r \in R |-> r.ts]
  <2>1. g \in Surjection(R, polls)
    BY DEF Surjection
  <2>2. polls \in SUBSET Int
    BY <1>1
  <2> HIDE DEF g, polls
  <2> QED BY <2>1, <2>2, FS_Surjection DEF InScope
<1>3. PICK t \in polls : (\E v \in polls : v < t) /\ Seconds(prev(t), t) > MaxGap
                         /\ gap = [start |-> prev(t), end |-> t]
  BY DEF EventGaps
<1> HIDE DEF polls
<1>4. PICK a \in polls : a = prev(t) /\ a < t /\ \A u \in polls : u < t => u <= a
  <2> DEFINE B == {u \in polls : u < t}
  <2>1. B \in SUBSET polls /\ B # {}
    BY <1>3
  <2>2. B \in SUBSET Int /\ IsFiniteSet(B)
    BY <1>2, <2>1, FS_Subset
  <2> HIDE DEF B
  <2>3. Max(B) \in B /\ \A u \in B : u <= Max(B)
    BY <2>1, <2>2, EndsOfFinite
  <2> QED BY <2>3 DEF B
<1>5. PICK r \in Idling(R) : run.start = Min({x.ts : x \in RunOf(r, R)})
                             /\ run.end = Max({x.ts : x \in RunOf(r, R)})
  <2> DEFINE span(S) == [head |-> (CHOOSE r \in S : TRUE).head, cycles |-> Cardinality(S),
                         start |-> Min({r.ts : r \in S}), end |-> Max({r.ts : r \in S})]
             mine == {RunOf(r, R) : r \in Idling(R)}
  <2>1. IdlePeriods(R, IdleMin) = {s \in {span(S) : S \in mine} : Seconds(s.start, s.end) >= IdleMin}
    BY DEF IdlePeriods, RunOf, Idling
  <2>2. \A S : span(S).start = Min({x.ts : x \in S}) /\ span(S).end = Max({x.ts : x \in S})
    OBVIOUS
  <2> HIDE DEF span
  <2>3. PICK r \in Idling(R) : run = span(RunOf(r, R))
    BY <2>1
  <2> QED BY <2>2, <2>3
<1> DEFINE S == RunOf(r, R)
           T == {x.ts : x \in S}
<1>6. S \in SUBSET R /\ S # {} /\ Unbroken(S, R)
  <2>1. RunOf(r, R) \in SUBSET Idling(R) /\ r \in RunOf(r, R)
    BY IslandIsConvex DEF RunOf
  <2> QED BY <2>1, RunIsUnbroken DEF Idling
<1>7. run.start = Min(T) /\ run.end = Max(T)
  BY <1>5
<1> HIDE DEF S
<1>8. T \in SUBSET polls /\ T # {}
  BY <1>6 DEF polls
<1> HIDE DEF T
<1>9. T \in SUBSET Int /\ IsFiniteSet(T)
  BY <1>2, <1>8, FS_Subset
<1>10. Min(T) \in T /\ Max(T) \in T
  BY <1>8, <1>9, EndsOfFinite
<1>11. Min(T) <= a /\ t <= Max(T)
  BY <1>3, <1>4, <1>7
<1> DEFINE L == {u \in T : u <= a}
           U == {u \in T : t <= u}
<1>12. PICK lo \in L : \A u \in L : u <= lo
  <2>1. L \in SUBSET T /\ L # {}
    BY <1>10, <1>11
  <2>2. L \in SUBSET Int /\ IsFiniteSet(L)
    BY <1>9, <2>1, FS_Subset
  <2> HIDE DEF L
  <2> QED BY <2>1, <2>2, EndsOfFinite
<1>13. PICK hi \in U : \A u \in U : hi <= u
  <2>1. U \in SUBSET T /\ U # {}
    BY <1>10, <1>11
  <2>2. U \in SUBSET Int /\ IsFiniteSet(U)
    BY <1>9, <2>1, FS_Subset
  <2> HIDE DEF U
  <2> QED BY <2>1, <2>2, EndsOfFinite
<1>14. PICK q \in S, x \in S : q.ts = lo /\ x.ts = hi
  BY DEF T
<1>15. a \in Int /\ t \in Int /\ lo \in Int /\ hi \in Int /\ lo <= a /\ a < t /\ t <= hi
  BY <1>2, <1>4, <1>9
<1>16. Between(R, q, x) = {}
  <2> SUFFICES ASSUME NEW y \in Between(R, q, x) PROVE FALSE
    OBVIOUS
  <2>1. y \in S
    BY <1>6, <1>14, <1>15, UnbrokenMeans
  <2>2. y.ts \in T /\ y.ts \in polls /\ y.ts \in Int
    BY <1>8, <1>9, <2>1 DEF T
  <2>3. lo < y.ts /\ y.ts < hi
    BY <1>14 DEF Between
  <2>4. ~(y.ts <= a)
    BY <1>12, <1>15, <2>2, <2>3
  <2>5. ~(t <= y.ts)
    BY <1>13, <1>15, <2>2, <2>3
  <2> QED BY <1>4, <1>15, <2>2, <2>4, <2>5
<1>17. Seconds(lo, hi) <= MaxGap
  BY <1>6, <1>14, <1>15, <1>16, UnbrokenMeans
<1>18. Seconds(a, t) > MaxGap
  BY <1>3, <1>4
<1>19. Seconds(a, t) \in Int /\ Seconds(lo, hi) \in Int /\ Seconds(a, t) <= Seconds(lo, hi)
  BY <1>15 DEF Seconds
<1> QED BY <1>17, <1>18, <1>19, StampsAreNumbers

\* The stride is the number of hits by the limit, rounded up.
LEMMA StrideIs ==
  ASSUME NEW n \in Nat \ {0}
  PROVE  /\ Stride(n) \in Nat \ {0} /\ n <= MaxItems * Stride(n)
         /\ n <= MaxItems => Stride(n) = 1
<1>1. MaxItems \in Nat \ {0}
  BY ConfigAssumption
<1>2. PICK m \in Nat \ {0} : m = MaxItems
  BY <1>1
<1>3. PICK s \in Nat : s = (n + m - 1) \div m /\ m * s <= n + m - 1 /\ n + m - 1 < m * s + m
  BY <1>2
<1>4. n <= m * s
  <2>1. m * s \in Int
    OBVIOUS
  <2> QED BY <1>3, <2>1
<1>5. s # 0
  BY <1>4
<1>6. n <= m => s = 1
  <2>1. ASSUME n <= m, s >= 2 PROVE FALSE
    <3>1. m * s >= 2 * m /\ m * s \in Int
      BY <2>1
    <3> QED BY <1>3, <2>1, <3>1
  <2> QED BY <1>5, <2>1
<1> QED BY <1>2, <1>3, <1>4, <1>5, <1>6 DEF Stride

\* What is listed of the hits spans them.
LEMMA SamplesSpan ==
  ASSUME NEW H, InScope(H), H # {}
  PROVE  SampleSpans(H)
<1> DEFINE hits == InTimeOrder(H)
           kept == Sample(hits)
           at(r) == CHOOSE k \in DOMAIN hits : hits[k] = r
<1>1. PICK n \in Nat \ {0} : n = Cardinality(H)
  <2>1. Cardinality(H) \in Nat /\ Cardinality(H) # 0
    BY FS_CardinalityType, FS_EmptySet DEF InScope
  <2> QED BY <2>1
<1>2. hits \in [1 .. n -> H] /\ Len(hits) = n
      /\ \A i, j \in 1 .. n : hits[i] = hits[j] => i = j
  BY <1>1, TimeOrderIs
<1>3. \A k \in 1 .. n : at(hits[k]) = k
  BY <1>2
<1>4. PICK M \in Nat \ {0}, s \in Nat \ {0} :
        M = MaxItems /\ s = Stride(n) /\ n <= M * s /\ (n <= M => s = 1)
  BY StrideIs, ConfigAssumption
<1> HIDE DEF hits, at
\* It is the rows at every s-th place, m of them.
<1>5. PICK m \in Nat \ {0} :
        /\ m <= M /\ Len(kept) = m
        /\ \A i \in 1 .. m : (i - 1) * s + 1 \in 1 .. n /\ kept[i] = hits[(i - 1) * s + 1]
        /\ n - ((m - 1) * s + 1) < s
  <2>1. CASE n <= M
    <3>1. kept = hits /\ Len(kept) = n
      BY <1>2, <1>4, <2>1 DEF Sample
    <3>2. \A i \in 1 .. n : (i - 1) * s + 1 = i
      BY <1>4, <2>1
    <3>3. n - ((n - 1) * s + 1) < s
      BY <1>4, <2>1
    <3> QED BY <2>1, <3>1, <3>2, <3>3
  <2>2. CASE ~(n <= M)
    <3>1. PICK d \in Nat : d = (n - 1) \div s /\ s * d <= n - 1 /\ n - 1 < s * d + s
      <4>1. n - 1 \in Nat
        OBVIOUS
      <4> QED BY <4>1
    <3>2. PICK m \in Nat \ {0} : m = Min({d + 1, M}) /\ m = (IF d + 1 <= M THEN d + 1 ELSE M)
      <4>1. Min({d + 1, M}) = (IF d + 1 <= M THEN d + 1 ELSE M)
        <5>1. PICK e \in Int : e = d + 1
          OBVIOUS
        <5>2. PICK c \in Int : c = M
          OBVIOUS
        <5>3. Min({e, c}) = (IF e <= c THEN e ELSE c)
          BY MaxOfTwo
        <5> QED BY <5>1, <5>2, <5>3
      <4> QED BY <4>1
    <3>3. kept = [i \in 1 .. m |-> hits[(i - 1) * s + 1]]
      BY <1>2, <1>4, <2>2, <3>1, <3>2 DEF Sample
    <3>4. Len(kept) = m
      BY <3>3
    <3>5. ASSUME NEW i \in 1 .. m PROVE (i - 1) * s + 1 \in 1 .. n
      <4>1. i - 1 \in Nat /\ i - 1 <= d
        BY <3>2
      <4>2. (i - 1) * s <= s * d /\ (i - 1) * s \in Nat
        BY <4>1
      <4>3. s * d \in Nat
        OBVIOUS
      <4> QED BY <3>1, <4>2, <4>3
    <3>6. n - ((m - 1) * s + 1) < s
      <4>1. CASE m = d + 1
        <5>1. (m - 1) * s = s * d /\ s * d \in Nat
          BY <4>1
        <5> QED BY <3>1, <5>1
      <4>2. CASE m = M
        <5>1. (m - 1) * s = M * s - s /\ M * s \in Nat
          BY <4>2
        <5> QED BY <1>4, <5>1
      <4> QED BY <3>2, <4>1, <4>2
    <3>7. m <= M
      BY <3>2
    <3> QED BY <3>3, <3>4, <3>5, <3>6, <3>7
  <2> QED BY <2>1, <2>2
<1> HIDE DEF kept
<1>6. Len(kept) <= MaxItems
  BY <1>4, <1>5
<1>7. kept # <<>>
  BY <1>5
<1>8. kept[1] = hits[1]
  <2>1. 1 \in 1 .. m /\ (1 - 1) * s + 1 = 1
    OBVIOUS
  <2> QED BY <1>5, <2>1
<1>9. \A i \in 1 .. m : at(kept[i]) = (i - 1) * s + 1
  BY <1>3, <1>5
<1>10. \A i \in 1 .. Len(kept) - 1 : at(kept[i + 1]) = at(kept[i]) + Stride(Len(hits))
  <2> SUFFICES ASSUME NEW i \in 1 .. m - 1 PROVE at(kept[i + 1]) = at(kept[i]) + s
    BY <1>2, <1>4, <1>5
  <2>1. i \in 1 .. m /\ i + 1 \in 1 .. m
    OBVIOUS
  <2>2. ((i + 1) - 1) * s + 1 = ((i - 1) * s + 1) + s
    OBVIOUS
  <2> QED BY <1>9, <2>1, <2>2
<1>11. Len(hits) - at(Last(kept)) < Stride(Len(hits))
  <2>1. Last(kept) = kept[m] /\ m \in 1 .. m
    BY <1>5 DEF Last
  <2> QED BY <1>2, <1>4, <1>5, <1>9, <2>1
<1> QED BY <1>6, <1>7, <1>8, <1>10, <1>11 DEF SampleSpans, kept, hits, at

\* The months and the weeks of a period add up to the period.
LEMMA ComparedAddsUp ==
  ASSUME TypeInv, NEW p \in Periods, NEW by \in {"month", "week"}
  PROVE  Compared(p, by)
<1> DEFINE S == Scope(p)
           C == Caps(S)
           unit == Unit(by)
           B == Buckets(S, unit)
           key == [r \in C |-> unit[r.ts]]
           f == [b \in B |-> Tally({r \in C : key[r] = b})]
           g == ComparePeriods(p, by)
<1>1. IsFiniteSet(S) /\ C \in SUBSET S
  BY ScopesAreInScope DEF Scopes, InScope, Caps
<1>2. IsFiniteSet(C) /\ IsFiniteSet(B)
  BY <1>1, FS_Subset, GroupsFinite
<1>3. \A r \in C : key[r] \in B
  BY <1>1 DEF Buckets
<1>4. DOMAIN g = B /\ \A b \in B : g[b].capping = Tally(Caps(InBucket(S, unit, b)))
  BY DEF ComparePeriods
<1>5. \A b : Caps(InBucket(S, unit, b)) = {r \in C : key[r] = b}
  BY DEF Caps, InBucket
<1>6. DOMAIN f = B /\ \A b \in B : f[b] = g[b].capping
  BY <1>4, <1>5
<1>7. Overview(S).capping = Tally(C)
  BY DEF Overview
<1> HIDE DEF key, C, B, S, g, unit
<1>8. Sums(f, Plain, Tally(C))
  BY <1>2, <1>3, TalliesAddUp
<1> HIDE DEF f
<1> DEFINE t == Tally(C)
<1> HIDE DEF t
<1>9. /\ SumFunction([b \in B |-> f[b].total]) = t.total
      /\ SumFunction([b \in B |-> f[b].successful]) = t.successful
      /\ SumFunction([b \in B |-> f[b].failed]) = t.failed
  BY <1>6, <1>8 DEF Sums, Total, Plain, t
<1>10. /\ [b \in B |-> f[b].total] = [b \in DOMAIN g |-> g[b].capping.total]
       /\ [b \in B |-> f[b].successful] = [b \in DOMAIN g |-> g[b].capping.successful]
       /\ [b \in B |-> f[b].failed] = [b \in DOMAIN g |-> g[b].capping.failed]
  BY <1>4, <1>6
<1>11. Sums(g, LAMBDA b : b.capping, t)
  BY <1>9, <1>10 DEF Sums, Total
<1> QED BY <1>7, <1>11 DEF Compared, S, g, t

\* A month of a comparison is what the month alone is.
LEMMA MonthAlone ==
  ASSUME TypeInv, NEW p \in Periods, NEW m \in DOMAIN ComparePeriods(p, "month")
  PROVE  LET byMonth == ComparePeriods(p, "month")
             alone == Overview(Scope(Single(m)))
         IN  byMonth[m].capping = alone.capping /\ byMonth[m].no_load = alone.no_load
<1> DEFINE B == InBucket(Scope(p), Month, m)
           A == Scope(Single(m))
<1>1. m \in Buckets(Scope(p), Month)
  BY DEF ComparePeriods, Unit
<1>2. ComparePeriods(p, "month")[m].capping = Tally(Caps(B))
      /\ ComparePeriods(p, "month")[m].no_load = Cardinality({r \in B : IsNoLoad(r)})
  BY <1>1 DEF ComparePeriods, Unit
<1>3. Overview(A).capping = Tally(Caps(A))
      /\ Overview(A).no_load = Cardinality({r \in A : IsNoLoad(r)})
  BY DEF Overview
<1>4. Single(m)[1] = m /\ Single(m)[2] = m /\ Single(m) # WholeStore
  BY DEF Single, WholeStore
<1>5. Scope(p) \in SUBSET Rows
  BY ScopesAreInScope DEF InScope, Scopes
<1>6. PICK s \in Scope(p) : m = Month[s.ts]
  BY <1>1 DEF Buckets
<1>7. m \in DOMAIN MonthStart
  BY <1>5, <1>6, RowIsDated
<1>8. PICK y \in Int, n \in 1 .. 12 : m = <<y, n>>
  BY <1>7, CalendarAssumption
<1>9. ASSUME NEW r \in store, r.machine = Machine
      PROVE  ~Before(Month[r.ts], m) /\ Before(Month[r.ts], NextMonth(m)) <=> Month[r.ts] = m
  <2>1. r \in Rows
    BY <1>9 DEF TypeInv, InScope
  <2>2. Month[r.ts] \in DOMAIN MonthStart
    BY <2>1, RowIsDated
  <2>3. PICK z \in Int, k \in 1 .. 12 : Month[r.ts] = <<z, k>>
    BY <2>2, CalendarAssumption
  <2> QED BY <1>8, <2>3 DEF Before, NextMonth
<1>10. A = {r \in store : r.machine = Machine /\ Month[r.ts] = m}
  BY <1>4, <1>9 DEF Scope, InPeriod
<1>11. B = {r \in store : r.machine = Machine /\ Month[r.ts] = m}
  <2>1. \A r \in store : r.machine = Machine /\ Month[r.ts] = m => InPeriod(r.ts, p)
    BY <1>6 DEF Scope, InPeriod
  <2> QED BY <2>1 DEF InBucket, Scope
<1> HIDE DEF A, B
<1> QED BY <1>2, <1>3, <1>10, <1>11 DEF A

\* The tools agree, in any store and over any period.
LEMMA ToolsAlwaysAgree == TypeInv => ToolsAgree
<1> SUFFICES ASSUME TypeInv PROVE ToolsAgree
  OBVIOUS
<1>1. ASSUME NEW R \in Scopes
      PROVE  /\ CountsAgree(R) /\ SilenceIsNotIdling(R)
             /\ \A H \in {Rejected(R), {r \in Caps(R) : OutOfBand(r)}, Deviations(R)} \ {{}} : SampleSpans(H)
  <2>1. InScope(R)
    BY ScopesAreInScope
  <2>2. ASSUME NEW H \in {Rejected(R), {r \in Caps(R) : OutOfBand(r)}, Deviations(R)} \ {{}}
        PROVE  SampleSpans(H)
    <3>1. H \in SUBSET R /\ H # {}
      BY DEF Rejected, Caps, Deviations
    <3> QED BY <2>1, <3>1, PartInScope, SamplesSpan
  <2> QED BY <2>1, <2>2, AllCountsAgree, StopIsNotIdling
<1>2. ASSUME NEW p \in Periods
      PROVE  LET byMonth == ComparePeriods(p, "month")
             IN  /\ Compared(p, "month") /\ Compared(p, "week")
                 /\ \A m \in DOMAIN byMonth :
                      LET alone == Overview(Scope(Single(m)))
                      IN  byMonth[m].capping = alone.capping /\ byMonth[m].no_load = alone.no_load
  <2>1. Compared(p, "month") /\ Compared(p, "week")
    BY ComparedAddsUp
  <2> QED BY <2>1, MonthAlone
<1> QED BY <1>1, <1>2 DEF ToolsAgree

-----------------------------------------------------------------------------
(* trend: Kendall's S, its ties and its variance *)

\* The sum of what a function makes of the parts is the sum over all of them.
LEMMA SumOfParts ==
  ASSUME NEW S, IsFiniteSet(S), NEW part, \A s \in S : IsFiniteSet(part[s]),
         \A s, t \in S : s # t => part[s] \cap part[t] = {},
         NEW w, \A s \in S : \A x \in part[s] : w[x] \in Int,
         NEW f, DOMAIN f = S, \A s \in S : f[s] = SumFunctionOnSet(w, part[s])
  PROVE  SumFunction(f) = SumFunctionOnSet(w, UNION {part[s] : s \in S})
<1> DEFINE Of(V) == UNION {part[s] : s \in V}
           T == {V \in SUBSET S : SumFunctionOnSet(f, V) # SumFunctionOnSet(w, Of(V))}
<1>1. ASSUME T # {} PROVE FALSE
  <2>1. PICK U \in T : \A V \in SUBSET U : V # U => V \notin T
    <3>1. T \in SUBSET SUBSET S
      OBVIOUS
    <3> HIDE DEF T
    <3> QED BY <1>1, <3>1, SmallestMember
  <2>2. U \in SUBSET S /\ SumFunctionOnSet(f, U) # SumFunctionOnSet(w, Of(U)) /\ IsFiniteSet(U)
    BY FS_Subset
  <2>3. \A s \in S : f[s] \in Int
    BY SumRemove
  <2>4. SumFunctionOnSet(f, {}) = 0
        /\ \A x \in U : SumFunctionOnSet(f, U) = f[x] + SumFunctionOnSet(f, U \ {x})
    BY <2>2, <2>3, SumRemove
  <2>5. U # {}
    <3>1. Of({}) = {}
      OBVIOUS
    <3>2. SumFunctionOnSet(w, Of({})) = 0
      BY <3>1, SumUnfold, FS_EmptySet
    <3> HIDE DEF Of
    <3> QED BY <2>2, <2>4, <3>2
  <2>6. PICK x \in U : TRUE
    BY <2>5
  <2> DEFINE V == U \ {x}
  <2>7. SumFunctionOnSet(f, V) = SumFunctionOnSet(w, Of(V)) /\ V \in SUBSET S
    <3>1. V \in SUBSET U /\ V # U
      BY <2>6
    <3> QED BY <2>1, <2>2, <3>1
  <2>8. Of(U) = part[x] \cup Of(V) /\ part[x] \cap Of(V) = {}
    BY <2>2, <2>6
  <2>9. IsFiniteSet(Of(V))
    <3> DEFINE g == [s \in V |-> part[s]]
    <3>1. g \in Surjection(V, {part[s] : s \in V})
      BY DEF Surjection
    <3>2. IsFiniteSet(V)
      BY <2>7, FS_Subset
    <3>3. \A y \in {part[s] : s \in V} : IsFiniteSet(y)
      BY <2>7
    <3> HIDE DEF g, V
    <3>4. IsFiniteSet({part[s] : s \in V})
      BY <3>1, <3>2, FS_Surjection
    <3> QED BY <3>3, <3>4, FS_UNION
  <2>10. \A y \in part[x] \cup Of(V) : w[y] \in Int
    BY <2>2, <2>6, <2>7
  <2>11. IsFiniteSet(part[x]) /\ f[x] = SumFunctionOnSet(w, part[x])
    BY <2>2, <2>6
  <2> HIDE DEF Of, V
  <2>12. SumFunctionOnSet(w, Of(U)) = SumFunctionOnSet(w, part[x]) + SumFunctionOnSet(w, Of(V))
    BY <2>8, <2>9, <2>10, <2>11, SumParts
  <2> QED BY <2>2, <2>4, <2>6, <2>7, <2>11, <2>12 DEF V
<1>2. SumFunctionOnSet(f, S) = SumFunctionOnSet(w, Of(S))
  BY <1>1
<1> QED BY <1>2, SumDef

\* A sum is the same whatever its terms are called.
LEMMA SumRenamed ==
  ASSUME NEW A, IsFiniteSet(A), NEW B, NEW h \in Bijection(A, B),
         NEW w, \A x \in B : w[x] \in Int, NEW u, \A x \in A : u[x] = w[h[x]]
  PROVE  SumFunctionOnSet(u, A) = SumFunctionOnSet(w, B)
<1> DEFINE Of(V) == {h[x] : x \in V}
           T == {V \in SUBSET A : SumFunctionOnSet(u, V) # SumFunctionOnSet(w, Of(V))}
<1>1. /\ \A x \in A : h[x] \in B
      /\ \A x, y \in A : h[x] = h[y] => x = y
      /\ \A b \in B : \E x \in A : h[x] = b
  BY DEF Bijection, Injection, Surjection, IsInjective
<1>2. ASSUME T # {} PROVE FALSE
  <2>1. PICK U \in T : \A V \in SUBSET U : V # U => V \notin T
    <3>1. T \in SUBSET SUBSET A
      OBVIOUS
    <3> HIDE DEF T
    <3> QED BY <1>2, <3>1, SmallestMember
  <2>2. U \in SUBSET A /\ SumFunctionOnSet(u, U) # SumFunctionOnSet(w, Of(U)) /\ IsFiniteSet(U)
    BY FS_Subset
  <2>3. \A x \in A : u[x] \in Int
    BY <1>1
  <2>4. SumFunctionOnSet(u, {}) = 0
        /\ \A x \in U : SumFunctionOnSet(u, U) = u[x] + SumFunctionOnSet(u, U \ {x})
    BY <2>2, <2>3, SumRemove
  <2>5. U # {}
    <3>1. Of({}) = {}
      OBVIOUS
    <3>2. SumFunctionOnSet(w, Of({})) = 0
      BY <3>1, SumUnfold, FS_EmptySet
    <3> HIDE DEF Of
    <3> QED BY <2>2, <2>4, <3>2
  <2>6. PICK x \in U : TRUE
    BY <2>5
  <2>7. SumFunctionOnSet(u, U \ {x}) = SumFunctionOnSet(w, Of(U \ {x}))
    <3>1. U \ {x} \in SUBSET U /\ U \ {x} # U
      BY <2>6
    <3> QED BY <2>1, <2>2, <3>1
  <2>8. Of(U \ {x}) = Of(U) \ {h[x]} /\ h[x] \in Of(U) /\ Of(U) \in SUBSET B
    BY <1>1, <2>2, <2>6
  <2>9. IsFiniteSet(Of(U))
    <3> DEFINE g == [y \in U |-> h[y]]
    <3>1. g \in Surjection(U, Of(U))
      BY DEF Surjection
    <3> HIDE DEF g, Of
    <3> QED BY <2>2, <3>1, FS_Surjection
  <2> HIDE DEF Of
  <2>10. SumFunctionOnSet(w, Of(U)) = w[h[x]] + SumFunctionOnSet(w, Of(U) \ {h[x]})
    BY <2>8, <2>9, SumRemove
  <2> QED BY <2>2, <2>4, <2>6, <2>7, <2>8, <2>10
<1>3. SumFunctionOnSet(u, A) = SumFunctionOnSet(w, Of(A))
  BY <1>2
<1>4. Of(A) = B
  BY <1>1
<1> QED BY <1>3, <1>4

\* A sum of signs is no more than the signs that are not 0.
LEMMA SumOfSigns ==
  ASSUME NEW S, IsFiniteSet(S), NEW w, \A x \in S : w[x] \in {-1, 0, 1}
  PROVE  LET some == Cardinality({x \in S : w[x] # 0})
             sum == SumFunctionOnSet(w, S)
         IN  some \in Nat /\ sum \in Int /\ -some <= sum /\ sum <= some
<1> DEFINE Some(V) == {x \in V : w[x] # 0}
           Fits(V) == /\ -Cardinality(Some(V)) <= SumFunctionOnSet(w, V)
                      /\ SumFunctionOnSet(w, V) <= Cardinality(Some(V))
           T == {V \in SUBSET S : ~Fits(V)}
<1>1. \A V \in SUBSET S : IsFiniteSet(V) /\ IsFiniteSet(Some(V)) /\ Cardinality(Some(V)) \in Nat
  BY FS_Subset, FS_CardinalityType
<1>2. \A V \in SUBSET S :
        /\ SumFunctionOnSet(w, V) \in Int /\ SumFunctionOnSet(w, {}) = 0
        /\ \A x \in V : SumFunctionOnSet(w, V) = w[x] + SumFunctionOnSet(w, V \ {x})
  <2>1. \A x \in S : w[x] \in Int
    OBVIOUS
  <2> QED BY <1>1, <2>1, SumRemove
<1>3. ASSUME T # {} PROVE FALSE
  <2>1. PICK U \in T : \A V \in SUBSET U : V # U => V \notin T
    <3>1. T \in SUBSET SUBSET S
      OBVIOUS
    <3> HIDE DEF T
    <3> QED BY <1>3, <3>1, SmallestMember
  <2>2. U \in SUBSET S /\ ~Fits(U)
    OBVIOUS
  <2>3. U # {}
    <3>1. Some({}) = {}
      OBVIOUS
    <3>2. Cardinality(Some({})) = 0 /\ SumFunctionOnSet(w, {}) = 0
      BY <1>2, <3>1, FS_EmptySet
    <3>3. Fits({})
      BY <3>2
    <3> QED BY <2>2, <3>3
  <2>4. PICK x \in U : TRUE
    BY <2>3
  <2>5. Fits(U \ {x}) /\ U \ {x} \in SUBSET S
    <3>1. U \ {x} \in SUBSET U /\ U \ {x} # U
      BY <2>4
    <3> QED BY <2>1, <2>2, <3>1
  <2>6. Some(U \ {x}) = Some(U) \ {x} /\ (x \in Some(U) <=> w[x] # 0)
    BY <2>4
  <2> HIDE DEF Some
  <2>7. Cardinality(Some(U \ {x})) = IF w[x] # 0 THEN Cardinality(Some(U)) - 1 ELSE Cardinality(Some(U))
    BY <1>1, <2>2, <2>6, FS_RemoveElement
  <2>8. PICK a \in Nat, b \in Int, c \in {-1, 0, 1} :
          a = Cardinality(Some(U)) /\ b = SumFunctionOnSet(w, U \ {x}) /\ c = w[x]
    BY <1>1, <1>2, <2>2, <2>4, <2>5
  <2>9. SumFunctionOnSet(w, U) = c + b
    BY <1>2, <2>2, <2>4, <2>8
  <2> QED BY <2>2, <2>5, <2>7, <2>8, <2>9
<1>4. Fits(S)
  BY <1>3
<1> QED BY <1>1, <1>2, <1>4

\* A series: one mean or more, each of one value or more.
IsSeries(v, n) == n \in Nat \ {0} /\ v \in [1 .. n -> Int \X (Nat \ {0})]

\* A head's hourly torques are one.
LEMMA SeriesIs ==
  ASSUME NEW R, InScope(R), NEW h \in HeadsOf(Caps(R))
  PROVE  \E n : IsSeries(Series(R, Hour, h), n)
<1> DEFINE H == OfHead(Caps(R), h)
           V == {<<b, b>> : b \in Buckets(H, Hour)}
           n == Cardinality(V)
<1>1. H \in SUBSET R /\ H # {}
  <2>1. \A r \in H : r.head = h /\ r \in R
    BY DEF OfHead, Caps
  <2>2. H # {}
    BY DEF OfHead, HeadsOf
  <2> QED BY <2>1, <2>2
<1>2. IsFiniteSet(H) /\ \A r \in H : r.torque \in Int /\ Hour[r.ts] \in Int
  <2>1. IsFiniteSet(H)
    BY <1>1, FS_Subset DEF InScope
  <2>2. ASSUME NEW r \in H PROVE r.torque \in Int /\ Hour[r.ts] \in Int
    <3>1. r \in Rows /\ r.ts \in Stamps
      BY <1>1 DEF InScope, Rows
    <3> QED BY <3>1, StampsAreNumbers, CalendarAssumption
  <2> QED BY <2>1, <2>2
<1> HIDE DEF H
<1>3. Numbered(V) /\ V # {} /\ Firsts(V) = Buckets(H, Hour)
  <2> DEFINE g == [b \in Buckets(H, Hour) |-> <<b, b>>]
  <2>1. g \in Surjection(Buckets(H, Hour), V)
    BY DEF Surjection
  <2>2. IsFiniteSet(Buckets(H, Hour))
    BY <1>2, GroupsFinite
  <2>3. V # {} /\ \A x \in V : x[1] \in Int
    <3>1. PICK r \in H : TRUE
      BY <1>1
    <3>2. <<Hour[r.ts], Hour[r.ts]>> \in V
      BY DEF Buckets
    <3>3. \A b \in Buckets(H, Hour) : b \in Int
      BY <1>2 DEF Buckets
    <3>4. ASSUME NEW x \in V PROVE x[1] \in Int
      <4>1. PICK b \in Buckets(H, Hour) : x = <<b, b>>
        OBVIOUS
      <4> QED BY <3>3, <4>1
    <3> QED BY <3>2, <3>4
  <2>4. Firsts(V) = Buckets(H, Hour)
    <3>1. \A b \in Buckets(H, Hour) : <<b, b>>[1] = b
      OBVIOUS
    <3> QED BY <3>1 DEF Firsts
  <2> HIDE DEF g, V
  <2> QED BY <2>1, <2>2, <2>3, <2>4, FS_Surjection DEF Numbered
<1> DEFINE v == Series(R, Hour, h)
           order == Sorted(V)
<1>4. v = [k \in DOMAIN order |-> MeanOf(InBucket(H, Hour, order[k]))]
  BY DEF Series, H
<1> HIDE DEF V
<1>5. n \in Nat \ {0}
  BY <1>3, FS_CardinalityType, FS_EmptySet DEF Numbered
<1>6. order \in [1 .. n -> Buckets(H, Hour)]
  BY <1>3, SortedIs
<1> HIDE DEF order
<1>7. ASSUME NEW b \in Buckets(H, Hour) PROVE MeanOf(InBucket(H, Hour, b)) \in Int \X (Nat \ {0})
  <2> DEFINE B == InBucket(H, Hour, b)
             w == [r \in B |-> r.torque]
  <2>1. B \in SUBSET H /\ B # {}
    BY DEF InBucket, Buckets
  <2>2. IsFiniteSet(B) /\ \A r \in B : r.torque \in Int
    BY <1>2, <2>1, FS_Subset
  <2> HIDE DEF B
  <2>3. \A r \in B : w[r] \in Int
    BY <2>2
  <2>4. DOMAIN w = B
    OBVIOUS
  <2> HIDE DEF w
  <2>5. SumFunction(w) \in Int
    BY <2>2, <2>3, <2>4, SumDef, SumRemove
  <2>6. Cardinality(B) \in Nat \ {0}
    BY <2>1, <2>2, FS_CardinalityType, FS_EmptySet
  <2>7. MeanOf(B) = <<SumFunction(w), Cardinality(B)>>
    BY DEF MeanOf, w
  <2> QED BY <2>5, <2>6, <2>7 DEF B
<1> HIDE DEF n
<1>8. v \in [1 .. n -> Int \X (Nat \ {0})]
  BY <1>4, <1>6, <1>7
<1> QED BY <1>5, <1>8 DEF IsSeries

\* A sign, and the ties it makes: each value with itself, and so on.
IsSign(v, n) ==
  /\ \A i, j \in 1 .. n : Sign(v[i], v[j]) \in {-1, 0, 1}
  /\ \A i \in 1 .. n : Sign(v[i], v[i]) = 0
  /\ \A i, j \in 1 .. n : Sign(v[i], v[j]) = 0 => Sign(v[j], v[i]) = 0
  /\ \A i, j, k \in 1 .. n : Sign(v[i], v[j]) = 0 /\ Sign(v[j], v[k]) = 0 => Sign(v[i], v[k]) = 0

\* Equal quotients are equal when cross-multiplied.
LEMMA CrossTransitive ==
  ASSUME NEW a \in Int, NEW b \in Int, NEW c \in Int, NEW p \in Nat \ {0}, NEW q \in Nat \ {0},
         NEW r \in Nat \ {0}, b * p = a * q, c * q = b * r
  PROVE  c * p = a * r
<1>1. (c * q) * p = (b * r) * p /\ (b * p) * r = (a * q) * r
  OBVIOUS
<1>2. (c * q) * p = q * (c * p) /\ (b * r) * p = (b * p) * r /\ (a * q) * r = q * (a * r)
  OBVIOUS
<1>3. PICK x \in Int, y \in Int : x = c * p /\ y = a * r
  OBVIOUS
<1>4. q * x = q * y
  BY <1>1, <1>2, <1>3
<1>5. x = y
  <2>1. q * (x - y) = 0
    BY <1>4
  <2>2. x - y = 0
    BY <2>1
  <2> QED BY <2>2
<1> QED BY <1>3, <1>5

LEMMA SignIs ==
  ASSUME NEW v, NEW n, IsSeries(v, n)
  PROVE  IsSign(v, n)
<1>1. \A i \in 1 .. n : v[i][1] \in Int /\ v[i][2] \in Nat \ {0}
  BY DEF IsSeries
<1>2. \A i, j \in 1 .. n : v[j][1] * v[i][2] - v[i][1] * v[j][2] \in Int
  BY <1>1
<1>3. \A i, j \in 1 .. n : Sign(v[i], v[j]) = 0 <=> v[j][1] * v[i][2] = v[i][1] * v[j][2]
  <2> SUFFICES ASSUME NEW i \in 1 .. n, NEW j \in 1 .. n
               PROVE  Sign(v[i], v[j]) = 0 <=> v[j][1] * v[i][2] = v[i][1] * v[j][2]
    OBVIOUS
  <2>1. PICK x \in Int, y \in Int : x = v[j][1] * v[i][2] /\ y = v[i][1] * v[j][2]
    BY <1>1
  <2>2. Sign(v[i], v[j]) = IF x - y > 0 THEN 1 ELSE IF x - y < 0 THEN -1 ELSE 0
    BY <2>1 DEF Sign
  <2> QED BY <2>1, <2>2
<1>4. \A i, j \in 1 .. n : Sign(v[i], v[j]) \in {-1, 0, 1}
  BY <1>2 DEF Sign
<1>5. ASSUME NEW i \in 1 .. n, NEW j \in 1 .. n, NEW k \in 1 .. n,
             Sign(v[i], v[j]) = 0, Sign(v[j], v[k]) = 0
      PROVE  Sign(v[i], v[k]) = 0
  <2>1. PICK a \in Int, b \in Int, c \in Int : a = v[i][1] /\ b = v[j][1] /\ c = v[k][1]
    BY <1>1
  <2>2. PICK p \in Nat \ {0}, q \in Nat \ {0}, r \in Nat \ {0} :
          p = v[i][2] /\ q = v[j][2] /\ r = v[k][2]
    BY <1>1
  <2>3. b * p = a * q /\ c * q = b * r
    BY <1>3, <1>5, <2>1, <2>2
  <2>4. c * p = a * r
    BY <2>3, CrossTransitive
  <2> QED BY <1>3, <2>1, <2>2, <2>4
<1>6. \A i \in 1 .. n : Sign(v[i], v[i]) = 0
  BY <1>1, <1>3
<1>7. \A i, j \in 1 .. n : Sign(v[i], v[j]) = 0 => Sign(v[j], v[i]) = 0
  BY <1>3
<1> QED BY <1>4, <1>5, <1>6, <1>7 DEF IsSign

\* A row is in one block: the one that starts at the multiple below it.
LEMMA BlockOfRow ==
  ASSUME NEW C \in Nat \ {0}
  PROVE  /\ \A i \in Nat : LET k == i \div C IN k \in Nat /\ k <= i /\ k * C <= i /\ i < k * C + C
         /\ \A k, l \in Nat, i \in Nat :
              k * C <= i /\ i < k * C + C /\ l * C <= i /\ i < l * C + C => k = l
<1>1. ASSUME NEW i \in Nat
      PROVE  LET k == i \div C IN k \in Nat /\ k <= i /\ k * C <= i /\ i < k * C + C
  <2>1. PICK k \in Nat : k = i \div C
    OBVIOUS
  <2>2. k * C <= i /\ i < k * C + C
    BY <2>1
  <2>3. k <= k * C
    OBVIOUS
  <2> QED BY <2>1, <2>2, <2>3
<1>2. ASSUME NEW k \in Nat, NEW l \in Nat, k < l PROVE k * C + C <= l * C
  <2>1. (k + 1) * C <= l * C
    BY <1>2
  <2> QED BY <2>1
<1>3. ASSUME NEW k \in Nat, NEW l \in Nat, NEW i \in Nat,
             k * C <= i, i < k * C + C, l * C <= i, i < l * C + C, k # l
      PROVE  FALSE
  <2>1. PICK a \in Nat, b \in Nat : a = k * C /\ b = l * C
    OBVIOUS
  <2>2. a + C <= b \/ b + C <= a
    BY <1>2, <1>3, <2>1
  <2> QED BY <1>3, <2>1, <2>2
<1> QED BY <1>1, <1>3

\* The pairs of rows, counted from 0 and from 1.
PairsFrom0(n) == {z \in (0 .. n - 1) \X (0 .. n - 1) : z[2] > z[1]}
PairsFrom1(n) == {z \in (1 .. n) \X (1 .. n) : z[1] < z[2]}

\* The blocks the pairs are summed in, and one block's pairs.
StartsOf(n) == {k * Chunk : k \in 0 .. n} \cap (0 .. n - 2)
AboveOf(n)  == [s \in StartsOf(n) |-> {ij \in Block(s, n) \X (0 .. n - 1) : ij[2] > ij[1]}]

\* Every pair is in one block, and no block has any other.
LEMMA BlocksPartition ==
  ASSUME NEW n \in Nat \ {0}
  PROVE  /\ UNION {AboveOf(n)[s] : s \in StartsOf(n)} = PairsFrom0(n)
         /\ \A s, t \in StartsOf(n) : s # t => AboveOf(n)[s] \cap AboveOf(n)[t] = {}
<1>1. Chunk \in Nat \ {0}
  BY ConfigAssumption
<1>2. ASSUME NEW s \in StartsOf(n), NEW z
      PROVE  z \in AboveOf(n)[s] <=> z \in PairsFrom0(n) /\ s <= z[1] /\ z[1] < s + Chunk
  <2>1. PICK t \in Nat : t = s /\ t <= n - 2
    BY DEF StartsOf
  <2>2. Min({t + Chunk, n - 1}) = IF t + Chunk <= n - 1 THEN t + Chunk ELSE n - 1
    BY <1>1, MaxOfTwo
  <2>3. PICK m \in Int : m = Min({t + Chunk, n - 1}) /\ (m = t + Chunk \/ m = n - 1) /\ m <= t + Chunk /\ m <= n - 1
    BY <1>1, <2>2
  <2>4. AboveOf(n)[s] = {ij \in (t .. m - 1) \X (0 .. n - 1) : ij[2] > ij[1]}
    BY <2>1, <2>3 DEF AboveOf, Block
  <2>5. ASSUME z \in AboveOf(n)[s]
        PROVE  z \in PairsFrom0(n) /\ s <= z[1] /\ z[1] < s + Chunk
    <3>1. PICK i \in t .. m - 1, j \in 0 .. n - 1 : z = <<i, j>> /\ j > i
      BY <2>4, <2>5
    <3>2. i \in 0 .. n - 1 /\ t <= i /\ i < t + Chunk
      BY <1>1, <2>3, <3>1
    <3> QED BY <2>1, <3>1, <3>2 DEF PairsFrom0
  <2>6. ASSUME z \in PairsFrom0(n), s <= z[1], z[1] < s + Chunk
        PROVE  z \in AboveOf(n)[s]
    <3>1. PICK i \in 0 .. n - 1, j \in 0 .. n - 1 : z = <<i, j>> /\ j > i
      BY <2>6 DEF PairsFrom0
    <3>2. i \in t .. m - 1
      BY <1>1, <2>1, <2>2, <2>3, <2>6, <3>1
    <3> QED BY <2>4, <3>1, <3>2
  <2> QED BY <2>5, <2>6
<1>3. ASSUME NEW z \in PairsFrom0(n)
      PROVE  \E s \in StartsOf(n) : s <= z[1] /\ z[1] < s + Chunk
  <2>1. PICK i \in Nat, j \in Nat : z = <<i, j>> /\ i < j /\ j <= n - 1
    BY DEF PairsFrom0
  <2>2. PICK k \in Nat : k <= i /\ k * Chunk <= i /\ i < k * Chunk + Chunk
    BY <1>1, BlockOfRow
  <2>3. PICK s \in Nat : s = k * Chunk
    BY <1>1
  <2>4. k \in 0 .. n /\ s \in 0 .. n - 2
    BY <2>1, <2>2, <2>3
  <2>5. s \in StartsOf(n)
    BY <2>3, <2>4 DEF StartsOf
  <2> QED BY <2>1, <2>2, <2>3, <2>5
<1>4. ASSUME NEW s \in StartsOf(n), NEW t \in StartsOf(n), NEW z \in PairsFrom0(n),
             s <= z[1], z[1] < s + Chunk, t <= z[1], z[1] < t + Chunk
      PROVE  s = t
  <2>1. PICK i \in Nat : i = z[1]
    BY DEF PairsFrom0
  <2>2. PICK k \in Nat, l \in Nat : s = k * Chunk /\ t = l * Chunk
    BY DEF StartsOf
  <2> QED BY <1>1, <1>4, <2>1, <2>2, BlockOfRow
<1> QED BY <1>2, <1>3, <1>4

\* The pairs from 0 are the pairs from 1.
LEMMA PairsShifted ==
  ASSUME NEW n \in Nat \ {0}
  PROVE  [z \in PairsFrom0(n) |-> <<z[1] + 1, z[2] + 1>>] \in Bijection(PairsFrom0(n), PairsFrom1(n))
<1> DEFINE h == [z \in PairsFrom0(n) |-> <<z[1] + 1, z[2] + 1>>]
<1>1. \A z \in PairsFrom0(n) : z[1] \in Int /\ z[2] \in Int /\ z = <<z[1], z[2]>>
  BY DEF PairsFrom0
<1>2. \A z \in PairsFrom0(n) : h[z] \in PairsFrom1(n)
  BY DEF PairsFrom0, PairsFrom1
<1>3. ASSUME NEW y \in PairsFrom0(n), NEW z \in PairsFrom0(n), h[y] = h[z] PROVE y = z
  <2>1. y[1] + 1 = z[1] + 1 /\ y[2] + 1 = z[2] + 1
    BY <1>3
  <2>2. y[1] = z[1] /\ y[2] = z[2]
    BY <1>1, <2>1
  <2> QED BY <1>1, <2>2
<1>4. ASSUME NEW z \in PairsFrom1(n) PROVE \E y \in PairsFrom0(n) : h[y] = z
  <2>1. PICK i \in 1 .. n, j \in 1 .. n : z = <<i, j>> /\ i < j
    BY DEF PairsFrom1
  <2>2. <<i - 1, j - 1>> \in PairsFrom0(n)
    BY <2>1 DEF PairsFrom0
  <2>3. h[<<i - 1, j - 1>>] = <<(i - 1) + 1, (j - 1) + 1>>
    BY <2>2
  <2>4. (i - 1) + 1 = i /\ (j - 1) + 1 = j
    OBVIOUS
  <2> QED BY <2>1, <2>2, <2>3, <2>4
<1>5. DOMAIN h = PairsFrom0(n)
  OBVIOUS
<1> HIDE DEF h
<1>6. h \in [PairsFrom0(n) -> PairsFrom1(n)]
  <2>1. h = [z \in PairsFrom0(n) |-> h[z]]
    BY DEF h
  <2> QED BY <1>2, <2>1
<1>7. h \in Bijection(PairsFrom0(n), PairsFrom1(n))
  BY <1>3, <1>4, <1>6 DEF Bijection, Injection, Surjection, IsInjective
<1> QED BY <1>7 DEF h

\* There are finitely many pairs.
LEMMA PairsFinite ==
  ASSUME NEW n \in Nat \ {0}
  PROVE  IsFiniteSet(PairsFrom0(n)) /\ IsFiniteSet(PairsFrom1(n))
<1>1. IsFiniteSet(0 .. n - 1) /\ IsFiniteSet(1 .. n)
  BY FS_Interval
<1>2. IsFiniteSet((0 .. n - 1) \X (0 .. n - 1)) /\ IsFiniteSet((1 .. n) \X (1 .. n))
  BY <1>1, FS_Product
<1>3. /\ PairsFrom0(n) \in SUBSET ((0 .. n - 1) \X (0 .. n - 1))
      /\ PairsFrom1(n) \in SUBSET ((1 .. n) \X (1 .. n))
  BY DEF PairsFrom0, PairsFrom1
<1> QED BY <1>2, <1>3, FS_Subset

\* Kendall's S, by its blocks, is the sum of the signs over all pairs.
LEMMA KendallIs ==
  ASSUME NEW v, NEW n, IsSeries(v, n)
  PROVE  KendallS(v) = SumFunction([ij \in PairsFrom1(n) |-> Sign(v[ij[1]], v[ij[2]])])
<1> DEFINE w == [z \in PairsFrom0(n) |-> Sign(v[z[1] + 1], v[z[2] + 1])]
           u == [z \in PairsFrom1(n) |-> Sign(v[z[1]], v[z[2]])]
           above(s) == {ij \in Block(s, n) \X (0 .. n - 1) : ij[2] > ij[1]}
           g(s) == [ij \in above(s) |-> Sign(v[ij[1] + 1], v[ij[2] + 1])]
           f == [s \in StartsOf(n) |-> SumFunction(g(s))]
           h == [z \in PairsFrom0(n) |-> <<z[1] + 1, z[2] + 1>>]
<1>1. n \in Nat \ {0} /\ Len(v) = n
  BY DEF IsSeries
<1>2. KendallS(v) = SumFunction(f)
  BY <1>1 DEF KendallS, StartsOf
<1>3. IsFiniteSet(PairsFrom0(n)) /\ IsFiniteSet(PairsFrom1(n))
  BY <1>1, PairsFinite
<1>4. /\ \A s \in StartsOf(n) : AboveOf(n)[s] = above(s)
      /\ UNION {AboveOf(n)[s] : s \in StartsOf(n)} = PairsFrom0(n)
      /\ \A s, t \in StartsOf(n) : s # t => AboveOf(n)[s] \cap AboveOf(n)[t] = {}
  BY <1>1, BlocksPartition DEF AboveOf
<1>5. \A s \in StartsOf(n) : AboveOf(n)[s] \in SUBSET PairsFrom0(n) /\ IsFiniteSet(AboveOf(n)[s])
  <2>1. \A s \in StartsOf(n) : AboveOf(n)[s] \in SUBSET PairsFrom0(n)
    BY <1>4
  <2> QED BY <1>3, <2>1, FS_Subset
<1>6. ASSUME NEW s \in StartsOf(n) PROVE f[s] = SumFunctionOnSet(w, AboveOf(n)[s])
  <2>1. DOMAIN g(s) = AboveOf(n)[s] /\ \A x \in AboveOf(n)[s] : g(s)[x] = w[x]
    BY <1>4, <1>5
  <2>2. f[s] = SumFunction(g(s))
    OBVIOUS
  <2> HIDE DEF g, w, f
  <2>3. SumFunction(g(s)) = SumFunctionOnSet(g(s), AboveOf(n)[s])
    BY <2>1, SumDef
  <2> QED BY <1>5, <2>1, <2>2, <2>3, SumSame
<1>7. \A z \in PairsFrom1(n) : u[z] \in Int
  BY <1>1, SignIs DEF IsSign, PairsFrom1
<1>8. h \in Bijection(PairsFrom0(n), PairsFrom1(n))
  BY <1>1, PairsShifted
<1>9. ASSUME NEW z \in PairsFrom0(n) PROVE w[z] = u[h[z]] /\ w[z] \in Int
  <2>1. h[z] \in PairsFrom1(n) /\ h[z] = <<z[1] + 1, z[2] + 1>>
    BY <1>8 DEF Bijection, Injection
  <2> QED BY <1>7, <2>1
<1>10. DOMAIN f = StartsOf(n) /\ DOMAIN u = PairsFrom1(n)
  OBVIOUS
<1>11. IsFiniteSet(StartsOf(n))
  <2>1. IsFiniteSet(0 .. n - 2)
    BY <1>1, FS_Interval
  <2>2. StartsOf(n) \in SUBSET (0 .. n - 2)
    BY DEF StartsOf
  <2> QED BY <2>1, <2>2, FS_Subset
<1> HIDE DEF f, w, u, h
<1>12. SumFunction(f) = SumFunctionOnSet(w, PairsFrom0(n))
  <2> DEFINE part == AboveOf(n)
  <2>1. /\ \A s \in StartsOf(n) : IsFiniteSet(part[s]) /\ f[s] = SumFunctionOnSet(w, part[s])
        /\ \A s \in StartsOf(n) : \A x \in part[s] : w[x] \in Int
        /\ \A s, t \in StartsOf(n) : s # t => part[s] \cap part[t] = {}
        /\ UNION {part[s] : s \in StartsOf(n)} = PairsFrom0(n)
    BY <1>4, <1>5, <1>6, <1>9
  <2> HIDE DEF part
  <2> QED BY <1>10, <1>11, <2>1, SumOfParts
<1>13. SumFunctionOnSet(w, PairsFrom0(n)) = SumFunctionOnSet(u, PairsFrom1(n))
  BY <1>3, <1>7, <1>8, <1>9, SumRenamed
<1>14. SumFunction(u) = SumFunctionOnSet(u, PairsFrom1(n))
  BY <1>10, SumDef
<1> QED BY <1>2, <1>12, <1>13, <1>14 DEF u

\* The pairs of one set of numbers are as many as Pairs says.
PairsIn(A) == {z \in A \X A : z[1] < z[2]}

LEMMA PairsOfOneMore ==
  ASSUME NEW k \in Nat
  PROVE  Pairs(k) \in Nat /\ Pairs(k + 1) = Pairs(k) + k
<1>1. PICK x \in Nat : x = k * (k - 1)
  <2>1. CASE k = 0
    BY <2>1
  <2>2. CASE k # 0
    <3>1. k - 1 \in Nat
      BY <2>2
    <3> QED BY <3>1
  <2> QED BY <2>1, <2>2
<1>2. (k + 1) * (k + 1 - 1) = x + 2 * k
  BY <1>1
<1>3. (x + 2 * k) \div 2 = x \div 2 + k /\ x \div 2 \in Nat
  OBVIOUS
<1> QED BY <1>1, <1>2, <1>3 DEF Pairs

LEMMA PairsCount ==
  ASSUME NEW A \in SUBSET Int, IsFiniteSet(A)
  PROVE  Cardinality(PairsIn(A)) = Pairs(Cardinality(A))
<1> DEFINE T == {U \in SUBSET A : Cardinality(PairsIn(U)) # Pairs(Cardinality(U))}
<1>1. SUFFICES ASSUME T # {} PROVE FALSE
  OBVIOUS
<1>2. PICK U \in T : \A V \in SUBSET U : V # U => V \notin T
  <2>1. T \in SUBSET SUBSET A
    OBVIOUS
  <2> HIDE DEF T
  <2> QED BY <1>1, <2>1, SmallestMember
<1>3. U \in SUBSET A /\ Cardinality(PairsIn(U)) # Pairs(Cardinality(U))
  OBVIOUS
<1>4. IsFiniteSet(U) /\ U \in SUBSET Int
  BY <1>3, FS_Subset
<1>5. U # {}
  <2>1. PairsIn({}) = {}
    BY DEF PairsIn
  <2>2. Cardinality(PairsIn({})) = 0 /\ Cardinality({}) = 0
    BY <2>1, FS_EmptySet
  <2>3. Pairs(0) = 0
    BY DEF Pairs
  <2> QED BY <1>3, <2>2, <2>3
<1>6. PICK m \in U : \A k \in U : k <= m
  BY <1>4, <1>5, EndsOfFinite
<1> DEFINE V == U \ {m}
           last == {<<i, m>> : i \in V}
<1>7. V \in SUBSET U /\ V # U /\ V \in SUBSET A
  BY <1>3, <1>6
<1>8. Cardinality(PairsIn(V)) = Pairs(Cardinality(V))
  BY <1>2, <1>7
<1>9. IsFiniteSet(V) /\ Cardinality(V) \in Nat /\ Cardinality(U) = Cardinality(V) + 1
  <2>1. IsFiniteSet(V) /\ Cardinality(V) = Cardinality(U) - 1
    BY <1>4, <1>6, FS_RemoveElement
  <2>2. Cardinality(U) \in Nat /\ Cardinality(V) \in Nat
    BY <1>4, <2>1, FS_CardinalityType
  <2> QED BY <2>1, <2>2
<1>10. PairsIn(U) = PairsIn(V) \cup last /\ PairsIn(V) \cap last = {}
  <2>1. \A i, j \in U : <<i, j>> \in PairsIn(U) <=> i < j
    BY DEF PairsIn
  <2>2. \A i, j \in V : <<i, j>> \in PairsIn(V) <=> i < j
    BY DEF PairsIn
  <2>3. \A i \in U : i < m <=> i \in V
    <3>1. \A i \in U : i \in Int /\ i <= m
      BY <1>4, <1>6
    <3> QED BY <3>1
  <2>4. ASSUME NEW z \in PairsIn(U) PROVE z \in PairsIn(V) \cup last
    <3>1. z = <<z[1], z[2]>> /\ z[1] \in U /\ z[2] \in U /\ z[1] < z[2]
      BY DEF PairsIn
    <3>2. z[1] \in V
      BY <1>4, <1>6, <3>1
    <3>3. CASE z[2] = m
      BY <3>1, <3>2, <3>3
    <3>4. CASE z[2] \in V
      BY <2>2, <3>1, <3>2, <3>4
    <3> QED BY <3>1, <3>3, <3>4
  <2>5. ASSUME NEW z \in PairsIn(V) PROVE z \in PairsIn(U) /\ z \notin last
    BY <1>7 DEF PairsIn
  <2>6. ASSUME NEW z \in last PROVE z \in PairsIn(U)
    BY <1>6, <1>7, <2>1, <2>3
  <2> QED BY <2>4, <2>5, <2>6
<1>11. IsFiniteSet(last) /\ Cardinality(last) = Cardinality(V)
  <2> DEFINE h == [i \in V |-> <<i, m>>]
  <2>1. h \in Bijection(V, last)
    BY DEF Bijection, Injection, Surjection, IsInjective
  <2>2. ExistsBijection(V, last)
    BY <2>1 DEF ExistsBijection
  <2> HIDE DEF h, V, last
  <2> QED BY <1>9, <2>2, FS_Bijection
<1>12. IsFiniteSet(PairsIn(V))
  <2>1. IsFiniteSet(V \X V)
    BY <1>9, FS_Product
  <2>2. PairsIn(V) \in SUBSET (V \X V)
    BY DEF PairsIn
  <2> QED BY <2>1, <2>2, FS_Subset
<1> HIDE DEF V, last
<1>13. Cardinality(PairsIn(U)) = Cardinality(PairsIn(V)) + Cardinality(V)
  <2>1. Cardinality(PairsIn(V) \cap last) = 0
    BY <1>10, FS_EmptySet
  <2>2. Cardinality(PairsIn(U)) = Cardinality(PairsIn(V)) + Cardinality(last) - 0
    BY <1>10, <1>11, <1>12, <2>1, FS_Union
  <2>3. Cardinality(PairsIn(V)) \in Nat
    BY <1>12, FS_CardinalityType
  <2> QED BY <1>9, <1>11, <2>2, <2>3
<1> QED BY <1>3, <1>8, <1>9, <1>13, PairsOfOneMore

\* The groups of ties share out the values.
IsGrouping(v, n) ==
  /\ IsFiniteSet(TieGroups(v)) /\ UNION TieGroups(v) = 1 .. n
  /\ \A g \in TieGroups(v) : g # {} /\ IsFiniteSet(g)
  /\ \A g, h \in TieGroups(v) : g # h => g \cap h = {}
  /\ \A g \in TieGroups(v) : \A i \in g : \A j \in 1 .. n : j \in g <=> Sign(v[i], v[j]) = 0

LEMMA GroupsOfTies ==
  ASSUME NEW v, NEW n, IsSeries(v, n)
  PROVE  IsGrouping(v, n)
<1> DEFINE Tied(i) == {j \in 1 .. n : Sign(v[i], v[j]) = 0}
<1>1. IsSign(v, n) /\ DOMAIN v = 1 .. n /\ n \in Nat
  BY SignIs DEF IsSeries
<1>2. TieGroups(v) = {Tied(i) : i \in 1 .. n}
  BY <1>1 DEF TieGroups
<1>3. IsFiniteSet(1 .. n)
  BY <1>1, FS_Interval
<1>4. IsFiniteSet(TieGroups(v))
  <2> DEFINE g == [i \in 1 .. n |-> Tied(i)]
  <2>1. g \in Surjection(1 .. n, TieGroups(v))
    BY <1>2 DEF Surjection
  <2> HIDE DEF g
  <2> QED BY <1>3, <2>1, FS_Surjection
<1>5. \A i \in 1 .. n : i \in Tied(i) /\ Tied(i) \in SUBSET (1 .. n)
  BY <1>1 DEF IsSign
<1>6. \A i \in 1 .. n : \A k \in Tied(i) : \A j \in 1 .. n : j \in Tied(i) <=> Sign(v[k], v[j]) = 0
  BY <1>1 DEF IsSign
<1>7. \A i, j \in 1 .. n : Tied(i) # Tied(j) => Tied(i) \cap Tied(j) = {}
  <2> SUFFICES ASSUME NEW i \in 1 .. n, NEW j \in 1 .. n, NEW k \in Tied(i) \cap Tied(j)
               PROVE  Tied(i) = Tied(j)
    OBVIOUS
  <2>1. \A m \in 1 .. n : m \in Tied(i) <=> m \in Tied(j)
    BY <1>6
  <2> QED BY <1>5, <2>1
<1> HIDE DEF Tied
<1>8. \A g \in TieGroups(v) : g # {} /\ IsFiniteSet(g)
  BY <1>2, <1>3, <1>5, FS_Subset
<1>9. UNION TieGroups(v) = 1 .. n
  BY <1>2, <1>5
<1>10. \A g, h \in TieGroups(v) : g # h => g \cap h = {}
  BY <1>2, <1>7
<1>11. \A g \in TieGroups(v) : \A i \in g : \A j \in 1 .. n : j \in g <=> Sign(v[i], v[j]) = 0
  BY <1>2, <1>6
<1> QED BY <1>4, <1>8, <1>9, <1>10, <1>11 DEF IsGrouping

\* The pairs within the groups are the tied pairs.
LEMMA TiedPairsAre ==
  ASSUME NEW v, NEW n, IsSeries(v, n)
  PROVE  TiedPairs(v) = Cardinality({z \in PairsFrom1(n) : Sign(v[z[1]], v[z[2]]) = 0})
<1> DEFINE C == {z \in PairsFrom1(n) : Sign(v[z[1]], v[z[2]]) = 0}
           B == TieGroups(v)
           key == [z \in C |-> CHOOSE g \in B : z[1] \in g]
           f == [g \in B |-> Pairs(Cardinality(g))]
<1>1. IsSign(v, n) /\ IsGrouping(v, n) /\ n \in Nat \ {0}
  BY SignIs, GroupsOfTies DEF IsSeries
<1>2. \A z \in C : /\ z = <<z[1], z[2]>> /\ z[1] \in 1 .. n /\ z[2] \in 1 .. n /\ z[1] < z[2]
                   /\ Sign(v[z[1]], v[z[2]]) = 0
  BY DEF PairsFrom1
<1>3. \A z \in C : key[z] \in B /\ z[1] \in key[z]
  <2> SUFFICES ASSUME NEW z \in C PROVE \E g \in B : z[1] \in g
    OBVIOUS
  <2>1. z[1] \in UNION B
    BY <1>1, <1>2 DEF IsGrouping
  <2> QED BY <2>1
<1>4. ASSUME NEW g \in B PROVE {z \in C : key[z] = g} = PairsIn(g)
  <2>1. ASSUME NEW z \in C, key[z] = g PROVE z \in PairsIn(g)
    <3>1. z[1] \in g /\ z[2] \in g
      BY <1>1, <1>2, <1>3, <2>1 DEF IsGrouping
    <3> QED BY <1>2, <3>1 DEF PairsIn
  <2>2. ASSUME NEW z \in PairsIn(g) PROVE z \in C /\ key[z] = g
    <3>1. PICK i \in g, j \in g : z = <<i, j>> /\ i < j
      BY DEF PairsIn
    <3>2. i \in 1 .. n /\ j \in 1 .. n /\ Sign(v[i], v[j]) = 0
      BY <1>1 DEF IsGrouping
    <3>3. z \in C
      BY <3>1, <3>2 DEF PairsFrom1
    <3>4. key[z] \cap g # {}
      BY <1>3, <3>1, <3>3
    <3> QED BY <1>1, <1>3, <3>3, <3>4 DEF IsGrouping
  <2> QED BY <2>1, <2>2
<1>5. \A g \in B : IsFiniteSet(g) /\ g \in SUBSET Int
  <2>1. \A g \in B : IsFiniteSet(g) /\ g \in SUBSET (1 .. n)
    BY <1>1 DEF IsGrouping
  <2> QED BY <2>1
<1>6. IsFiniteSet(C) /\ IsFiniteSet(B)
  <2>1. C \in SUBSET PairsFrom1(n)
    OBVIOUS
  <2> QED BY <1>1, <2>1, PairsFinite, FS_Subset DEF IsGrouping
<1>7. DOMAIN f = B /\ \A g \in B : f[g] = Pairs(Cardinality(g))
  OBVIOUS
<1>8. TiedPairs(v) = SumFunction(f)
  BY DEF TiedPairs
<1> HIDE DEF f, C, B, key
<1>9. \A g \in B : f[g] = Cardinality({z \in C : key[z] = g})
  BY <1>4, <1>5, <1>7, PairsCount
<1>10. SumFunction(f) = Cardinality(C)
  BY <1>3, <1>6, <1>7, <1>9, CountsAddUp
<1> QED BY <1>8, <1>10 DEF C

\* Kendall's S is no more than the pairs that are not tied.
LEMMA KendallIsBounded ==
  ASSUME NEW v, NEW n, IsSeries(v, n)
  PROVE  KendallS(v) * KendallS(v) <= Pairs(n) * (Pairs(n) - TiedPairs(v))
<1> DEFINE O == PairsFrom1(n)
           u == [ij \in O |-> Sign(v[ij[1]], v[ij[2]])]
           tied == {z \in O : Sign(v[z[1]], v[z[2]]) = 0}
           some == {z \in O : u[z] # 0}
<1>1. n \in Nat \ {0} /\ IsSign(v, n)
  BY SignIs DEF IsSeries
<1>2. IsFiniteSet(O) /\ \A z \in O : u[z] \in {-1, 0, 1}
  <2>1. \A z \in O : z[1] \in 1 .. n /\ z[2] \in 1 .. n
    BY DEF PairsFrom1
  <2> QED BY <1>1, <2>1, PairsFinite DEF IsSign
<1>3. Cardinality(O) = Pairs(n)
  <2>1. IsFiniteSet(1 .. n) /\ Cardinality(1 .. n) = n /\ 1 .. n \in SUBSET Int
    BY <1>1, FS_Interval
  <2>2. O = PairsIn(1 .. n)
    BY DEF PairsFrom1, PairsIn
  <2> QED BY <2>1, <2>2, PairsCount
<1>4. O = tied \cup some /\ tied \cap some = {}
  OBVIOUS
<1>5. DOMAIN u = O
  OBVIOUS
<1>6. KendallS(v) = SumFunction(u) /\ TiedPairs(v) = Cardinality(tied)
  BY KendallIs, TiedPairsAre
<1>7. IsFiniteSet(tied) /\ IsFiniteSet(some) /\ Cardinality(tied) \in Nat
  BY <1>2, <1>4, FS_Subset, FS_CardinalityType
<1> HIDE DEF u, O, tied
<1>8. LET m == Cardinality(some)
          sum == SumFunctionOnSet(u, O)
      IN  m \in Nat /\ sum \in Int /\ -m <= sum /\ sum <= m
  BY <1>2, SumOfSigns
<1> HIDE DEF some
<1>9. Cardinality(O) = Cardinality(tied) + Cardinality(some)
  <2>1. Cardinality(tied \cap some) = 0
    BY <1>4, FS_EmptySet
  <2>2. Cardinality(O) = Cardinality(tied) + Cardinality(some) - 0
    BY <1>4, <1>7, <2>1, FS_Union
  <2> QED BY <1>7, <1>8, <2>2
<1>10. PICK S \in Int, a \in Nat, t \in Nat :
         S = KendallS(v) /\ a = Cardinality(some) /\ t = TiedPairs(v) /\ -a <= S /\ S <= a
  BY <1>5, <1>6, <1>7, <1>8, SumDef
<1>11. Pairs(n) = t + a
  BY <1>3, <1>6, <1>9, <1>10
<1>12. S * S <= a * a
  <2>1. CASE S >= 0
    BY <1>10, <2>1
  <2>2. CASE S < 0
    <3>1. PICK r \in Nat : r = -S
      BY <2>2
    <3>2. S * S = r * r /\ r <= a
      BY <1>10, <3>1
    <3> QED BY <3>1, <3>2
  <2> QED BY <2>1, <2>2
<1>13. a * a <= (t + a) * ((t + a) - t)
  <2>1. (t + a) - t = a /\ (t + a) * a = t * a + a * a /\ t * a >= 0
    OBVIOUS
  <2> QED BY <2>1
<1>14. S * S <= (t + a) * ((t + a) - t)
  <2>1. PICK x \in Int, y \in Int, z \in Int : x = S * S /\ y = a * a /\ z = (t + a) * ((t + a) - t)
    OBVIOUS
  <2> QED BY <1>12, <1>13, <2>1
<1> QED BY <1>10, <1>11, <1>14

\* One group weighs more than the two it is split in.
LEMMA WeightOfTwo ==
  ASSUME NEW a \in Nat \ {0}, NEW b \in Nat \ {0}
  PROVE  Weight(a) \in Int /\ Weight(a) + Weight(b) < Weight(a + b)
<1>1. Weight(a) \in Int /\ Weight(b) \in Int /\ Weight(a + b) \in Int
  BY DEF Weight
<1>2. Weight(a + b) = Weight(a) + Weight(b) + 6 * (a * b * (a + b + 1))
  <2>1. PICK aa \in Int, bb \in Int, ab \in Int : aa = a * a /\ bb = b * b /\ ab = a * b
    OBVIOUS
  <2>2. PICK aaa \in Int, bbb \in Int, aab \in Int, abb \in Int :
          aaa = aa * a /\ bbb = bb * b /\ aab = aa * b /\ abb = bb * a
    OBVIOUS
  <2>3. Weight(a) = 2 * aaa + 3 * aa - 5 * a
    BY <2>1, <2>2 DEF Weight
  <2>4. Weight(b) = 2 * bbb + 3 * bb - 5 * b
    BY <2>1, <2>2 DEF Weight
  <2>5. Weight(a + b) = 2 * (aaa + 3 * aab + 3 * abb + bbb) + 3 * (aa + 2 * ab + bb) - 5 * (a + b)
    <3>1. (a + b) * (a + b - 1) = aa + 2 * ab + bb - a - b
      BY <2>1
    <3>2. (aa + 2 * ab + bb - a - b) * (2 * (a + b) + 5) =
            2 * (aaa + 3 * aab + 3 * abb + bbb) + 3 * (aa + 2 * ab + bb) - 5 * (a + b)
      BY <2>1, <2>2
    <3> QED BY <3>1, <3>2 DEF Weight
  <2>6. a * b * (a + b + 1) = aab + abb + ab
    BY <2>1, <2>2
  <2> QED BY <2>3, <2>4, <2>5, <2>6
<1>3. a * b * (a + b + 1) > 0
  <2>1. PICK c \in Nat \ {0} : c = a * b
    OBVIOUS
  <2>2. c * (a + b + 1) > 0
    OBVIOUS
  <2> QED BY <2>1, <2>2
<1>4. PICK d \in Int : d = a * b * (a + b + 1)
  OBVIOUS
<1> QED BY <1>1, <1>2, <1>3, <1>4

\* The groups weigh no more than all values in one group, and less if there are two.
LEMMA WeightOfGroups ==
  ASSUME NEW v, NEW n, IsSeries(v, n)
  PROVE  VarS18(v) > 0 <=> \E g, h \in TieGroups(v) : g # h
<1> DEFINE B == TieGroups(v)
           f == [g \in B |-> Weight(Cardinality(g))]
           Two(V) == \E g, h \in V : g # h
           Fits(V) == /\ V = {} => SumFunctionOnSet(f, V) = 0
                      /\ V # {} => SumFunctionOnSet(f, V) <= Weight(Cardinality(UNION V))
                      /\ Two(V) => SumFunctionOnSet(f, V) < Weight(Cardinality(UNION V))
           T == {V \in SUBSET B : ~Fits(V)}
<1>1. IsGrouping(v, n) /\ n \in Nat \ {0} /\ Len(v) = n
  BY GroupsOfTies DEF IsSeries
<1>2. \A g \in B : Cardinality(g) \in Nat \ {0} /\ IsFiniteSet(g)
  BY <1>1, FS_CardinalityType, FS_EmptySet DEF IsGrouping
<1>3. \A g \in B : f[g] = Weight(Cardinality(g)) /\ f[g] \in Int
  <2>1. \A g \in B : f[g] = Weight(Cardinality(g))
    OBVIOUS
  <2> QED BY <1>2, <2>1, WeightOfTwo
<1>4. \A V \in SUBSET B : IsFiniteSet(V) /\ IsFiniteSet(UNION V)
  <2>1. \A V \in SUBSET B : IsFiniteSet(V)
    BY <1>1, FS_Subset DEF IsGrouping
  <2> SUFFICES ASSUME NEW V \in SUBSET B PROVE IsFiniteSet(UNION V)
    BY <2>1
  <2>2. IsFiniteSet(V) /\ \A g \in V : IsFiniteSet(g)
    BY <1>2, <2>1
  <2> QED BY <2>2, FS_UNION
<1>5. \A V \in SUBSET B :
        /\ SumFunctionOnSet(f, V) \in Int /\ SumFunctionOnSet(f, {}) = 0
        /\ \A x \in V : SumFunctionOnSet(f, V) = f[x] + SumFunctionOnSet(f, V \ {x})
  <2> HIDE DEF f, B
  <2> QED BY <1>3, <1>4, SumRemove
<1> HIDE DEF f
<1>6. ASSUME T # {} PROVE FALSE
  <2>1. PICK U \in T : \A V \in SUBSET U : V # U => V \notin T
    <3>1. T \in SUBSET SUBSET B
      OBVIOUS
    <3>2. IsFiniteSet(B)
      BY <1>1 DEF IsGrouping
    <3> HIDE DEF T, B
    <3> QED BY <1>6, <3>1, <3>2, SmallestMember
  <2>2. U \in SUBSET B /\ ~Fits(U)
    OBVIOUS
  <2>3. PICK x \in U : TRUE
    <3>1. U # {}
      BY <1>5, <2>2
    <3> QED BY <3>1
  <2>4. PICK V \in SUBSET U : V = U \ {x} /\ Fits(V) /\ V \in SUBSET B /\ U = V \cup {x}
    <3>1. U \ {x} \in SUBSET U /\ U \ {x} # U /\ U \ {x} \in SUBSET B /\ U = (U \ {x}) \cup {x}
      BY <2>2, <2>3
    <3>2. Fits(U \ {x})
      BY <2>1, <3>1
    <3> HIDE DEF Fits
    <3> QED BY <3>1, <3>2
  <2>5. SumFunctionOnSet(f, U) = f[x] + SumFunctionOnSet(f, V) /\ f[x] = Weight(Cardinality(x))
    BY <1>3, <1>5, <2>2, <2>3, <2>4
  <2>6. CASE V = {}
    <3>1. UNION U = x /\ ~Two(U) /\ U # {}
      BY <2>4, <2>6
    <3>2. PICK k \in Int : k = Weight(Cardinality(x))
      BY <1>3, <2>2, <2>3
    <3>3. SumFunctionOnSet(f, V) = 0
      BY <1>5, <2>4, <2>6
    <3>4. SumFunctionOnSet(f, U) = k
      BY <2>5, <3>2, <3>3
    <3>5. SumFunctionOnSet(f, U) <= Weight(Cardinality(UNION U))
      <4>1. Weight(Cardinality(UNION U)) = k
        BY <3>1, <3>2
      <4>2. k <= k
        OBVIOUS
      <4> QED BY <3>4, <4>1, <4>2
    <3> QED BY <2>2, <3>1, <3>5
  <2>7. CASE V # {}
    <3>1. UNION U = x \cup UNION V /\ x \cap UNION V = {} /\ UNION V # {}
      <4>1. UNION U = x \cup UNION V
        BY <2>4
      <4>2. \A g \in V : g # x /\ g \in B /\ x \in B
        BY <2>2, <2>3, <2>4
      <4>3. x \cap UNION V = {} /\ UNION V # {}
        BY <1>1, <2>7, <4>2 DEF IsGrouping
      <4> QED BY <4>1, <4>3
    <3>2. IsFiniteSet(x) /\ IsFiniteSet(UNION V)
      BY <1>2, <1>4, <2>2, <2>3, <2>4
    <3>3. PICK a \in Nat \ {0}, b \in Nat \ {0} : a = Cardinality(x) /\ b = Cardinality(UNION V)
      BY <1>2, <2>2, <2>3, <3>1, <3>2, FS_CardinalityType, FS_EmptySet
    <3>4. Cardinality(UNION U) = a + b
      <4>1. Cardinality(x \cap UNION V) = 0
        BY <3>1, FS_EmptySet
      <4>2. Cardinality(UNION U) = a + b - 0
        BY <3>1, <3>2, <3>3, <4>1, FS_Union
      <4> QED BY <4>2
    <3>5. Weight(a) + Weight(b) < Weight(a + b) /\ Weight(a) \in Int /\ Weight(b) \in Int /\ Weight(a + b) \in Int
      BY WeightOfTwo DEF Weight
    <3>6. SumFunctionOnSet(f, V) <= Weight(b) /\ SumFunctionOnSet(f, V) \in Int
      BY <1>5, <2>4, <2>7, <3>3
    <3>7. PICK wa \in Int, wb \in Int, wc \in Int, s \in Int :
            wa = Weight(a) /\ wb = Weight(b) /\ wc = Weight(a + b) /\ s = SumFunctionOnSet(f, V)
      BY <3>5, <3>6
    <3>8. SumFunctionOnSet(f, U) = wa + s /\ wa + s < wc /\ Weight(Cardinality(UNION U)) = wc
      <4>1. SumFunctionOnSet(f, U) = wa + s /\ Weight(Cardinality(UNION U)) = wc
        BY <2>5, <3>3, <3>4, <3>7
      <4>2. wa + wb < wc /\ s <= wb
        BY <3>5, <3>6, <3>7
      <4> QED BY <4>1, <4>2
    <3>9. SumFunctionOnSet(f, U) < Weight(Cardinality(UNION U))
          /\ SumFunctionOnSet(f, U) <= Weight(Cardinality(UNION U))
      BY <3>7, <3>8
    <3> QED BY <2>2, <2>3, <3>9
  <2> QED BY <2>6, <2>7
<1>7. Fits(B)
  BY <1>6
<1>8. Cardinality(UNION B) = n /\ B # {}
  <2>1. UNION B = 1 .. n /\ Cardinality(1 .. n) = n /\ 1 \in 1 .. n
    BY <1>1, FS_Interval DEF IsGrouping
  <2> QED BY <2>1
<1>9. VarS18(v) = Weight(n) - SumFunctionOnSet(f, B)
  BY <1>1, SumDef DEF VarS18, f
<1>10. PICK k \in Int, s \in Int : k = Weight(n) /\ s = SumFunctionOnSet(f, B)
  BY <1>1, <1>5 DEF Weight
<1>11. CASE Two(B)
  <2>1. s < k
    BY <1>7, <1>8, <1>10, <1>11
  <2> QED BY <1>9, <1>10, <1>11, <2>1
<1>12. CASE ~Two(B)
  <2>1. PICK x \in B : TRUE
    BY <1>8
  <2>2. B = {x} /\ UNION B = x
    BY <1>12, <2>1
  <2>3. SumFunctionOnSet(f, B) = f[x] + SumFunctionOnSet(f, B \ {x}) /\ B \ {x} = {}
    BY <1>5, <2>2
  <2>4. f[x] = Weight(n) /\ SumFunctionOnSet(f, {}) = 0
    BY <1>3, <1>5, <1>8, <2>1, <2>2
  <2>5. s = k + 0
    BY <1>10, <2>3, <2>4
  <2> QED BY <1>9, <1>10, <1>12, <2>5
<1> QED BY <1>11, <1>12

\* Two groups of ties are two values that are not tied.
LEMMA GroupsDiffer ==
  ASSUME NEW v, NEW n, IsSeries(v, n)
  PROVE  (\E g, h \in TieGroups(v) : g # h)
           <=> \E ij \in PairsFrom1(n) : Sign(v[ij[1]], v[ij[2]]) # 0
<1>1. IsSign(v, n) /\ IsGrouping(v, n) /\ n \in Nat \ {0}
  BY SignIs, GroupsOfTies DEF IsSeries
<1>2. ASSUME NEW g \in TieGroups(v), NEW h \in TieGroups(v), g # h
      PROVE  \E ij \in PairsFrom1(n) : Sign(v[ij[1]], v[ij[2]]) # 0
  <2>1. PICK i \in g, j \in h : i \in 1 .. n /\ j \in 1 .. n /\ j \notin g
    BY <1>1, <1>2 DEF IsGrouping
  <2>2. Sign(v[i], v[j]) # 0 /\ i # j
    BY <1>1, <2>1 DEF IsGrouping
  <2>3. Sign(v[j], v[i]) # 0
    BY <1>1, <2>1, <2>2 DEF IsSign
  <2>4. CASE i < j
    <3>1. <<i, j>> \in PairsFrom1(n)
      BY <2>1, <2>4 DEF PairsFrom1
    <3> QED BY <2>2, <3>1
  <2>5. CASE j < i
    <3>1. <<j, i>> \in PairsFrom1(n)
      BY <2>1, <2>5 DEF PairsFrom1
    <3> QED BY <2>3, <3>1
  <2> QED BY <2>1, <2>2, <2>4, <2>5
<1>3. ASSUME NEW z \in PairsFrom1(n), Sign(v[z[1]], v[z[2]]) # 0
      PROVE  \E g, h \in TieGroups(v) : g # h
  <2>1. z[1] \in 1 .. n /\ z[2] \in 1 .. n
    BY DEF PairsFrom1
  <2>2. PICK g \in TieGroups(v), h \in TieGroups(v) : z[1] \in g /\ z[2] \in h
    BY <1>1, <2>1 DEF IsGrouping
  <2>3. z[2] \notin g
    BY <1>1, <1>3, <2>1, <2>2 DEF IsGrouping
  <2> QED BY <2>2, <2>3
<1> QED BY <1>2, <1>3

\* What trend computes is sound for every head of every scope.
LEMMA TrendIsSound == TypeInv => TauIsATau
<1> SUFFICES ASSUME TypeInv, NEW R \in Scopes, NEW h \in HeadsOf(Caps(R))
             PROVE  LET v == Series(R, Hour, h)
                        D == Pairs(Len(v))
                        inOrder == {ij \in (DOMAIN v) \X (DOMAIN v) : ij[1] < ij[2]}
                    IN  /\ KendallS(v) = SumFunction([ij \in inOrder |-> Sign(v[ij[1]], v[ij[2]])])
                        /\ KendallS(v) * KendallS(v) <= D * (D - TiedPairs(v))
                        /\ Len(v) > 1 => (VarS18(v) > 0 <=> \E ij \in inOrder : Sign(v[ij[1]], v[ij[2]]) # 0)
  BY DEF TauIsATau
<1> DEFINE v == Series(R, Hour, h)
           inOrder == {ij \in (DOMAIN v) \X (DOMAIN v) : ij[1] < ij[2]}
<1>1. InScope(R)
  BY ScopesAreInScope
<1>2. PICK n : IsSeries(v, n)
  BY <1>1, SeriesIs
<1> HIDE DEF v
<1>3. Len(v) = n /\ inOrder = PairsFrom1(n)
  BY <1>2 DEF IsSeries, PairsFrom1
<1> HIDE DEF inOrder
<1>4. KendallS(v) = SumFunction([ij \in inOrder |-> Sign(v[ij[1]], v[ij[2]])])
  BY <1>2, <1>3, KendallIs
<1>5. KendallS(v) * KendallS(v) <= Pairs(Len(v)) * (Pairs(Len(v)) - TiedPairs(v))
  BY <1>2, <1>3, KendallIsBounded
<1>6. VarS18(v) > 0 <=> \E ij \in inOrder : Sign(v[ij[1]], v[ij[2]]) # 0
  BY <1>2, <1>3, WeightOfGroups, GroupsDiffer
<1> QED BY <1>4, <1>5, <1>6 DEF v, inOrder

-----------------------------------------------------------------------------
(* What the tools answer, in every state of the store *)

\* Every idle period is a longest silence: no tool splits or joins one, in
\* whatever way its closures and gaps fall (_idle_islands and its callers).
THEOREM IdlePeriodsAlwaysMaximal == Spec => []IdleRunsAreMaximal
BY TypeHolds, IdlePeriodsAreMaximal, PTL

\* The tools tell of one store: what they count by head, day, hour, outcome or
\* month adds up; the band's own count differs from closure_filter's and the
\* zones' by the readings the cast makes equal to a limit and by no other; no
\* second is both idling and a stop, and a sample spans what it stands for.
THEOREM ToolsNeverDisagree == Spec => []ToolsAgree
BY TypeHolds, ToolsAlwaysAgree, PTL

\* compare_periods divides by days that a bucket has: never by fewer than
\* the active ones, and never by 0.
THEOREM DaysAlwaysAddUp == Spec => []DaysAddUp
BY TypeHolds, DaysOfBuckets, PTL

\* The deviation band never flags more than half of a head's closures,
\* whichever scale the head falls back to.
THEOREM FlagsAlwaysFew == Spec => []FlagsAreAMinority
BY TypeHolds, FlagsAreFew, PTL

\* trend's blocks sum to Kendall's S over all pairs, its tau stays within
\* [-1, 1] and its variance is positive unless all values are tied.
THEOREM TauAlwaysATau == Spec => []TauIsATau
BY TypeHolds, TrendIsSound, PTL
==============================================================================
