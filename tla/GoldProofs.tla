----------------------------- MODULE GoldProofs -----------------------------
(***************************************************************************)
(* Proofs about Dimension, Star and Pit, for every set of companies, days, *)
(* loads of the vault and rows of bronze.                                  *)
(***************************************************************************)
EXTENDS Star, Pit, FiniteSetTheorems, WellFoundedInduction, TLAPS

-----------------------------------------------------------------------------
(* Least and greatest days.                                                *)

\* A set of naturals has a least element.
LEMMA HasLeast ==
  ASSUME NEW S \in SUBSET Nat, S # {}
  PROVE  \E x \in S : \A y \in S : x <= y
<1> DEFINE Less == {ss \in Nat \X Nat : ss[1] < ss[2]}
<1>1. IsWellFoundedOn(Less, Nat)
  BY NatLessThanWellFounded, Zenon DEF OpToRel
<1>2. PICK x \in S : \A y \in S : ~ (<<y, x>> \in Less)
  BY <1>1, WFMin
<1>3. ASSUME NEW y \in S PROVE x <= y
  <2>1. x \in Nat /\ y \in Nat
    OBVIOUS
  <2>2. y < x => <<y, x>> \in Less
    BY <2>1
  <2> QED
    BY <1>2, <2>1, <2>2
<1> QED
  BY <1>3

\* Min is that element.
LEMMA MinIsLeast ==
  ASSUME NEW S \in SUBSET Nat, S # {}
  PROVE  Min(S) \in S /\ \A y \in S : Min(S) <= y
BY HasLeast DEF Min

\* A bounded set of naturals has a greatest element.
LEMMA HasGreatest ==
  ASSUME NEW S \in SUBSET Nat, S # {}, NEW bound \in Nat, \A y \in S : y <= bound
  PROVE  \E x \in S : \A y \in S : y <= x
<1> DEFINE below == {bound - x : x \in S}
<1>0. \A x \in S : x \in Nat /\ x <= bound
  OBVIOUS
<1>1. below \in SUBSET Nat /\ below # {}
  <2>1. \A x \in S : bound - x \in Nat
    BY <1>0
  <2> QED
    BY <2>1
<1>2. PICK n \in below : \A k \in below : n <= k
  BY <1>1, HasLeast
<1>3. PICK x \in S : n = bound - x
  OBVIOUS
<1>4. ASSUME NEW y \in S PROVE y <= x
  <2>1. bound - x <= bound - y
    BY <1>2, <1>3
  <2>2. x \in Nat /\ y \in Nat
    OBVIOUS
  <2> QED
    BY <2>1, <2>2
<1> QED
  BY <1>4

\* A later day's midnight is no earlier, and no day's midnight precedes the day.
LEMMA MidnightMonotone ==
  ASSUME NEW d \in Nat, NEW e \in Nat
  PROVE  /\ Midnight(d) \in Nat
         /\ d <= e => Midnight(d) <= Midnight(e)
         /\ d <= Midnight(d)
<1>1. PerDay \in Nat /\ 1 <= PerDay
  BY DimensionAssumption
<1>2. \A n \in Nat : n * PerDay \in Nat /\ n <= n * PerDay
  BY <1>1
<1>3. d <= e => e * PerDay = d * PerDay + (e - d) * PerDay
  BY <1>1
<1>4. d <= e => e - d \in Nat
  OBVIOUS
<1> QED
  BY <1>2, <1>3, <1>4 DEF Midnight

\* Days follow instants.
LEMMA DaysInOrder ==
  ASSUME NEW t \in Nat, NEW u \in Nat, t <= u
  PROVE  DayOf(t) \in Nat /\ DayOf(u) \in Nat /\ DayOf(t) <= DayOf(u)
<1>1. PerDay \in Nat /\ PerDay > 0
  BY DimensionAssumption
<1>2. t \div PerDay \in Nat /\ u \div PerDay \in Nat
  BY <1>1
<1>3. t \div PerDay <= u \div PerDay
  BY <1>1
<1> QED
  BY <1>2, <1>3 DEF DayOf

-----------------------------------------------------------------------------
(* The versions of one company partition time.                             *)

\* Row of version v is in force at t.
Covers(V, v, t) == RowOf(V, v).from <= t /\ t < RowOf(V, v).to

\* What a row of the dimension says, without its LET.
LEMMA RowBounds ==
  ASSUME NEW V \in SUBSET Version, NEW v \in V
  PROVE  /\ v \in Version /\ v[1] \in Company /\ v[2] \in Day /\ v = <<v[1], v[2]>>
         /\ Dates(V, v[1]) \in SUBSET Nat /\ v[2] \in Dates(V, v[1])
         /\ RowOf(V, v).key = v /\ RowOf(V, v).attributes = v
         /\ RowOf(V, v).company = v[1]
         /\ RowOf(V, v).from = IF {d \in Dates(V, v[1]) : d < v[2]} = {}
                                 THEN Floor ELSE Midnight(v[2])
         /\ RowOf(V, v).to = IF {d \in Dates(V, v[1]) : d > v[2]} = {}
                               THEN Ceiling
                               ELSE Midnight(Min({d \in Dates(V, v[1]) : d > v[2]}))
<1>1. v \in Version /\ v[1] \in Company /\ v[2] \in Day /\ v = <<v[1], v[2]>>
  BY DEF Version
<1>2. Dates(V, v[1]) \in SUBSET Nat /\ v[2] \in Dates(V, v[1])
  <2>1. \A w \in V : w[2] \in Nat
    BY DimensionAssumption DEF Version
  <2> QED
    BY <2>1 DEF Dates
<1>3. RowOf(V, v) =
        [key        |-> v,
         company    |-> v[1],
         attributes |-> v,
         from       |-> IF {d \in Dates(V, v[1]) : d < v[2]} = {}
                          THEN Floor ELSE Midnight(v[2]),
         to         |-> IF {d \in Dates(V, v[1]) : d > v[2]} = {}
                          THEN Ceiling
                          ELSE Midnight(Min({d \in Dates(V, v[1]) : d > v[2]}))]
  BY DEF RowOf, SurrogateKey
<1> QED
  BY <1>1, <1>2, <1>3

\* The date of the version of c at t: the last that is past, or the first of all.
DateAsOf(V, c, t) ==
  IF {d \in Dates(V, c) : Midnight(d) <= t} = {} THEN Min(Dates(V, c))
  ELSE Max({d \in Dates(V, c) : Midnight(d) <= t})

\* Of the versions of a company that one is in force at t, and no other.
LEMMA OneVersionInForce ==
  ASSUME NEW V \in SUBSET Version, NEW c, \E v \in V : v[1] = c,
         NEW t \in Floor..(Ceiling - 1)
  PROVE  \E v \in V : /\ v[1] = c /\ Covers(V, v, t) /\ v[2] = DateAsOf(V, c, t)
                      /\ \A w \in V : w[1] = c /\ Covers(V, w, t) => w = v
<1> DEFINE D    == Dates(V, c)
           past == {d \in D : Midnight(d) <= t}
<1>1. D \in SUBSET Nat /\ D # {}
  <2>1. PICK v \in V : v[1] = c
    OBVIOUS
  <2> QED
    BY <2>1, RowBounds
<1>2. \A d \in D : <<c, d>> \in V /\ d \in Nat
  <2>1. ASSUME NEW v \in V, v[1] = c PROVE <<c, v[2]>> \in V /\ v[2] \in Nat
    <3>1. v = <<v[1], v[2]>> /\ v[2] \in D
      BY <2>1, RowBounds
    <3> QED
      BY <2>1, <3>1, <1>1
  <2> QED
    BY <2>1 DEF Dates
<1>3. t \in Nat /\ Floor <= t /\ t < Ceiling /\ Ceiling \in Nat
  BY DimensionAssumption DEF Floor
<1>4. \A w \in V : w[1] = c => w = <<c, w[2]>> /\ w[2] \in D
  BY RowBounds
\* The bounds of the version dated d.
<1>5. ASSUME NEW d \in D
      PROVE  /\ RowOf(V, <<c, d>>).from =
                   IF {e \in D : e < d} = {} THEN Floor ELSE Midnight(d)
             /\ RowOf(V, <<c, d>>).to =
                   IF {e \in D : e > d} = {}
                     THEN Ceiling ELSE Midnight(Min({e \in D : e > d}))
  <2> DEFINE w == <<c, d>>
  <2>1. w \in V /\ w[1] = c /\ w[2] = d
    BY <1>2
  <2> HIDE DEF w
  <2>2. /\ RowOf(V, w).from = IF {e \in Dates(V, w[1]) : e < w[2]} = {}
                                THEN Floor ELSE Midnight(w[2])
        /\ RowOf(V, w).to = IF {e \in Dates(V, w[1]) : e > w[2]} = {}
                              THEN Ceiling
                              ELSE Midnight(Min({e \in Dates(V, w[1]) : e > w[2]}))
    BY <2>1, RowBounds
  <2>3. /\ RowOf(V, w).from = IF {e \in D : e < d} = {} THEN Floor ELSE Midnight(d)
        /\ RowOf(V, w).to = IF {e \in D : e > d} = {}
                              THEN Ceiling ELSE Midnight(Min({e \in D : e > d}))
    BY <2>1, <2>2
  <2> QED
    BY <2>3 DEF w
\* What is in force ends after t unless a later version is past.
<1>6. ASSUME NEW d \in D, \A e \in past : e <= d
      PROVE  t < RowOf(V, <<c, d>>).to
  <2> DEFINE later == {e \in D : e > d}
  <2>1. CASE later = {}
    BY <2>1, <1>3, <1>5
  <2>2. CASE later # {}
    <3>1. Min(later) \in later
      BY <2>2, <1>1, MinIsLeast
    <3>a. Min(later) \in D /\ d < Min(later) /\ Min(later) \in Nat /\ d \in Nat
      BY <3>1, <1>2
    <3>2. Min(later) \notin past /\ Min(later) \in Nat
      <4>1. \A e \in past : e <= d
        BY <1>6
      <4> HIDE DEF past, later
      <4> QED
        BY <4>1, <3>a
    <3>3. Midnight(Min(later)) \in Nat
      BY <3>2, MidnightMonotone
    <3>4. t < Midnight(Min(later))
      BY <3>1, <3>2, <3>3, <1>3
    <3> QED
      BY <3>4, <2>2, <1>5
  <2> QED
    BY <2>1, <2>2
<1>7. CASE past # {}
  <2>1. PICK d \in past : \A e \in past : e <= d
    <3>1. past \in SUBSET Nat
      BY <1>1
    <3>2. ASSUME NEW e \in past PROVE e <= t
      <4>1. e \in Nat /\ Midnight(e) <= t
        BY <1>2
      <4>2. e <= Midnight(e) /\ Midnight(e) \in Nat
        BY <4>1, MidnightMonotone
      <4> QED
        BY <4>1, <4>2, <1>3
    <3> QED
      BY <3>1, <3>2, <1>7, <1>3, HasGreatest
  <2>2. d \in D /\ d \in Nat /\ Midnight(d) <= t
    BY <1>2
  <2>3. Covers(V, <<c, d>>, t)
    BY <2>1, <2>2, <1>3, <1>5, <1>6 DEF Covers
  <2>4. ASSUME NEW e \in D, Covers(V, <<c, e>>, t) PROVE e = d
    <3>1. e \in Nat
      BY <1>2
    <3>2. ~ e < d
      <4> DEFINE later == {x \in D : x > e}
      <4>1. SUFFICES ASSUME e < d PROVE FALSE
        OBVIOUS
      <4>2. d \in later
        BY <4>1, <2>2
      <4>3. Min(later) \in Nat /\ Min(later) <= d
        BY <4>2, <1>1, MinIsLeast
      <4>4. Midnight(Min(later)) <= t
        BY <4>3, <2>2, <1>3, MidnightMonotone
      <4>5. t < Midnight(Min(later))
        BY <2>4, <1>5, <4>2 DEF Covers
      <4>6. Midnight(Min(later)) \in Nat
        BY <4>3, MidnightMonotone
      <4> QED
        BY <4>4, <4>5, <4>6, <1>3
    <3>3. ~ d < e
      <4>1. SUFFICES ASSUME d < e PROVE FALSE
        OBVIOUS
      <4>2. d \in {x \in D : x < e}
        BY <4>1, <2>2
      <4>3. Midnight(e) <= t
        BY <2>4, <4>2, <1>5 DEF Covers
      <4>4. e \in past
        BY <4>3
      <4> QED
        BY <4>1, <4>4, <2>1, <2>2, <3>1
    <3> QED
      BY <3>1, <3>2, <3>3, <2>2
  <2>5. d = DateAsOf(V, c, t)
    <3>1. \A e \in past : e \in Nat
      BY <1>2
    <3>2. \A x, y \in past : (\A e \in past : x >= e) /\ (\A e \in past : y >= e) => x = y
      BY <3>1
    <3>3. d \in past /\ \A e \in past : d >= e
      BY <2>1, <2>2, <3>1
    <3>4. Max(past) = CHOOSE x \in past : \A y \in past : x >= y
      BY DEF Max
    <3>5. Max(past) \in past /\ \A e \in past : Max(past) >= e
      BY <3>3, <3>4
    <3>6. DateAsOf(V, c, t) = Max(past)
      BY <1>7 DEF DateAsOf
    <3> HIDE DEF past
    <3> QED
      BY <3>2, <3>3, <3>5, <3>6
  <2> QED
    BY <2>2, <2>3, <2>4, <2>5, <1>2, <1>4
<1>8. CASE past = {}
  <2>1. PICK d \in D : \A e \in D : d <= e
    BY <1>1, HasLeast
  <2>2. d \in Nat
    BY <1>2
  <2>3. {x \in D : x < d} = {}
    <3>1. ASSUME NEW x \in D PROVE ~ x < d
      <4>1. x \in Nat /\ d <= x
        BY <1>2, <2>1
      <4> QED
        BY <4>1, <2>2
    <3> QED
      BY <3>1
  <2>4. Covers(V, <<c, d>>, t)
    BY <2>3, <1>3, <1>5, <1>6, <1>8 DEF Covers
  <2>5. ASSUME NEW e \in D, Covers(V, <<c, e>>, t) PROVE e = d
    <3>1. e \in Nat /\ d <= e
      BY <1>2, <2>1
    <3>2. ~ d < e
      <4>1. SUFFICES ASSUME d < e PROVE FALSE
        OBVIOUS
      <4>2. d \in {x \in D : x < e}
        BY <4>1
      <4>3. Midnight(e) <= t
        BY <2>5, <4>2, <1>5 DEF Covers
      <4> QED
        BY <4>3, <1>8
    <3> QED
      BY <3>1, <3>2, <2>2
  <2>6. d = DateAsOf(V, c, t)
    <3>1. Min(D) \in D /\ Min(D) <= d
      BY <1>1, <2>1, MinIsLeast
    <3>2. d <= Min(D) /\ Min(D) \in Nat
      BY <2>1, <3>1, <1>2
    <3>3. DateAsOf(V, c, t) = Min(D)
      BY <1>8 DEF DateAsOf
    <3> HIDE DEF D
    <3> QED
      BY <2>2, <3>1, <3>2, <3>3
  <2> QED
    BY <2>4, <2>5, <2>6, <1>2, <1>4
<1> QED
  BY <1>7, <1>8

-----------------------------------------------------------------------------
(* The dimension.                                                          *)

\* The table is empty, or what some build derived from tables that have only grown.
DimensionIsDerived ==
  dim = {} \/ \E H \in SUBSET Company, S \in SUBSET satellite : dim = DimensionRows(H, S)

DimInv ==
  /\ satellite \subseteq Version /\ IsFiniteSet(satellite)
  /\ dimBuild.hub \subseteq Company /\ dimBuild.satellite \subseteq satellite
  /\ hub \subseteq Company
  /\ DimensionIsDerived

\* Rows of the dimension, one by one.
LEMMA DimensionMember ==
  ASSUME NEW H \in SUBSET Company, NEW S \in SUBSET Version
  PROVE  /\ Keyed(H, S) \in SUBSET Version
         /\ \A r \in DimensionRows(H, S) :
              \/ r = GhostRow
              \/ \E v \in Keyed(H, S) : r = RowOf(Keyed(H, S), v)
         /\ GhostRow \in DimensionRows(H, S)
         /\ \A v \in Keyed(H, S) : RowOf(Keyed(H, S), v) \in DimensionRows(H, S)
BY DEF Keyed, DimensionRows

LEMMA DimInitInv ==
  ASSUME DimInit
  PROVE  DimInv
BY FS_EmptySet DEF DimInit, DimInv, DimensionIsDerived, IdleBuild

\* DimInv is preserved by every step of the builds and of the vault.
LEMMA DimStep ==
  ASSUME DimInv, [DimNext]_dimVars
  PROVE  DimInv'
<1>1. CASE UNCHANGED dimVars
  BY <1>1 DEF DimInv, DimensionIsDerived, dimVars
<1>2. ASSUME NEW K \in HubLoads, LoadHub(K) PROVE DimInv'
  BY <1>2, DimensionAssumption DEF LoadHub, DimInv, DimensionIsDerived
<1>3. ASSUME NEW versions \in SatelliteLoads, LoadSatellite(versions) PROVE DimInv'
  <2>1. versions \subseteq Version /\ IsFiniteSet(versions)
    BY DimensionAssumption
  <2>2. IsFiniteSet(satellite') /\ satellite' \subseteq Version /\ satellite \subseteq satellite'
    BY <1>3, <2>1, FS_Union DEF LoadSatellite, DimInv
  <2>3. UNCHANGED <<hub, dim, dimBuild>>
    BY <1>3 DEF LoadSatellite
  <2>4. DimensionIsDerived'
    BY <2>2, <2>3 DEF DimInv, DimensionIsDerived
  <2> QED
    BY <2>2, <2>3, <2>4 DEF DimInv
<1>4. ASSUME NEW months \in SUBSET Day, DimensionRead(months) PROVE DimInv'
  BY <1>4 DEF DimensionRead, DimInv, DimensionIsDerived
<1>5. CASE DimensionWrite
  <2>1. UNCHANGED <<hub, satellite>>
    BY <1>5 DEF DimensionWrite, vaultVars
  <2>2. \/ dimBuild' = IdleBuild
        \/ dimBuild' = [IdleBuild EXCEPT !.at = "written"]
    BY <1>5 DEF DimensionWrite
  <2>3. dimBuild'.hub = {} /\ dimBuild'.satellite = {}
    BY <2>2 DEF IdleBuild
  <2>4. dim' = dim \/ dim' = DimensionRows(dimBuild.hub, dimBuild.satellite)
    BY <1>5 DEF DimensionWrite
  <2>5. DimensionIsDerived'
    BY <2>1, <2>4 DEF DimInv, DimensionIsDerived
  <2> QED
    BY <2>1, <2>3, <2>5 DEF DimInv
<1>6. CASE DimensionVerify
  BY <1>6 DEF DimensionVerify, DimInv, DimensionIsDerived, IdleBuild
<1>7. CASE DimensionCrash
  BY <1>7 DEF DimensionCrash, DimInv, DimensionIsDerived, IdleBuild
<1>8. CASE DropDimension
  BY <1>8 DEF DropDimension, DimInv, DimensionIsDerived
<1> QED
  BY <1>1, <1>2, <1>3, <1>4, <1>5, <1>6, <1>7, <1>8 DEF DimNext

\* A derived table partitions time.
LEMMA DerivedPartitions ==
  ASSUME DimInv
  PROVE  DimensionPartitionsTime
<1> SUFFICES ASSUME NEW c \in {r.company : r \in dim}, NEW t \in Floor..(Ceiling - 1)
             PROVE  Cardinality({r \in dim : r.company = c /\ r.from <= t /\ t < r.to}) = 1
  BY DEF DimensionPartitionsTime
<1> DEFINE inForce == {r \in dim : r.company = c /\ r.from <= t /\ t < r.to}
<1>1. PICK H \in SUBSET Company, S \in SUBSET satellite : dim = DimensionRows(H, S)
  BY DEF DimInv, DimensionIsDerived
<1> DEFINE V == Keyed(H, S)
<1>2. S \in SUBSET Version
  BY <1>1 DEF DimInv
<1>3. /\ V \in SUBSET Version
      /\ \A r \in dim : r = GhostRow \/ \E v \in V : r = RowOf(V, v)
      /\ GhostRow \in dim
      /\ \A v \in V : RowOf(V, v) \in dim
  BY <1>1, <1>2, DimensionMember
<1> HIDE DEF V
<1>4. \A v \in V : RowOf(V, v).company = v[1] /\ v[1] \in Company /\ v[1] # Ghost
  <2>1. V \in SUBSET Version
    BY <1>3
  <2>2. \A v \in V : RowOf(V, v).company = v[1] /\ v[1] \in Company
    BY <2>1, RowBounds
  <2> QED
    BY <2>2, DimensionAssumption
<1>5. GhostRow.company = Ghost /\ GhostRow.from = Floor /\ GhostRow.to = Ceiling
  BY DEF GhostRow
<1>6. \E r : inForce = {r}
  <2>1. CASE c = Ghost
    <3>1. Floor <= t /\ t < Ceiling
      BY DimensionAssumption DEF Floor
    <3>2. inForce = {GhostRow}
      BY <2>1, <3>1, <1>3, <1>4, <1>5
    <3> QED
      BY <3>2
  <2>2. CASE c # Ghost
    <3>1. \E v \in V : v[1] = c
      BY <2>2, <1>3, <1>4, <1>5
    <3>a. \E v \in V : /\ v[1] = c /\ Covers(V, v, t)
                       /\ \A w \in V : w[1] = c /\ Covers(V, w, t) => w = v
      <4>1. V \in SUBSET Version
        BY <1>3
      <4>2. \E v \in V : /\ v[1] = c /\ Covers(V, v, t) /\ v[2] = DateAsOf(V, c, t)
                         /\ \A w \in V : w[1] = c /\ Covers(V, w, t) => w = v
        BY ONLY <3>1, <4>1, t \in Floor..(Ceiling - 1), OneVersionInForce
      <4> QED
        BY <4>2
    <3>2. PICK v \in V : /\ v[1] = c /\ Covers(V, v, t)
                         /\ \A w \in V : w[1] = c /\ Covers(V, w, t) => w = v
      BY <3>a
    <3>3. RowOf(V, v) \in inForce
      BY <3>2, <1>3, <1>4 DEF Covers
    <3>4. ASSUME NEW r \in inForce PROVE r = RowOf(V, v)
      <4>1. PICK w \in V : r = RowOf(V, w)
        BY <2>2, <1>3, <1>5
      <4> QED
        BY <4>1, <3>2, <1>4 DEF Covers
    <3> QED
      BY <3>3, <3>4
  <2> QED
    BY <2>1, <2>2
<1> QED
  BY <1>6, FS_Singleton

\* What the vault and the builds do to the dimension is what Dimension says, also
\* in the star: its steps are DimNext or leave the dimension's variables alone.
LEMMA StarStepsDimension ==
  ASSUME [Next]_vars
  PROVE  [DimNext]_dimVars
BY DEF Next, vars, dimVars

\* A company has one version in force at every instant, in every state of the star
\* (gold/dimensions.py: _bounded, _versioned, load_dimension).
THEOREM PartitionsTime == Spec => []DimensionPartitionsTime
<1>1. Init => DimInv
  BY DimInitInv DEF Init
<1>2. DimInv /\ [Next]_vars => DimInv'
  BY DimStep, StarStepsDimension
<1>3. DimInv => DimensionPartitionsTime
  BY DerivedPartitions
<1> QED
  BY <1>1, <1>2, <1>3, PTL DEF Spec

-----------------------------------------------------------------------------
(* Counting is enough.                                                     *)

\* The rows of V are no more than V.
LEMMA NoMoreRowsThanVersions ==
  ASSUME NEW V, IsFiniteSet(V)
  PROVE  /\ IsFiniteSet({RowOf(V, v) : v \in V} \cup {GhostRow})
         /\ Cardinality({RowOf(V, v) : v \in V} \cup {GhostRow}) <= Cardinality(V) + 1
<1> DEFINE T == {RowOf(V, v) : v \in V}
           f == [v \in V |-> RowOf(V, v)]
<1>1. f \in Surjection(V, T)
  BY DEF Surjection
<1>2. IsFiniteSet(T) /\ Cardinality(T) <= Cardinality(V)
  BY <1>1, FS_Surjection
<1>3. Cardinality(V) \in Nat /\ Cardinality(T) \in Nat
  BY <1>2, FS_CardinalityType
<1>4. /\ IsFiniteSet(T \cup {GhostRow})
      /\ Cardinality(T \cup {GhostRow}) =
           IF GhostRow \in T THEN Cardinality(T) ELSE Cardinality(T) + 1
  BY <1>2, FS_AddElement
<1>5. Cardinality(T \cup {GhostRow}) <= Cardinality(V) + 1
  BY <1>2, <1>3, <1>4
<1> QED
  BY <1>4, <1>5

LEMMA DerivedIsFinite ==
  ASSUME DimInv
  PROVE  IsFiniteSet(dim)
<1>1. CASE dim = {}
  BY <1>1, FS_EmptySet
<1>2. CASE dim # {}
  <2>1. PICK H \in SUBSET Company, S \in SUBSET satellite : dim = DimensionRows(H, S)
    BY <1>2 DEF DimInv, DimensionIsDerived
  <2>2. Keyed(H, S) \in SUBSET satellite
    BY <2>1 DEF Keyed
  <2>3. IsFiniteSet(Keyed(H, S))
    BY <2>2, FS_Subset DEF DimInv
  <2> QED
    BY <2>1, <2>3, NoMoreRowsThanVersions DEF DimensionRows
<1> QED
  BY <1>1, <1>2

\* A table derived from any part of the satellite, at any time, has the count of the
\* whole satellite only when it is derived from the whole.
LEMMA CountTells ==
  ASSUME DimInv, CountsAgree
  PROVE  dim = DimensionRows(Company, satellite)
<1>1. satellite \subseteq Version /\ IsFiniteSet(satellite)
  BY DEF DimInv
<1>2. Cardinality(satellite) \in Nat
  BY <1>1, FS_CardinalityType
<1>3. dim # {}
  <2>1. Cardinality({}) = 0
    BY FS_EmptySet
  <2>2. Cardinality(dim) = Cardinality(satellite) + 1
    BY DEF CountsAgree
  <2> QED
    BY <1>2, <2>1, <2>2
<1>4. PICK H \in SUBSET Company, S \in SUBSET satellite : dim = DimensionRows(H, S)
  BY <1>3 DEF DimInv, DimensionIsDerived
<1> DEFINE V == Keyed(H, S)
<1>5. V \in SUBSET satellite
  BY <1>4 DEF Keyed
<1>6. dim = {RowOf(V, v) : v \in V} \cup {GhostRow}
  BY <1>4 DEF DimensionRows
<1> HIDE DEF V
<1>7. IsFiniteSet(V) /\ Cardinality(V) <= Cardinality(satellite)
  BY <1>1, <1>5, FS_Subset
<1>8. Cardinality(V) \in Nat
  BY <1>7, FS_CardinalityType
<1>9. Cardinality(dim) <= Cardinality(V) + 1
  BY <1>6, <1>7, NoMoreRowsThanVersions
<1>10. Cardinality(dim) = Cardinality(satellite) + 1
  BY DEF CountsAgree
<1>11. Cardinality(V) = Cardinality(satellite)
  BY <1>2, <1>7, <1>8, <1>9, <1>10
<1>12. V = satellite
  BY <1>1, <1>5, <1>11, FS_Subset
<1>13. Keyed(Company, satellite) = satellite
  BY <1>1 DEF Keyed, Version
<1> QED
  BY <1>6, <1>12, <1>13 DEF DimensionRows

\* Only the counts accept.
LEMMA AcceptedByCount ==
  ASSUME [DimNext]_dimVars, dimVerdict' = "accepted", dimVerdict # "accepted"
  PROVE  CountsAgree /\ dim' = dim /\ satellite' = satellite
<1>1. ~ UNCHANGED dimVars
  BY DEF dimVars
<1>2. ASSUME NEW K \in HubLoads, LoadHub(K) PROVE FALSE
  BY <1>2 DEF LoadHub
<1>3. ASSUME NEW versions \in SatelliteLoads, LoadSatellite(versions) PROVE FALSE
  BY <1>3 DEF LoadSatellite
<1>4. ASSUME NEW months \in SUBSET Day, DimensionRead(months) PROVE FALSE
  BY <1>4 DEF DimensionRead
<1>5. CASE DimensionWrite
  BY <1>5 DEF DimensionWrite
<1>6. CASE DimensionVerify
  BY <1>6 DEF DimensionVerify
<1>7. CASE DimensionCrash
  BY <1>7 DEF DimensionCrash
<1>8. CASE DropDimension
  BY <1>8 DEF DropDimension
<1> QED
  BY <1>1, <1>2, <1>3, <1>4, <1>5, <1>6, <1>7, <1>8 DEF DimNext

\* An accepted dimension is what the satellite gives, whatever was loaded while it was
\* built and whoever built it (gold/dimensions.py: load_dimension's two counts).
THEOREM AcceptedIsTheSource == Spec => AcceptedDimensionIsTheSource
<1>1. Init => DimInv
  BY DimInitInv DEF Init
<1>2. DimInv /\ [Next]_vars => DimInv'
  BY DimStep, StarStepsDimension
<1>3. DimInv /\ [Next]_vars
        => [dimVerdict' = "accepted" /\ dimVerdict # "accepted"
              => dim' = DimensionRows(Company, satellite')]_dimVars
  BY StarStepsDimension, AcceptedByCount, CountTells
<1> QED
  BY <1>1, <1>2, <1>3, PTL DEF Spec, AcceptedDimensionIsTheSource

-----------------------------------------------------------------------------
(* What a fact's keys name.                                                *)

\* A key names the version it is the key of, and is of a version that is not lost.
MeantInv ==
  /\ DimInv
  /\ \A m \in meant : m[1] = m[2] /\ m[1] \in satellite \cup {Ghost}
  /\ FactKeysSurviveRebuilds

\* The rows of the table name themselves.
LEMMA RowsNameThemselves ==
  ASSUME DimInv
  PROVE  \A r \in dim : r.key = r.attributes /\ r.key \in satellite \cup {Ghost}
<1> SUFFICES ASSUME NEW r \in dim
             PROVE  r.key = r.attributes /\ r.key \in satellite \cup {Ghost}
  OBVIOUS
<1>1. PICK H \in SUBSET Company, S \in SUBSET satellite : dim = DimensionRows(H, S)
  BY DEF DimInv, DimensionIsDerived
<1>2. S \in SUBSET Version
  BY <1>1 DEF DimInv
<1>3. \/ r = GhostRow
      \/ \E v \in Keyed(H, S) : r = RowOf(Keyed(H, S), v)
  BY <1>1, <1>2, DimensionMember
<1>4. CASE r = GhostRow
  BY <1>4 DEF GhostRow
<1> DEFINE V == Keyed(H, S)
<1>5. ASSUME NEW v \in V, r = RowOf(V, v)
      PROVE  r.key = r.attributes /\ r.key \in satellite \cup {Ghost}
  <2>1. V \in SUBSET Version /\ v \in satellite
    BY <1>1, <1>2 DEF Keyed
  <2> HIDE DEF V
  <2>2. RowOf(V, v).key = v /\ RowOf(V, v).attributes = v
    BY <2>1, RowBounds
  <2> QED
    BY <1>5, <2>1, <2>2
<1> QED
  BY <1>3, <1>4, <1>5

\* The whole of the satellite has a row for each of its versions and the ghost.
LEMMA WholeHasEach ==
  ASSUME DimInv, dim = DimensionRows(Company, satellite), NEW k \in satellite \cup {Ghost}
  PROVE  \E r \in dim : r.key = k /\ r.attributes = k
<1>1. satellite \in SUBSET Version
  BY DEF DimInv
<1> DEFINE V == Keyed(Company, satellite)
<1>2. V = satellite
  BY <1>1 DEF Keyed, Version
<1>3. GhostRow \in dim /\ \A v \in V : RowOf(V, v) \in dim
  BY <1>1, DimensionMember
<1> HIDE DEF V
<1>4. CASE k = Ghost
  BY <1>3, <1>4 DEF GhostRow
<1>5. CASE k \in satellite
  <2>1. RowOf(V, k).key = k /\ RowOf(V, k).attributes = k
    BY <1>1, <1>2, <1>5, RowBounds
  <2> QED
    BY <1>2, <1>3, <1>5, <2>1
<1> QED
  BY <1>4, <1>5

LEMMA MeantInitInv ==
  ASSUME Init
  PROVE  MeantInv
BY DimInitInv DEF Init, MeantInv, FactKeysSurviveRebuilds

\* A step of the dimension and the vault that neither changes the table nor accepts it.
LEMMA MeantDimStep ==
  ASSUME MeantInv, DimNext, UNCHANGED starVars
  PROVE  MeantInv'
<1>1. DimInv' /\ meant' = meant
  BY DimStep DEF MeantInv, starVars
<1>2. satellite \subseteq satellite'
  BY DEF DimNext, LoadHub, LoadSatellite, DimensionRead, DimensionWrite,
         DimensionVerify, DimensionCrash, DropDimension, vaultVars
<1>3. \A m \in meant' : m[1] = m[2] /\ m[1] \in satellite' \cup {Ghost}
  BY <1>1, <1>2 DEF MeantInv
<1>4. CASE dimVerdict' # "accepted"
  BY <1>1, <1>3, <1>4 DEF MeantInv, FactKeysSurviveRebuilds
<1>5. CASE dimVerdict' = "accepted" /\ dimVerdict # "accepted"
  <2>1. CountsAgree /\ dim' = dim /\ satellite' = satellite
    BY <1>5, AcceptedByCount
  <2>2. dim = DimensionRows(Company, satellite)
    BY <2>1, CountTells DEF MeantInv
  <2>3. \A m \in meant' : \E r \in dim' : r.key = m[1] /\ r.attributes = m[2]
    BY <1>1, <1>3, <2>1, <2>2, WholeHasEach DEF MeantInv
  <2> QED
    BY <1>1, <1>3, <2>3 DEF MeantInv, FactKeysSurviveRebuilds
<1>6. CASE dimVerdict' = "accepted" /\ dimVerdict = "accepted"
  <2>1. dim \subseteq dim'
    BY <1>6 DEF DimNext, LoadHub, LoadSatellite, DimensionRead, DimensionWrite,
                DimensionVerify, DimensionCrash, DropDimension
  <2> QED
    BY <1>1, <1>3, <1>6, <2>1 DEF MeantInv, FactKeysSurviveRebuilds
<1> QED
  BY <1>4, <1>5, <1>6

\* A step of the builds of the star leaves the dimension alone.
LEMMA MeantStarStep ==
  ASSUME MeantInv, StarNext, UNCHANGED dimVars
  PROVE  MeantInv'
<1>1. DimInv'
  BY DimStep DEF MeantInv
<1>2. UNCHANGED <<satellite, dim, dimVerdict>>
  BY DEF dimVars
<1>3. CASE FactRead
  <2>1. \A m \in meant' : m \in meant \/ \E x \in dim : m = <<x.key, x.attributes>>
    BY <1>3 DEF FactRead
  <2>2. \A x \in dim : x.key = x.attributes /\ x.key \in satellite \cup {Ghost}
    BY RowsNameThemselves DEF MeantInv
  <2>3. \A m \in meant' : m[1] = m[2] /\ m[1] \in satellite \cup {Ghost}
    BY <2>1, <2>2 DEF MeantInv
  <2>4. ASSUME dimVerdict = "accepted", NEW m \in meant'
        PROVE  \E r \in dim : r.key = m[1] /\ r.attributes = m[2]
    BY <2>1, <2>4 DEF MeantInv, FactKeysSurviveRebuilds
  <2> QED
    BY <1>1, <1>2, <2>3, <2>4 DEF MeantInv, FactKeysSurviveRebuilds
<1>4. CASE ~ FactRead
  <2>1. meant' = meant
    BY <1>4 DEF StarNext, LandPayments, LandQuotes, LoadCalendar, FactWrite, FactVerify,
                FactCrash
  <2> QED
    BY <1>1, <1>2, <2>1 DEF MeantInv, FactKeysSurviveRebuilds
<1> QED
  BY <1>3, <1>4

\* Every key a fact build resolved to names, in each dimension accepted later, the
\* version it named then (gold/dimensions.py: the surrogate key of _versioned).
THEOREM KeysSurviveRebuilds == Spec => []FactKeysSurviveRebuilds
<1>1. Init => MeantInv
  BY MeantInitInv
<1>2. MeantInv /\ [Next]_vars => MeantInv'
  <2>1. ASSUME MeantInv, UNCHANGED vars PROVE MeantInv'
    BY <2>1 DEF MeantInv, DimInv, DimensionIsDerived, FactKeysSurviveRebuilds, vars
  <2> QED
    BY <2>1, MeantDimStep, MeantStarStep DEF Next
<1>3. MeantInv => FactKeysSurviveRebuilds
  BY DEF MeantInv
<1> QED
  BY <1>1, <1>2, <1>3, PTL DEF Spec

-----------------------------------------------------------------------------
(* Each lookup has one answer.                                             *)

InForceAt(D, c, t) == {x \in D : x.company = c /\ InForce(x, t)}

\* A counterparty resolves to one surrogate key.
LEMMA ResolvedOnce ==
  ASSUME DimInv, DimensionPartitionsTime,
         NEW c \in Company, NEW t \in Floor..(Ceiling - 1)
  PROVE  \E k : Resolved(dim, c, t) = {k}
<1> DEFINE hits == InForceAt(dim, c, t)
<1>1. Resolved(dim, c, t) =
        IF {r.key : r \in hits} = {} THEN {Ghost} ELSE {r.key : r \in hits}
  BY DEF Resolved, InForceAt
<1>2. CASE hits = {}
  BY <1>1, <1>2
<1>3. CASE hits # {}
  <2>1. c \in {r.company : r \in dim}
    BY <1>3 DEF InForceAt
  <2>2. Cardinality({r \in dim : r.company = c /\ r.from <= t /\ t < r.to}) = 1
    BY <2>1 DEF DimensionPartitionsTime
  <2>3. hits = {r \in dim : r.company = c /\ r.from <= t /\ t < r.to}
    BY DEF InForceAt, InForce
  <2>4. IsFiniteSet(hits)
    BY DerivedIsFinite, FS_Subset DEF InForceAt
  <2>5. PICK r : hits = {r}
    BY <2>2, <2>3, <2>4, FS_Singleton
  <2>6. {x.key : x \in hits} = {r.key}
    BY <2>5
  <2> QED
    BY <1>1, <2>6
<1> QED
  BY <1>2, <1>3

\* Reduced quotes: one per quote date, of a natural date and instant.
LEMMA ReducedQuotes ==
  ASSUME NEW Q \in SUBSET Quote
  PROVE  /\ \A q \in Reduced(Q) : q.day \in Nat /\ q.published \in Nat
         /\ \A q, r \in Reduced(Q) : q.day = r.day => q = r
<1>1. ASSUME NEW q \in Q PROVE q.day \in Nat /\ q.published \in Nat
  BY StarAssumption, DimensionAssumption DEF Floor
<1> DEFINE OfDay(d) ==
      [day       |-> d,
       rate      |-> Min({r.rate : r \in QuotesOf(Q, d)}),
       published |-> Min({r.published : r \in QuotesOf(Q, d)})]
<1>2. Reduced(Q) = {OfDay(q.day) : q \in Q}
  BY DEF Reduced
<1>3. ASSUME NEW q \in Q
      PROVE  OfDay(q.day).day = q.day /\ OfDay(q.day).published \in Nat
  <2> DEFINE instants == {r.published : r \in QuotesOf(Q, q.day)}
  <2>1. instants \in SUBSET Nat /\ instants # {}
    BY <1>1 DEF QuotesOf
  <2>2. Min(instants) \in Nat
    BY <2>1, MinIsLeast
  <2> QED
    BY <2>2
<1> HIDE DEF OfDay
<1> QED
  BY <1>1, <1>2, <1>3

\* At an instant no two quotes are in force.
LEMMA OneQuoteInForce ==
  ASSUME NEW Q \in SUBSET Quote, NEW t \in Int,
         NEW x \in RateIntervals(Q), NEW y \in RateIntervals(Q),
         InForce(x, t), InForce(y, t)
  PROVE  x = y
<1> DEFINE R        == Reduced(Q)
           later(q) == {r \in R : Precedes(q, r)}
           End(q)   == IF later(q) = {} THEN Ceiling
                       ELSE Min({r.published : r \in later(q)})
           Span(q)  == [day |-> q.day, rate |-> q.rate, from |-> q.published, to |-> End(q)]
<1>1. RateIntervals(Q) = {Span(q) : q \in R}
  BY DEF RateIntervals
<1>2. /\ \A q \in R : q.day \in Nat /\ q.published \in Nat
      /\ \A q, r \in R : q.day = r.day => q = r
  BY ReducedQuotes
<1>3. \A q : Span(q).from = q.published /\ Span(q).to = End(q)
  OBVIOUS
<1>4. ASSUME NEW q \in R, NEW r \in R, Precedes(q, r) PROVE End(q) \in Nat /\ End(q) <= r.published
  <2> DEFINE instants == {z.published : z \in later(q)}
  <2>1. instants \in SUBSET Nat /\ r.published \in instants
    BY <1>2, <1>4
  <2>2. Min(instants) \in instants /\ Min(instants) <= r.published
    BY <2>1, MinIsLeast
  <2>3. End(q) = Min(instants)
    BY <1>4
  <2> HIDE DEF End, instants
  <2> QED
    BY <2>1, <2>2, <2>3
<1>5. PICK q \in R : x = Span(q)
  BY <1>1
<1>6. PICK r \in R : y = Span(r)
  BY <1>1
<1>7. q.published <= t /\ t < End(q) /\ r.published <= t /\ t < End(r)
  <2> HIDE DEF Span
  <2> QED
    BY <1>3, <1>5, <1>6 DEF InForce
<1> HIDE DEF R, later, End, Span
<1>8. ~ Precedes(q, r)
  BY <1>2, <1>4, <1>7
<1>9. ~ Precedes(r, q)
  BY <1>2, <1>4, <1>7
<1>10. q = r
  BY <1>2, <1>8, <1>9 DEF Precedes
<1> QED
  BY <1>5, <1>6, <1>10

\* A payment converts at one rate, or at none.
LEMMA ConvertedOnce ==
  ASSUME NEW Q \in SUBSET Quote, NEW p, p.at \in Int
  PROVE  \E z : Converted(p, RateIntervals(Q)) = {z}
<1> DEFINE hits == {y \in RateIntervals(Q) : InForce(y, p.at)}
           Of(x) == [rate |-> x.rate, day |-> x.day]
<1>1. Converted(p, RateIntervals(Q)) =
        IF ~ p.foreign THEN {[rate |-> Domestic, day |-> DayOf(p.at)]}
        ELSE IF {Of(x) : x \in hits} = {} THEN {[rate |-> NoRate, day |-> DayOf(p.at)]}
        ELSE {Of(x) : x \in hits}
  BY DEF Converted
<1>2. \A x, y \in hits : x = y
  BY OneQuoteInForce
<1>3. {Of(x) : x \in hits} = {} \/ \E z : {Of(x) : x \in hits} = {z}
  <2>1. CASE hits = {}
    BY <2>1
  <2>2. CASE hits # {}
    <3>1. PICK x : x \in hits
      BY <2>2
    <3>2. hits = {x}
      BY <1>2, <3>1
    <3>3. {Of(y) : y \in hits} = {Of(x)}
      BY <3>2
    <3> QED
      BY <3>3
  <2> QED
    BY <2>1, <2>2
<1> HIDE DEF Of, hits
<1> QED
  BY <1>1, <1>3

\* One delivery of each payment is kept.
LEMMA DeduplicatedOnce ==
  ASSUME NEW P
  PROVE  /\ Deduplicated(P) \in SUBSET P
         /\ \A p, q \in Deduplicated(P) : p.id = q.id => p = q
         /\ {p.id : p \in Deduplicated(P)} = {p.id : p \in P}
<1> DEFINE Kept(i) == CHOOSE q \in P : q.id = i
<1>1. Deduplicated(P) = {Kept(p.id) : p \in P}
  BY DEF Deduplicated
<1>2. \A p \in P : Kept(p.id) \in P /\ Kept(p.id).id = p.id
  OBVIOUS
<1> HIDE DEF Kept
<1> QED
  BY <1>1, <1>2

\* The rows derived are one per identity delivered.
LEMMA FactRowsOnce ==
  ASSUME DimInv, DimensionPartitionsTime,
         NEW P \in SUBSET Payment, NEW Q \in SUBSET Quote
  PROVE  /\ \A r, s \in FactRows(P, dim, RateIntervals(Q)) : r.id = s.id => r = s
         /\ {r.id : r \in FactRows(P, dim, RateIntervals(Q))} = {p.id : p \in P}
<1> DEFINE intervals == RateIntervals(Q)
           RowsOf(p) == {[id |-> p.id, payer |-> x, payee |-> y, rate |-> z.rate,
                          rateDay |-> z.day, at |-> p.at, file |-> p.file] :
                           x \in Resolved(dim, p.payer, p.at),
                           y \in Resolved(dim, p.payee, p.at),
                           z \in Converted(p, intervals)}
           rows == FactRows(P, dim, intervals)
<1>1. rows = UNION {RowsOf(p) : p \in Deduplicated(P)}
  BY DEF FactRows
<1>2. ASSUME NEW p \in Deduplicated(P)
      PROVE  \E r : RowsOf(p) = {r} /\ r.id = p.id
  <2>1. /\ p.payer \in Company /\ p.payee \in Company
        /\ p.at \in Floor..(Ceiling - 1)
    BY DeduplicatedOnce, StarAssumption
  <2>2. p.at \in Int
    BY <2>1
  <2>3. PICK x : Resolved(dim, p.payer, p.at) = {x}
    BY <2>1, ResolvedOnce
  <2>4. PICK y : Resolved(dim, p.payee, p.at) = {y}
    BY <2>1, ResolvedOnce
  <2>5. PICK z : Converted(p, intervals) = {z}
    BY <2>2, ConvertedOnce
  <2> HIDE DEF intervals
  <2> DEFINE row == [id |-> p.id, payer |-> x, payee |-> y, rate |-> z.rate,
                     rateDay |-> z.day, at |-> p.at, file |-> p.file]
  <2>6. RowsOf(p) = {row}
    BY <2>3, <2>4, <2>5
  <2>7. row.id = p.id
    OBVIOUS
  <2> HIDE DEF RowsOf, row
  <2> QED
    BY <2>6, <2>7
<1> HIDE DEF RowsOf, rows, intervals
<1>3. \A r \in rows : \E p \in Deduplicated(P) : RowsOf(p) = {r} /\ r.id = p.id
  BY <1>1, <1>2
<1>4. \A p \in Deduplicated(P) : \E r \in rows : RowsOf(p) = {r} /\ r.id = p.id
  BY <1>1, <1>2
<1>5. ASSUME NEW r \in rows, NEW s \in rows, r.id = s.id PROVE r = s
  <2>1. PICK p \in Deduplicated(P) : RowsOf(p) = {r} /\ r.id = p.id
    BY <1>3
  <2>2. PICK q \in Deduplicated(P) : RowsOf(q) = {s} /\ s.id = q.id
    BY <1>3
  <2>3. p = q
    BY <1>5, <2>1, <2>2, DeduplicatedOnce
  <2> QED
    BY <2>1, <2>2, <2>3
<1>6. {r.id : r \in rows} = {p.id : p \in Deduplicated(P)}
  BY <1>3, <1>4
<1> QED
  BY <1>5, <1>6, DeduplicatedOnce DEF rows, intervals

-----------------------------------------------------------------------------
(* The grain of the fact.                                                  *)

Delivered == {p.id : p \in payments}

\* What a build holds, and what the table is once it is appended, is one row per
\* identity of the payments the build read.
GrainInv ==
  /\ DimInv
  /\ payments \subseteq Payment /\ IsFiniteSet(payments) /\ quotes \subseteq Quote
  /\ factBuild.at \in {"idle", "derived", "written"}
  /\ factBuild.ids \subseteq Delivered
  /\ \A f, g \in fact : f.id = g.id => f = g
  /\ {f.id : f \in fact} \subseteq Delivered
  /\ factBuild.at = "derived" =>
       /\ \A r, s \in factBuild.rows : r.id = s.id => r = s
       /\ {r.id : r \in factBuild.rows} = factBuild.ids
       /\ {f.id : f \in fact} \subseteq factBuild.ids
  /\ factBuild.at = "written" => {f.id : f \in fact} = factBuild.ids
  /\ factVerdict # "drop_it"

LEMMA GrainInitInv ==
  ASSUME Init
  PROVE  GrainInv
BY DimInitInv, FS_EmptySet DEF Init, GrainInv, IdleFact, Delivered

\* Reading: the rows are those of the payments there are.
LEMMA GrainRead ==
  ASSUME GrainInv, FactRead, UNCHANGED dimVars
  PROVE  GrainInv'
<1>1. DimInv' /\ DimensionPartitionsTime
  BY DimStep, DerivedPartitions DEF GrainInv
<1> DEFINE rows == FactRows(payments, dim, RateIntervals(quotes))
<1>2. /\ factBuild'.at = "derived" /\ factBuild'.rows = rows
      /\ factBuild'.ids = Delivered
      /\ UNCHANGED <<payments, quotes, fact>> /\ factVerdict' = "none"
  BY DEF FactRead, Delivered
<1>3. /\ \A r, s \in rows : r.id = s.id => r = s
      /\ {r.id : r \in rows} = Delivered
  BY <1>1, FactRowsOnce DEF GrainInv, Delivered
<1>4. Delivered' = Delivered
  BY <1>2 DEF Delivered
<1> HIDE DEF rows
<1> QED
  BY <1>1, <1>2, <1>3, <1>4 DEF GrainInv

\* Appending: what the table held and what it lacked.
LEMMA GrainWrite ==
  ASSUME GrainInv, FactWrite, UNCHANGED dimVars
  PROVE  GrainInv'
<1>1. DimInv'
  BY DimStep DEF GrainInv
<1>2. /\ factBuild.at = "derived"
      /\ fact' = fact \cup {r \in factBuild.rows : \A f \in fact : f.id # r.id}
      /\ factBuild' = [factBuild EXCEPT !.at = "written", !.rows = {}]
      /\ UNCHANGED <<payments, quotes, factVerdict>>
  BY DEF FactWrite
<1>3. factBuild'.at = "written" /\ factBuild'.ids = factBuild.ids
  BY <1>2 DEF GrainInv
<1>4. \A f, g \in fact' : f.id = g.id => f = g
  BY <1>2 DEF GrainInv
<1>5. {f.id : f \in fact'} = factBuild.ids
  <2>1. \A f \in fact' : f.id \in factBuild.ids
    BY <1>2 DEF GrainInv
  <2>2. ASSUME NEW i \in factBuild.ids PROVE \E f \in fact' : f.id = i
    <3>1. PICK r \in factBuild.rows : r.id = i
      BY <1>2 DEF GrainInv
    <3> QED
      BY <1>2, <3>1
  <2> QED
    BY <2>1, <2>2
<1>6. Delivered' = Delivered
  BY <1>2 DEF Delivered
<1> QED
  BY <1>1, <1>2, <1>3, <1>4, <1>5, <1>6 DEF GrainInv

\* Counting: the table has as many rows as the build read identities.
LEMMA GrainCounts ==
  ASSUME GrainInv, factBuild.at = "written"
  PROVE  Cardinality(fact) = Cardinality(factBuild.ids)
<1> DEFINE idOf  == [p \in payments |-> p.id]
           rowId == [f \in fact |-> f.id]
<1>1. IsFiniteSet(Delivered)
  <2>1. idOf \in Surjection(payments, Delivered)
    BY DEF Surjection, Delivered
  <2> QED
    BY <2>1, FS_Surjection DEF GrainInv
<1>2. {f.id : f \in fact} = factBuild.ids
  BY DEF GrainInv
<1>3. IsFiniteSet(factBuild.ids)
  BY <1>1, FS_Subset DEF GrainInv
<1>4. rowId \in [fact -> factBuild.ids]
  BY <1>2
<1>5. rowId \in Injection(fact, factBuild.ids)
  BY <1>4 DEF Injection, IsInjective, GrainInv
<1>6. rowId \in Surjection(fact, factBuild.ids)
  BY <1>2, <1>4 DEF Surjection
<1> QED
  BY <1>3, <1>5, <1>6, FS_Injection

LEMMA GrainStarStep ==
  ASSUME GrainInv, StarNext, UNCHANGED dimVars
  PROVE  GrainInv'
<1>1. DimInv'
  BY DimStep DEF GrainInv
<1>2. ASSUME NEW batch \in PaymentLoads, LandPayments(batch) PROVE GrainInv'
  <2>1. batch \subseteq Payment /\ IsFiniteSet(batch)
    BY StarAssumption DEF Payment
  <2>2. /\ payments' = payments \cup batch
        /\ UNCHANGED <<quotes, fact, factBuild, factVerdict>>
    BY <1>2 DEF LandPayments
  <2>3. IsFiniteSet(payments')
    BY <2>1, <2>2, FS_Union DEF GrainInv
  <2>4. Delivered \subseteq Delivered'
    BY <2>2 DEF Delivered
  <2> QED
    BY <1>1, <2>1, <2>2, <2>3, <2>4 DEF GrainInv
<1>3. ASSUME NEW batch \in QuoteLoads, LandQuotes(batch) PROVE GrainInv'
  BY <1>1, <1>3 DEF LandQuotes, GrainInv, Delivered, Quote
<1>4. CASE LoadCalendar
  BY <1>1, <1>4 DEF LoadCalendar, GrainInv, Delivered
<1>5. CASE FactRead
  BY <1>5, GrainRead
<1>6. CASE FactWrite
  BY <1>6, GrainWrite
<1>7. CASE FactVerify
  <2>1. Cardinality(fact) = Cardinality(factBuild.ids)
    BY <1>7, GrainCounts DEF FactVerify
  <2>2. factVerdict' = "accepted" /\ factBuild' = IdleFact
    BY <1>7, <2>1 DEF FactVerify
  <2> QED
    BY <1>1, <1>7, <2>2 DEF FactVerify, GrainInv, IdleFact, Delivered
<1>8. CASE FactCrash
  BY <1>1, <1>8 DEF FactCrash, GrainInv, IdleFact, Delivered
<1> QED
  BY <1>2, <1>3, <1>4, <1>5, <1>6, <1>7, <1>8 DEF StarNext

LEMMA GrainStep ==
  ASSUME GrainInv, [Next]_vars
  PROVE  GrainInv'
<1>1. CASE UNCHANGED vars
  BY <1>1 DEF GrainInv, DimInv, DimensionIsDerived, Delivered, vars
<1>2. CASE DimNext /\ UNCHANGED starVars
  <2>1. DimInv'
    BY <1>2, DimStep DEF GrainInv
  <2> QED
    BY <1>2, <2>1 DEF GrainInv, Delivered, starVars
<1> QED
  BY <1>1, <1>2, GrainStarStep DEF Next

\* One row per payment event, whatever died, was dropped or rebuilt under the fact, and
\* no count ever has a table to refuse (gold/facts.py: load_fact).
THEOREM OneRowPerPayment == Spec => []FactGrain
<1>1. Init => GrainInv
  BY GrainInitInv
<1>2. GrainInv /\ [Next]_vars => GrainInv'
  BY GrainStep
<1>3. GrainInv => FactGrain
  BY DEF GrainInv, FactGrain
<1> QED
  BY <1>1, <1>2, <1>3, PTL DEF Spec


\* The fact's rows are one per payment, and every key they store keeps its meaning
\* in every dimension accepted later.
THEOREM RowsStand == Spec => []FactRowsStand
<1>1. FactGrain /\ FactKeysSurviveRebuilds => FactRowsStand
  BY DEF FactRowsStand
<1> QED
  BY <1>1, OneRowPerPayment, KeysSurviveRebuilds, PTL

-----------------------------------------------------------------------------
(* What a row of the fact tells of its payment.                            *)

\* A counterparty resolves to its version as of the instant asked for.
LEMMA ResolvesAsOf ==
  ASSUME DimInv, NEW c \in Company, NEW t \in Floor..(Ceiling - 1)
  PROVE  Resolved(dim, c, t) = {VersionAsOf(c, t)}
<1> DEFINE hits == {x \in dim : x.company = c /\ InForce(x, t)}
           days == {r.attributes[2] : r \in {x \in dim : x.company = c}}
           past == {d \in days : Midnight(d) <= t}
<1>1. Resolved(dim, c, t) =
        IF {r.key : r \in hits} = {} THEN {Ghost} ELSE {r.key : r \in hits}
  BY DEF Resolved
<1>2. VersionAsOf(c, t) =
        IF days = {} THEN Ghost
        ELSE IF past = {} THEN <<c, Min(days)>> ELSE <<c, Max(past)>>
  BY DEF VersionAsOf
<1>3. CASE {x \in dim : x.company = c} = {}
  <2>1. hits = {} /\ days = {}
    BY <1>3
  <2> HIDE DEF hits, days, past
  <2> QED
    BY <1>1, <1>2, <2>1
<1>4. CASE {x \in dim : x.company = c} # {}
  <2>1. PICK H \in SUBSET Company, S \in SUBSET satellite : dim = DimensionRows(H, S)
    BY <1>4 DEF DimInv, DimensionIsDerived
  <2> DEFINE V == Keyed(H, S)
  <2>2. S \in SUBSET Version
    BY <2>1 DEF DimInv
  <2>3. /\ V \in SUBSET Version
        /\ \A r \in dim : r = GhostRow \/ \E v \in V : r = RowOf(V, v)
        /\ \A v \in V : RowOf(V, v) \in dim
    BY <2>1, <2>2, DimensionMember
  <2> HIDE DEF V
  <2>4. \A v \in V : /\ RowOf(V, v).company = v[1] /\ RowOf(V, v).key = v
                     /\ RowOf(V, v).attributes = v /\ v = <<v[1], v[2]>>
    <3>1. V \in SUBSET Version
      BY <2>3
    <3> QED
      BY <3>1, RowBounds
  <2>5. c # GhostRow.company
    BY DimensionAssumption DEF GhostRow
  <2>6. \A x \in dim : x.company = c => \E v \in V : v[1] = c /\ x = RowOf(V, v)
    BY <2>3, <2>4, <2>5
  <2>7. \E v \in V : v[1] = c
    BY <1>4, <2>6
  <2>8. \E v \in V : /\ v[1] = c /\ Covers(V, v, t) /\ v[2] = DateAsOf(V, c, t)
                     /\ \A w \in V : w[1] = c /\ Covers(V, w, t) => w = v
    <3>1. V \in SUBSET Version
      BY <2>3
    <3> QED
      BY ONLY <2>7, <3>1, t \in Floor..(Ceiling - 1), OneVersionInForce
  <2>9. PICK v \in V : /\ v[1] = c /\ Covers(V, v, t) /\ v[2] = DateAsOf(V, c, t)
                       /\ \A w \in V : w[1] = c /\ Covers(V, w, t) => w = v
    BY <2>8
  <2>10. {r.key : r \in hits} = {v}
    <3>1. RowOf(V, v) \in hits /\ RowOf(V, v).key = v
      BY <2>3, <2>4, <2>9 DEF Covers, InForce
    <3>2. ASSUME NEW x \in hits PROVE x.key = v
      <4>1. PICK w \in V : w[1] = c /\ x = RowOf(V, w)
        BY <2>6
      <4> QED
        BY <2>4, <2>9, <4>1 DEF Covers, InForce
    <3> HIDE DEF hits
    <3> QED
      BY <3>1, <3>2
  <2>11. days = Dates(V, c)
    <3>1. \A w \in V : w[1] = c =>
            RowOf(V, w) \in {x \in dim : x.company = c} /\ RowOf(V, w).attributes[2] = w[2]
      BY <2>3, <2>4
    <3>2. \A x \in dim : x.company = c => \E w \in V : w[1] = c /\ x.attributes[2] = w[2]
      BY <2>4, <2>6
    <3> QED
      BY <3>1, <3>2 DEF Dates
  <2>12. days # {}
    BY <1>4
  <2>13. VersionAsOf(c, t) = <<c, DateAsOf(V, c, t)>>
    <3> HIDE DEF days
    <3>1. past = {d \in Dates(V, c) : Midnight(d) <= t}
      BY <2>11
    <3> HIDE DEF past
    <3> QED
      BY <1>2, <2>11, <2>12, <3>1 DEF DateAsOf
  <2>14. v = <<c, DateAsOf(V, c, t)>>
    BY <2>4, <2>9
  <2> HIDE DEF hits, days, past
  <2> QED
    BY <1>1, <2>10, <2>13, <2>14
<1> QED
  BY <1>3, <1>4

\* The instant a quote date was first published.
FirstOf(Q, d) == Min({q.published : q \in QuotesOf(Q, d)})

LEMMA FirstIsPublished ==
  ASSUME NEW Q \in SUBSET Quote, NEW q \in Q
  PROVE  /\ FirstOf(Q, q.day) \in Nat /\ FirstOf(Q, q.day) <= q.published
         /\ \E r \in QuotesOf(Q, q.day) : r.published = FirstOf(Q, q.day)
<1> DEFINE instants == {r.published : r \in QuotesOf(Q, q.day)}
<1>1. \A r \in Q : r.published \in Nat
  BY StarAssumption, DimensionAssumption DEF Floor
<1>2. instants \in SUBSET Nat /\ q.published \in instants
  BY <1>1 DEF QuotesOf
<1>3. FirstOf(Q, q.day) = Min(instants)
  BY DEF FirstOf
<1>4. Min(instants) \in instants /\ Min(instants) <= q.published
  BY <1>2, MinIsLeast
<1> QED
  BY <1>2, <1>3, <1>4

\* A foreign payment that converts does so at the rate of the last date quoted
\* before it.
LEMMA ConvertsAtTheLast ==
  ASSUME quotes \in SUBSET Quote, NEW p, p.foreign, p.at \in Int,
         NEW z \in Converted(p, RateIntervals(quotes)), z.rate # NoRate
  PROVE  /\ LastQuoteAt(z.day, p.at)
         /\ \E q \in QuotesOf(quotes, z.day) : q.rate = z.rate
         /\ FirstOf(quotes, z.day) <= p.at
<1> DEFINE hits  == {y \in RateIntervals(quotes) : InForce(y, p.at)}
           Of(x) == [rate |-> x.rate, day |-> x.day]
           R        == Reduced(quotes)
           later(q) == {r \in R : Precedes(q, r)}
           End(q)   == IF later(q) = {} THEN Ceiling
                       ELSE Min({r.published : r \in later(q)})
           Span(q)  == [day |-> q.day, rate |-> q.rate, from |-> q.published, to |-> End(q)]
           RateOf(d) == Min({r.rate : r \in QuotesOf(quotes, d)})
           OfDay(d) == [day |-> d, rate |-> RateOf(d), published |-> FirstOf(quotes, d)]
<1>1. PICK x \in hits : z = Of(x)
  <2>1. z.rate = NoRate \/ z \in {Of(x) : x \in hits}
    BY DEF Converted
  <2> QED
    BY <2>1
<1>2. RateIntervals(quotes) = {Span(q) : q \in R}
  BY DEF RateIntervals
<1>3. R = {OfDay(q.day) : q \in quotes}
  BY DEF Reduced, FirstOf
<1>a. PICK k \in R : x = Span(k)
  BY <1>2
<1>b. PICK q \in quotes : k = OfDay(q.day)
  <2> HIDE DEF OfDay
  <2> QED
    BY <1>3
<1>4. x = Span(OfDay(q.day))
  BY <1>a, <1>b
<1>5. /\ z.day = q.day /\ z.rate = RateOf(q.day)
      /\ FirstOf(quotes, q.day) <= p.at /\ p.at < End(OfDay(q.day))
  <2>1. x.day = q.day /\ x.rate = RateOf(q.day) /\ x.from = FirstOf(quotes, q.day)
        /\ x.to = End(OfDay(q.day))
    BY <1>4
  <2>2. x.from <= p.at /\ p.at < x.to
    BY <1>1 DEF InForce
  <2> HIDE DEF End, RateOf
  <2> QED
    BY <1>1, <2>1, <2>2
<1>6. \E r \in QuotesOf(quotes, z.day) : r.rate = z.rate
  <2> DEFINE rates == {r.rate : r \in QuotesOf(quotes, q.day)}
  <2>1. rates \in SUBSET Nat /\ rates # {}
    BY StarAssumption DEF QuotesOf
  <2>2. Min(rates) \in rates
    BY <2>1, MinIsLeast
  <2> QED
    BY <1>5, <2>2
<1>7. /\ \A r \in R : r.day \in Nat /\ r.published \in Nat
      /\ OfDay(q.day) \in R
  BY <1>3, ReducedQuotes
<1>8. ASSUME NEW e \in quotes, e.published <= p.at, e.day # q.day
      PROVE  \/ FirstOf(quotes, e.day) < FirstOf(quotes, q.day)
             \/ FirstOf(quotes, e.day) = FirstOf(quotes, q.day) /\ e.day < q.day
  <2>1. /\ FirstOf(quotes, e.day) \in Nat /\ FirstOf(quotes, e.day) <= p.at
        /\ FirstOf(quotes, q.day) \in Nat
    <3>1. e.published \in Nat
      BY StarAssumption, DimensionAssumption DEF Floor
    <3> QED
      BY <1>8, <3>1, FirstIsPublished
  <2>2. OfDay(e.day) \in R /\ e.day \in Nat /\ q.day \in Nat
    BY <1>3, StarAssumption, DimensionAssumption
  <2>3. ~ Precedes(OfDay(q.day), OfDay(e.day))
    <3>1. SUFFICES ASSUME OfDay(e.day) \in later(OfDay(q.day)) PROVE FALSE
      BY <2>2
    <3> DEFINE instants == {r.published : r \in later(OfDay(q.day))}
    <3>2. OfDay(e.day).published = FirstOf(quotes, e.day)
      OBVIOUS
    <3>3. instants \in SUBSET Nat /\ FirstOf(quotes, e.day) \in instants
      BY <1>7, <3>1, <3>2
    <3>4. End(OfDay(q.day)) = Min(instants)
      BY <3>1
    <3>5. Min(instants) \in Nat /\ Min(instants) <= FirstOf(quotes, e.day)
      BY <3>3, MinIsLeast
    <3> HIDE DEF instants, End
    <3> QED
      BY <1>5, <2>1, <3>4, <3>5
  <2>4. /\ OfDay(q.day).published = FirstOf(quotes, q.day) /\ OfDay(q.day).day = q.day
        /\ OfDay(e.day).published = FirstOf(quotes, e.day) /\ OfDay(e.day).day = e.day
    OBVIOUS
  <2> HIDE DEF OfDay
  <2> QED
    BY <1>8, <2>1, <2>2, <2>3, <2>4 DEF Precedes
<1>9. q.day \in {r.day : r \in {w \in quotes : w.published <= p.at}}
  <2>1. PICK r \in QuotesOf(quotes, q.day) : r.published = FirstOf(quotes, q.day)
    BY FirstIsPublished
  <2>2. r \in quotes /\ r.day = q.day /\ r.published <= p.at
    BY <1>5, <2>1 DEF QuotesOf
  <2> QED
    BY <2>2
<1>10. LastQuoteAt(q.day, p.at)
  BY <1>8, <1>9 DEF LastQuoteAt, FirstOf
<1> HIDE DEF RateOf, End
<1> QED
  BY <1>5, <1>6, <1>10

\* Every row in the table or about to be is of a landed payment, and of a day whose
\* quote it converted at, or of its own.
Held == fact \cup factBuild.rows

OfAPayment(f) == \E p \in payments : f.at = p.at

AtAQuote(f) ==
  \/ f.rate = Domestic /\ f.rateDay = DayOf(f.at)
  \/ /\ \E q \in quotes : q.day = f.rateDay /\ q.rate = f.rate
     /\ \E q \in quotes : q.day = f.rateDay /\ q.published <= f.at

\* No day of the calendar is outside what it was built to span.
TellsInv ==
  /\ GrainInv
  /\ \A f \in Held : OfAPayment(f) /\ AtAQuote(f)
  /\ \A f, g \in Held :
       f.rateDay = g.rateDay /\ Domestic \notin {f.rate, g.rate} => f.rate = g.rate
  /\ calendar \subseteq Nat
  /\ \A d \in calendar : \E lo, hi \in SpanEnds : lo <= d /\ d <= hi

\* What is derived tells of its payment.
LEMMA DerivedTells ==
  ASSUME GrainInv, NEW r \in FactRows(payments, dim, RateIntervals(quotes)), r.rate # NoRate
  PROVE  /\ \E p \in payments :
              /\ r.id = p.id /\ r.at = p.at /\ r.file = p.file
              /\ r.payer = VersionAsOf(p.payer, p.at)
              /\ r.payee = VersionAsOf(p.payee, p.at)
              /\ p.foreign => /\ LastQuoteAt(r.rateDay, p.at)
                              /\ \E q \in QuotesOf(quotes, r.rateDay) : q.rate = r.rate
         /\ OfAPayment(r) /\ AtAQuote(r)
<1> DEFINE RowsOf(p) == {[id |-> p.id, payer |-> x, payee |-> y, rate |-> z.rate,
                          rateDay |-> z.day, at |-> p.at, file |-> p.file] :
                           x \in Resolved(dim, p.payer, p.at),
                           y \in Resolved(dim, p.payee, p.at),
                           z \in Converted(p, RateIntervals(quotes))}
<1>0. FactRows(payments, dim, RateIntervals(quotes)) =
        UNION {RowsOf(p) : p \in Deduplicated(payments)}
  BY DEF FactRows
<1>1. PICK p \in Deduplicated(payments) : r \in RowsOf(p)
  <2> HIDE DEF RowsOf
  <2> QED
    BY <1>0
<1>2. p \in payments /\ p \in Payment
  BY DeduplicatedOnce DEF GrainInv
<1>3. PICK x \in Resolved(dim, p.payer, p.at), y \in Resolved(dim, p.payee, p.at),
           z \in Converted(p, RateIntervals(quotes)) :
        r = [id |-> p.id, payer |-> x, payee |-> y, rate |-> z.rate,
             rateDay |-> z.day, at |-> p.at, file |-> p.file]
  BY <1>1
<1> HIDE DEF RowsOf
<1>4. /\ r.id = p.id /\ r.payer = x /\ r.payee = y /\ r.rate = z.rate
      /\ r.rateDay = z.day /\ r.at = p.at /\ r.file = p.file
  BY <1>3
<1>5. /\ p.payer \in Company /\ p.payee \in Company
      /\ p.at \in Floor..(Ceiling - 1) /\ p.at \in Int /\ p.foreign \in BOOLEAN
  BY <1>2, StarAssumption
<1>6. x = VersionAsOf(p.payer, p.at) /\ y = VersionAsOf(p.payee, p.at)
  <2>1. /\ Resolved(dim, p.payer, p.at) = {VersionAsOf(p.payer, p.at)}
        /\ Resolved(dim, p.payee, p.at) = {VersionAsOf(p.payee, p.at)}
    BY <1>5, ResolvesAsOf DEF GrainInv
  <2> QED
    BY <2>1
<1>7. p.foreign => /\ LastQuoteAt(z.day, p.at)
                   /\ \E q \in QuotesOf(quotes, z.day) : q.rate = z.rate
                   /\ FirstOf(quotes, z.day) <= p.at
  <2>1. quotes \in SUBSET Quote /\ z.rate # NoRate
    BY <1>4 DEF GrainInv
  <2> QED
    BY <1>5, <2>1, ConvertsAtTheLast
<1>8. ~ p.foreign => z.rate = Domestic /\ z.day = DayOf(p.at)
  BY <1>3 DEF Converted
<1>9. AtAQuote(r)
  <2>1. CASE p.foreign
    <3>1. PICK q \in quotes : q.day = z.day /\ q.rate = z.rate
      BY <1>7, <2>1 DEF QuotesOf
    <3>2. \E k \in QuotesOf(quotes, q.day) : k.published = FirstOf(quotes, q.day)
      BY FirstIsPublished DEF GrainInv
    <3>3. \E k \in quotes : k.day = z.day /\ k.published <= p.at
      BY <1>7, <2>1, <3>1, <3>2 DEF QuotesOf
    <3> QED
      BY <1>4, <3>1, <3>3 DEF AtAQuote
  <2>2. CASE ~ p.foreign
    BY <1>4, <1>8, <2>2 DEF AtAQuote
  <2> QED
    BY <2>1, <2>2
<1> QED
  BY <1>2, <1>4, <1>6, <1>7, <1>9 DEF OfAPayment

\* Landed quotes, payments and versions stay: what was told stays told.
LEMMA StaysTold ==
  ASSUME TellsInv, GrainInv', quotes \subseteq quotes', payments \subseteq payments',
         satellite \subseteq satellite', Held' \subseteq Held, calendar' = calendar
  PROVE  TellsInv'
<1>1. SpanEnds \subseteq SpanEnds'
  BY DEF SpanEnds, SnapshotDates
<1>2. \A d \in calendar' : \E lo, hi \in SpanEnds' : lo <= d /\ d <= hi
  BY <1>1 DEF TellsInv
<1>3. ASSUME NEW f \in Held' PROVE OfAPayment(f)' /\ AtAQuote(f)'
  BY <1>3 DEF TellsInv, OfAPayment, AtAQuote
<1>4. \A f, g \in Held' :
        f.rateDay = g.rateDay /\ Domestic \notin {f.rate, g.rate} => f.rate = g.rate
  BY DEF TellsInv
<1> QED
  BY <1>2, <1>3, <1>4 DEF TellsInv

\* A build reads only quotes that agree on a date's rate, and what the table holds
\* was converted at some of them.
LEMMA TellsRead ==
  ASSUME TellsInv, GrainInv', FactRead, UNCHANGED dimVars
  PROVE  TellsInv'
<1> DEFINE rows == FactRows(payments, dim, RateIntervals(quotes))
<1>1. /\ factBuild'.rows = rows /\ Reduces(quotes) /\ \A r \in rows : r.rate # NoRate
      /\ UNCHANGED <<payments, quotes, calendar, fact, satellite>>
  BY DEF FactRead, dimVars
<1>2. \A r \in rows : OfAPayment(r) /\ AtAQuote(r)
  BY <1>1, DerivedTells DEF TellsInv
<1> HIDE DEF rows
<1>3. Held' \subseteq Held \cup rows
  BY <1>1 DEF Held
<1>4. \A f \in Held' : OfAPayment(f) /\ AtAQuote(f)
  BY <1>2, <1>3 DEF TellsInv
<1>5. \A f \in Held' : OfAPayment(f)' /\ AtAQuote(f)'
  BY <1>1, <1>4 DEF OfAPayment, AtAQuote
<1>6. ASSUME NEW f \in Held', NEW g \in Held',
             f.rateDay = g.rateDay, Domestic \notin {f.rate, g.rate}
      PROVE  f.rate = g.rate
  <2>1. PICK q \in quotes : q.day = f.rateDay /\ q.rate = f.rate
    BY <1>4, <1>6 DEF AtAQuote
  <2>2. PICK k \in quotes : k.day = g.rateDay /\ k.rate = g.rate
    BY <1>4, <1>6 DEF AtAQuote
  <2> QED
    BY <1>1, <1>6, <2>1, <2>2 DEF Reduces
<1>7. calendar' \subseteq Nat /\ \A d \in calendar' : \E lo, hi \in SpanEnds' : lo <= d /\ d <= hi
  BY <1>1 DEF TellsInv, SpanEnds
<1> QED
  BY <1>5, <1>6, <1>7 DEF TellsInv

\* The calendar's span is of days, and has a first and a last.
LEMMA SpanBounds ==
  ASSUME GrainInv, SpanEnds # {}
  PROVE  /\ SpanEnds \subseteq Nat
         /\ Min(SpanEnds) \in SpanEnds /\ Max(SpanEnds) \in SpanEnds
         /\ \A d \in SpanEnds : Min(SpanEnds) <= d /\ d <= Max(SpanEnds)
<1>1. SpanEnds \subseteq Day
  BY StarAssumption DEF SpanEnds, SnapshotDates, GrainInv, DimInv, Version
<1>2. SpanEnds \in SUBSET Nat /\ Ceiling \in Nat
  BY <1>1, DimensionAssumption
<1>3. ASSUME NEW d \in SpanEnds PROVE d <= Ceiling
  <2>1. d \in Nat /\ d <= Midnight(d) /\ Midnight(d) < Ceiling /\ Midnight(d) \in Nat
    BY <1>1, <1>2, DimensionAssumption, MidnightMonotone
  <2> QED
    BY <1>2, <2>1
<1>4. \E x \in SpanEnds : \A y \in SpanEnds : y <= x
  BY <1>2, <1>3, HasGreatest
<1>5. \A x, y \in SpanEnds : y <= x <=> x >= y
  BY <1>2
<1>6. \E x \in SpanEnds : \A y \in SpanEnds : x >= y
  BY <1>4, <1>5
<1>7. Max(SpanEnds) \in SpanEnds /\ \A y \in SpanEnds : Max(SpanEnds) >= y
  BY <1>6 DEF Max
<1>8. Min(SpanEnds) \in SpanEnds /\ \A y \in SpanEnds : Min(SpanEnds) <= y
  BY <1>2, MinIsLeast
<1> QED
  BY <1>2, <1>5, <1>7, <1>8

LEMMA TellsStep ==
  ASSUME TellsInv, GrainInv', [Next]_vars
  PROVE  TellsInv'
<1>1. CASE UNCHANGED vars
  BY <1>1, StaysTold DEF vars, Held
<1>2. CASE DimNext /\ UNCHANGED starVars
  <2>1. satellite \subseteq satellite'
    BY <1>2 DEF DimNext, LoadHub, LoadSatellite, DimensionRead, DimensionWrite, DimensionVerify,
       DimensionCrash, DropDimension, vaultVars
  <2> QED
    BY <1>2, <2>1, StaysTold DEF starVars, Held
<1>3. CASE StarNext /\ UNCHANGED dimVars
  <2>0. satellite' = satellite
    BY <1>3 DEF dimVars
  <2>1. ASSUME NEW batch \in PaymentLoads, LandPayments(batch) PROVE TellsInv'
    BY <2>0, <2>1, StaysTold DEF LandPayments, Held
  <2>2. ASSUME NEW batch \in QuoteLoads, LandQuotes(batch) PROVE TellsInv'
    BY <2>0, <2>2, StaysTold DEF LandQuotes, Held
  <2>3. CASE LoadCalendar
    <3>1. /\ SpanEnds # {} /\ UNCHANGED <<payments, quotes, fact, factBuild>>
          /\ calendar' = calendar \cup (Min(SpanEnds)..Max(SpanEnds))
      BY <2>3 DEF LoadCalendar
    <3>2. SpanEnds' = SpanEnds /\ Held' = Held
      BY <2>0, <3>1 DEF SpanEnds, Held
    <3>3. \A d \in calendar' : \E lo, hi \in SpanEnds : lo <= d /\ d <= hi
      BY <3>1, SpanBounds DEF TellsInv
    <3>4. \A f \in Held' : OfAPayment(f)' /\ AtAQuote(f)'
      BY <3>1, <3>2 DEF TellsInv, OfAPayment, AtAQuote
    <3>5. calendar' \subseteq Nat
      <4>1. Min(SpanEnds) \in Nat /\ Max(SpanEnds) \in Nat
        BY <3>1, SpanBounds DEF TellsInv
      <4>2. Min(SpanEnds)..Max(SpanEnds) \subseteq Nat
        BY <4>1
      <4> QED
        BY <3>1, <4>2 DEF TellsInv
    <3> QED
      BY <3>2, <3>3, <3>4, <3>5 DEF TellsInv
  <2>4. CASE FactRead
    BY <1>3, <2>4, TellsRead
  <2>5. CASE FactWrite
    <3>1. factBuild'.rows \subseteq factBuild.rows /\ fact' \subseteq fact \cup factBuild.rows
      BY <2>5 DEF FactWrite
    <3> QED
      BY <2>0, <2>5, <3>1, StaysTold DEF FactWrite, Held
  <2>6. CASE FactVerify \/ FactCrash
    BY <2>0, <2>6, StaysTold DEF FactVerify, FactCrash, Held, IdleFact
  <2> QED
    BY <1>3, <2>1, <2>2, <2>3, <2>4, <2>5, <2>6 DEF StarNext
<1> QED
  BY <1>1, <1>2, <1>3 DEF Next

\* A quote date is no later than the payment converted at it, so over a current
\* calendar it is in it or before all of it.
LEMMA NoLateOrphans ==
  ASSUME TellsInv
  PROVE  OrphansPrecedeTheCalendar
<1> SUFFICES ASSUME CalendarIsCurrent, NEW f \in fact
             PROVE  /\ DayOf(f.at) \in calendar
                    /\ f.rateDay \in calendar \/ f.rateDay < Min(calendar)
  BY DEF OrphansPrecedeTheCalendar
<1> DEFINE paid == DayOf(f.at)
           first == Min(SpanEnds)
           last == Max(SpanEnds)
<1>1. PICK p \in payments : f.at = p.at
  BY DEF TellsInv, Held, OfAPayment
<1>2. paid \in SpanEnds
  BY <1>1 DEF SpanEnds
<1>3. /\ SpanEnds \subseteq Nat /\ first \in SpanEnds /\ last \in SpanEnds
      /\ \A d \in SpanEnds : first <= d /\ d <= last
      /\ first..last \subseteq calendar
  BY SpanBounds DEF CalendarIsCurrent, TellsInv
<1>4. f.at \in Nat
  BY <1>1, StarAssumption, DimensionAssumption DEF TellsInv, GrainInv, Floor
<1>5. f.rateDay \in Nat /\ f.rateDay <= paid
  <2>1. CASE f.rate = Domestic /\ f.rateDay = DayOf(f.at)
    <3>1. paid \in Nat /\ f.rateDay = paid
      BY <1>2, <1>3, <2>1
    <3> HIDE DEF paid
    <3> QED
      BY <3>1
  <2>2. CASE \E q \in quotes : q.day = f.rateDay /\ q.published <= f.at
    <3>1. PICK q \in quotes : q.day = f.rateDay /\ q.published <= f.at
      BY <2>2
    <3>2. /\ q.day \in Nat /\ q.published \in Nat /\ q.day <= DayOf(q.published)
      BY StarAssumption, DimensionAssumption DEF TellsInv, GrainInv, Floor
    <3>3. DayOf(q.published) <= DayOf(f.at) /\ DayOf(q.published) \in Nat
      BY <1>4, <3>1, <3>2, DaysInOrder
    <3> HIDE DEF paid
    <3>4. paid = DayOf(f.at) /\ paid \in Nat
      BY <1>2, <1>3 DEF paid
    <3> QED
      BY <3>1, <3>2, <3>3, <3>4
  <2> QED
    BY <2>1, <2>2 DEF TellsInv, Held, AtAQuote
<1> HIDE DEF paid, first, last
<1>6. paid \in calendar
  BY <1>2, <1>3
<1>7. f.rateDay \in calendar \/ f.rateDay < Min(calendar)
  <2>1. ASSUME NEW d \in calendar PROVE d \in Nat /\ first <= d
    <3>1. d \in Nat /\ \E lo \in SpanEnds : lo <= d
      BY DEF TellsInv
    <3> QED
      BY <1>3, <3>1
  <2>2. Min(calendar) \in calendar
    BY <1>6, <2>1, MinIsLeast
  <2>3. Min(calendar) \in Nat /\ first <= Min(calendar)
    BY <2>1, <2>2
  <2>4. paid <= last /\ first \in Nat /\ last \in Nat /\ paid \in Nat
    BY <1>2, <1>3
  <2>5. first <= f.rateDay => f.rateDay \in first..last
    BY <1>5, <2>4
  <2> QED
    BY <1>3, <1>5, <2>3, <2>4, <2>5
<1> QED
  BY <1>6, <1>7 DEF paid

\* A row derived for the fact is a delivered payment's, its counterparties at the
\* versions in force when it happened, converted at the last rate published before
\* it; payments converted at one quote date were converted at one rate; and over a
\* current calendar no payment's day is missing, nor a quote date inside it
\* (gold/facts.py: _resolve_as_of, _convert; gold/fx.py: rate_intervals;
\* gold/conformed.py: the calendar).
THEOREM TellsThePayment == Spec => FactTellsThePayment
<1> DEFINE Told == factBuild.at = "idle" /\ factBuild'.at = "derived" =>
                     \A r \in factBuild'.rows : \E p \in payments :
                       /\ r.id = p.id /\ r.at = p.at /\ r.file = p.file
                       /\ r.payer = VersionAsOf(p.payer, p.at)
                       /\ r.payee = VersionAsOf(p.payee, p.at)
                       /\ p.foreign => /\ LastQuoteAt(r.rateDay, p.at)
                                       /\ \E q \in QuotesOf(quotes, r.rateDay) : q.rate = r.rate
<1>1. Init => TellsInv
  <2>1. Init => GrainInv
    BY GrainInitInv
  <2> QED
    BY <2>1 DEF Init, TellsInv, Held, IdleFact
<1>2. TellsInv /\ [Next]_vars => TellsInv'
  BY GrainStep, TellsStep DEF TellsInv
<1>3. TellsInv => OneRatePerQuoteDate /\ OrphansPrecedeTheCalendar
  BY NoLateOrphans DEF TellsInv, OneRatePerQuoteDate, Held
<1>4. ASSUME TellsInv, [Next]_vars PROVE [Told]_vars
  <2> SUFFICES ASSUME factBuild.at = "idle", factBuild'.at = "derived" PROVE Told
    OBVIOUS
  <2>1. FactRead
    BY <1>4 DEF Next, StarNext, starVars, vars, LandPayments, LandQuotes, LoadCalendar, FactWrite,
       FactVerify, FactCrash
  <2>2. /\ factBuild'.rows = FactRows(payments, dim, RateIntervals(quotes))
        /\ \A r \in factBuild'.rows : r.rate # NoRate
    BY <2>1 DEF FactRead
  <2> QED
    BY <1>4, <2>2, DerivedTells DEF TellsInv
<1>5. TellsInv /\ [Next]_vars => [Told]_vars
  BY <1>4
<1> QED
  BY <1>1, <1>2, <1>3, <1>5, PTL DEF Spec, FactTellsThePayment, ResolvedAsOfThePayment

-----------------------------------------------------------------------------
(* The point-in-time table.                                                *)

\* A finite set of naturals has a greatest element: the one with most below it.
LEMMA FiniteHasGreatest ==
  ASSUME NEW S \in SUBSET Nat, IsFiniteSet(S), S # {}
  PROVE  Max(S) \in S /\ \A y \in S : y <= Max(S)
<1> DEFINE below(x) == {y \in S : y <= x}
           count(x) == Cardinality(below(x))
           counts == {count(x) : x \in S}
<1>1. ASSUME NEW x \in S
      PROVE  IsFiniteSet(below(x)) /\ count(x) \in Nat /\ count(x) <= Cardinality(S)
  BY FS_Subset, FS_CardinalityType
<1>2. counts \in SUBSET Nat /\ counts # {} /\ \A n \in counts : n <= Cardinality(S)
  BY <1>1
<1>3. Cardinality(S) \in Nat
  BY FS_CardinalityType
<1>4. \E n \in counts : \A m \in counts : m <= n
  <2> HIDE DEF counts
  <2> QED
    BY <1>2, <1>3, HasGreatest
<1>5. PICK x \in S : \A y \in S : count(y) <= count(x)
  BY <1>4
<1>6. ASSUME NEW y \in S PROVE x >= y
  <2>1. SUFFICES ASSUME x < y PROVE FALSE
    OBVIOUS
  <2>2. below(x) \cup {y} \subseteq below(y) /\ y \notin below(x)
    <3>1. x \in Nat /\ y \in Nat /\ \A z \in S : z \in Nat
      OBVIOUS
    <3>2. \A z \in S : z <= x => z <= y
      BY <2>1, <3>1
    <3>3. y <= y /\ ~ (y <= x)
      BY <2>1, <3>1
    <3> QED
      BY <3>2, <3>3
  <2>3. /\ IsFiniteSet(below(x) \cup {y})
        /\ Cardinality(below(x) \cup {y}) = count(x) + 1
    BY <1>1, <2>2, FS_AddElement
  <2>4. count(x) + 1 <= count(y)
    BY <1>1, <2>2, <2>3, FS_Subset
  <2>5. count(x) \in Nat /\ count(y) \in Nat /\ count(y) <= count(x)
    BY <1>1, <1>5
  <2> HIDE DEF count
  <2> QED
    BY <2>4, <2>5
<1>7. Max(S) \in S /\ \A y \in S : Max(S) >= y
  BY <1>6 DEF Max
<1> QED
  BY <1>7

\* What satellite s says of k up to d.
Said(T, s, k, d) == {e \in {o[2] : o \in {x \in T[s] : x[1] = k}} : e <= d}

Vault == [Satellite -> SUBSET (Establishment \X Applied)]

\* The latest is none when nothing was said, and else the greatest of what was.
LEMMA LatestIs ==
  ASSUME NEW T \in Vault, NEW s \in Satellite, NEW k, NEW d
  PROVE  /\ Said(T, s, k, d) \in SUBSET Applied
         /\ Latest(T, s, k, d) = Max({NoDate} \cup Said(T, s, k, d))
         /\ Latest(T, s, k, d) \in Applied \cup {NoDate}
         /\ Latest(T, s, k, d) = NoDate <=> Said(T, s, k, d) = {}
<1> DEFINE S == {NoDate} \cup Said(T, s, k, d)
<1>1. Said(T, s, k, d) \in SUBSET Applied
  BY DEF Said, Vault
<1>2. Latest(T, s, k, d) = Max(S)
  BY DEF Latest, Said
<1>3. S \in SUBSET Nat /\ IsFiniteSet(S) /\ S # {}
  <2>1. IsFiniteSet(Said(T, s, k, d))
    BY <1>1, PitAssumption, FS_Subset
  <2>2. IsFiniteSet({NoDate})
    BY FS_Singleton
  <2>3. IsFiniteSet(S)
    BY <2>1, <2>2, FS_Union
  <2>4. Applied \subseteq Nat /\ NoDate \in Nat
    BY PitAssumption DEF NoDate
  <2> QED
    BY <1>1, <2>3, <2>4
<1>4. Max(S) \in S /\ \A y \in S : y <= Max(S)
  <2> HIDE DEF S
  <2> QED
    BY <1>3, FiniteHasGreatest
<1>5. \A y \in Said(T, s, k, d) : y \in Nat /\ y # 0
  BY <1>1, PitAssumption DEF NoDate
<1> QED
  BY <1>1, <1>2, <1>4, <1>5 DEF NoDate

\* A row of the frame.
PointsAt(K, T, k, d) ==
  [key |-> k, asOf |-> d, pointer |-> [s \in Satellite |-> Latest(T, s, k, d)]]

LEMMA PitRowsAre ==
  ASSUME NEW K, NEW T \in Vault, NEW dates
  PROVE  /\ \A r \in PitRows(K, T, dates) :
              /\ r = PointsAt(K, T, r.key, r.asOf)
              /\ \E s \in Satellite : r.pointer[s] # NoDate
         /\ \A r \in PitRows(K, T, dates) :
              \/ r.key \in K /\ r.asOf \in dates
              \/ \E s \in Satellite : <<r.key, r.asOf>> \in T[s]
         /\ \A k \in K, d \in dates :
              (\E s \in Satellite : Latest(T, s, k, d) # NoDate)
                => PointsAt(K, T, k, d) \in PitRows(K, T, dates)
<1> DEFINE Of(k) == {PointsAt(K, T, k, d) : d \in Layers(K, T, dates, k)}
           all == UNION {Of(k) : k \in K \cup {o[1] : o \in Observations(T)}}
<1>1. PitRows(K, T, dates) = {r \in all : \E s \in Satellite : r.pointer[s] # NoDate}
  BY DEF PitRows, PointsAt
<1>2. \A k, d : PointsAt(K, T, k, d).key = k /\ PointsAt(K, T, k, d).asOf = d
                /\ \A s \in Satellite : PointsAt(K, T, k, d).pointer[s] = Latest(T, s, k, d)
  BY DEF PointsAt
<1>3. \A r \in all : \E k, d : d \in Layers(K, T, dates, k) /\ r = PointsAt(K, T, k, d)
  OBVIOUS
<1>4. \A o \in Observations(T) : /\ o = <<o[1], o[2]>>
                                 /\ \E s \in Satellite : o \in T[s]
  BY DEF Observations, Vault
<1>5. \A k, d : d \in Layers(K, T, dates, k) =>
                  \/ k \in K /\ d \in dates
                  \/ \E s \in Satellite : <<k, d>> \in T[s]
  BY <1>4 DEF Layers
<1>6. ASSUME NEW k \in K, NEW d \in dates PROVE PointsAt(K, T, k, d) \in all
  <2>1. d \in Layers(K, T, dates, k)
    BY DEF Layers
  <2> QED
    BY <2>1
<1> HIDE DEF all
<1> QED
  BY <1>1, <1>2, <1>3, <1>5, <1>6

\* The invariant of the builds: one row of a key at a date, of a key something was
\* said of by then; and unless a satellite was revised the pointers are right, or
\* the next build will refuse.
PitTyped ==
  /\ keys \subseteq Establishment /\ observed \in Vault /\ pit \subseteq PitRow
  /\ pitBuild.at \in {"idle", "dated", "written"} /\ pitBuild.dates \subseteq Applied
  /\ revised \in BOOLEAN

OneRowPerLayer == \A q, r \in pit : q.key = r.key /\ q.asOf = r.asOf => q = r

SaidByThen == \A r \in pit : \E s \in Satellite : Said(observed, s, r.key, r.asOf) # {}

PointersLatest ==
  \A r \in pit : \A s \in Satellite : r.pointer[s] = Latest(observed, s, r.key, r.asOf)

WillRefuse == pitBuild.at = "idle" /\ OutOfOrder(AsOfDates(observed))

PitInv ==
  /\ PitTyped /\ OneRowPerLayer /\ SaidByThen
  /\ revised = FALSE => PointersLatest \/ WillRefuse

\* The dates held.
LEMMA HeldMax ==
  ASSUME PitTyped, HeldDates # {}
  PROVE  HeldDates \subseteq Nat /\ Max(HeldDates) \in HeldDates
         /\ \A d \in HeldDates : d <= Max(HeldDates)
<1>1. HeldDates \in SUBSET Applied
  BY DEF HeldDates, PitTyped, PitRow
<1>2. HeldDates \in SUBSET Nat /\ IsFiniteSet(HeldDates)
  BY <1>1, PitAssumption, FS_Subset
<1> QED
  BY <1>2, FiniteHasGreatest

\* A load of a satellite.
LEMMA PitLoads ==
  ASSUME PitInv, NEW s0 \in Satellite, NEW rows \in SUBSET (Establishment \X Applied),
         LoadPitSatellite(s0, rows)
  PROVE  PitInv'
<1> DEFINE new == rows \ observed[s0]
<1>1. /\ observed' = [observed EXCEPT ![s0] = @ \cup rows]
      /\ revised' = (revised \/ Revises(new))
      /\ UNCHANGED <<keys, pit, pitBuild>>
  BY DEF LoadPitSatellite
<1>2. /\ \A s \in Satellite : s # s0 => observed'[s] = observed[s]
      /\ observed'[s0] = observed[s0] \cup new
      /\ observed' \in Vault
  BY <1>1 DEF PitInv, PitTyped, Vault
<1> HIDE DEF new
<1>3. \A s \in Satellite : \A k, d : Said(observed, s, k, d) \subseteq Said(observed', s, k, d)
  BY <1>2 DEF Said
<1>4. PitTyped' /\ OneRowPerLayer' /\ SaidByThen'
  <2>1. revised' \in BOOLEAN
    BY <1>1
  <2> QED
    BY <1>1, <1>2, <1>3, <2>1 DEF PitInv, PitTyped, OneRowPerLayer, SaidByThen
<1>5. HeldDates' = HeldDates
  BY <1>1 DEF HeldDates
<1>6. AsOfDates(observed) \subseteq AsOfDates(observed')
  BY <1>2 DEF AsOfDates, Observations
<1>7. ASSUME PointersLatest, \A o \in new : \A r \in pit : r.asOf < o[2]
      PROVE  PointersLatest'
  <2>1. ASSUME NEW r \in pit, NEW s \in Satellite
        PROVE  Said(observed', s, r.key, r.asOf) = Said(observed, s, r.key, r.asOf)
    <3>1. CASE s # s0
      BY <1>2, <3>1 DEF Said
    <3>2. CASE s = s0
      <4>1. \A o \in new : ~ (o[2] <= r.asOf)
        <5>1. \A o \in new : o[2] \in Nat
          BY PitAssumption DEF new
        <5>2. r.asOf \in Nat
          BY PitAssumption DEF PitInv, PitTyped, PitRow
        <5> QED
          BY <1>7, <5>1, <5>2
      <4> QED
        BY <1>2, <3>2, <4>1 DEF Said
    <3> QED
      BY <3>1, <3>2
  <2>2. ASSUME NEW r \in pit, NEW s \in Satellite
        PROVE  Latest(observed', s, r.key, r.asOf) = Latest(observed, s, r.key, r.asOf)
    <3>1. observed \in Vault
      BY DEF PitInv, PitTyped
    <3>2. Latest(observed, s, r.key, r.asOf)
            = Max({NoDate} \cup Said(observed, s, r.key, r.asOf))
      BY <3>1, LatestIs
    <3>3. observed' \in Vault
      BY <1>2
    <3> DEFINE T == observed'
    <3>4. Latest(T, s, r.key, r.asOf) = Max({NoDate} \cup Said(T, s, r.key, r.asOf))
      <4> HIDE DEF T
      <4> QED
        BY <3>3, LatestIs DEF T
    <3> QED
      BY <2>1, <3>2, <3>4
  <2> QED
    BY <1>1, <1>7, <2>2 DEF PointersLatest
<1>8. ASSUME revised' = FALSE PROVE PointersLatest' \/ WillRefuse'
  <2>1. revised = FALSE /\ ~ Revises(new)
    BY <1>1, <1>8 DEF PitInv, PitTyped
  <2>2. \A o \in new : o[2] \notin HeldDates
    BY <2>1 DEF Revises
  <2>3. CASE HeldDates = {}
    BY <1>1, <2>3 DEF HeldDates, PointersLatest
  <2>4. CASE HeldDates # {} /\ \A o \in new : ~ o[2] < Max(HeldDates)
    <3>1. CASE PointersLatest
      <4>1. ASSUME NEW o \in new, NEW r \in pit PROVE r.asOf < o[2]
        <5>1. o[2] \in Nat
          BY PitAssumption DEF new
        <5>2. r.asOf \in HeldDates
          BY DEF HeldDates
        <5>3. /\ r.asOf \in Nat /\ Max(HeldDates) \in HeldDates /\ Max(HeldDates) \in Nat
              /\ r.asOf <= Max(HeldDates)
          BY <2>4, <5>2, HeldMax DEF PitInv
        <5>4. o[2] # Max(HeldDates) /\ ~ o[2] < Max(HeldDates)
          BY <2>2, <2>4, <5>3
        <5> QED
          BY <5>1, <5>3, <5>4
      <4> QED
        BY <1>7, <3>1, <4>1
    <3>2. CASE WillRefuse
      BY <1>1, <1>5, <1>6, <3>2 DEF WillRefuse, OutOfOrder
    <3> QED
      BY <2>1, <3>1, <3>2 DEF PitInv
  <2>5. CASE HeldDates # {} /\ \E o \in new : o[2] < Max(HeldDates)
    <3>1. PICK o \in new : o[2] < Max(HeldDates)
      BY <2>5
    <3>2. pitBuild.at = "idle"
      BY <2>1, <2>5, <3>1 DEF Revises
    <3>3. o[2] \in AsOfDates(observed')
      BY <1>2 DEF AsOfDates, Observations
    <3> QED
      BY <1>1, <1>5, <2>2, <2>5, <3>1, <3>2, <3>3 DEF WillRefuse, OutOfOrder
  <2> QED
    BY <2>3, <2>4, <2>5
<1> QED
  BY <1>4, <1>8 DEF PitInv

LEMMA PitInitInv == PitInit => PitInv
<1> SUFFICES ASSUME PitInit PROVE PitInv
  OBVIOUS
<1>1. keys = {} /\ pit = {} /\ revised = FALSE /\ pitBuild.at = "idle" /\ pitBuild.dates = {}
  BY DEF PitInit, IdlePit
<1>2. observed \in Vault
  BY DEF PitInit, Vault
<1>3. PitTyped
  BY <1>1, <1>2 DEF PitTyped
<1> QED
  BY <1>1, <1>3 DEF PitInv, OneRowPerLayer, SaidByThen, PointersLatest

\* What a write leaves: the rows it found, and rows of the frame at no key and date
\* they were at; which between them show each measured layer of each key.
LEMMA PitWrites ==
  ASSUME PitInv, PitWrite
  PROVE  /\ pit' \subseteq PitRow /\ OneRowPerLayer'
         /\ \A r \in pit' : r \in pit \/ r = PointsAt(keys, observed, r.key, r.asOf)
         /\ \A r \in pit' : \E s \in Satellite : Said(observed, s, r.key, r.asOf) # {}
         /\ \A k \in keys, d \in pitBuild.dates :
              (\E s \in Satellite : Latest(observed, s, k, d) # NoDate)
                => \E r \in pit' : r.key = k /\ r.asOf = d
<1> DEFINE frame == PitRows(keys, observed, pitBuild.dates)
           new == {r \in frame : \A x \in pit : ~ (x.key = r.key /\ x.asOf = r.asOf)}
<1>1. observed \in Vault
  BY DEF PitInv, PitTyped
<1>2. /\ \A r \in frame : /\ r = PointsAt(keys, observed, r.key, r.asOf)
                          /\ \E s \in Satellite : r.pointer[s] # NoDate
      /\ \A r \in frame : \/ r.key \in keys /\ r.asOf \in pitBuild.dates
                          \/ \E s \in Satellite : <<r.key, r.asOf>> \in observed[s]
      /\ \A k \in keys, d \in pitBuild.dates :
           (\E s \in Satellite : Latest(observed, s, k, d) # NoDate)
             => PointsAt(keys, observed, k, d) \in frame
  BY <1>1, PitRowsAre
<1>3. pit' = pit \cup new
  BY DEF PitWrite
<1> HIDE DEF frame
<1>4. \A k, d : /\ PointsAt(keys, observed, k, d).key = k
                /\ PointsAt(keys, observed, k, d).asOf = d
                /\ \A s \in Satellite :
                     PointsAt(keys, observed, k, d).pointer[s] = Latest(observed, s, k, d)
  BY DEF PointsAt
<1>5. ASSUME NEW r \in frame PROVE r \in PitRow
  <2>1. r.key \in Establishment /\ r.asOf \in Applied
    <3>1. keys \subseteq Establishment /\ pitBuild.dates \subseteq Applied
      BY DEF PitInv, PitTyped
    <3>2. \A s \in Satellite : observed[s] \subseteq Establishment \X Applied
      BY <1>1 DEF Vault
    <3>3. CASE r.key \in keys /\ r.asOf \in pitBuild.dates
      BY <3>1, <3>3
    <3>4. CASE \E s \in Satellite : <<r.key, r.asOf>> \in observed[s]
      BY <3>2, <3>4
    <3> QED
      BY <1>2, <3>3, <3>4
  <2>2. \A s \in Satellite : Latest(observed, s, r.key, r.asOf) \in Applied \cup {NoDate}
    BY <1>1, LatestIs
  <2>3. PointsAt(keys, observed, r.key, r.asOf) \in PitRow
    BY <2>1, <2>2 DEF PointsAt, PitRow
  <2> QED
    BY <1>2, <2>3
<1>6. ASSUME NEW r \in frame
      PROVE  \E s \in Satellite : Said(observed, s, r.key, r.asOf) # {}
  <2>1. PICK s \in Satellite : r.pointer[s] # NoDate
    BY <1>2
  <2>2. r.pointer[s] = Latest(observed, s, r.key, r.asOf)
    BY <1>2, <1>4
  <2>3. Latest(observed, s, r.key, r.asOf) = NoDate <=> Said(observed, s, r.key, r.asOf) = {}
    BY <1>1, LatestIs
  <2> QED
    BY <2>1, <2>2, <2>3
<1>7. OneRowPerLayer'
  <2>1. \A q, r \in pit : q.key = r.key /\ q.asOf = r.asOf => q = r
    BY DEF PitInv, OneRowPerLayer
  <2>2. \A q, r \in new : q.key = r.key /\ q.asOf = r.asOf => q = r
    BY <1>2
  <2>3. \A q \in pit, r \in new : ~ (q.key = r.key /\ q.asOf = r.asOf)
    OBVIOUS
  <2> HIDE DEF new
  <2> QED
    BY <1>3, <2>1, <2>2, <2>3 DEF OneRowPerLayer
<1>8. \A r \in pit' : r \in pit \/ r \in frame
  BY <1>3
<1>9. ASSUME NEW k \in keys, NEW d \in pitBuild.dates,
             \E s \in Satellite : Latest(observed, s, k, d) # NoDate
      PROVE  \E r \in pit' : r.key = k /\ r.asOf = d
  <2>1. PointsAt(keys, observed, k, d) \in frame
    BY <1>2, <1>9
  <2>2. CASE \E x \in pit : x.key = k /\ x.asOf = d
    BY <1>3, <2>2
  <2>3. CASE \A x \in pit : ~ (x.key = k /\ x.asOf = d)
    BY <1>3, <1>4, <2>1, <2>3
  <2> QED
    BY <2>2, <2>3
<1> QED
  BY <1>2, <1>5, <1>6, <1>7, <1>8, <1>9 DEF PitInv, PitTyped, SaidByThen

\* Every step keeps the invariant of the builds.
LEMMA PitStep ==
  ASSUME PitInv, [PitNext]_pitVars
  PROVE  PitInv'
<1>1. ASSUME NEW K \in KeyLoads, LoadKeys(K) PROVE PitInv'
  BY <1>1, PitAssumption DEF LoadKeys, PitInv, PitTyped, OneRowPerLayer, SaidByThen,
     PointersLatest, WillRefuse, OutOfOrder, HeldDates
<1>2. ASSUME NEW s \in Satellite, NEW snapshot \in Snapshots, LoadPitSatellite(s, snapshot[s])
      PROVE  PitInv'
  <2>1. snapshot[s] \in SUBSET (Establishment \X Applied)
    BY PitAssumption
  <2> QED
    BY <1>2, <2>1, PitLoads
<1>3. CASE PitRead
  <2>1. UNCHANGED <<keys, observed, pit, revised>>
    BY <1>3 DEF PitRead
  <2>2. AsOfDates(observed) \subseteq Applied
    BY DEF PitInv, PitTyped, Vault, AsOfDates, Observations
  <2>3. CASE OutOfOrder(AsOfDates(observed))
    <3>1. UNCHANGED pitBuild
      BY <1>3, <2>3 DEF PitRead
    <3> QED
      BY <2>1, <3>1 DEF PitInv, PitTyped, OneRowPerLayer, SaidByThen, PointersLatest,
         WillRefuse, OutOfOrder, HeldDates
  <2>4. CASE ~ OutOfOrder(AsOfDates(observed))
    <3>1. pitBuild' = [at |-> "dated", dates |-> AsOfDates(observed)]
      BY <1>3, <2>4 DEF PitRead
    <3>2. revised = FALSE => PointersLatest
      BY <2>4 DEF PitInv, WillRefuse
    <3> QED
      BY <2>1, <2>2, <3>1, <3>2 DEF PitInv, PitTyped, OneRowPerLayer, SaidByThen, PointersLatest
  <2> QED
    BY <2>3, <2>4
<1>4. CASE PitWrite
  <2>1. /\ UNCHANGED <<keys, observed, revised>>
        /\ pitBuild' = [IdlePit EXCEPT !.at = "written"]
        /\ pitBuild.at = "dated"
    BY <1>4 DEF PitWrite
  <2>2. pitBuild'.at = "written" /\ pitBuild'.dates = {}
    BY <2>1 DEF IdlePit
  <2>3. /\ pit' \subseteq PitRow /\ OneRowPerLayer'
        /\ \A r \in pit' : r \in pit \/ r = PointsAt(keys, observed, r.key, r.asOf)
        /\ \A r \in pit' : \E s \in Satellite : Said(observed, s, r.key, r.asOf) # {}
    BY <1>4, PitWrites
  <2>4. PitTyped' /\ SaidByThen'
    BY <2>1, <2>2, <2>3 DEF PitInv, PitTyped, SaidByThen
  <2>5. ASSUME revised' = FALSE PROVE PointersLatest'
    <3>1. PointersLatest
      BY <2>1, <2>5 DEF PitInv, WillRefuse
    <3>2. \A k, d : \A s \in Satellite :
            PointsAt(keys, observed, k, d).pointer[s] = Latest(observed, s, k, d)
      BY DEF PointsAt
    <3> QED
      BY <2>1, <2>3, <3>1, <3>2 DEF PointersLatest
  <2> QED
    BY <2>3, <2>4, <2>5 DEF PitInv
<1>5. ASSUME PitVerify \/ PitCrash PROVE PitInv'
  <2>1. UNCHANGED <<keys, observed, pit, revised>> /\ pitBuild' = IdlePit /\ pitBuild.at # "idle"
    BY <1>5 DEF PitVerify, PitCrash
  <2> QED
    BY <2>1 DEF PitInv, PitTyped, OneRowPerLayer, SaidByThen, PointersLatest, WillRefuse, IdlePit
<1>6. CASE DropPit
  BY <1>6 DEF DropPit, PitInv, PitTyped, OneRowPerLayer, SaidByThen, PointersLatest
<1>7. CASE UNCHANGED pitVars
  BY <1>7 DEF pitVars, PitInv, PitTyped, OneRowPerLayer, SaidByThen, PointersLatest, WillRefuse,
     OutOfOrder, HeldDates
<1> QED
  BY <1>1, <1>2, <1>3, <1>4, <1>5, <1>6, <1>7 DEF PitNext

\* Once a build's append commits, every key of the hub has one row at every measured
\* layer of which a satellite has something to say, and no other; and in a table just
\* accepted each pointer is the latest applied_date at or before its layer, unless a
\* satellite was revised under a layer no build could refuse (gold/pit.py: pit_rows,
\* build_pit and the two refusals around its append).
THEOREM PitTells == PitSpec => PitTellsTheSatellites
<1> DEFINE Every ==
             pitBuild.at = "dated" /\ pitBuild'.at = "written"
               => \A k \in keys, d \in pitBuild.dates :
                    Cardinality({r \in pit' : r.key = k /\ r.asOf = d})
                      = IF \E s \in Satellite : Latest(observed, s, k, d) # NoDate
                          THEN 1 ELSE 0
           Right == PitAccepts /\ ~ revised => \A r \in pit' : \A s \in Satellite :
                      r.pointer[s] = Latest(observed', s, r.key, r.asOf)
<1>1. PitInit => PitInv
  BY PitInitInv
<1>2. PitInv /\ [PitNext]_pitVars => PitInv'
  BY PitStep
<1>3. ASSUME PitInv, [PitNext]_pitVars PROVE [Every]_pitVars
  <2> SUFFICES ASSUME pitBuild.at = "dated", pitBuild'.at = "written",
                      NEW k \in keys, NEW d \in pitBuild.dates
               PROVE  Cardinality({r \in pit' : r.key = k /\ r.asOf = d})
                        = IF \E s \in Satellite : Latest(observed, s, k, d) # NoDate
                            THEN 1 ELSE 0
    OBVIOUS
  <2>1. PitWrite
    <3>1. pitBuild' # pitBuild
      OBVIOUS
    <3>2. ~ PitRead
      BY DEF PitRead
    <3>3. ~ PitVerify /\ ~ PitCrash
      BY DEF PitVerify, PitCrash, IdlePit
    <3> HIDE DEF Every, Right
    <3> QED
      BY <1>3, <3>1, <3>2, <3>3 DEF PitNext, pitVars, LoadKeys, LoadPitSatellite, DropPit
  <2>2. /\ OneRowPerLayer'
        /\ \A r \in pit' : \E s \in Satellite : Said(observed, s, r.key, r.asOf) # {}
        /\ (\E s \in Satellite : Latest(observed, s, k, d) # NoDate)
             => \E r \in pit' : r.key = k /\ r.asOf = d
    BY <1>3, <2>1, PitWrites
  <2>3. \A s \in Satellite : Latest(observed, s, k, d) = NoDate <=> Said(observed, s, k, d) = {}
    BY <1>3, LatestIs DEF PitInv, PitTyped
  <2> DEFINE R == {r \in pit' : r.key = k /\ r.asOf = d}
  <2>4. CASE \E s \in Satellite : Latest(observed, s, k, d) # NoDate
    <3>1. PICK r \in pit' : r.key = k /\ r.asOf = d
      BY <2>2, <2>4
    <3>2. R = {r}
      BY <2>2, <3>1 DEF OneRowPerLayer
    <3>3. Cardinality({r}) = 1
      BY FS_Singleton
    <3> QED
      BY <2>4, <3>2, <3>3
  <2>5. CASE \A s \in Satellite : Latest(observed, s, k, d) = NoDate
    <3>1. R = {}
      BY <2>2, <2>3, <2>5
    <3> QED
      BY <2>5, <3>1, FS_EmptySet
  <2> QED
    BY <2>4, <2>5
<1>4. ASSUME PitInv, [PitNext]_pitVars PROVE [Right]_pitVars
  <2> SUFFICES ASSUME PitAccepts, ~ revised
               PROVE  \A r \in pit' : \A s \in Satellite :
                        r.pointer[s] = Latest(observed', s, r.key, r.asOf)
    OBVIOUS
  <2>1. PitVerify
    BY <1>4 DEF PitAccepts, PitNext, pitVars, LoadKeys, LoadPitSatellite, PitRead, PitWrite,
       PitCrash, DropPit
  <2>2. pitBuild.at = "written" /\ pit' = pit /\ observed' = observed
    BY <2>1 DEF PitVerify
  <2>3. PointersLatest
    BY <1>4, <2>2 DEF PitInv, PitTyped, WillRefuse
  <2> QED
    BY <2>2, <2>3 DEF PointersLatest
<1>5. PitInv /\ [PitNext]_pitVars => [Every]_pitVars /\ [Right]_pitVars
  BY <1>3, <1>4
<1>6. PitTellsTheSatellites <=> [][Every]_pitVars /\ [][Right]_pitVars
  BY DEF PitTellsTheSatellites, EveryKeyAtEveryLayer, AcceptedPointersAreLatest
<1> QED
  BY <1>1, <1>2, <1>5, <1>6, PTL DEF PitSpec

=============================================================================
