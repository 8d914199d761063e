----------------------------- MODULE Dimension -----------------------------
(***************************************************************************)
(* opl.gold.dimensions: dim_company, one row per version of a satellite,   *)
(* each with the half-open interval in which it is in force, and one row   *)
(* for the unknown member.  The table is appended once, whole: an append   *)
(* cannot revise an interval it has closed, so a build whose source has    *)
(* moved on is refused, and the operator drops the table and builds again. *)
(*                                                                         *)
(* A version is a company and its applied_date.  Dates are days; a day has *)
(* PerDay instants, the first of them its midnight.  The hub and the       *)
(* satellite are the vault's tables; here they only grow.                  *)
(***************************************************************************)
EXTENDS Integers, FiniteSets, FiniteSetsExt

CONSTANTS
  Company,        \* business keys
  Day,            \* calendar days
  PerDay,         \* instants of a day
  Ceiling,        \* VALID_TO_CEILING, an instant after every other
  Ghost,          \* GHOST_SURROGATE_KEY, and the NULL business key of its row
  HubLoads,       \* what one load of the hub may append
  SatelliteLoads  \* what one load of the satellite may append

Floor       == 0
Midnight(d) == d * PerDay
DayOf(t)    == t \div PerDay

Version == Company \X Day

ASSUME DimensionAssumption ==
  /\ Day \subseteq Nat /\ PerDay \in Nat \ {0}
  /\ Ceiling \in Nat /\ \A d \in Day : Midnight(d) < Ceiling
  /\ Ghost \notin Company /\ Ghost \notin Version
  /\ HubLoads \subseteq SUBSET Company
  /\ \A S \in SatelliteLoads : S \subseteq Version /\ IsFiniteSet(S)

VARIABLES
  hub,         \* business keys of the company hub
  satellite,   \* versions the company satellite holds
  dim,         \* rows of dim_company; no row: no table
  dimBuild,    \* the build: how far it is, and the frames it reads
  dimVerdict   \* how the last build ended

vaultVars == <<hub, satellite>>
dimVars   == <<hub, satellite, dim, dimBuild, dimVerdict>>

Verdict == {"none", "accepted", "drop_it"}

\* attributes: the payload, abstracted to the version it is copied from.
Row == [key : Version \cup {Ghost}, company : Company \cup {Ghost},
        attributes : Version \cup {Ghost},
        from : Floor..Ceiling, to : Floor..Ceiling]

IdleBuild == [at |-> "idle", hub |-> {}, satellite |-> {}]

DimTypeOK ==
  /\ hub \subseteq Company
  /\ satellite \subseteq Version
  /\ dim \subseteq Row
  /\ dimBuild \in [at : {"idle", "derived", "written"},
                   hub : SUBSET Company, satellite : SUBSET Version]
  /\ dimVerdict \in Verdict

DimInit ==
  /\ hub = {} /\ satellite = {} /\ dim = {}
  /\ dimBuild = IdleBuild /\ dimVerdict = "none"

----------------------------------------------------------------------------
\* The rows of the dimension.

\* xxhash64 over the business key and applied_date, taken to be injective.
\* It is not taken over valid_from, which moves when an earlier version lands.
SurrogateKey(v) == v

\* The dates of a company's versions in V.
Dates(V, c) == {v[2] : v \in {w \in V : w[1] = c}}

\* Bug: the key taken over valid_from, as it once was.
RowOfKeyedByFrom(V, v) ==
  LET earlier == {d \in Dates(V, v[1]) : d < v[2]}
      later   == {d \in Dates(V, v[1]) : d > v[2]}
      from    == IF earlier = {} THEN Floor ELSE Midnight(v[2])
  IN  [key        |-> <<v[1], from>>,
       company    |-> v[1],
       attributes |-> v,
       from       |-> from,
       to         |-> IF later = {} THEN Ceiling ELSE Midnight(Min(later))]

\* Bug: until the last version, instead of the next one's.
RowOfUntilLast(V, v) ==
  LET earlier == {d \in Dates(V, v[1]) : d < v[2]}
      later   == {d \in Dates(V, v[1]) : d > v[2]}
  IN  [key        |-> SurrogateKey(v),
       company    |-> v[1],
       attributes |-> v,
       from       |-> IF earlier = {} THEN Floor ELSE Midnight(v[2]),
       to         |-> IF later = {} THEN Ceiling ELSE Midnight(Max(later))]

\* The row of version v: in force from its midnight, or from the floor when no
\* version precedes it, until the midnight of the one that follows it.
RowOf(V, v) ==
  LET earlier == {d \in Dates(V, v[1]) : d < v[2]}
      later   == {d \in Dates(V, v[1]) : d > v[2]}
  IN  [key        |-> SurrogateKey(v),
       company    |-> v[1],
       attributes |-> v,
       from       |-> IF earlier = {} THEN Floor ELSE Midnight(v[2]),
       to         |-> IF later = {} THEN Ceiling ELSE Midnight(Min(later))]

GhostRow == [key |-> Ghost, company |-> Ghost, attributes |-> Ghost,
             from |-> Floor, to |-> Ceiling]

\* Versions reach the dimension through an inner join to the hub: one whose key
\* the hub does not hold is dropped.
Keyed(H, S) == {v \in S : v[1] \in H}

DimensionRows(H, S) == {RowOf(Keyed(H, S), v) : v \in Keyed(H, S)} \cup {GhostRow}

SnapshotDates(S) == {v[2] : v \in S}

----------------------------------------------------------------------------
\* The vault, of which the build sees two tables that only grow.

LoadHub(keys) ==
  /\ ~ keys \subseteq hub
  /\ hub' = hub \cup keys
  /\ UNCHANGED <<satellite, dim, dimBuild, dimVerdict>>

LoadSatellite(versions) ==
  /\ ~ versions \subseteq satellite
  /\ satellite' = satellite \cup versions
  /\ UNCHANGED <<hub, dim, dimBuild, dimVerdict>>

----------------------------------------------------------------------------
\* load_dimension.

\* The window the operator passes must name the snapshots the satellite holds;
\* any other is refused before anything is derived.  Both frames are read here.
DimensionRead(months) ==
  /\ dimBuild.at = "idle"
  /\ months # {} /\ months = SnapshotDates(satellite)
  /\ dimBuild' = [at |-> "derived", hub |-> hub, satellite |-> satellite]
  /\ dimVerdict' = "none"
  /\ UNCHANGED <<hub, satellite, dim>>

\* A derived version whose interval the target does not hold.
Outgrown(rows) ==
  \E r \in rows : \A x \in dim : ~ (x.key = r.key /\ x.to = r.to)

\* An empty target takes every row; any other takes none, and must hold them.
DimensionWrite ==
  LET rows == DimensionRows(dimBuild.hub, dimBuild.satellite)
  IN  /\ dimBuild.at = "derived"
      /\ \/ /\ dim = {}
            /\ dim' = rows
            /\ dimBuild' = [IdleBuild EXCEPT !.at = "written"]
            /\ UNCHANGED dimVerdict
         \/ /\ dim # {} /\ ~ Outgrown(rows)
            /\ dimBuild' = [IdleBuild EXCEPT !.at = "written"]
            /\ UNCHANGED <<dim, dimVerdict>>
         \/ /\ dim # {} /\ Outgrown(rows)
            /\ dimBuild' = IdleBuild /\ dimVerdict' = "drop_it"
            /\ UNCHANGED dim
      /\ UNCHANGED vaultVars

\* Bug: the rows on disk are not counted against the satellite.
KeysDistinct == Cardinality({r.key : r \in dim}) = Cardinality(dim)

\* Every version plus the ghost, counted on the rows on disk against the
\* satellite as it is by now; and a surrogate key of its own for each.
CountsAgree ==
  /\ Cardinality(dim) = Cardinality(satellite) + 1
  /\ Cardinality({r.key : r \in dim}) = Cardinality(dim)

DimensionVerify ==
  /\ dimBuild.at = "written"
  /\ dimBuild' = IdleBuild
  /\ dimVerdict' = IF CountsAgree THEN "accepted" ELSE "drop_it"
  /\ UNCHANGED <<hub, satellite, dim>>

\* The task dies; what it appended stays.
DimensionCrash ==
  /\ dimBuild.at # "idle"
  /\ dimBuild' = IdleBuild
  /\ UNCHANGED <<hub, satellite, dim, dimVerdict>>

\* The repair the refusals name.
DropDimension ==
  /\ dimBuild.at = "idle" /\ dimVerdict = "drop_it" /\ dim # {}
  /\ dim' = {} /\ dimVerdict' = "none"
  /\ UNCHANGED <<hub, satellite, dimBuild>>

DimNext ==
  \/ \E keys \in HubLoads : LoadHub(keys)
  \/ \E versions \in SatelliteLoads : LoadSatellite(versions)
  \/ \E months \in SUBSET Day : DimensionRead(months)
  \/ DimensionWrite \/ DimensionVerify
  \/ DimensionCrash \/ DropDimension

DimSpec == DimInit /\ [][DimNext]_dimVars

----------------------------------------------------------------------------
\* Properties.

\* A company of the dimension has one version in force at every instant: no
\* gap, no overlap, whatever was loaded when and however often it was rebuilt.
DimensionPartitionsTime ==
  \A c \in {r.company : r \in dim} : \A t \in Floor..(Ceiling - 1) :
    Cardinality({r \in dim : r.company = c /\ r.from <= t /\ t < r.to}) = 1

\* A build is accepted only when the table is the whole of the satellite as it
\* is then, however much was loaded while it ran and whoever built the table:
\* counting alone is enough to tell.
AcceptedDimensionIsTheSource ==
  [][dimVerdict' = "accepted" /\ dimVerdict # "accepted"
       => dim' = DimensionRows(Company, satellite')]_dimVars
============================================================================
