--------------------------------- MODULE Pit --------------------------------
(***************************************************************************)
(* opl.gold.pit: the point-in-time table of a hub with several satellites. *)
(* For every key and every date any satellite was applied at, the latest   *)
(* applied_date of each satellite at or before it.  Append-only: a layer   *)
(* the table holds gains the rows of new keys and is not revised.  Nothing *)
(* else in gold reads it.                                                  *)
(***************************************************************************)
EXTENDS Naturals, FiniteSets, FiniteSetsExt

CONSTANTS
  Establishment,  \* keys of the hub
  Satellite,      \* names of its satellites
  Applied,        \* applied_dates
  KeyLoads,       \* what one load of the hub may append
  Snapshots       \* what one snapshot brings to each satellite

NoDate == 0

ASSUME PitAssumption ==
  /\ Applied \subseteq Nat \ {NoDate} /\ IsFiniteSet(Applied)
  /\ KeyLoads \subseteq SUBSET Establishment
  /\ Snapshots \subseteq [Satellite -> SUBSET (Establishment \X Applied)]

VARIABLES
  keys,        \* keys of the hub
  observed,    \* observed[s]: key and applied_date of satellite s's rows
  pit,         \* rows of the table
  pitBuild,    \* the build: how far it is, and the dates it measured
  pitVerdict,  \* how the last build ended
  revised      \* history: a satellite gained a row under a layer no build could
               \* refuse to keep, since the table was last dropped

pitVars == <<keys, observed, pit, pitBuild, pitVerdict, revised>>

PitRow == [key : Establishment, asOf : Applied,
           pointer : [Satellite -> Applied \cup {NoDate}]]

IdlePit == [at |-> "idle", dates |-> {}]

PitTypeOK ==
  /\ keys \subseteq Establishment
  /\ observed \in [Satellite -> SUBSET (Establishment \X Applied)]
  /\ pit \subseteq PitRow
  /\ pitBuild \in [at : {"idle", "dated", "written"}, dates : SUBSET Applied]
  /\ pitVerdict \in {"none", "accepted", "drop_it"}
  /\ revised \in BOOLEAN

PitInit ==
  /\ keys = {} /\ observed = [s \in Satellite |-> {}]
  /\ pit = {} /\ pitBuild = IdlePit /\ pitVerdict = "none"
  /\ revised = FALSE

HeldDates == {r.asOf : r \in pit}

----------------------------------------------------------------------------
\* The vault.

LoadKeys(K) ==
  /\ ~ K \subseteq keys
  /\ keys' = keys \cup K
  /\ UNCHANGED <<observed, pit, pitBuild, pitVerdict, revised>>

\* At a date the table holds a layer of, or before one while a build runs.
Revises(rows) ==
  \E o \in rows :
    \/ o[2] \in HeldDates
    \/ pitBuild.at # "idle" /\ HeldDates # {} /\ o[2] < Max(HeldDates)

\* Each satellite is loaded by a task of its own, whatever gold is doing.
LoadPitSatellite(s, rows) ==
  /\ ~ rows \subseteq observed[s]
  /\ observed' = [observed EXCEPT ![s] = @ \cup rows]
  /\ revised' = (revised \/ Revises(rows \ observed[s]))
  /\ UNCHANGED <<keys, pit, pitBuild, pitVerdict>>

----------------------------------------------------------------------------
\* The rows.

Observations(T) == UNION {T[s] : s \in Satellite}

\* as_of_dates: measured from the satellites.
AsOfDates(T) == {o[2] : o \in Observations(T)}

\* The dates a key has a row at before the empty ones are dropped: every
\* measured date for a key of the hub, and each date it was observed at.
Layers(K, T, dates, k) ==
  {d \in dates : k \in K} \cup {o[2] : o \in {x \in Observations(T) : x[1] = k}}

\* max(applied_date) over the rows up to the current one.
Latest(T, s, k, d) ==
  Max({NoDate} \cup {e \in {o[2] : o \in {x \in T[s] : x[1] = k}} : e <= d})

\* pit_rows: rows of which no satellite has anything to say are left out.
PitRows(K, T, dates) ==
  {r \in UNION {{[key |-> k, asOf |-> d,
                  pointer |-> [s \in Satellite |-> Latest(T, s, k, d)]] :
                   d \in Layers(K, T, dates, k)} :
                     k \in K \cup {o[1] : o \in Observations(T)}} :
     \E s \in Satellite : r.pointer[s] # NoDate}

----------------------------------------------------------------------------
\* load_pit.

\* Bug: new dates are new layers, wherever they fall.
NeverOutOfOrder(dates) == FALSE

\* A date the table does not hold, before one it does.
OutOfOrder(dates) ==
  HeldDates # {} /\ \E d \in dates \ HeldDates : d < Max(HeldDates)

PitRead ==
  LET dates == AsOfDates(observed)
  IN  /\ pitBuild.at = "idle"
      /\ dates # {}
      /\ \/ /\ ~ OutOfOrder(dates)
            /\ pitBuild' = [at |-> "dated", dates |-> dates]
            /\ pitVerdict' = "none"
         \/ /\ OutOfOrder(dates)
            /\ pitVerdict' = "drop_it"
            /\ UNCHANGED pitBuild
      /\ UNCHANGED <<keys, observed, pit, revised>>

\* Rows whose key and date the table does not hold.  The hub and the satellites
\* are read now, after the dates were.
PitWrite ==
  /\ pitBuild.at = "dated"
  /\ pit' = pit \cup {r \in PitRows(keys, observed, pitBuild.dates) :
                        \A x \in pit : ~ (x.key = r.key /\ x.asOf = r.asOf)}
  /\ pitBuild' = [IdlePit EXCEPT !.at = "written"]
  /\ UNCHANGED <<keys, observed, pitVerdict, revised>>

\* No layer may hold more rows than the hub holds keys.
PitVerify ==
  /\ pitBuild.at = "written"
  /\ pitBuild' = IdlePit
  /\ pitVerdict' =
       IF \A d \in HeldDates :
            Cardinality({r \in pit : r.asOf = d}) <= Cardinality(keys)
         THEN "accepted" ELSE "drop_it"
  /\ UNCHANGED <<keys, observed, pit, revised>>

PitCrash ==
  /\ pitBuild.at # "idle"
  /\ pitBuild' = IdlePit
  /\ UNCHANGED <<keys, observed, pit, pitVerdict, revised>>

\* The repair both refusals name.
DropPit ==
  /\ pitBuild.at = "idle" /\ pitVerdict = "drop_it" /\ pit # {}
  /\ pit' = {} /\ pitVerdict' = "none" /\ revised' = FALSE
  /\ UNCHANGED <<keys, observed, pitBuild>>

PitNext ==
  \/ \E K \in KeyLoads : LoadKeys(K)
  \/ \E s \in Satellite, snapshot \in Snapshots : LoadPitSatellite(s, snapshot[s])
  \/ PitRead \/ PitWrite \/ PitVerify \/ PitCrash \/ DropPit

PitSpec == PitInit /\ [][PitNext]_pitVars

----------------------------------------------------------------------------
\* Properties.

PitAccepts == pitVerdict' = "accepted" /\ pitVerdict # "accepted"

\* In a table just accepted every pointer is the latest applied_date at or before
\* its layer, rows appended by earlier builds included, which no build revises:
\* unless a satellite gained rows at a layer already held, or a build was running
\* when it gained rows below one.
AcceptedPointersAreLatest ==
  [][PitAccepts /\ ~ revised => \A r \in pit' : \A s \in Satellite :
       r.pointer[s] = Latest(observed', s, r.key, r.asOf)]_pitVars

\* The same with no exception: pit.py's docstring names one case an append-only
\* table cannot follow, and says that case is refused.
EveryAcceptedPointerIsLatest ==
  [][PitAccepts => \A r \in pit' : \A s \in Satellite :
       r.pointer[s] = Latest(observed', s, r.key, r.asOf)]_pitVars

\* Once the append commits, a key has one row at every measured layer from its
\* first observation on, also where no satellite observed it and also when the
\* layer was there before the key: a join on key and date loses nothing in force.
EveryKeyAtEveryLayer ==
  [][pitBuild.at = "dated" /\ pitBuild'.at = "written"
       => \A k \in keys, d \in pitBuild.dates :
            Cardinality({r \in pit' : r.key = k /\ r.asOf = d})
              = IF \E s \in Satellite : Latest(observed, s, k, d) # NoDate
                  THEN 1 ELSE 0]_pitVars

\* A build writes a row for every key a layer can show, and what is accepted points
\* at what was loaded.
PitTellsTheSatellites == EveryKeyAtEveryLayer /\ AcceptedPointersAreLatest
=============================================================================
