------------------------------ MODULE Generator ------------------------------
(***************************************************************************)
(* opl.generator: a named profile declares a payment stream and the        *)
(* defects it is delivered with, and publishes the numbers its file will   *)
(* show before a run exists.  Import refuses some profiles; the draws --   *)
(* digests of (seed, purpose, index), arbitrary here -- decide the rest.   *)
(* Events are numbered from 1, where the code's indices start at 0.        *)
(***************************************************************************)
EXTENDS Integers, Sequences, FiniteSets, SequencesExt

CONSTANTS
  Profile,     \* the profiles that may be declared
  PoolSize,    \* counterparties in the pool
  Amount,      \* what else distinguishes two payments
  Window,      \* LATENESS_WINDOW_MS
  Earlier, Later,  \* _VAULT_APPLIED_DATES
  Undated      \* no drift_from_index

\* A StreamProfile as it is declared: require_whole refuses every number below zero.
Declaration ==
  [count : Nat, repeats : Nat, interval : Nat, start : Int,
   placement : {"before", "between", "after"}, twice : Nat, late : Nat, lateBy : Nat,
   drift : Nat \cup {Undated}]

ASSUME GeneratorAssumption ==
  /\ Profile \subseteq Declaration /\ Undated \notin Nat
  /\ PoolSize \in Nat /\ PoolSize >= 2
  /\ Amount # {} /\ Window \in Nat \ {0}
  /\ Earlier \in Int /\ Later \in Int /\ Earlier < Later

VARIABLES
  profile,  \* the StreamProfile, its DefectSpec's fields among its own
  phase,    \* how far the profile has got
  picked,   \* the positions repeated, delivered twice and delayed
  events,   \* the business attributes of each event generated so far
  rows      \* delivered_records: the file

profileVars == <<profile, phase, picked, events, rows>>

Corpus == INSTANCE Delivery
  WITH EventCount <- profile.count, Interval <- profile.interval,
       LateCount <- profile.late, LateBy <- profile.lateBy

Drifts == profile.drift # Undated

------------------------------------------------------------------------------
(* What import refuses. *)

\* StreamSpec.__post_init__ and _require_room_for_repeats
StreamFits ==
  /\ profile.count >= 1 /\ profile.interval >= 1
  /\ profile.repeats <= profile.count - 1

\* _require_the_delay_matches_the_count
DelayMatchesCount ==
  /\ profile.late > 0 => profile.lateBy >= Window
  /\ profile.lateBy > 0 => profile.late > 0

\* _require_the_drift_is_mid_stream: index 0 is event 1.
DriftIsMidStream == Drifts => profile.drift > 1

\* _require_defects_fit
DefectsFit ==
  /\ profile.late > 0 => profile.lateBy > profile.interval
  /\ Drifts => profile.drift <= profile.count

\* mutant: the guard is dropped.
DriftMeetsDuplicates == TRUE

\* _refuse_drift_beside_duplicates
DriftStandsAlone == ~(Drifts /\ profile.twice > 0)

EventTime(i) == profile.start + (i - 1) * profile.interval

\* last_event_time
LastEventTime == EventTime(profile.count)

\* observed_placement; None is "astride".
ObservedPlacement ==
  CASE LastEventTime < Earlier -> "before"
    [] Earlier < profile.start /\ LastEventTime < Later -> "between"
    [] Later < profile.start -> "after"
    [] OTHER -> "astride"

Importable ==
  /\ StreamFits /\ DelayMatchesCount /\ DriftIsMidStream
  /\ DefectsFit /\ DriftStandsAlone
  /\ profile.placement = ObservedPlacement

------------------------------------------------------------------------------
(* What a profile predicts of its file. *)

BaseCount == profile.count - profile.repeats
DeliveredRowCount == profile.count + profile.twice
DriftedRowCount == IF Drifts THEN profile.count - (profile.drift - 1) ELSE 0

------------------------------------------------------------------------------
(* What generating draws. *)

\* _counterparties: the payee is drawn from the others, by skipping the payer.
Counterparties(payer, payee) ==
  <<payer, IF payee >= payer THEN payee + 1 ELSE payee>>

Attributes ==
  {<<Counterparties(payer, payee), amount>> :
     payer \in 0..PoolSize - 1, payee \in 0..PoolSize - 2, amount \in Amount}

\* _selected over the positions eligible for each class: as many as asked for.
Selected(candidates, count) == {s \in SUBSET candidates : Cardinality(s) = count}

RepeatPositions == Selected(2..profile.count, profile.repeats)
DuplicatePositions == Selected(1..profile.count, profile.twice)
DriftPositions == {i \in 1..profile.count : Drifts /\ i >= profile.drift}

\* The attributes of the base events so far: repeats add none of their own.
Bases == {events[i] : i \in (DOMAIN events) \ picked.repeats}

------------------------------------------------------------------------------
NothingPicked == [repeats |-> {}, twice |-> {}, late |-> {}]

ProfileInit ==
  /\ profile \in Profile
  /\ phase = "declared"
  /\ picked = NothingPicked /\ events = <<>> /\ rows = <<>>

Import ==
  /\ phase = "declared"
  /\ phase' = IF Importable THEN "imported" ELSE "refused"
  /\ UNCHANGED <<profile, picked, events, rows>>

\* The selections of delivered_records, refused where fewer are eligible.
Select ==
  /\ phase = "imported"
  /\ phase' = "generating"
  /\ \E repeats \in RepeatPositions, twice \in DuplicatePositions,
       late \in Corpus!LatePositions :
       picked' = [repeats |-> repeats, twice |-> twice, late |-> late]
  /\ UNCHANGED <<profile, events, rows>>

TooFewEligible ==
  /\ phase = "imported"
  /\ DuplicatePositions = {} \/ Corpus!LatePositions = {}
  /\ phase' = "abandoned"
  /\ UNCHANGED <<profile, picked, events, rows>>

\* One turn of generate's loop, on a position that repeats an earlier base event ...
Repeat ==
  /\ phase = "generating" /\ Len(events) < profile.count
  /\ Len(events) + 1 \in picked.repeats
  /\ \E base \in Bases : events' = Append(events, base)
  /\ UNCHANGED <<profile, phase, picked, rows>>

\* ... and on one that does not: _distinct_attributes.
Generate ==
  /\ phase = "generating" /\ Len(events) < profile.count
  /\ Len(events) + 1 \notin picked.repeats
  /\ \E fresh \in Attributes \ Bases : events' = Append(events, fresh)
  /\ UNCHANGED <<profile, phase, picked, rows>>

\* MAX_ATTRIBUTE_ATTEMPTS draws in a row were taken before.
PoolExhausted ==
  /\ phase = "generating" /\ Len(events) < profile.count
  /\ Len(events) + 1 \notin picked.repeats
  /\ Bases # {}
  /\ phase' = "abandoned"
  /\ UNCHANGED <<profile, picked, events, rows>>

\* record_of, and the drifted field of an event by its index; the emission lag, the
\* same for every event, is left out.
Row(r) ==
  [id |-> r.id, at |-> EventTime(r.id), emitted |-> EventTime(r.id) + (r.emitted - r.at),
   paid |-> events[r.id], drifted |-> r.id \in DriftPositions]

DeliveredRows == LET file == Corpus!DeliveredRecords(picked.late, picked.twice)
                 IN [p \in DOMAIN file |-> Row(file[p])]

DeliverFile ==
  /\ phase = "generating" /\ Len(events) = profile.count
  /\ IF Corpus!Measurable(picked.late)
       THEN phase' = "delivered" /\ rows' = DeliveredRows
       ELSE phase' = "abandoned" /\ UNCHANGED rows
  /\ UNCHANGED <<profile, picked, events>>

ProfileNext == Import \/ Select \/ TooFewEligible \/ Repeat \/ Generate \/ PoolExhausted \/ DeliverFile

ProfileSpec == ProfileInit /\ [][ProfileNext]_profileVars

------------------------------------------------------------------------------
(* opl.generator.measures: what the file shows a reader who has nothing else. *)

DistinctIdentities(file) == Cardinality(Corpus!Identities(file, DOMAIN file))
DistinctBusinessAttributes(file) == Cardinality({file[p].paid : p \in DOMAIN file})
DriftedRows(file) == {p \in DOMAIN file : file[p].drifted}
CrossesAWindow(row) == row.emitted \div Window > row.at \div Window

Delivered == phase = "delivered"

\* Every number a profile publishes before its run is the number its file shows:
\* rows, payments, drifted rows (StreamProfile.delivered_row_count,
\* drifted_row_count) and distinct attributes (StreamSpec.base_count), whichever
\* defects it declares together.
PredictionIsTheFile ==
  Delivered =>
    /\ Len(rows) = DeliveredRowCount
    /\ DistinctIdentities(rows) = profile.count
    /\ Cardinality(DriftedRows(rows)) = DriftedRowCount
    /\ DistinctBusinessAttributes(rows) = BaseCount

\* The late arrivals of the file as it is delivered, redeliveries included, are
\* the payments that were delayed and their copies, and each was emitted in a
\* later window than it happened in (defects.py: a late arrival crosses a window).
LatenessIsReal ==
  Delivered =>
    /\ Corpus!Identities(rows, Corpus!LateArrivals(rows)) = picked.late
    /\ \A p \in DOMAIN rows : rows[p].id \in picked.late => CrossesAWindow(rows[p])

\* A payment lies strictly on the side of each of the vault's dates that its
\* profile declares, so one company version answers for the whole stream
\* (_refuse_a_window_that_contradicts_its_declared_placement).
OneVersionPerStream ==
  \A p \in DOMAIN rows :
    CASE profile.placement = "before" -> rows[p].at < Earlier
      [] profile.placement = "between" -> Earlier < rows[p].at /\ rows[p].at < Later
      [] profile.placement = "after" -> Later < rows[p].at
\* The file a profile delivers is the one it declares.
FileIsAsDeclared == PredictionIsTheFile /\ LatenessIsReal /\ OneVersionPerStream
=============================================================================
