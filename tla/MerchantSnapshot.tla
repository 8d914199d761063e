-------------------------- MODULE MerchantSnapshot --------------------------
(***************************************************************************)
(* scripts/seed_merchant_db.py and scripts/extract_merchant_snapshot.py    *)
(* over opl.extraction.postgres_source: the merchant registry is seeded,   *)
(* mutated by two sessions, and read by an extractor in one REPEATABLE     *)
(* READ transaction of several statements.                                 *)
(*                                                                         *)
(* The database keeps what PostgreSQL promises: a statement of a           *)
(* REPEATABLE READ transaction sees what was committed when the            *)
(* transaction's first statement ran, now() is the instant the writing     *)
(* transaction began, and a name is resolved when a statement runs, so a   *)
(* table re-created meanwhile is empty to an older snapshot.               *)
(***************************************************************************)
EXTENDS Naturals, FiniteSets, FiniteSetsExt

CONSTANTS
  Class,       \* change class -> the merchants of it; "untouched" the rest
  Horizon,     \* bound: the last instant of the server's clock
  MaxSnapshots,\* bound: snapshots landed
  MaxSeeds     \* bound: how often the registry is seeded

ASSUME MerchantAssumption ==
  /\ Class \in [{"held", "advance", "insert", "update", "silent", "delete", "untouched"} -> SUBSET STRING]
  /\ \A c, d \in DOMAIN Class : c # d => Class[c] \cap Class[d] = {}
  /\ \A c \in DOMAIN Class : IsFiniteSet(Class[c])
  /\ {Horizon, MaxSnapshots, MaxSeeds} \subseteq Nat

Merchants == UNION {Class[c] : c \in DOMAIN Class}
Seeded    == Merchants \ Class["insert"]
Instant   == 0..Horizon
SeedStamp == 0                       \* at or below SEED_UPDATED_CEILING
Never     == Horizon + 1             \* no watermark, no --since, no stamp

\* A row: its key, its updated_at, and whether its payload was mutated.
Row == [key : Merchants, stamp : Instant, mutated : BOOLEAN]

VARIABLES
  clock,     \* the server's clock
  table,     \* the committed rows of merchant
  created,   \* which CREATE TABLE the name merchant stands for
  mutation,  \* where seed_merchant_db.mutate is
  pending,   \* the rows the held-open transaction wrote and did not commit
  t1,        \* the stamp they carry
  ready,     \* the t2 the readiness file carries, Never without a file
  extract,   \* the extractor's run
  landed     \* the snapshots in the landing Volume

db == <<clock, table, created, mutation, pending, t1, ready>>
merchantVars == <<db, extract, landed>>

\* What a run observed (MerchantSnapshot), and beside it what the registry was
\* when it was stamped: its rows, the held-open transaction, the mutation's end.
Observation ==
  [instant : Instant, rows : SUBSET Row, watermark : Instant \cup {Never},
   since : Instant \cup {Never}, keys : SUBSET Merchants, handOff : BOOLEAN,
   created : 0..MaxSeeds, truth : SUBSET Row, held : BOOLEAN, mutated : BOOLEAN]

NothingSeen == [instant |-> 0, rows |-> {}, watermark |-> Never, since |-> Never, keys |-> {},
            handOff |-> FALSE, created |-> 0, truth |-> {}, held |-> FALSE, mutated |-> FALSE]

NoRun == [at |-> "off", t2 |-> Never, seen |-> NothingSeen]

MerchantTypeOK ==
  /\ clock \in Instant /\ table \subseteq Row /\ pending \subseteq Row
  /\ created \in 0..MaxSeeds
  /\ mutation \in {"none", "held", "early", "announced", "insert", "update", "silent",
                   "delete", "done", "over"}
  /\ {t1, ready} \subseteq Instant \cup {Never}
  /\ extract.at \in {"off", "wait", "stamp", "columns", "rows", "count", "watermark",
                     "incremental", "check", "land"}
  /\ extract.t2 \in Instant \cup {Never} /\ extract.seen \in Observation
  /\ landed \subseteq Observation

MerchantInit ==
  /\ clock = 0 /\ table = {} /\ created = 0 /\ mutation = "over" /\ pending = {}
  /\ t1 = Never /\ ready = Never
  /\ extract = NoRun /\ landed = {}

Keys(rows) == {row.key : row \in rows}

Watermark(rows) == IF rows = {} THEN Never ELSE Max({row.stamp : row \in rows})

Tick ==
  /\ clock < Horizon /\ clock' = clock + 1
  /\ UNCHANGED <<table, created, mutation, pending, t1, ready, extract, landed>>

-----------------------------------------------------------------------------
(* seed_merchant_db: one command at a time.                                *)

\* The extractor has read the table and not committed: it holds its lock.
Reading == extract.at \in {"count", "watermark", "incremental"}

\* DROP, CREATE and INSERT in one transaction, which waits for the readers.
Seed ==
  /\ mutation \in {"none", "done", "over"} /\ ~Reading
  /\ created < MaxSeeds /\ created' = created + 1
  /\ table' = {[key |-> k, stamp |-> SeedStamp, mutated |-> FALSE] : k \in Seeded}
  /\ mutation' = "none"
  /\ UNCHANGED <<clock, pending, t1, ready, extract, landed>>

\* The BEFORE UPDATE trigger (updated_at := now()), unless
\* session_replication_role = replica disarms it.
Restamped(row, armed) == IF armed THEN clock ELSE row.stamp

\* The rows of a class after its UPDATE.
Updated(class, armed, mutated) ==
  {[row EXCEPT !.stamp = Restamped(row, armed), !.mutated = mutated \/ @] :
     row \in {r \in table : r.key \in Class[class]}}

With(rows) == {row \in table : row.key \notin Keys(rows)} \cup rows

\* _refuse_unless_seeded, BEGIN, and the held-open class on the second session.
Hold ==
  /\ mutation = "none"
  /\ IF Watermark(table) = SeedStamp /\ SeedStamp < clock
       THEN mutation' = "held" /\ pending' = Updated("held", TRUE, TRUE) /\ t1' = clock
       ELSE mutation' = "over" /\ UNCHANGED <<pending, t1>>
  /\ UNCHANGED <<clock, table, created, ready, extract, landed>>

\* The watermark-advancing write, on the autocommit session; unless it is
\* stamped after the held-open one the mutation refuses to go on.
Advance ==
  /\ mutation = "held"
  /\ table' = With(Updated("advance", TRUE, FALSE))
  /\ IF clock > t1 THEN mutation' = "early" /\ UNCHANGED pending
                   ELSE mutation' = "over" /\ pending' = {}
  /\ UNCHANGED <<clock, created, t1, ready, extract, landed>>

\* _announce_readiness, staged and renamed: the file is absent or whole.
Announce ==
  /\ mutation = "early"
  /\ ready' = Watermark({row \in table : row.key \in Class["advance"]})
  /\ mutation' = "announced"
  /\ UNCHANGED <<clock, table, created, pending, t1, extract, landed>>

\* release() returns, by the operator's file or a timer, and the held-open
\* transaction commits.
Release ==
  /\ mutation = "announced"
  /\ table' = With(pending) /\ pending' = {}
  /\ mutation' = "insert"
  /\ UNCHANGED <<clock, created, t1, ready, extract, landed>>

AfterThat == [insert |-> "update", update |-> "silent", silent |-> "delete", delete |-> "done"]

\* The other classes, each committed by itself, its stamp later than any before.
ApplyRest ==
  /\ mutation \in DOMAIN AfterThat /\ mutation' = AfterThat[mutation]
  /\ mutation \in {"insert", "update"} => Watermark(table) < clock
  /\ table' = CASE mutation = "insert" ->
                     table \cup {[key |-> k, stamp |-> clock, mutated |-> FALSE] : k \in Class["insert"]}
               [] mutation = "update" -> With(Updated("update", TRUE, TRUE))
               [] mutation = "silent" -> With(Updated("silent", FALSE, TRUE))
               [] mutation = "delete" -> {row \in table : row.key \notin Class["delete"]}
  /\ UNCHANGED <<clock, created, pending, t1, ready, extract, landed>>

\* The process is killed: what it held open is rolled back.
MutationDies ==
  /\ mutation \notin {"none", "done", "over"}
  /\ mutation' = "over" /\ pending' = {}
  /\ UNCHANGED <<clock, table, created, t1, ready, extract, landed>>

-----------------------------------------------------------------------------
(* extract_merchant_snapshot: one run.                                     *)

Observes(next, seen) ==
  /\ extract' = [extract EXCEPT !.at = next, !.seen = seen]
  /\ UNCHANGED <<db, landed>>

Refuses == extract' = NoRun /\ UNCHANGED <<db, landed>>

\* --since is the watermark an earlier snapshot recorded; it needs --wait-for.
BeginExtract ==
  /\ extract.at = "off" /\ Cardinality(landed) < MaxSnapshots
  /\ \E handOff \in BOOLEAN, since \in {m.watermark : m \in landed} \cup {Never} :
       /\ since # Never => handOff
       /\ Observes(IF handOff THEN "wait" ELSE "stamp",
                   [NothingSeen EXCEPT !.handOff = handOff, !.since = since])

\* wait_for_readiness; a timeout refuses.
WaitForReadiness ==
  /\ extract.at = "wait"
  /\ \/ Refuses
     \/ /\ ready # Never
        /\ extract' = [extract EXCEPT !.at = "stamp", !.t2 = ready]
        /\ UNCHANGED <<db, landed>>

\* The stamp is the transaction's first statement: it takes the snapshot and
\* labels it.  Two stamps are never one instant.
Stamp ==
  /\ extract.at = "stamp" /\ \A m \in landed : m.instant < clock
  /\ Observes("columns", [extract.seen EXCEPT !.instant = clock, !.created = created, !.truth = table,
                            !.held = (pending # {}), !.mutated = (mutation = "done")])

\* mutant: each statement sees what is committed when it runs
ReadCommitted == table

\* What a statement sees of the table the name stands for when it runs.
Visible == IF extract.seen.created = created THEN extract.seen.truth ELSE {}

\* A table re-created since the stamp has no columns the snapshot can see.
ReadColumns ==
  /\ extract.at = "columns"
  /\ IF extract.seen.created = created THEN Observes("rows", extract.seen) ELSE Refuses

\* The rows, all of them or a page of them.
ReadRows ==
  /\ extract.at = "rows"
  /\ \E rows \in {Visible} \cup {Visible \ {row} : row \in Visible} :
       Observes("count", [extract.seen EXCEPT !.rows = rows])

ReadCount ==
  /\ extract.at = "count"
  /\ IF Cardinality(extract.seen.rows) = Cardinality(Visible)
       THEN Observes("watermark", extract.seen) ELSE Refuses

ReadWatermark ==
  /\ extract.at = "watermark"
  /\ Observes("incremental", [extract.seen EXCEPT !.watermark = Watermark(Visible)])

Incremental(rows, since) == IF since = Never THEN {} ELSE {row.key : row \in {r \in rows : r.stamp > since}}

\* WHERE updated_at > since, and COMMIT.
ReadIncremental ==
  /\ extract.at = "incremental"
  /\ Observes("check", [extract.seen EXCEPT !.keys = Incremental(Visible, extract.seen.since)])

NotBefore(stamp, t2) == stamp # Never /\ stamp >= t2

HandOffHolds(seen, t2) ==
  /\ NotBefore(seen.watermark, t2)
  /\ seen.since # Never => NotBefore(seen.since, t2)

CheckHandOff ==
  /\ extract.at = "check"
  /\ IF extract.seen.handOff => HandOffHolds(extract.seen, extract.t2)
       THEN Observes("land", extract.seen) ELSE Refuses

\* Serialised, written, read back and put into the Volume, or not.
LandSnapshot ==
  /\ extract.at = "land"
  /\ extract' = NoRun
  /\ landed' \in {landed, landed \cup {extract.seen}}
  /\ UNCHANGED db

MerchantNext ==
  \/ Tick \/ Seed \/ Hold \/ Advance \/ Announce \/ Release \/ ApplyRest \/ MutationDies
  \/ BeginExtract \/ WaitForReadiness \/ Stamp \/ ReadColumns \/ ReadRows \/ ReadCount
  \/ ReadWatermark \/ ReadIncremental \/ CheckHandOff \/ LandSnapshot

MerchantSpec == MerchantInit /\ [][MerchantNext]_merchantVars

-----------------------------------------------------------------------------

\* A snapshot landed under the hand-off is one state of the registry: its rows,
\* its watermark and its incremental answer are those of the instant it names,
\* whatever committed or was re-created while it was read.
OneObservation ==
  \A m \in landed : m.handOff =>
    /\ m.rows = m.truth
    /\ m.watermark = Watermark(m.truth) /\ m.keys = Incremental(m.truth, m.since)

\* The merchants an incremental run missed between two snapshots.
Missed(m1, m2) ==
  LET content(m) == {<<row.key, row.mutated>> : row \in m.rows}
  IN  {k[1] : k \in (content(m1) \ content(m2)) \cup (content(m2) \ content(m1))} \ m2.keys

\* The complement of the incremental query is the held-open, the silent and the
\* deleted merchants, and no others: when the first snapshot was read with the
\* transaction open and the second after the mutation, the hand-off lets no
\* pair through in which the held-open rows are visible to the watermark.
MissIsExact ==
  \A m1, m2 \in landed :
    /\ m1.created = m2.created /\ m1.held /\ m2.mutated /\ m2.since = m1.watermark
    /\ m1.rows = m1.truth
    => Missed(m1, m2) = Class["held"] \cup Class["silent"] \cup Class["delete"]

\* An empty snapshot looks like a table whose every row was deleted: none lands
\* of a registry that held any.
NoPhantomDepartures == \A m \in landed : m.rows = m.truth

\* A snapshot taken at the hand-off is one moment of the database, and what an
\* incremental run misses between two of them is exactly what it cannot see.
SnapshotIsOneMoment == OneObservation /\ MissIsExact
=============================================================================
