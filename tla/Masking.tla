------------------------------ MODULE Masking ------------------------------
(***************************************************************************)
(* The three tables of one contract under the column mask of               *)
(* opl.bronze.masking: the ingestion job creates and masks bronze and      *)
(* quarantine before its first writer, and scripts/                        *)
(* backfill_snapshot_columns.py rewrites one of the tables with an         *)
(* overwrite that Unity Catalog may plan as a replace of the table, which  *)
(* drops masks and NOT NULL.  The job, the repromote job and a backfill    *)
(* interleave statement by statement; each may be killed between any two.  *)
(*                                                                         *)
(* No principal that runs a job is in opl_pii_readers (it is deliberately  *)
(* empty), so every read through the mask yields the masked value.         *)
(***************************************************************************)
EXTENDS Naturals, FiniteSets, Sequences

CONSTANTS
  Month,      \* months a run or a backfill is given
  TokenOf,    \* token_month_key: the year digit and month a filename carries
  NoToken,    \* a filename with no token, or with two
  Line,       \* records of the source: [id, token, named]
  Legacy      \* lines ingested before the snapshot columns existed

Null == 0      \* _snapshot_month of a row written before the column

ASSUME MaskingAssumption ==
  /\ DOMAIN TokenOf = Month /\ \A m \in Month : TokenOf[m] # NoToken
  /\ Null \notin Month
  /\ IsFiniteSet(Line) /\ \A l \in Line : DOMAIN l = {"id", "token", "named"}
  /\ Legacy \subseteq Line

\* MASKED_COLUMNS["socios"]: the first is the one the DQ gate has a rule on.
Columns == <<"nome_socio_razao_social", "nome_do_representante">>
Masked  == {Columns[i] : i \in DOMAIN Columns}
Ruled   == Columns[1]

Table == {"staging", "quarantine", "bronze"}

\* mutant: the control covers staging too
CoversStaging == <<"staging", "bronze", "quarantine">>

\* masked_table_ddls: the tables the control covers, and not staging.
Covered == <<"bronze", "quarantine">>

\* A cell of the ruled column as stored.
Cell == {"name", "empty", "stars"}

\* A stored row: its line, the ruled cell, _snapshot_month.
Row == [line : Line, cell : Cell, month : Month \cup {Null}]

VARIABLES
  contract,  \* whether the contract declares masked columns
  rows,      \* rows[t]: the rows of table t
  columns,   \* columns[t]: "none" without the table, "old" or "snapshot"
  masks,     \* masks[t]: the columns the catalog masks on t
  asserted,  \* NOT NULL holds on bronze
  function,  \* the mask function exists
  job,       \* the ingestion or repromote run: [at, month, next]
  backfill,  \* the backfill: [at, table, month, count, next]
  bare       \* history: tables a backfill replaced and nobody fully masked since

tables == <<rows, columns, masks, asserted, function>>
maskingVars == <<contract, tables, job, backfill, bare>>

NoJob      == [at |-> "off", month |-> Null, next |-> 1]
NoBackfill == [at |-> "off", table |-> "bronze", month |-> Null, count |-> 0, next |-> 1]

\* Type correctness of the masked tables.
MaskingTypeOK ==
  /\ contract \in {"masked", "plain"} /\ asserted \in BOOLEAN /\ function \in BOOLEAN
  /\ \A t \in Table : rows[t] \subseteq Row /\ masks[t] \subseteq Masked
  /\ columns \in [Table -> {"none", "old", "snapshot"}]
  /\ job.at \in {"off", "create", "function", "mask", "ingest", "gate", "promote", "constrain"}
  /\ backfill.at \in {"off", "alter", "overwrite", "function", "mask", "verify", "constrain", "done"}
  /\ job.month \in Month \cup {Null} /\ backfill.month \in Month \cup {Null}
  /\ job.next \in 1..Len(Covered) * Len(Columns) /\ backfill.next \in DOMAIN Columns
  /\ backfill.count \in 0..Cardinality(Line) /\ backfill.table \in Table
  /\ bare \subseteq Table

Received(line) == IF line.named THEN "name" ELSE "empty"

\* A masked contract's tables are all created by its job; a plain contract may
\* have tables from before the snapshot columns.
MaskingInit ==
  /\ contract \in {"masked", "plain"} /\ function = FALSE
  /\ \/ /\ rows = [t \in Table |-> {}] /\ columns = [t \in Table |-> "none"]
        /\ asserted = FALSE
     \/ /\ contract = "plain" /\ asserted = TRUE
        /\ columns = [t \in Table |-> "old"]
        /\ LET old == {[line |-> l, cell |-> Received(l), month |-> Null] : l \in Legacy}
           IN  rows = [t \in Table |->
                         CASE t = "staging"    -> old
                           [] t = "quarantine" -> {r \in old : r.cell = "empty"}
                           [] t = "bronze"     -> {r \in old : r.cell # "empty"}]
  /\ masks = [t \in Table |-> {}] /\ bare = {}
  /\ job = NoJob /\ backfill = NoBackfill

\* What a SELECT of t returns to a reader the mask function does not admit.
Read(t) == {[r EXCEPT !.cell = IF Ruled \in masks[t] THEN "stars" ELSE @] : r \in rows[t]}

Provable(r) == r.month # Null /\ r.line.token = TokenOf[r.month]

\* rules_for: a name that is null or empty, a reference date not provable.
Rejected(r) == r.cell = "empty" \/ ~Provable(r)

\* The batch of a month: what the month's run staged.
Batch(month) == {r \in Read("staging") : r.month = month /\ r.line \notin Legacy}

\* A table its writer creates when it is not there; an append needs every
\* column of the frame, since no writer merges schemas.
Appendable(t) == columns[t] # "old"

-----------------------------------------------------------------------------
(* The ingestion job: ensure_masked_table, ingest, gate, promote.          *)

JobStarts ==
  /\ job.at = "off"
  /\ \E m \in Month : job' = [at |-> IF contract = "masked" THEN "create" ELSE "ingest",
                              month |-> m, next |-> 1]
  /\ UNCHANGED <<contract, tables, backfill, bare>>

\* repromote_batch_job: promote_batch for a batch whose rejects were triaged.
RepromoteStarts ==
  /\ job.at = "off"
  /\ \E m \in Month :
       /\ Batch(m) # {}
       /\ {r.line : r \in {b \in Batch(m) : Rejected(b)}} \subseteq {r.line : r \in rows["quarantine"]}
       /\ job' = [at |-> "promote", month |-> m, next |-> 1]
  /\ UNCHANGED <<contract, tables, backfill, bare>>

\* CREATE TABLE IF NOT EXISTS, with the snapshot columns in the DDL.
CreateTable ==
  /\ job.at = "create"
  /\ LET t == Covered[job.next] IN
     /\ columns' = [columns EXCEPT ![t] = IF @ = "none" THEN "snapshot" ELSE @]
     /\ job' = IF job.next = Len(Covered) THEN [job EXCEPT !.at = "function", !.next = 1]
                                          ELSE [job EXCEPT !.next = @ + 1]
  /\ UNCHANGED <<contract, rows, masks, asserted, function, backfill, bare>>

JobFunction ==
  /\ job.at = "function" /\ function' = TRUE /\ job' = [job EXCEPT !.at = "mask"]
  /\ UNCHANGED <<contract, rows, columns, masks, asserted, backfill, bare>>

\* SET MASK on t's column; a table it completes is no longer bare.
SetsMask(t, column) ==
  /\ function /\ columns[t] # "none"
  /\ masks' = [masks EXCEPT ![t] = @ \cup {column}]
  /\ bare' = IF masks'[t] = Masked THEN bare \ {t} ELSE bare

\* The (table, column) pairs in the order the task masks them.
Statements ==
  [i \in 1..Len(Covered) * Len(Columns) |->
     <<Covered[((i - 1) \div Len(Columns)) + 1], Columns[((i - 1) % Len(Columns)) + 1]>>]

\* mutant: the loop stops one statement early
StopsAStatementEarly ==
  /\ job.at = "mask"
  /\ SetsMask(Statements[job.next][1], Statements[job.next][2])
  /\ job' = IF job.next = Len(Statements) - 1 THEN [job EXCEPT !.at = "ingest", !.next = 1]
                                              ELSE [job EXCEPT !.next = @ + 1]
  /\ UNCHANGED <<contract, rows, columns, asserted, function, backfill>>

JobMask ==
  /\ job.at = "mask"
  /\ SetsMask(Statements[job.next][1], Statements[job.next][2])
  /\ job' = IF job.next = Len(Statements) THEN [job EXCEPT !.at = "ingest", !.next = 1]
                                          ELSE [job EXCEPT !.next = @ + 1]
  /\ UNCHANGED <<contract, rows, columns, asserted, function, backfill>>

\* The month's files are read once; add_audit_columns stamps their rows.  The
\* stream widens staging itself.
Ingest ==
  /\ job.at = "ingest"
  /\ LET new == {l \in Line \ {r.line : r \in rows["staging"]} :
                   l.token \in {TokenOf[job.month], NoToken}}
     IN  rows' = [rows EXCEPT !["staging"] =
                    @ \cup {[line |-> l, cell |-> Received(l), month |-> job.month] : l \in new}]
  /\ columns' = [columns EXCEPT !["staging"] = "snapshot"]
  /\ job' = [job EXCEPT !.at = "gate"]
  /\ UNCHANGED <<contract, masks, asserted, function, backfill, bare>>

Gate ==
  /\ job.at = "gate" /\ Appendable("quarantine")
  /\ LET bad == {r \in Batch(job.month) : Rejected(r)} IN
     /\ rows' = [rows EXCEPT !["quarantine"] =
                   IF \E r \in @ : r.line \in {b.line : b \in bad} THEN @ ELSE @ \cup bad]
     /\ job' = IF bad = {} THEN [job EXCEPT !.at = "promote"] ELSE NoJob
  /\ columns' = [columns EXCEPT !["quarantine"] = "snapshot"]
  /\ UNCHANGED <<contract, masks, asserted, function, backfill, bare>>

\* promote_batch: the good rows of the batch, once; constraints after them.
Promote ==
  /\ job.at = "promote"
  /\ LET batch == Batch(job.month)
         good  == {r \in batch : ~Rejected(r)}
         there == {r \in rows["bronze"] : r.line \in {b.line : b \in batch}}
     IN IF batch = {} THEN job' = NoJob /\ UNCHANGED <<rows, columns>>
        ELSE /\ there # {} \/ Appendable("bronze")
             /\ rows' = [rows EXCEPT !["bronze"] = IF there = {} THEN @ \cup good ELSE @]
             /\ columns' = [columns EXCEPT !["bronze"] = IF there = {} THEN "snapshot" ELSE @]
             /\ job' = [job EXCEPT !.at = "constrain"]
  /\ UNCHANGED <<contract, masks, asserted, function, backfill, bare>>

JobConstrains ==
  /\ job.at = "constrain" /\ asserted' = TRUE /\ job' = NoJob
  /\ UNCHANGED <<contract, rows, columns, masks, function, backfill, bare>>

\* A statement raises, or the process is killed.
JobDies ==
  /\ job.at # "off" /\ job' = NoJob
  /\ UNCHANGED <<contract, tables, backfill, bare>>

-----------------------------------------------------------------------------
(* backfill_snapshot_columns.py.                                           *)

\* pre_write_scan: the months a table carries, where it has the column.
MonthsOf(t) == IF columns[t] = "snapshot" THEN {r.month : r \in rows[t]} \ {Null} ELSE {}

\* What its filenames say, of those that carry one token.
SourceMonths(t) == {r.line.token : r \in rows[t]} \ {NoToken}

AgreesWithMonth(t, m)       == MonthsOf(t) \subseteq {m}
AgreesWithSourceMonth(t, m) == SourceMonths(t) \subseteq {TokenOf[m]}
NoRejectIsStamped(t)        == t = "quarantine" => rows[t] = {}

\* pre_write_or_refuse: one scan of the table; a refusal writes nothing.
Scan ==
  /\ backfill.at \in {"off", "done"}
  /\ \E t \in Table, m \in Month :
       /\ columns[t] # "none"
       /\ AgreesWithMonth(t, m) /\ AgreesWithSourceMonth(t, m) /\ NoRejectIsStamped(t)
       /\ backfill' = [at |-> IF columns[t] = "old" THEN "alter" ELSE "overwrite",
                       table |-> t, month |-> m, count |-> Cardinality(rows[t]), next |-> 1]
  /\ UNCHANGED <<contract, tables, job, bare>>

AddColumns ==
  /\ backfill.at = "alter" /\ columns[backfill.table] = "old"
  /\ columns' = [columns EXCEPT ![backfill.table] = "snapshot"]
  /\ backfill' = [backfill EXCEPT !.at = "overwrite"]
  /\ UNCHANGED <<contract, rows, masks, asserted, function, job, bare>>

\* required_masks: the columns that must be masked on t when the run is over.
Required(t) ==
  IF contract = "masked" /\ \E i \in DOMAIN Covered : Covered[i] = t THEN Masked ELSE {}

\* _fill: both snapshot columns, on every row the session reads.
Filled(t, month) == {[r EXCEPT !.month = month] : r \in Read(t)}

\* fill_and_overwrite: every row the session reads, stamped; no write at all
\* when the scan found none.  Planned as an overwrite or as a replace.
Overwrite ==
  /\ backfill.at = "overwrite"
  /\ LET t == backfill.table IN
     IF backfill.count = 0
     THEN backfill' = [backfill EXCEPT !.at = "verify"] /\ UNCHANGED <<tables, bare>>
     ELSE /\ rows' = [rows EXCEPT ![t] = Filled(t, backfill.month)]
          /\ backfill' = [backfill EXCEPT !.at = IF Required(t) = {} THEN "verify" ELSE "function"]
          /\ \/ UNCHANGED <<masks, asserted, bare>>
             \/ /\ masks' = [masks EXCEPT ![t] = {}]
                /\ asserted' = (asserted /\ t # "bronze")
                /\ bare' = IF Required(t) = {} THEN bare ELSE bare \cup {t}
          /\ UNCHANGED <<columns, function>>
  /\ UNCHANGED <<contract, job>>

BackfillFunction ==
  /\ backfill.at = "function" /\ function' = TRUE
  /\ backfill' = [backfill EXCEPT !.at = "mask"]
  /\ UNCHANGED <<contract, rows, columns, masks, asserted, job, bare>>

\* verify_masks_or_raise, over what the catalog reports.
MasksAreBack(t, observed) == Required(t) \subseteq observed

\* restore_masks; the last one is followed by the read back of the catalog.
RestoreMask ==
  /\ backfill.at = "mask"
  /\ SetsMask(backfill.table, Columns[backfill.next])
  /\ backfill' = IF backfill.next < Len(Columns) THEN [backfill EXCEPT !.next = @ + 1]
                 ELSE IF MasksAreBack(backfill.table, masks'[backfill.table])
                      THEN [backfill EXCEPT !.at = "verify"] ELSE NoBackfill
  /\ UNCHANGED <<contract, rows, columns, asserted, function, job>>

\* mutant: the months are checked and the count is not
ChecksMonthsOnly == \A r \in rows[backfill.table] : r.month # Null

\* verify_or_raise: the count of the scan, no row without a month.
Verified ==
  LET t == backfill.table IN
  /\ Cardinality(rows[t]) = backfill.count
  /\ \A r \in rows[t] : r.month # Null

VerifyWrite ==
  /\ backfill.at = "verify"
  /\ backfill' = IF Verified THEN [backfill EXCEPT !.at = "constrain"] ELSE NoBackfill
  /\ UNCHANGED <<contract, tables, job, bare>>

\* _assert_constraints, which is bronze DDL, and the DONE line.
BackfillConstrains ==
  /\ backfill.at = "constrain"
  /\ asserted' = (asserted \/ backfill.table = "bronze")
  /\ backfill' = [backfill EXCEPT !.at = "done"]
  /\ UNCHANGED <<contract, rows, columns, masks, function, job, bare>>

BackfillDies ==
  /\ backfill.at \notin {"off", "done"} /\ backfill' = NoBackfill
  /\ UNCHANGED <<contract, tables, job, bare>>

JobNext ==
  \/ JobStarts \/ RepromoteStarts \/ CreateTable \/ JobFunction \/ JobMask
  \/ Ingest \/ Gate \/ Promote \/ JobConstrains \/ JobDies

BackfillNext ==
  \/ Scan \/ AddColumns \/ Overwrite \/ BackfillFunction \/ RestoreMask
  \/ VerifyWrite \/ BackfillConstrains \/ BackfillDies

MaskingNext == JobNext \/ BackfillNext

MaskingSpec == MaskingInit /\ [][MaskingNext]_maskingVars

-----------------------------------------------------------------------------
(* Properties.                                                             *)

Readable(t) == masks[t] # Masked /\ \E r \in rows[t] : r.cell = "name"

\* A civil name is readable in bronze or in quarantine only in a table that a
\* backfill replaced and that nobody has masked again: no order of the job's
\* statements, no kill and no repromote opens a second window
\* (ensure_masked_table's ordering, restore_masks).
OnlyAReplaceUncovers ==
  contract = "masked" => \A i \in DOMAIN Covered : Readable(Covered[i]) => Covered[i] \in bare

\* Bronze receives names as the source wrote them, and never a row without a
\* one: promote and the gate read staging, where no mask stands between them
\* and the value (masked_table_ddls, which leaves staging out).
NamesArriveWhole ==
  [][\A r \in rows'["bronze"] :
       r.line \notin {o.line : o \in rows["bronze"]} => r.cell = "name" /\ r.line.named]_maskingVars

\* A backfill that wrote and reports DONE leaves the masks in the catalog, NOT
\* NULL on bronze, and no row under a month its own filename contradicts,
\* whatever the job appended since the scan (verify_masks_or_raise,
\* verify_or_raise).
DoneIsTrue ==
  [][backfill.at = "constrain" /\ backfill'.at = "done" /\ backfill.count > 0 =>
       LET t == backfill.table IN
       /\ Required(t) \subseteq masks'[t]
       /\ t = "bronze" => asserted'
       /\ \A r \in rows'[t] :
            r.month # Null /\ r.line.token \in {NoToken, TokenOf[r.month]}]_maskingVars

\* "already stamped -- re-running is idempotent": a backfill over rows that all
\* carry its month changes none of them.  Refuted through the mask: a masked
\* bronze is read as *** and written back.
RerunIsIdempotent ==
  [][backfill.at = "overwrite" /\ backfill'.at # "overwrite"
       /\ (\A r \in rows[backfill.table] : r.month = backfill.month)
       => rows' = rows]_maskingVars
=============================================================================
