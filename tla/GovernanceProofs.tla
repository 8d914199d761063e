-------------------------- MODULE GovernanceProofs --------------------------
(***************************************************************************)
(* Proofs about what governs the tables, in three parts that share no      *)
(* state.  Masking: for any months, lines and filenames, what a backfill,  *)
(* a job and their deaths leave open.  Grants: for any tables, principals, *)
(* roster and statements of administrators, what the task and its SUCCESS  *)
(* mean.  Catalogue: for any declarations and edits of them, what the      *)
(* tables of an accepted tree are.                                         *)
(***************************************************************************)
EXTENDS Masking, Grants, Catalogue, FiniteSetTheorems, SequenceTheorems, FunctionTheorems,
        WellFoundedInduction, TLAPS

(***************************************************************************)
(* The mask.                                                               *)
(***************************************************************************)

\* The tables masked_table_ddls covers.
CoveredTable == {"bronze", "quarantine"}

JobType ==
  [at : {"off", "create", "function", "mask", "ingest", "gate", "promote", "constrain"},
   month : Month \cup {Null}, next : 1..4]

BackfillType ==
  [at : {"off", "alter", "overwrite", "function", "mask", "verify", "constrain", "done"},
   table : Table, month : Month \cup {Null}, count : Nat, next : 1..2]

MaskingTyped ==
  /\ contract \in {"masked", "plain"} /\ asserted \in BOOLEAN /\ function \in BOOLEAN
  /\ rows \in [Table -> SUBSET Row] /\ masks \in [Table -> SUBSET Masked]
  /\ columns \in [Table -> {"none", "old", "snapshot"}]
  /\ job \in JobType /\ backfill \in BackfillType /\ bare \in SUBSET Table
  /\ (job.at # "off" => job.month \in Month) /\ (job.at = "create" => job.next \in 1..2)
  /\ (job.at = "function" => job.next = 1)
  /\ (backfill.at # "off" => backfill.month \in Month)

LinesIn(R) == {r.line : r \in R}

\* No line twice.
Keyed(R) == \A r, s \in R : r.line = s.line => r = s

\* Every table holds a line once.
LinesOnce == \A t \in Table : IsFiniteSet(rows[t]) /\ Keyed(rows[t])

\* A table under its mask, or one a backfill replaced.
Shielded(t) == masks[t] = Masked \/ t \in bare

\* A masked contract's tables are shielded before the first row of any.
ShieldedBeforeRows ==
  contract = "masked" =>
    /\ job.at \in {"ingest", "gate", "promote", "constrain"} \/ (\E t \in Table : rows[t] # {})
         => \A t \in CoveredTable : Shielded(t)
    /\ job.at = "mask" =>
         \A i \in 1..(job.next - 1) :
           Statements[i][2] \in masks[Statements[i][1]] \/ Statements[i][1] \in bare

\* No statement masks staging, and it holds the names as they came.
StagingIsPlain ==
  /\ masks["staging"] = {}
  /\ \A r \in rows["staging"] : r.cell = Received(r.line)
  /\ backfill.at \in {"function", "mask"} => backfill.table \in CoveredTable

\* A row whose filename does not contradict its month.
Agrees(r) == r.month # Null /\ r.line.token \in {NoToken, TokenOf[r.month]}

\* The lines of the backfilled table that may carry the backfill's month.
Agreeing == {l \in LinesIn(rows[backfill.table]) : l.token \in {NoToken, TokenOf[backfill.month]}}

\* What a backfill scanned is still there, and it wrote no month but its own.
BackfillIsSound ==
  /\ backfill.at # "off" /\ backfill.count > 0 => backfill.table # "quarantine"
  /\ backfill.at \in {"alter", "overwrite", "function", "mask", "verify"} /\ backfill.count > 0 =>
       backfill.count <= Cardinality(Agreeing)
  /\ backfill.at \in {"function", "mask", "verify"} /\ backfill.count > 0 =>
       \A r \in rows[backfill.table] : Agrees(r) \/ r.month = backfill.month
  /\ backfill.at = "constrain" /\ backfill.count > 0 =>
       \A r \in rows[backfill.table] : Agrees(r)
  /\ backfill.at \in {"verify", "constrain"} /\ backfill.count > 0 =>
       Required(backfill.table) \subseteq masks[backfill.table]

MaskingInv ==
  MaskingTyped /\ LinesOnce /\ ShieldedBeforeRows /\ StagingIsPlain /\ BackfillIsSound

-----------------------------------------------------------------------------
(* The loop over the statements, and what a reader sees.                   *)

\* The task's statements are the pairs of a covered table and a masked column.
LEMMA StatementsCover ==
  /\ Len(Covered) = 2 /\ Len(Columns) = 2 /\ Len(Statements) = 4
  /\ \A i \in 1..4 : Statements[i][1] \in CoveredTable /\ Statements[i][2] \in Masked
  /\ \A t \in CoveredTable, c \in Masked : \E i \in 1..4 : Statements[i] = <<t, c>>
<1>1. Len(Covered) = 2 /\ Len(Columns) = 2
  BY DEF Covered, Columns
<1>2. Statements = [i \in 1..4 |-> <<Covered[((i - 1) \div 2) + 1], Columns[((i - 1) % 2) + 1]>>]
  BY <1>1 DEF Statements
<1>3. Len(Statements) = 4
  BY <1>2
<1>4. /\ Statements[1] = <<Covered[1], Columns[1]>> /\ Statements[2] = <<Covered[1], Columns[2]>>
      /\ Statements[3] = <<Covered[2], Columns[1]>> /\ Statements[4] = <<Covered[2], Columns[2]>>
  BY <1>2
<1>5. Masked = {Columns[1], Columns[2]}
  BY DEF Masked, Columns
<1>6. CoveredTable = {Covered[1], Covered[2]}
  BY DEF CoveredTable, Covered
<1>7. \A i \in 1..4 : i = 1 \/ i = 2 \/ i = 3 \/ i = 4
  OBVIOUS
<1>8. \A i \in 1..4 : Statements[i][1] \in CoveredTable /\ Statements[i][2] \in Masked
  BY <1>4, <1>5, <1>6, <1>7
<1>9. \A t \in CoveredTable, c \in Masked : \E i \in 1..4 : Statements[i] = <<t, c>>
  BY <1>4, <1>5, <1>6
<1> QED
  BY <1>1, <1>3, <1>8, <1>9

\* What must be masked is what the control covers.
LEMMA RequiredOf ==
  ASSUME NEW t
  PROVE  /\ Required(t) = IF contract = "masked" /\ t \in CoveredTable THEN Masked ELSE {}
         /\ Masked # {}
BY DEF Required, Covered, CoveredTable, Masked, Columns

\* Where no mask stands, a reader sees the rows.
LEMMA ReadUnmasked ==
  ASSUME MaskingTyped, NEW t \in Table, masks[t] = {}
  PROVE  Read(t) = rows[t]
<1>1. \A r \in rows[t] : [r EXCEPT !.cell = r.cell] = r
  BY DEF MaskingTyped, Row
<1> QED
  BY <1>1 DEF Read

\* A reader sees the lines there are, whatever is masked.
LEMMA ReadLines ==
  ASSUME MaskingTyped, NEW t \in Table
  PROVE  /\ Read(t) \in SUBSET Row /\ LinesIn(Read(t)) = LinesIn(rows[t])
         /\ IsFiniteSet(rows[t]) => IsFiniteSet(Read(t))
         /\ Keyed(rows[t]) => Keyed(Read(t))
<1> DEFINE shown(r) == [r EXCEPT !.cell = IF Ruled \in masks[t] THEN "stars" ELSE @]
           f == [r \in rows[t] |-> shown(r)]
<1>1. \A r \in rows[t] : r \in Row
  BY DEF MaskingTyped
<1>2. \A r \in rows[t] : shown(r) \in Row /\ shown(r).line = r.line
  BY <1>1 DEF Row, Cell
<1>3. Read(t) = {shown(r) : r \in rows[t]}
  BY DEF Read
<1> HIDE DEF shown
<1>4. f \in Surjection(rows[t], Read(t))
  BY <1>3 DEF Surjection
<1>5. LinesIn(Read(t)) = LinesIn(rows[t])
  BY <1>2, <1>3 DEF LinesIn
<1>6. Keyed(rows[t]) => Keyed(Read(t))
  BY <1>2, <1>3 DEF Keyed
<1>7. IsFiniteSet(rows[t]) => IsFiniteSet(Read(t))
  BY <1>4, FS_Surjection
<1> QED
  BY <1>2, <1>3, <1>5, <1>6, <1>7

\* A table that holds a line once has as many rows as lines.
LEMMA CountOfLines ==
  ASSUME NEW R \in SUBSET Row, IsFiniteSet(R), Keyed(R)
  PROVE  IsFiniteSet(LinesIn(R)) /\ Cardinality(LinesIn(R)) = Cardinality(R)
<1> DEFINE f == [r \in R |-> r.line]
<1>1. f \in Surjection(R, LinesIn(R))
  BY DEF Surjection, LinesIn
<1>2. f \in Injection(R, LinesIn(R))
  BY <1>1 DEF Injection, IsInjective, Keyed, Surjection
<1> QED
  BY <1>1, <1>2, FS_Surjection

-----------------------------------------------------------------------------
(* Types.                                                                  *)

LEMMA MaskingInitInv == MaskingInit => MaskingInv
<1> SUFFICES ASSUME MaskingInit PROVE MaskingInv
  OBVIOUS
<1> DEFINE old == {[line |-> l, cell |-> Received(l), month |-> Null] : l \in Legacy}
<1>1. old \in SUBSET Row /\ Keyed(old) /\ \A r \in old : r.cell = Received(r.line)
  BY MaskingAssumption DEF Received, Row, Cell, Keyed
<1>2. IsFiniteSet(old)
  <2> DEFINE f == [l \in Legacy |-> [line |-> l, cell |-> Received(l), month |-> Null]]
  <2>1. f \in Surjection(Legacy, old)
    BY DEF Surjection
  <2> QED
    BY <2>1, MaskingAssumption, FS_Subset, FS_Surjection
<1>3. rows \in [Table -> SUBSET old] /\ (rows["staging"] = old \/ rows["staging"] = {})
  BY DEF MaskingInit, Table
<1>4. contract = "masked" => \A t \in Table : rows[t] = {}
  BY DEF MaskingInit
<1> HIDE DEF old
<1>5. MaskingTyped
  <2>1. rows \in [Table -> SUBSET Row]
    BY <1>1, <1>3
  <2>2. columns \in [Table -> {"none", "old", "snapshot"}] /\ masks \in [Table -> SUBSET Masked]
    BY DEF MaskingInit
  <2>3. contract \in {"masked", "plain"} /\ asserted \in BOOLEAN /\ function \in BOOLEAN
    BY DEF MaskingInit
  <2>4. NoJob \in JobType /\ NoBackfill \in BackfillType
    BY DEF JobType, BackfillType, NoJob, NoBackfill, Table
  <2>5. job = NoJob /\ backfill = NoBackfill /\ bare = {}
    BY DEF MaskingInit
  <2>6. job.at = "off" /\ backfill.at = "off"
    BY <2>5 DEF NoJob, NoBackfill
  <2> QED
    BY <2>1, <2>2, <2>3, <2>4, <2>5, <2>6 DEF MaskingTyped
<1>6. LinesOnce
  BY <1>1, <1>2, <1>3, FS_Subset DEF LinesOnce, Keyed
<1>7. ShieldedBeforeRows
  BY <1>4 DEF ShieldedBeforeRows, MaskingInit, NoJob
<1>8. StagingIsPlain
  BY <1>1, <1>3 DEF StagingIsPlain, MaskingInit, Table, NoBackfill
<1>9. BackfillIsSound
  BY DEF BackfillIsSound, MaskingInit, NoBackfill
<1> QED
  BY <1>5, <1>6, <1>7, <1>8, <1>9 DEF MaskingInv

\* What a job does to the rows of a table.
Appends(t) ==
  /\ rows[t] \subseteq rows'[t] /\ rows'[t] \in SUBSET Row
  /\ IsFiniteSet(rows'[t]) /\ Keyed(rows'[t])
  /\ \A r \in rows'[t] \ rows[t] :
       /\ t # "quarantine" => Agrees(r)
       /\ t = "staging" => r.cell = Received(r.line)
       /\ t = "bronze" => r.cell = "name" /\ r.line.named

LEMMA AppendKeepsLines ==
  ASSUME NEW R \in SUBSET Row, NEW N \in SUBSET Row, IsFiniteSet(R), IsFiniteSet(N),
         Keyed(R), Keyed(N), \A r \in R, s \in N : r.line # s.line
  PROVE  IsFiniteSet(R \cup N) /\ Keyed(R \cup N)
BY FS_Union DEF Keyed

\* A batch is rows of staging, as they came, under the batch's month.
LEMMA BatchOfStaging ==
  ASSUME MaskingInv, NEW m \in Month
  PROVE  /\ Batch(m) \in SUBSET rows["staging"] /\ Batch(m) \in SUBSET Row
         /\ \A B \in SUBSET Batch(m) : IsFiniteSet(B) /\ Keyed(B)
         /\ \A r \in Batch(m) : r.month = m /\ r.cell = Received(r.line)
<1>1. "staging" \in Table
  BY DEF Table
<1>2. Read("staging") = rows["staging"]
  BY <1>1, ReadUnmasked DEF MaskingInv, StagingIsPlain
<1>3. Batch(m) \in SUBSET rows["staging"] /\ \A r \in Batch(m) : r.month = m
  BY <1>2 DEF Batch
<1>4. IsFiniteSet(rows["staging"]) /\ Keyed(rows["staging"])
  BY <1>1 DEF MaskingInv, LinesOnce
<1>5. \A r \in rows["staging"] : r.cell = Received(r.line)
  BY DEF MaskingInv, StagingIsPlain
<1>6. rows["staging"] \in SUBSET Row
  BY <1>1 DEF MaskingInv, MaskingTyped
<1>7. \A B \in SUBSET Batch(m) : IsFiniteSet(B)
  BY <1>3, <1>4, FS_Subset
<1>8. \A B \in SUBSET Batch(m) : Keyed(B)
  BY <1>3, <1>4 DEF Keyed
<1> QED
  BY <1>3, <1>5, <1>6, <1>7, <1>8

\* A job only appends, a line once, and to staging and bronze under a month its
\* filename admits.
LEMMA JobAppends ==
  ASSUME MaskingInv, JobNext, NEW t \in Table
  PROVE  Appends(t)
<1>1. rows[t] \in SUBSET Row /\ IsFiniteSet(rows[t]) /\ Keyed(rows[t])
  BY DEF MaskingInv, MaskingTyped, LinesOnce
<1>2. rows \in [Table -> SUBSET Row]
  BY DEF MaskingInv, MaskingTyped
<1>3. CASE UNCHANGED rows
  BY <1>1, <1>3 DEF Appends
<1>4. job.at # "off" => job.month \in Month
  BY DEF MaskingInv, MaskingTyped
<1>5. CASE Ingest
  <2> DEFINE new == {l \in Line \ {r.line : r \in rows["staging"]} :
                       l.token \in {TokenOf[job.month], NoToken}}
             N == {[line |-> l, cell |-> Received(l), month |-> job.month] : l \in new}
             f == [l \in new |-> [line |-> l, cell |-> Received(l), month |-> job.month]]
  <2>1. job.month \in Month
    BY <1>4, <1>5 DEF Ingest
  <2>2. rows' = [rows EXCEPT !["staging"] = @ \cup N]
    BY <1>5 DEF Ingest
  <2>3. IsFiniteSet(N)
    <3>1. f \in Surjection(new, N)
      BY DEF Surjection
    <3> QED
      BY <3>1, MaskingAssumption, FS_Subset, FS_Surjection
  <2>4. N \in SUBSET Row /\ Keyed(N) /\ \A r \in N : Agrees(r) /\ r.cell = Received(r.line)
    BY <2>1, MaskingAssumption DEF Row, Cell, Received, Keyed, Agrees
  <2>5. \A r \in rows["staging"], s \in N : r.line # s.line
    OBVIOUS
  <2> HIDE DEF N
  <2>6. CASE t = "staging"
    <3>1. rows'[t] = rows[t] \cup N
      BY <2>2, <2>6, <1>2
    <3> QED
      BY <3>1, <1>1, <2>3, <2>4, <2>5, <2>6, AppendKeepsLines DEF Appends
  <2>7. CASE t # "staging"
    BY <2>2, <2>7, <1>1, <1>2 DEF Appends
  <2> QED
    BY <2>6, <2>7
<1>6. CASE Gate
  <2> DEFINE bad == {r \in Batch(job.month) : Rejected(r)}
  <2>1. job.month \in Month
    BY <1>4, <1>6 DEF Gate
  <2>2. bad \in SUBSET Row /\ IsFiniteSet(bad) /\ Keyed(bad)
    BY <2>1, BatchOfStaging
  <2>3. rows' = [rows EXCEPT !["quarantine"] =
                   IF \E r \in @ : r.line \in {b.line : b \in bad} THEN @ ELSE @ \cup bad]
    BY <1>6 DEF Gate
  <2> HIDE DEF bad
  <2>4. CASE t = "quarantine" /\ \A r \in rows[t], s \in bad : r.line # s.line
    <3>1. rows'[t] = rows[t] \cup bad
      BY <2>3, <2>4, <1>2
    <3> QED
      BY <3>1, <1>1, <2>2, <2>4, AppendKeepsLines DEF Appends
  <2>5. CASE ~(t = "quarantine" /\ \A r \in rows[t], s \in bad : r.line # s.line)
    <3>1. rows'[t] = rows[t]
      BY <2>3, <2>5, <1>2
    <3> QED
      BY <3>1, <1>1 DEF Appends
  <2> QED
    BY <2>4, <2>5
<1>7. CASE Promote
  <2> DEFINE batch == Batch(job.month)
             good  == {r \in batch : ~Rejected(r)}
             there == {r \in rows["bronze"] : r.line \in {b.line : b \in batch}}
  <2>1. job.month \in Month
    BY <1>4, <1>7 DEF Promote
  <2>2. good \in SUBSET Row /\ IsFiniteSet(good) /\ Keyed(good)
    BY <2>1, BatchOfStaging
  <2>3. \A r \in good : Agrees(r) /\ r.cell = "name" /\ r.line.named
    <3>1. \A r \in good : r.month = job.month /\ r.cell = Received(r.line) /\ ~Rejected(r)
      BY <2>1, BatchOfStaging
    <3> QED
      BY <3>1, <2>1, MaskingAssumption DEF Rejected, Provable, Agrees, Received
  <2>4. UNCHANGED rows \/ rows' = [rows EXCEPT !["bronze"] = IF there = {} THEN @ \cup good ELSE @]
    BY <1>7 DEF Promote
  <2>5. \A s \in good : s \in batch
    OBVIOUS
  <2>6. there = {} => \A r \in rows["bronze"], s \in good : r.line # s.line
    BY <2>5
  <2> HIDE DEF good, there
  <2>7. CASE t = "bronze" /\ there = {} /\ rows'[t] = rows[t] \cup good
    BY <1>1, <2>2, <2>3, <2>6, <2>7, AppendKeepsLines DEF Appends
  <2>8. CASE rows'[t] = rows[t]
    BY <2>8, <1>1 DEF Appends
  <2> QED
    BY <2>4, <2>7, <2>8, <1>2
<1> QED
  BY <1>3, <1>5, <1>6, <1>7 DEF JobNext, JobStarts, RepromoteStarts, CreateTable, JobFunction, JobMask,
     JobConstrains, JobDies, tables

-----------------------------------------------------------------------------
(* What a backfill does to the rows of its table.                          *)

\* Every line stays, once, under the month of the backfill.
Stamps(t) ==
  /\ rows'[t] \in SUBSET Row /\ IsFiniteSet(rows'[t]) /\ Keyed(rows'[t])
  /\ LinesIn(rows'[t]) = LinesIn(rows[t])
  /\ \A r \in rows'[t] : r.month = backfill.month
  /\ t = "staging" => \A r \in rows'[t] : r.cell = Received(r.line)

LEMMA FilledTable ==
  ASSUME MaskingInv, NEW t \in Table, NEW m \in Month
  PROVE  /\ Filled(t, m) \in SUBSET Row /\ IsFiniteSet(Filled(t, m)) /\ Keyed(Filled(t, m))
         /\ LinesIn(Filled(t, m)) = LinesIn(rows[t])
         /\ \A r \in Filled(t, m) : r.month = m
         /\ t = "staging" => \A r \in Filled(t, m) : r.cell = Received(r.line)
<1> DEFINE f == [r \in Read(t) |-> [r EXCEPT !.month = m]]
<1>1. /\ Read(t) \in SUBSET Row /\ LinesIn(Read(t)) = LinesIn(rows[t])
      /\ IsFiniteSet(Read(t)) /\ Keyed(Read(t))
  BY ReadLines DEF MaskingInv, LinesOnce
<1>2. \A r \in Read(t) : /\ f[r] \in Row /\ f[r].line = r.line /\ f[r].cell = r.cell
                         /\ f[r].month = m
  BY <1>1 DEF Row
<1>3. Filled(t, m) = {f[r] : r \in Read(t)}
  BY DEF Filled
<1>4. t = "staging" => \A r \in Read(t) : r.cell = Received(r.line)
  BY ReadUnmasked DEF MaskingInv, StagingIsPlain
<1> HIDE DEF f
<1>5. IsFiniteSet(Filled(t, m))
  <2>1. [r \in Read(t) |-> f[r]] \in Surjection(Read(t), Filled(t, m))
    BY <1>3 DEF Surjection
  <2> QED
    BY <1>1, <2>1, FS_Surjection
<1>6. LinesIn(Filled(t, m)) = LinesIn(Read(t))
  BY <1>2, <1>3 DEF LinesIn
<1>7. Keyed(Filled(t, m))
  BY <1>1, <1>2, <1>3 DEF Keyed
<1> QED
  BY <1>1, <1>2, <1>3, <1>4, <1>5, <1>6, <1>7

\* A backfill leaves the rows alone, or stamps its own table.
LEMMA BackfillStamps ==
  ASSUME MaskingInv, BackfillNext, NEW t \in Table
  PROVE  \/ rows'[t] = rows[t]
         \/ /\ Overwrite /\ t = backfill.table /\ backfill.count # 0
            /\ Stamps(t)
<1>1. CASE UNCHANGED rows
  BY <1>1
<1>2. CASE Overwrite /\ rows' = [rows EXCEPT ![backfill.table] = Filled(backfill.table, backfill.month)]
           /\ backfill.count # 0
  <2>1. backfill.month \in Month /\ backfill.table \in Table /\ rows \in [Table -> SUBSET Row]
    BY <1>2 DEF MaskingInv, MaskingTyped, BackfillType, Overwrite
  <2>2. CASE t = backfill.table
    BY <1>2, <2>1, <2>2, FilledTable DEF Stamps
  <2>3. CASE t # backfill.table
    BY <1>2, <2>1, <2>3
  <2> QED
    BY <2>2, <2>3
<1> QED
  BY <1>1, <1>2 DEF BackfillNext, Scan, AddColumns, Overwrite, BackfillFunction, RestoreMask,
     VerifyWrite, BackfillConstrains, BackfillDies, tables

-----------------------------------------------------------------------------
(* Types.                                                                  *)

LEMMA RowsTypedStep ==
  ASSUME MaskingInv, MaskingNext
  PROVE  rows' \in [Table -> SUBSET Row] /\ LinesOnce'
<1>1. \A t \in Table : rows'[t] \in SUBSET Row /\ IsFiniteSet(rows'[t]) /\ Keyed(rows'[t])
  BY JobAppends, BackfillStamps
     DEF MaskingNext, Appends, Stamps, MaskingInv, MaskingTyped, LinesOnce
<1>2. rows' = [t \in Table |-> rows'[t]]
  <2>1. rows \in [Table -> SUBSET Row]
    BY DEF MaskingInv, MaskingTyped
  <2>2. CASE UNCHANGED rows
    BY <2>1, <2>2
  <2>3. CASE Ingest
    BY <2>1, <2>3 DEF Ingest
  <2>4. CASE Gate
    <3> DEFINE bad == {r \in Batch(job.month) : Rejected(r)}
    <3>1. rows' = [rows EXCEPT !["quarantine"] =
                     IF \E r \in @ : r.line \in {b.line : b \in bad} THEN @ ELSE @ \cup bad]
      BY <2>4 DEF Gate
    <3> HIDE DEF bad
    <3> QED
      BY <2>1, <3>1
  <2>5. CASE Promote
    <3> DEFINE batch == Batch(job.month)
               good  == {r \in batch : ~Rejected(r)}
               there == {r \in rows["bronze"] : r.line \in {b.line : b \in batch}}
    <3>1. UNCHANGED rows \/ rows' = [rows EXCEPT !["bronze"] = IF there = {} THEN @ \cup good ELSE @]
      BY <2>5 DEF Promote
    <3> HIDE DEF good, there
    <3> QED
      BY <2>1, <3>1
  <2>6. CASE Overwrite
    BY <2>1, <2>6 DEF Overwrite, tables
  <2> QED
    BY <2>2, <2>3, <2>4, <2>5, <2>6 DEF MaskingNext, JobNext, BackfillNext, JobStarts, RepromoteStarts,
       CreateTable, JobFunction, JobMask, JobConstrains, JobDies, Scan, AddColumns,
       BackfillFunction, RestoreMask, VerifyWrite, BackfillConstrains, BackfillDies, tables
<1> QED
  BY <1>1, <1>2 DEF LinesOnce

LEMMA ControlTypedStep ==
  ASSUME MaskingInv, MaskingNext
  PROVE  /\ job' \in JobType /\ backfill' \in BackfillType
         /\ job'.at # "off" => job'.month \in Month
         /\ job'.at = "create" => job'.next \in 1..2
         /\ job'.at = "function" => job'.next = 1
         /\ backfill'.at # "off" => backfill'.month \in Month
<1> USE DEF JobType, BackfillType
<1>0. /\ job \in JobType /\ backfill \in BackfillType
      /\ (job.at # "off" => job.month \in Month) /\ (job.at = "create" => job.next \in 1..2)
      /\ (job.at = "function" => job.next = 1)
      /\ (backfill.at # "off" => backfill.month \in Month)
      /\ Len(Covered) = 2 /\ Len(Columns) = 2 /\ Len(Statements) = 4
  BY StatementsCover DEF MaskingInv, MaskingTyped
<1>1. CASE JobNext
  <2>1. UNCHANGED backfill
    BY <1>1 DEF JobNext, JobStarts, RepromoteStarts, CreateTable, JobFunction,
       JobMask, Ingest, Gate, Promote, JobConstrains, JobDies
  <2>2. CASE JobStarts \/ RepromoteStarts
    BY <1>0, <2>1, <2>2 DEF JobStarts, RepromoteStarts
  <2>3. CASE CreateTable
    <3>1. CASE job.next = 2
      <4>1. job.at = "create" /\ job' = [job EXCEPT !.at = "function", !.next = 1]
        BY <1>0, <2>3, <3>1 DEF CreateTable
      <4>2. job' = [at |-> "function", month |-> job.month, next |-> 1]
        BY <1>0, <4>1
      <4> QED
        BY <1>0, <2>1, <4>1, <4>2
    <3>2. CASE job.next = 1
      <4>1. job.at = "create" /\ job' = [job EXCEPT !.next = 2]
        BY <1>0, <2>3, <3>2 DEF CreateTable
      <4> QED
        BY <1>0, <2>1, <4>1
    <3> QED
      BY <1>0, <2>3, <3>1, <3>2 DEF CreateTable
  <2>4. CASE JobMask
    <3>1. CASE job.next = 4
      <4>1. job.at = "mask" /\ job' = [job EXCEPT !.at = "ingest", !.next = 1]
        BY <1>0, <2>4, <3>1 DEF JobMask
      <4>2. job' = [at |-> "ingest", month |-> job.month, next |-> 1]
        BY <1>0, <4>1
      <4> QED
        BY <1>0, <2>1, <4>1, <4>2
    <3>2. CASE job.next \in 1..3
      <4>1. job.at = "mask" /\ job' = [job EXCEPT !.next = job.next + 1]
        BY <1>0, <2>4, <3>2 DEF JobMask
      <4>2. job.next + 1 \in 1..4
        BY <3>2
      <4> QED
        BY <1>0, <2>1, <4>1, <4>2
    <3> QED
      BY <1>0, <3>1, <3>2
  <2>5. CASE JobFunction \/ Ingest
    BY <1>0, <2>1, <2>5 DEF JobFunction, Ingest
  <2>6. CASE Gate \/ Promote \/ JobConstrains \/ JobDies
    <3>1. job' = NoJob \/ job' = [job EXCEPT !.at = "promote"] \/ job' = [job EXCEPT !.at = "constrain"]
      BY <2>6 DEF Gate, Promote, JobConstrains, JobDies
    <3>2. job.at # "off"
      BY <2>6 DEF Gate, Promote, JobConstrains, JobDies
    <3> QED
      BY <1>0, <2>1, <3>1, <3>2 DEF NoJob
  <2> QED
    BY <1>1, <2>2, <2>3, <2>4, <2>5, <2>6 DEF JobNext
<1>2. CASE BackfillNext
  <2>1. UNCHANGED job
    BY <1>2 DEF BackfillNext, Scan, AddColumns, Overwrite, BackfillFunction, RestoreMask,
       VerifyWrite, BackfillConstrains, BackfillDies
  <2>2. CASE Scan
    <3>1. \A t \in Table : Cardinality(rows[t]) \in Nat
      BY FS_CardinalityType DEF MaskingInv, LinesOnce
    <3> QED
      BY <1>0, <2>1, <2>2, <3>1 DEF Scan
  <2>3. CASE RestoreMask
    BY <1>0, <2>1, <2>3 DEF RestoreMask, NoBackfill, Table
  <2>4. CASE AddColumns \/ Overwrite \/ BackfillFunction \/ BackfillConstrains
    BY <1>0, <2>1, <2>4 DEF AddColumns, Overwrite, BackfillFunction, BackfillConstrains
  <2>5. CASE VerifyWrite \/ BackfillDies
    BY <1>0, <2>1, <2>5 DEF VerifyWrite, BackfillDies, NoBackfill, Table
  <2> QED
    BY <1>2, <2>2, <2>3, <2>4, <2>5 DEF BackfillNext
<1> QED
  BY <1>1, <1>2 DEF MaskingNext

LEMMA MaskingTypedStep == ASSUME MaskingInv, MaskingNext PROVE MaskingTyped'
<1>1. contract' \in {"masked", "plain"} /\ asserted' \in BOOLEAN /\ function' \in BOOLEAN
  BY DEF MaskingInv, MaskingTyped, MaskingNext, JobNext, BackfillNext, JobStarts, RepromoteStarts,
     CreateTable, JobFunction, JobMask, Ingest, Gate, Promote, JobConstrains, JobDies, Scan, AddColumns,
     Overwrite, BackfillFunction, RestoreMask, VerifyWrite, BackfillConstrains, BackfillDies, tables
<1>2. columns' \in [Table -> {"none", "old", "snapshot"}]
  <2>1. columns \in [Table -> {"none", "old", "snapshot"}]
    BY DEF MaskingInv, MaskingTyped
  <2> QED
    BY <2>1 DEF MaskingNext, JobNext, BackfillNext, JobStarts, RepromoteStarts,
     CreateTable, JobFunction, JobMask, Ingest, Gate, Promote, JobConstrains, JobDies, Scan, AddColumns,
     Overwrite, BackfillFunction, RestoreMask, VerifyWrite, BackfillConstrains, BackfillDies, tables
<1>3. masks' \in [Table -> SUBSET Masked] /\ bare' \in SUBSET Table
  <2>1. masks \in [Table -> SUBSET Masked] /\ bare \in SUBSET Table /\ backfill \in BackfillType
        /\ job \in JobType
    BY DEF MaskingInv, MaskingTyped
  <2>2. CASE JobMask
    <3>1. Statements[job.next][2] \in Masked
      BY <2>1, StatementsCover DEF JobType
    <3> QED
      BY <2>1, <2>2, <3>1 DEF JobMask, SetsMask
  <2>3. CASE RestoreMask
    <3>1. Columns[backfill.next] \in Masked
      BY <2>1 DEF BackfillType, Masked, Columns
    <3> QED
      BY <2>1, <2>3, <3>1 DEF RestoreMask, SetsMask
  <2>4. CASE Overwrite
    BY <2>1, <2>4 DEF Overwrite, BackfillType, tables
  <2>5. CASE UNCHANGED <<masks, bare>>
    BY <2>1, <2>5
  <2> QED
    BY <2>2, <2>3, <2>4, <2>5 DEF MaskingNext, JobNext, BackfillNext, JobStarts, RepromoteStarts,
     CreateTable, JobFunction, Ingest, Gate, Promote, JobConstrains, JobDies, Scan, AddColumns,
     BackfillFunction, VerifyWrite, BackfillConstrains, BackfillDies, tables
<1> QED
  BY <1>1, <1>2, <1>3, RowsTypedStep, ControlTypedStep DEF MaskingTyped

-----------------------------------------------------------------------------
(* The mask.                                                               *)

Kept(t, c) == c \in masks[t] \/ t \in bare

LEMMA ShieldedIsKept ==
  ASSUME MaskingTyped, NEW t \in Table
  PROVE  Shielded(t) <=> \A c \in Masked : Kept(t, c)
BY DEF Shielded, Kept, MaskingTyped

\* No step takes a column from under its mask in a table it does not mark bare.
LEMMA KeptStays ==
  ASSUME MaskingInv, MaskingNext, contract = "masked",
         NEW t \in CoveredTable, NEW c \in Masked, Kept(t, c)
  PROVE  Kept(t, c)'
<1>1. masks \in [Table -> SUBSET Masked] /\ t \in Table
  BY DEF MaskingInv, MaskingTyped, CoveredTable, Table
<1>2. CASE \E u, d : SetsMask(u, d)
  BY <1>1, <1>2 DEF SetsMask, Kept
<1>3. CASE Overwrite
  BY <1>1, <1>3, RequiredOf DEF Overwrite, Kept, tables
<1>4. CASE UNCHANGED <<masks, bare>>
  BY <1>4 DEF Kept
<1> QED
  BY <1>2, <1>3, <1>4 DEF MaskingNext, JobNext, BackfillNext, JobStarts, RepromoteStarts, CreateTable,
     JobFunction, JobMask, Ingest, Gate, Promote, JobConstrains, JobDies, Scan, AddColumns,
     BackfillFunction, RestoreMask, VerifyWrite, BackfillConstrains, BackfillDies, tables

LEMMA ShieldedStays ==
  ASSUME MaskingInv, MaskingNext, contract = "masked",
         NEW t \in CoveredTable, Shielded(t)
  PROVE  Shielded(t)'
<1>1. t \in Table /\ MaskingTyped /\ MaskingTyped'
  BY MaskingTypedStep DEF MaskingInv, CoveredTable, Table
<1>2. \A c \in Masked : Kept(t, c)
  BY <1>1, ShieldedIsKept
<1>3. \A c \in Masked : Kept(t, c)'
  BY <1>2, KeptStays
<1> QED
  BY <1>1, <1>3, ShieldedIsKept DEF Shielded, Kept, MaskingTyped

\* How a job goes on.
LEMMA JobMoves ==
  ASSUME job \in JobType, JobNext
  PROVE  \/ JobStarts \/ RepromoteStarts \/ CreateTable \/ JobFunction \/ JobMask
         \/ job' = NoJob
         \/ /\ job.at \in {"ingest", "gate", "promote"}
            /\ job'.at \in {"gate", "promote", "constrain"}
<1>1. CASE Ingest
  BY <1>1 DEF Ingest, JobType
<1>2. CASE Gate
  BY <1>2 DEF Gate, JobType
<1>3. CASE Promote
  BY <1>3 DEF Promote, JobType
<1>4. CASE JobConstrains \/ JobDies
  BY <1>4 DEF JobConstrains, JobDies
<1> QED
  BY <1>1, <1>2, <1>3, <1>4 DEF JobNext

LEMMA ShieldedBeforeRowsStep == ASSUME MaskingInv, MaskingNext PROVE ShieldedBeforeRows'
<1>1. UNCHANGED contract
  BY DEF MaskingNext, JobNext, BackfillNext, JobStarts, RepromoteStarts, CreateTable,
     JobFunction, JobMask, Ingest, Gate, Promote, JobConstrains, JobDies, Scan, AddColumns, Overwrite,
     BackfillFunction, RestoreMask, VerifyWrite, BackfillConstrains, BackfillDies
<1> SUFFICES ASSUME contract = "masked" PROVE ShieldedBeforeRows'
  BY <1>1 DEF ShieldedBeforeRows
<1> DEFINE Shields == \A t \in CoveredTable : Shielded(t)
           Writing == job.at \in {"ingest", "gate", "promote", "constrain"}
           Rows == \E t \in Table : rows[t] # {}
<1>2. Writing \/ Rows => Shields
  BY DEF MaskingInv, ShieldedBeforeRows
<1>3. Shields => Shields'
  BY ShieldedStays
<1>4. Writing' \/ Rows' => Shields'
  <2>1. CASE Writing \/ Rows
    BY <1>2, <1>3, <2>1
  <2>2. CASE JobMask /\ job.next = 4 /\ ~Rows
    <3>1. job.at = "mask" /\ job.next = 4 /\ SetsMask(Statements[4][1], Statements[4][2])
      BY <2>2 DEF JobMask
    <3>2. \A i \in 1..3 : Kept(Statements[i][1], Statements[i][2])
      BY <3>1 DEF MaskingInv, ShieldedBeforeRows, Kept
    <3>3. \A i \in 1..3 : Kept(Statements[i][1], Statements[i][2])'
      <4> TAKE i \in 1..3
      <4>1. Statements[i][1] \in CoveredTable /\ Statements[i][2] \in Masked
        BY StatementsCover
      <4>2. Kept(Statements[i][1], Statements[i][2])'
        BY <3>2, <4>1, KeptStays
      <4> QED
        BY <4>2
    <3>4. Kept(Statements[4][1], Statements[4][2])'
      <4>1. Statements[4][1] \in Table /\ masks \in [Table -> SUBSET Masked]
        BY StatementsCover DEF CoveredTable, Table, MaskingInv, MaskingTyped
      <4> QED
        BY <3>1, <4>1 DEF SetsMask, Kept
    <3>5. \A t \in CoveredTable, c \in Masked : Kept(t, c)'
      <4> TAKE t \in CoveredTable, c \in Masked
      <4>1. PICK i \in 1..4 : Statements[i] = <<t, c>>
        BY StatementsCover
      <4>2. Kept(Statements[i][1], Statements[i][2])'
        BY <3>3, <3>4
      <4> QED
        BY <4>1, <4>2
    <3>6. CoveredTable \subseteq Table /\ MaskingTyped'
      BY MaskingTypedStep DEF CoveredTable, Table
    <3> QED
      BY <3>5, <3>6 DEF Shielded, Kept, MaskingTyped
  <2>3. CASE ~Writing /\ ~Rows /\ ~(JobMask /\ job.next = 4)
    <3>1. ~Writing'
      <4>1. job \in JobType /\ Len(Statements) = 4
        BY StatementsCover DEF MaskingInv, MaskingTyped
      <4>2. \A m \in Month : Batch(m) = {}
        BY <2>3, BatchOfStaging DEF Table
      <4>3. CASE JobNext
        <5>1. CASE JobStarts
          BY <2>3, <5>1 DEF JobStarts
        <5>2. CASE RepromoteStarts
          BY <4>2, <5>2 DEF RepromoteStarts
        <5>3. CASE CreateTable \/ JobFunction
          BY <2>3, <4>1, <5>3 DEF CreateTable, JobFunction, JobType
        <5>4. CASE JobMask
          BY <2>3, <4>1, <5>4 DEF JobMask, JobType
        <5>5. CASE job' = NoJob
          BY <5>5 DEF NoJob
        <5> QED
          BY <2>3, <4>1, <4>3, <5>1, <5>2, <5>3, <5>4, <5>5, JobMoves
      <4>4. CASE BackfillNext
        BY <2>3, <4>4 DEF BackfillNext, Scan, AddColumns, Overwrite, BackfillFunction, RestoreMask,
           VerifyWrite, BackfillConstrains, BackfillDies
      <4> QED
        BY <4>3, <4>4 DEF MaskingNext
    <3>2. ~Rows'
      <4>1. CASE JobNext
        <5>1. UNCHANGED rows
          BY <2>3, <4>1 DEF JobNext, JobStarts, RepromoteStarts, CreateTable,
             JobFunction, JobMask, Ingest, Gate, Promote, JobConstrains, JobDies, tables
        <5> QED
          BY <2>3, <5>1
      <4>2. CASE BackfillNext
        <5>1. \A t \in Table : LinesIn(rows'[t]) = LinesIn(rows[t])
          BY <4>2, BackfillStamps DEF Stamps
        <5> QED
          BY <2>3, <5>1 DEF LinesIn
      <4> QED
        BY <4>1, <4>2 DEF MaskingNext
    <3> QED
      BY <3>1, <3>2
  <2> QED
    BY <2>1, <2>2, <2>3
<1>5. job'.at = "mask" =>
        \A i \in 1..(job'.next - 1) : Kept(Statements[i][1], Statements[i][2])'
  <2> SUFFICES ASSUME job'.at = "mask", NEW i \in 1..(job'.next - 1)
               PROVE  Kept(Statements[i][1], Statements[i][2])'
    OBVIOUS
  <2>0. job.at = "function" => job.next = 1
    BY DEF MaskingInv, MaskingTyped
  <2>1. job \in JobType /\ job' \in JobType /\ masks \in [Table -> SUBSET Masked]
    BY ControlTypedStep DEF MaskingInv, MaskingTyped
  <2>2. i \in 1..3
    BY <2>1 DEF JobType
  <2>3. Statements[i][1] \in CoveredTable /\ Statements[i][2] \in Masked /\ CoveredTable \subseteq Table
    BY <2>2, StatementsCover DEF CoveredTable, Table
  <2>4. CASE job.at = "mask" /\ i \in 1..(job.next - 1)
    <3>1. Kept(Statements[i][1], Statements[i][2])
      BY <2>4 DEF MaskingInv, ShieldedBeforeRows, Kept
    <3> QED
      BY <2>3, <3>1, KeptStays
  <2>5. CASE JobMask /\ i = job.next
    BY <2>1, <2>3, <2>5 DEF JobMask, SetsMask, Kept
  <2>6. (job.at = "mask" /\ i \in 1..(job.next - 1)) \/ (JobMask /\ i = job.next)
    <3>1. CASE JobNext
      <4>1. CASE JobStarts \/ RepromoteStarts
        BY <4>1 DEF JobStarts, RepromoteStarts
      <4>5. CASE CreateTable
        BY <2>1, <4>5 DEF CreateTable, JobType
      <4>2. CASE JobFunction
        BY <2>0, <2>1, <4>2 DEF JobFunction, JobType
      <4>3. CASE JobMask
        BY <2>1, <2>2, <4>3 DEF JobMask, JobType
      <4>4. CASE job' = NoJob
        BY <4>4 DEF NoJob
      <4> QED
        BY <2>1, <3>1, <4>1, <4>2, <4>3, <4>4, <4>5, JobMoves
    <3>2. CASE BackfillNext
      BY <3>2 DEF BackfillNext, Scan, AddColumns, Overwrite, BackfillFunction, RestoreMask,
         VerifyWrite, BackfillConstrains, BackfillDies
    <3> QED
      BY <3>1, <3>2 DEF MaskingNext
  <2> QED
    BY <2>4, <2>5, <2>6
<1>6. (\A i \in 1..(job.next - 1) :
         Statements[i][2] \in masks[Statements[i][1]] \/ Statements[i][1] \in bare)'
      <=> \A i \in 1..(job'.next - 1) : Kept(Statements[i][1], Statements[i][2])'
  BY DEF Kept, Statements
<1> QED
  BY <1>4, <1>5, <1>6 DEF ShieldedBeforeRows

LEMMA StagingIsPlainStep == ASSUME MaskingInv, MaskingNext PROVE StagingIsPlain'
<1>1. "staging" \in Table /\ "staging" \notin CoveredTable
  BY DEF Table, CoveredTable
<1>2. /\ masks \in [Table -> SUBSET Masked] /\ backfill \in BackfillType /\ job \in JobType
      /\ masks["staging"] = {} /\ \A r \in rows["staging"] : r.cell = Received(r.line)
      /\ backfill.at \in {"function", "mask"} => backfill.table \in CoveredTable
  BY DEF MaskingInv, MaskingTyped, StagingIsPlain
<1>3. masks'["staging"] = {}
  <2>1. CASE JobMask
    <3>1. Statements[job.next][1] \in CoveredTable
      BY <1>2, StatementsCover DEF JobType
    <3> QED
      BY <1>1, <1>2, <2>1, <3>1 DEF JobMask, SetsMask
  <2>2. CASE RestoreMask
    BY <1>1, <1>2, <2>2 DEF RestoreMask, SetsMask
  <2>3. CASE Overwrite
    BY <1>1, <1>2, <2>3 DEF Overwrite, tables
  <2>4. CASE UNCHANGED masks
    BY <1>2, <2>4
  <2> QED
    BY <2>1, <2>2, <2>3, <2>4 DEF MaskingNext, JobNext, BackfillNext, JobStarts, RepromoteStarts,
     CreateTable, JobFunction, Ingest, Gate, Promote, JobConstrains, JobDies, Scan, AddColumns,
     BackfillFunction, VerifyWrite, BackfillConstrains, BackfillDies, tables
<1>4. \A r \in rows'["staging"] : r.cell = Received(r.line)
  <2>1. CASE JobNext
    BY <1>1, <1>2, <2>1, JobAppends DEF Appends
  <2>2. CASE BackfillNext
    BY <1>1, <1>2, <2>2, BackfillStamps DEF Stamps
  <2> QED
    BY <2>1, <2>2 DEF MaskingNext
<1>5. backfill'.at \in {"function", "mask"} => backfill'.table \in CoveredTable
  <2>1. CASE JobNext
    BY <1>2, <2>1 DEF JobNext, JobStarts, RepromoteStarts, CreateTable, JobFunction,
       JobMask, Ingest, Gate, Promote, JobConstrains, JobDies
  <2>2. CASE Overwrite
    BY <1>2, <2>2, RequiredOf DEF Overwrite, BackfillType
  <2>3. CASE RestoreMask
    BY <1>2, <2>3 DEF RestoreMask, NoBackfill, BackfillType
  <2>4. CASE Scan \/ AddColumns \/ BackfillFunction
    BY <1>2, <2>4 DEF Scan, AddColumns, BackfillFunction, BackfillType
  <2>5. CASE VerifyWrite \/ BackfillConstrains \/ BackfillDies
    BY <1>2, <2>5 DEF VerifyWrite, BackfillConstrains, BackfillDies, NoBackfill, BackfillType
  <2> QED
    BY <2>1, <2>2, <2>3, <2>4, <2>5 DEF MaskingNext, BackfillNext
<1> QED
  BY <1>3, <1>4, <1>5 DEF StagingIsPlain

-----------------------------------------------------------------------------
(* The backfill.                                                           *)

\* What a job may do meanwhile takes nothing from what the backfill relies on.
LEMMA SoundUnderJobs == ASSUME MaskingInv, JobNext PROVE BackfillIsSound'
<1> DEFINE t == backfill.table
<1>1. UNCHANGED <<backfill, contract>>
  BY DEF JobNext, JobStarts, RepromoteStarts, CreateTable, JobFunction,
     JobMask, Ingest, Gate, Promote, JobConstrains, JobDies
<1>2. t \in Table /\ backfill.count \in Nat /\ BackfillIsSound
  BY DEF MaskingInv, MaskingTyped, BackfillType
<1>3. Appends(t)
  BY <1>2, JobAppends
<1>4. masks[t] \subseteq masks'[t]
  <2>1. CASE JobMask
    BY <2>1 DEF JobMask, SetsMask, MaskingInv, MaskingTyped
  <2>2. CASE UNCHANGED masks
    BY <2>2
  <2> QED
    BY <2>1, <2>2 DEF JobNext, JobStarts, RepromoteStarts, CreateTable, JobFunction,
       Ingest, Gate, Promote, JobConstrains, JobDies, tables
<1>5. Cardinality(Agreeing) <= Cardinality(Agreeing')
  <2>1. Agreeing \subseteq Agreeing' /\ Agreeing' \subseteq LinesIn(rows'[t])
    BY <1>1, <1>3 DEF Agreeing, LinesIn, Appends
  <2>2. IsFiniteSet(LinesIn(rows'[t]))
    BY <1>3, CountOfLines DEF Appends
  <2> QED
    BY <2>1, <2>2, FS_Subset
<1>6. Cardinality(Agreeing) \in Nat /\ Cardinality(Agreeing') \in Nat
  <2>1. Agreeing \subseteq LinesIn(rows[t]) /\ Agreeing' \subseteq LinesIn(rows'[t])
    BY <1>1 DEF Agreeing
  <2>2. IsFiniteSet(LinesIn(rows[t])) /\ IsFiniteSet(LinesIn(rows'[t]))
    BY <1>2, <1>3, CountOfLines DEF Appends, MaskingInv, MaskingTyped, LinesOnce
  <2> QED
    BY <2>1, <2>2, FS_Subset, FS_CardinalityType
<1>7. Required(t)' = Required(t)
  BY <1>1 DEF Required
<1>8. t # "quarantine" => \A r \in rows'[t] : r \in rows[t] \/ Agrees(r)
  BY <1>3 DEF Appends
<1>9. \A r : Agrees(r)' <=> Agrees(r)
  BY DEF Agrees
<1>10. backfill.count > 0 /\ backfill.at # "off" => t # "quarantine"
  BY <1>2 DEF BackfillIsSound
<1>11. (backfill.at # "off" /\ backfill.count > 0 => backfill.table # "quarantine")'
  BY <1>1, <1>10
<1>12. (backfill.at \in {"alter", "overwrite", "function", "mask", "verify"} /\ backfill.count > 0 =>
       backfill.count <= Cardinality(Agreeing))'
  BY <1>1, <1>2, <1>5, <1>6 DEF BackfillIsSound
<1>13. (backfill.at \in {"function", "mask", "verify"} /\ backfill.count > 0 =>
       \A r \in rows[backfill.table] : Agrees(r) \/ r.month = backfill.month)'
  BY <1>1, <1>2, <1>8, <1>9, <1>10 DEF BackfillIsSound
<1>14. (backfill.at = "constrain" /\ backfill.count > 0 =>
       \A r \in rows[backfill.table] : Agrees(r))'
  BY <1>1, <1>2, <1>8, <1>9, <1>10 DEF BackfillIsSound
<1>15. (backfill.at \in {"verify", "constrain"} /\ backfill.count > 0 =>
       Required(backfill.table) \subseteq masks[backfill.table])'
  BY <1>1, <1>2, <1>4, <1>7 DEF BackfillIsSound
<1> QED
  BY <1>11, <1>12, <1>13, <1>14, <1>15 DEF BackfillIsSound

\* The count of the scan is that of lines which may carry the month.
LEMMA ScannedAgree ==
  ASSUME MaskingInv, Scan
  PROVE  BackfillIsSound'
<1>1. PICK t \in Table, m \in Month :
        /\ AgreesWithSourceMonth(t, m) /\ NoRejectIsStamped(t)
        /\ backfill' = [at |-> IF columns[t] = "old" THEN "alter" ELSE "overwrite",
                       table |-> t, month |-> m, count |-> Cardinality(rows[t]), next |-> 1]
        /\ UNCHANGED rows
  BY DEF Scan, tables
<1>2. /\ backfill'.at \in {"alter", "overwrite"} /\ backfill'.table = t /\ backfill'.month = m
      /\ backfill'.count = Cardinality(rows[t])
  BY <1>1
<1>3. rows[t] \in SUBSET Row /\ IsFiniteSet(rows[t]) /\ Keyed(rows[t])
  BY DEF MaskingInv, MaskingTyped, LinesOnce
<1>4. Agreeing' = LinesIn(rows[t])
  <2>1. \A r \in rows[t] : r.line.token \in {NoToken, TokenOf[m]}
    BY <1>1 DEF AgreesWithSourceMonth, SourceMonths
  <2> QED
    BY <1>1, <1>2, <2>1 DEF Agreeing, LinesIn
<1>5. backfill'.count = Cardinality(Agreeing') /\ Cardinality(rows[t]) \in Nat
  BY <1>2, <1>3, <1>4, CountOfLines, FS_CardinalityType
<1>6. backfill'.count > 0 => backfill'.table # "quarantine"
  BY <1>1, <1>2, FS_EmptySet DEF NoRejectIsStamped
<1> QED
  BY <1>2, <1>5, <1>6 DEF BackfillIsSound

\* A count that is still right counts those lines only.
LEMMA VerifiedAgree ==
  ASSUME MaskingInv, backfill.at = "verify", backfill.count > 0, Verified
  PROVE  \A r \in rows[backfill.table] : Agrees(r)
<1> DEFINE t == backfill.table
<1>1. t \in Table /\ BackfillIsSound
  BY DEF MaskingInv, MaskingTyped, BackfillType
<1>2. rows[t] \in SUBSET Row /\ IsFiniteSet(rows[t]) /\ Keyed(rows[t])
  BY <1>1 DEF MaskingInv, MaskingTyped, LinesOnce
<1>3. IsFiniteSet(LinesIn(rows[t])) /\ Cardinality(LinesIn(rows[t])) = backfill.count
  BY <1>2, CountOfLines DEF Verified
<1>4. backfill.count <= Cardinality(Agreeing)
  BY <1>1 DEF BackfillIsSound
<1>5. Agreeing \subseteq LinesIn(rows[t])
  BY DEF Agreeing
<1>6. Agreeing = LinesIn(rows[t])
  <2>1. Cardinality(Agreeing) <= Cardinality(LinesIn(rows[t]))
    BY <1>3, <1>5, FS_Subset
  <2>2. Cardinality(Agreeing) \in Nat /\ Cardinality(LinesIn(rows[t])) \in Nat
    BY <1>3, <1>5, FS_Subset, FS_CardinalityType
  <2>3. Cardinality(Agreeing) = Cardinality(LinesIn(rows[t]))
    BY <1>3, <1>4, <2>1, <2>2
  <2> QED
    BY <1>3, <1>5, <2>3, FS_Subset
<1>7. \A r \in rows[t] : r.line.token \in {NoToken, TokenOf[backfill.month]}
  BY <1>6 DEF Agreeing, LinesIn
<1>8. \A r \in rows[t] : Agrees(r) \/ r.month = backfill.month
  BY <1>1 DEF BackfillIsSound
<1> QED
  BY <1>7, <1>8 DEF Agrees, Verified

LEMMA SoundStep == ASSUME MaskingInv, MaskingNext PROVE BackfillIsSound'
<1> DEFINE t == backfill.table
<1>1. /\ backfill \in BackfillType /\ BackfillIsSound /\ masks \in [Table -> SUBSET Masked]
      /\ backfill.at # "off" => backfill.month \in Month
  BY DEF MaskingInv, MaskingTyped
<1>2. CASE JobNext
  BY <1>2, SoundUnderJobs
<1>3. CASE Scan
  BY <1>3, ScannedAgree
<1>4. CASE AddColumns
  <2>1. /\ backfill' = [backfill EXCEPT !.at = "overwrite"] /\ backfill.at = "alter"
        /\ UNCHANGED <<rows, contract, masks>>
    BY <1>4 DEF AddColumns
  <2>2. Agreeing' = Agreeing
    BY <1>1, <2>1 DEF Agreeing, BackfillType
  <2> QED
    BY <1>1, <2>1, <2>2 DEF BackfillIsSound, BackfillType
<1>5. CASE Overwrite /\ backfill.count # 0
  <2>1. /\ rows' = [rows EXCEPT ![t] = Filled(t, backfill.month)] /\ backfill.at = "overwrite"
        /\ backfill' = [backfill EXCEPT !.at = IF Required(t) = {} THEN "verify" ELSE "function"]
        /\ UNCHANGED contract
    BY <1>5 DEF Overwrite
  <2>2. Stamps(t)
    <3>1. t \in Table /\ rows \in [Table -> SUBSET Row]
      BY <1>1 DEF BackfillType, MaskingInv, MaskingTyped
    <3> QED
      BY <1>1, <2>1, <3>1, FilledTable DEF Stamps
  <2>3. backfill'.table = t /\ backfill'.month = backfill.month /\ backfill'.count = backfill.count
    BY <1>1, <2>1 DEF BackfillType
  <2>4. Agreeing' = Agreeing
    BY <2>2, <2>3 DEF Agreeing, Stamps
  <2>5. backfill'.at = IF Required(t) = {} THEN "verify" ELSE "function"
    BY <1>1, <2>1 DEF BackfillType
  <2>6. Required(t)' = Required(t)
    BY <2>1 DEF Required
  <2> QED
    BY <1>1, <2>1, <2>2, <2>3, <2>4, <2>5, <2>6 DEF BackfillIsSound, Stamps
<1>6. CASE Overwrite /\ backfill.count = 0
  <2>1. backfill'.count = 0
    BY <1>1, <1>6 DEF Overwrite, BackfillType
  <2> QED
    BY <2>1 DEF BackfillIsSound
<1>7. CASE BackfillFunction
  <2>1. /\ backfill' = [backfill EXCEPT !.at = "mask"] /\ backfill.at = "function"
        /\ UNCHANGED <<rows, contract, masks>>
    BY <1>7 DEF BackfillFunction
  <2>2. Agreeing' = Agreeing
    BY <1>1, <2>1 DEF Agreeing, BackfillType
  <2> QED
    BY <1>1, <2>1, <2>2 DEF BackfillIsSound, BackfillType, Agrees
<1>8. CASE RestoreMask
  <2>1. CASE backfill' = NoBackfill
    BY <2>1 DEF NoBackfill, BackfillIsSound
  <2>2. CASE backfill' # NoBackfill
    <3>1. /\ backfill.at = "mask" /\ UNCHANGED <<rows, contract>>
          /\ backfill'.table = t /\ backfill'.month = backfill.month /\ backfill'.count = backfill.count
          /\ backfill'.at = "mask" \/ (backfill'.at = "verify" /\ MasksAreBack(t, masks'[t]))
      BY <1>1, <1>8, <2>2 DEF RestoreMask, BackfillType
    <3>2. Agreeing' = Agreeing /\ Required(t)' = Required(t)
      BY <3>1 DEF Agreeing, Required
    <3> QED
      BY <1>1, <3>1, <3>2 DEF BackfillIsSound, Agrees, MasksAreBack
  <2> QED
    BY <2>1, <2>2
<1>9. CASE VerifyWrite
  <2>1. CASE backfill' = NoBackfill
    BY <2>1 DEF NoBackfill, BackfillIsSound
  <2>2. CASE backfill' # NoBackfill
    <3>1. /\ backfill.at = "verify" /\ UNCHANGED <<rows, contract, masks>> /\ Verified
          /\ backfill'.table = t /\ backfill'.month = backfill.month /\ backfill'.count = backfill.count
          /\ backfill'.at = "constrain"
      BY <1>1, <1>9, <2>2 DEF VerifyWrite, BackfillType, tables
    <3>2. Required(t)' = Required(t)
      BY <3>1 DEF Required
    <3>3. backfill.count > 0 => \A r \in rows[t] : Agrees(r)
      BY <3>1, VerifiedAgree
    <3> QED
      BY <1>1, <3>1, <3>2, <3>3 DEF BackfillIsSound, Agrees
  <2> QED
    BY <2>1, <2>2
<1>10. CASE BackfillConstrains
  <2>1. backfill'.at = "done" /\ backfill'.table = t /\ backfill'.count = backfill.count
    BY <1>1, <1>10 DEF BackfillConstrains, BackfillType
  <2> QED
    BY <1>1, <1>10, <2>1 DEF BackfillIsSound, BackfillConstrains
<1>11. CASE BackfillDies
  BY <1>11 DEF BackfillDies, NoBackfill, BackfillIsSound
<1> QED
  BY <1>2, <1>3, <1>4, <1>5, <1>6, <1>7, <1>8, <1>9, <1>10, <1>11, <1>1
     DEF MaskingNext, BackfillNext, BackfillType

LEMMA MaskingStep == MaskingInv /\ [MaskingNext]_maskingVars => MaskingInv'
<1>1. ASSUME MaskingInv, MaskingNext PROVE MaskingInv'
  BY <1>1, MaskingTypedStep, RowsTypedStep, ShieldedBeforeRowsStep, StagingIsPlainStep, SoundStep
     DEF MaskingInv
<1>2. ASSUME MaskingInv, UNCHANGED maskingVars PROVE MaskingInv'
  <2>1. UNCHANGED <<contract, rows, columns, masks, asserted, function, job, backfill, bare>>
    BY <1>2 DEF maskingVars, tables
  <2>2. MaskingTyped' /\ LinesOnce'
    BY <1>2, <2>1 DEF MaskingInv, MaskingTyped, LinesOnce
  <2>3. ShieldedBeforeRows' /\ StagingIsPlain'
    BY <1>2, <2>1 DEF MaskingInv, ShieldedBeforeRows, StagingIsPlain, Shielded, Statements
  <2>4. BackfillIsSound'
    BY <1>2, <2>1 DEF MaskingInv, BackfillIsSound, Agreeing, Agrees, Required
  <2> QED
    BY <2>2, <2>3, <2>4 DEF MaskingInv
<1> QED
  BY <1>1, <1>2

-----------------------------------------------------------------------------
(* The theorems.                                                           *)

\* No order of the job's statements, of its deaths, of repromotes and of
\* backfills opens a name of a masked contract, but a replace that is not yet
\* masked again (ensure_masked_table, restore_masks).
THEOREM Uncovers == MaskingSpec => []OnlyAReplaceUncovers
<1>1. MaskingInv => OnlyAReplaceUncovers
  <2> SUFFICES ASSUME MaskingInv, contract = "masked", NEW i \in DOMAIN Covered, Readable(Covered[i])
               PROVE  Covered[i] \in bare
    BY DEF OnlyAReplaceUncovers
  <2>1. Covered[i] \in CoveredTable /\ Covered[i] \in Table
    BY DEF Covered, CoveredTable, Table
  <2>2. Shielded(Covered[i])
    BY <2>1 DEF MaskingInv, ShieldedBeforeRows, Readable
  <2> QED
    BY <2>2 DEF Shielded, Readable
<1> QED
  BY <1>1, MaskingInitInv, MaskingStep, PTL DEF MaskingSpec

\* Bronze receives the names as the source wrote them (promote_batch reads
\* staging, which masked_table_ddls leaves out).
THEOREM ArriveWhole == MaskingSpec => NamesArriveWhole
<1> DEFINE Whole == \A r \in rows'["bronze"] :
                      r.line \notin {o.line : o \in rows["bronze"]} => r.cell = "name" /\ r.line.named
<1>1. "bronze" \in Table
  BY DEF Table
<1>2. MaskingInv /\ [MaskingNext]_maskingVars => Whole
  <2>1. ASSUME MaskingInv, JobNext PROVE Whole
    BY <1>1, <2>1, JobAppends DEF Appends
  <2>2. ASSUME MaskingInv, BackfillNext PROVE Whole
    BY <1>1, <2>2, BackfillStamps DEF Stamps, LinesIn
  <2>3. ASSUME UNCHANGED maskingVars PROVE Whole
    BY <2>3 DEF maskingVars, tables
  <2> QED
    BY <2>1, <2>2, <2>3 DEF MaskingNext
<1>3. MaskingInv /\ [MaskingNext]_maskingVars => [Whole]_maskingVars
  BY <1>2
<1> QED
  BY <1>3, MaskingInitInv, MaskingStep, PTL DEF MaskingSpec, NamesArriveWhole

\* A backfill that wrote and reports DONE left the masks, the constraint and
\* months no filename contradicts, whatever was appended since its scan
\* (verify_masks_or_raise, verify_or_raise).
THEOREM ReportsTheTruth == MaskingSpec => DoneIsTrue
<1> DEFINE True == backfill.at = "constrain" /\ backfill'.at = "done" /\ backfill.count > 0 =>
                     LET t == backfill.table IN
                     /\ Required(t) \subseteq masks'[t]
                     /\ t = "bronze" => asserted'
                     /\ \A r \in rows'[t] :
                          r.month # Null /\ r.line.token \in {NoToken, TokenOf[r.month]}
<1>1. ASSUME MaskingInv, [MaskingNext]_maskingVars,
             backfill.at = "constrain", backfill'.at = "done", backfill.count > 0
      PROVE  /\ Required(backfill.table) \subseteq masks'[backfill.table]
             /\ backfill.table = "bronze" => asserted'
             /\ \A r \in rows'[backfill.table] : Agrees(r)
  <2>0. backfill \in BackfillType
    BY <1>1 DEF MaskingInv, MaskingTyped
  <2>1. BackfillConstrains
    BY <1>1, <2>0 DEF BackfillType, MaskingNext, JobNext, BackfillNext, JobStarts, RepromoteStarts,
     CreateTable, JobFunction, JobMask, Ingest, Gate, Promote, JobConstrains, JobDies, Scan, AddColumns,
     Overwrite, BackfillFunction, RestoreMask, VerifyWrite, BackfillDies, NoBackfill, maskingVars
  <2> QED
    BY <1>1, <2>1 DEF MaskingInv, BackfillIsSound, BackfillConstrains
<1>2. MaskingInv /\ [MaskingNext]_maskingVars => [True]_maskingVars
  BY <1>1 DEF Agrees
<1> QED
  BY <1>2, MaskingInitInv, MaskingStep, PTL DEF MaskingSpec, DoneIsTrue

(***************************************************************************)
(* The grants.                                                             *)
(***************************************************************************)

Settling == {"revoke", "grant", "tag", "success", "failed"}
Revoked  == {"grant", "tag", "success", "failed"}

\* The task's record, and what it holds.
RunType ==
  [at : {"off", "observe"} \cup Settling, seen : SUBSET Observed,
   looked : SUBSET Governed, done : SUBSET (Governed \X Principal)]

Typed ==
  /\ grants \in SUBSET Grant /\ tagged \in SUBSET Governed /\ since \in SUBSET Grant
  /\ run \in RunType /\ admin \in 0..MaxAdmin

\* What the run saw it saw at tables it has looked at, and it settles all of them.
SeenWhereLooked ==
  /\ \A o \in run.seen : o.table \in run.looked /\ o.grant.on \in {o.table, Schema}
  /\ run.at \in Settling => run.looked = Governed /\ Governed # {}
  /\ run.at = "observe" => run.done = {}

ByTheRoster(g) == g.action = "SELECT" /\ g.on \in Governed /\ g.principal \in Roster

\* A grant that reads is one the run saw, one of the roster's, or newer.
ReadsAccountedFor ==
  \A t \in run.looked : \A g \in grants \ since :
    ToSettle(g) /\ g.on \in {t, Schema} =>
      [table |-> t, grant |-> g] \in run.seen \/ ByTheRoster(g)

Withdrawn(s) == Direct(s[1], s[2]) \in grants => Direct(s[1], s[2]) \in since

\* A read the run has revoked comes back by an administrator's hand only.
RevokedStays ==
  \A s \in Revokes :
    run.at \in Revoked \/ (run.at = "revoke" /\ s \in run.done) => Withdrawn(s)

SuccessLeavesNothing == run.at = "success" => Escalations = {}

GrantsInv ==
  Typed /\ SeenWhereLooked /\ ReadsAccountedFor /\ RevokedStays /\ SuccessLeavesNothing

-----------------------------------------------------------------------------
(* Types.                                                                  *)

LEMMA DirectIsAGrant ==
  ASSUME NEW t \in Governed, NEW p \in Principal
  PROVE  Direct(t, p) \in Grant
BY DEF Direct, Grant, Action

LEMMA GrantsInitInv == GrantsInit => GrantsInv
<1> SUFFICES ASSUME GrantsInit PROVE GrantsInv
  OBVIOUS
<1> USE DEF GrantsInit, Idle
<1>1. Typed
  BY GrantsAssumption DEF Typed, RunType, Settling
<1>2. SeenWhereLooked /\ ReadsAccountedFor /\ SuccessLeavesNothing
  BY DEF SeenWhereLooked, ReadsAccountedFor, SuccessLeavesNothing, Settling
<1>3. RevokedStays
  BY DEF RevokedStays, Revoked
<1> QED
  BY <1>1, <1>2, <1>3 DEF GrantsInv

LEMMA TypedStep == ASSUME Typed, GrantsNext PROVE Typed'
<1> USE GrantsAssumption DEF Typed, RunType, Settling
<1>1. CASE Starts
  BY <1>1 DEF Starts, Idle
<1>2. CASE Observe
  <2>1. PICK t \in Governed \ run.looked :
          run' = [run EXCEPT !.looked = @ \cup {t},
                             !.seen = @ \cup {[table |-> t, grant |-> g] : g \in {h \in Shown(t) : ToSettle(h)}},
                             !.at = IF run.looked \cup {t} = Governed THEN "revoke" ELSE @]
    BY <1>2 DEF Observe
  <2>2. {[table |-> t, grant |-> g] : g \in {h \in Shown(t) : ToSettle(h)}} \subseteq Observed
    BY DEF Shown, Observed
  <2> QED
    BY <1>2, <2>1, <2>2 DEF Observe
<1>3. CASE Revoke
  BY <1>3 DEF Revoke, Revokes
<1>4. CASE GrantRoster
  BY <1>4, DirectIsAGrant DEF GrantRoster, Grantings
<1>5. CASE Tag
  BY <1>5 DEF Tag
<1>6. CASE Dies
  BY <1>6 DEF Dies, Idle
<1>7. CASE Administers
  BY <1>7 DEF Administers
<1> QED
  BY <1>1, <1>2, <1>3, <1>4, <1>5, <1>6, <1>7 DEF GrantsNext, Task

-----------------------------------------------------------------------------
(* Each step of the task, and each statement of an administrator.          *)

\* Revokes, Grantings and Escalations are told from what the run saw.
LEMMA SameSeen ==
  ASSUME run'.seen = run.seen
  PROVE  Revokes' = Revokes /\ Escalations' = Escalations
BY DEF Revokes, Escalations, Held

\* A revoke names a table the run has looked at and nobody of the roster.
LEMMA RevokeFacts ==
  ASSUME GrantsInv, NEW s \in Revokes
  PROVE  /\ s[1] \in run.looked /\ s[1] \in Governed /\ s[2] \in Principal
         /\ s[2] \notin Roster
<1>1. s \in Governed \X Principal /\ s[2] \in Held(s[1]) \ Roster
  BY DEF Revokes
<1>2. PICK o \in run.seen : o.table = s[1]
  BY <1>1 DEF Held
<1> QED
  BY <1>1, <1>2 DEF GrantsInv, SeenWhereLooked

LEMMA ObserveStep == ASSUME GrantsInv, Observe PROVE GrantsInv'
<1> USE DEF GrantsInv
<1>0. Typed'
  BY TypedStep DEF GrantsNext, Task
<1>1. PICK t \in Governed \ run.looked :
        run' = [run EXCEPT !.looked = @ \cup {t},
                           !.seen = @ \cup {[table |-> t, grant |-> g] : g \in {h \in Shown(t) : ToSettle(h)}},
                           !.at = IF run.looked \cup {t} = Governed THEN "revoke" ELSE @]
  BY DEF Observe
<1>2. run.at = "observe" /\ UNCHANGED <<grants, since>> /\ run \in RunType
  BY DEF Observe, Typed
<1>3. /\ run'.looked = run.looked \cup {t}
      /\ run'.seen = run.seen \cup {[table |-> t, grant |-> g] : g \in {h \in Shown(t) : ToSettle(h)}}
      /\ run'.at = IF run.looked \cup {t} = Governed THEN "revoke" ELSE "observe"
      /\ run'.done = run.done
  BY <1>1, <1>2 DEF RunType
<1>4. SeenWhereLooked'
  <2>1. ASSUME NEW o \in run'.seen
        PROVE  o.table \in run'.looked /\ o.grant.on \in {o.table, Schema}
    <3>1. CASE o \in run.seen
      BY <3>1, <1>3 DEF SeenWhereLooked
    <3>2. CASE o \notin run.seen
      <4>1. PICK g \in Shown(t) : o = [table |-> t, grant |-> g]
        BY <3>2, <1>3
      <4> QED
        BY <4>1, <1>3 DEF Shown
    <3> QED
      BY <3>1, <3>2
  <2>2. run'.at \in Settling => run'.looked = Governed /\ Governed # {}
    BY <1>3 DEF Settling
  <2> QED
    BY <2>1, <2>2, <1>2, <1>3 DEF SeenWhereLooked
<1>5. ReadsAccountedFor'
  <2> SUFFICES ASSUME NEW u \in run'.looked, NEW g \in grants \ since,
                      ToSettle(g), g.on \in {u, Schema}
               PROVE  [table |-> u, grant |-> g] \in run'.seen \/ ByTheRoster(g)
    BY <1>2 DEF ReadsAccountedFor, ToSettle, ByTheRoster
  <2>1. CASE u \in run.looked
    BY <2>1, <1>3 DEF ReadsAccountedFor
  <2>2. CASE u = t
    BY <2>2, <1>3 DEF Shown
  <2> QED
    BY <2>1, <2>2, <1>3
<1>6. RevokedStays'
  BY <1>2, <1>3 DEF RevokedStays, Revoked, SeenWhereLooked
<1>7. SuccessLeavesNothing'
  BY <1>3 DEF SuccessLeavesNothing
<1> QED
  BY <1>0, <1>4, <1>5, <1>6, <1>7

LEMMA RevokeStep == ASSUME GrantsInv, Revoke PROVE GrantsInv'
<1> USE DEF GrantsInv
<1>0. Typed'
  BY TypedStep DEF GrantsNext, Task
<1>1. run.at = "revoke" /\ run \in RunType /\ UNCHANGED <<tagged, since, admin>>
  BY DEF Revoke, Typed
<1>2. CASE \E s \in Revokes \ run.done :
             /\ grants' = grants \ {Direct(s[1], s[2])}
             /\ run' = [run EXCEPT !.done = @ \cup {s}]
  <2>1. PICK r \in Revokes \ run.done :
          /\ grants' = grants \ {Direct(r[1], r[2])}
          /\ run' = [run EXCEPT !.done = @ \cup {r}]
    BY <1>2
  <2>2. /\ run'.seen = run.seen /\ run'.looked = run.looked /\ run'.at = "revoke"
        /\ run'.done = run.done \cup {r}
    BY <1>1, <2>1 DEF RunType
  <2>3. SeenWhereLooked' /\ SuccessLeavesNothing'
    BY <1>1, <2>2 DEF SeenWhereLooked, SuccessLeavesNothing
  <2>4. ReadsAccountedFor'
    BY <1>1, <2>1, <2>2 DEF ReadsAccountedFor, ToSettle, ByTheRoster
  <2>5. RevokedStays'
    <3> SUFFICES ASSUME NEW s \in Revokes, s \in run.done \cup {r},
                        Direct(s[1], s[2]) \in grants'
                 PROVE  Direct(s[1], s[2]) \in since
      BY <1>1, <2>2, SameSeen DEF RevokedStays, Revoked, Withdrawn, Direct
    <3>1. s # r
      BY <2>1
    <3> QED
      BY <3>1, <1>1, <2>1 DEF RevokedStays, Withdrawn
  <2> QED
    BY <1>0, <2>3, <2>4, <2>5
<1>3. CASE /\ Revokes \subseteq run.done /\ run' = [run EXCEPT !.at = "grant"]
           /\ UNCHANGED grants
  <2>1. /\ run'.seen = run.seen /\ run'.looked = run.looked /\ run'.at = "grant"
        /\ run'.done = run.done
    BY <1>1, <1>3 DEF RunType
  <2>2. SeenWhereLooked' /\ SuccessLeavesNothing'
    BY <1>1, <2>1 DEF SeenWhereLooked, SuccessLeavesNothing, Settling
  <2>3. ReadsAccountedFor'
    BY <1>1, <1>3, <2>1 DEF ReadsAccountedFor, ToSettle, ByTheRoster
  <2>4. RevokedStays'
    BY <1>1, <1>3, <2>1, SameSeen DEF RevokedStays, Withdrawn, Direct
  <2> QED
    BY <1>0, <2>2, <2>3, <2>4
<1> QED
  BY <1>2, <1>3 DEF Revoke

LEMMA GrantStep == ASSUME GrantsInv, GrantRoster PROVE GrantsInv'
<1> USE DEF GrantsInv
<1>0. Typed'
  BY TypedStep DEF GrantsNext, Task
<1>1. run.at = "grant" /\ run \in RunType /\ UNCHANGED <<tagged, since, admin>>
  BY DEF GrantRoster, Typed
<1>2. /\ run'.seen = run.seen /\ run'.looked = run.looked /\ run'.at \in {"grant", "tag"}
  BY <1>1 DEF GrantRoster, RunType
<1>3. ASSUME NEW g \in grants', g \notin grants
      PROVE  \E s \in Grantings : g = Direct(s[1], s[2])
  BY <1>3 DEF GrantRoster
<1>4. SeenWhereLooked' /\ SuccessLeavesNothing'
  BY <1>1, <1>2 DEF SeenWhereLooked, SuccessLeavesNothing, Settling
<1>5. ReadsAccountedFor'
  <2> SUFFICES ASSUME NEW t \in run.looked, NEW g \in grants' \ since,
                      ToSettle(g), g.on \in {t, Schema}
               PROVE  [table |-> t, grant |-> g] \in run.seen \/ ByTheRoster(g)
    BY <1>1, <1>2 DEF ReadsAccountedFor, ToSettle, ByTheRoster
  <2>1. CASE g \in grants
    BY <2>1 DEF ReadsAccountedFor
  <2>2. CASE g \notin grants
    BY <2>2, <1>3 DEF Grantings, Direct, ByTheRoster
  <2> QED
    BY <2>1, <2>2
<1>6. RevokedStays'
  <2> SUFFICES ASSUME NEW s \in Revokes, Direct(s[1], s[2]) \in grants'
               PROVE  Direct(s[1], s[2]) \in since
    BY <1>1, <1>2, SameSeen DEF RevokedStays, Withdrawn, Direct
  <2>1. s[2] \notin Roster
    BY RevokeFacts
  <2>2. Direct(s[1], s[2]) \in grants
    <3> SUFFICES ASSUME Direct(s[1], s[2]) \notin grants PROVE FALSE
      OBVIOUS
    <3>1. PICK r \in Grantings : Direct(s[1], s[2]) = Direct(r[1], r[2])
      BY <1>3
    <3> QED
      BY <3>1, <2>1 DEF Grantings, Direct
  <2> QED
    BY <2>2, <1>1 DEF RevokedStays, Revoked, Withdrawn
<1> QED
  BY <1>0, <1>4, <1>5, <1>6

LEMMA TagStep == ASSUME GrantsInv, Tag PROVE GrantsInv'
<1> USE DEF GrantsInv
<1>0. Typed'
  BY TypedStep DEF GrantsNext, Task
<1>1. run.at = "tag" /\ run \in RunType /\ UNCHANGED <<grants, since, admin>>
  BY DEF Tag, Typed
<1>2. /\ run'.seen = run.seen /\ run'.looked = run.looked
      /\ run'.at \in {"tag", "success", "failed"}
      /\ run'.at = "success" => Escalations = {}
  BY <1>1 DEF Tag, RunType
<1>3. SeenWhereLooked' /\ SuccessLeavesNothing'
  BY <1>1, <1>2, SameSeen DEF SeenWhereLooked, SuccessLeavesNothing, Settling
<1>4. ReadsAccountedFor'
  BY <1>1, <1>2 DEF ReadsAccountedFor, ToSettle, ByTheRoster
<1>5. RevokedStays'
  BY <1>1, <1>2, SameSeen DEF RevokedStays, Revoked, Withdrawn, Direct
<1> QED
  BY <1>0, <1>3, <1>4, <1>5

\* A run that starts or dies has seen nothing.
LEMMA RunStep == ASSUME GrantsInv, Starts \/ Dies PROVE GrantsInv'
<1> USE DEF GrantsInv
<1>0. Typed'
  BY TypedStep DEF GrantsNext, Task
<1>1. /\ run'.seen = {} /\ run'.looked = {} /\ run'.done = {}
      /\ run'.at \in {"off", "observe"}
  BY DEF Starts, Dies, Idle
<1>2. SeenWhereLooked' /\ SuccessLeavesNothing'
  BY <1>1 DEF SeenWhereLooked, SuccessLeavesNothing, Settling
<1>3. ReadsAccountedFor' /\ RevokedStays'
  BY <1>1 DEF ReadsAccountedFor, RevokedStays, Revoked
<1> QED
  BY <1>0, <1>2, <1>3

LEMMA AdminStep == ASSUME GrantsInv, Administers PROVE GrantsInv'
<1> USE DEF GrantsInv
<1>0. Typed'
  BY TypedStep DEF GrantsNext
<1>1. UNCHANGED run
  BY DEF Administers
<1>2. PICK n \in Grant :
        \/ /\ n \notin grants /\ grants' = grants \cup {n}
           /\ since' = IF Looked(n) THEN since \cup {n} ELSE since
        \/ n \in grants /\ grants' = grants \ {n} /\ since' = since \ {n}
  BY DEF Administers
<1>3. SeenWhereLooked' /\ SuccessLeavesNothing'
  BY <1>1 DEF SeenWhereLooked, SuccessLeavesNothing, Escalations
<1>4. ReadsAccountedFor'
  <2> SUFFICES ASSUME NEW t \in run.looked, NEW g \in grants' \ since',
                      ToSettle(g), g.on \in {t, Schema}
               PROVE  [table |-> t, grant |-> g] \in run.seen \/ ByTheRoster(g)
    BY <1>1 DEF ReadsAccountedFor, ToSettle, ByTheRoster
  <2>1. g \in grants \ since
    BY <1>2 DEF Looked
  <2> QED
    BY <2>1 DEF ReadsAccountedFor
<1>5. RevokedStays'
  <2> SUFFICES ASSUME NEW s \in Revokes, Withdrawn(s), Direct(s[1], s[2]) \in grants'
               PROVE  Direct(s[1], s[2]) \in since'
    BY <1>1, SameSeen DEF RevokedStays, Withdrawn, Direct
  <2>1. Looked(Direct(s[1], s[2]))
    BY RevokeFacts DEF Looked, Direct
  <2> QED
    BY <1>2, <2>1 DEF Withdrawn
<1> QED
  BY <1>0, <1>3, <1>4, <1>5

LEMMA GrantsInvStep == ASSUME GrantsInv, [GrantsNext]_grantsVars PROVE GrantsInv'
<1>1. CASE UNCHANGED grantsVars
  BY <1>1 DEF grantsVars, GrantsInv, Typed, SeenWhereLooked, ReadsAccountedFor, RevokedStays,
              SuccessLeavesNothing, Withdrawn, ToSettle, ByTheRoster, Revokes, Held, Escalations
<1> QED
  BY <1>1, ObserveStep, RevokeStep, GrantStep, TagStep, RunStep, AdminStep DEF GrantsNext, Task

-----------------------------------------------------------------------------
(* What the task promises.                                                 *)

LEMMA GrantsInvHolds == GrantsSpec => []GrantsInv
BY GrantsInitInv, GrantsInvStep, PTL DEF GrantsSpec

LEMMA GovernedAtSuccess == GrantsInv => SuccessMeansGoverned
<1> SUFFICES ASSUME GrantsInv, run.at = "success", NEW g \in grants \ since,
                    g.action \in {"SELECT", "ALL PRIVILEGES", "MANAGE"}
             PROVE  ByTheRoster(g)
  BY DEF SuccessMeansGoverned, ByTheRoster
<1>1. g \in Grant /\ ToSettle(g) /\ run.looked = Governed /\ Governed # {}
  BY DEF GrantsInv, Typed, ToSettle, Harmless, SeenWhereLooked, Settling
<1>2. PICK t \in Governed : g.on \in {t, Schema}
  BY <1>1 DEF Grant
<1>3. CASE [table |-> t, grant |-> g] \in run.seen
  <2> DEFINE o == [table |-> t, grant |-> g]
  <2>0. o \in run.seen /\ o.table = t /\ o.grant = g
    BY <1>3
  <2> HIDE DEF o
  <2>1. Revocable(g)
    BY <2>0 DEF GrantsInv, SuccessLeavesNothing, Escalations
  <2>2. g.action = "SELECT" /\ g.on = t /\ g = Direct(t, g.principal) /\ g.principal \in Principal
    BY <2>1, <1>1, <1>2 DEF Revocable, Direct, Grant
  <2>3. g.principal \in Held(t)
    BY <2>0, <2>1 DEF Held
  <2>4. CASE g.principal \notin Roster
    <3>1. <<t, g.principal>> \in Revokes
      BY <2>2, <2>3, <2>4 DEF Revokes
    <3> QED
      BY <3>1, <2>2 DEF GrantsInv, RevokedStays, Revoked, Withdrawn
  <2> QED
    BY <2>2, <2>4 DEF ByTheRoster
<1> QED
  BY <1>1, <1>2, <1>3 DEF GrantsInv, ReadsAccountedFor

\* For any tables, principals, roster and administrators: the task opens no table
\* while a read it had to withdraw is still there, and a SUCCESS leaves no reader
\* outside the roster but by a grant made after the task had looked.
THEOREM Governs == GrantsSpec => GovernedWhenGranted
<1>1. GrantsInv /\ [GrantsNext]_grantsVars =>
        [GrantRoster /\ grants' # grants =>
           \A s \in Revokes : Direct(s[1], s[2]) \in grants => Direct(s[1], s[2]) \in since]_grantsVars
  BY DEF GrantRoster, GrantsInv, RevokedStays, Revoked, Withdrawn
<1>2. GrantsSpec => RevokesPrecedeGrants
  BY <1>1, GrantsInvHolds, PTL DEF GrantsSpec, RevokesPrecedeGrants
<1>3. GrantsSpec => []SuccessMeansGoverned
  BY GrantsInvHolds, GovernedAtSuccess, PTL
<1> QED
  BY <1>2, <1>3 DEF GovernedWhenGranted

(***************************************************************************)
(* The catalogue.                                                          *)
(***************************************************************************)

-----------------------------------------------------------------------------
(* Sequences of columns.                                                   *)

LEMMA JoinedIs ==
  ASSUME NEW U, NEW s \in Seq(U), NEW t \in Seq(U)
  PROVE  /\ s \o t \in Seq(U) /\ ToSet(s \o t) = ToSet(s) \cup ToSet(t)
         /\ IsInjective(s \o t) <=>
              IsInjective(s) /\ IsInjective(t) /\ ToSet(s) \cap ToSet(t) = {}
<1>1. /\ s \o t \in Seq(U) /\ DOMAIN s = 1..Len(s) /\ DOMAIN t = 1..Len(t)
      /\ DOMAIN (s \o t) = 1..(Len(s) + Len(t)) /\ Len(s) \in Nat /\ Len(t) \in Nat
  OBVIOUS
<1>2. \A i \in DOMAIN (s \o t) : (s \o t)[i] = IF i <= Len(s) THEN s[i] ELSE t[i - Len(s)]
  OBVIOUS
<1> DEFINE st == s \o t
<1> HIDE DEF st
<1>3. ASSUME NEW i \in DOMAIN st PROVE st[i] \in ToSet(s) \cup ToSet(t)
  <2>1. CASE i <= Len(s)
    BY <1>1, <1>2, <2>1 DEF ToSet, st
  <2>2. CASE ~ (i <= Len(s))
    <3>1. i - Len(s) \in DOMAIN t /\ st[i] = t[i - Len(s)]
      BY <1>1, <1>2, <2>2 DEF st
    <3> QED
      BY <3>1 DEF ToSet
  <2> QED
    BY <2>1, <2>2
<1>4. ASSUME NEW i \in DOMAIN s PROVE i \in DOMAIN st /\ st[i] = s[i]
  BY <1>1, <1>2 DEF st
<1>5. ASSUME NEW i \in DOMAIN t PROVE i + Len(s) \in DOMAIN st /\ st[i + Len(s)] = t[i]
  BY <1>1, <1>2 DEF st
<1>6. ToSet(st) \subseteq ToSet(s) \cup ToSet(t)
  BY <1>3 DEF ToSet
<1>7. ToSet(s) \cup ToSet(t) \subseteq ToSet(st)
  BY <1>4, <1>5 DEF ToSet
<1>8. ASSUME IsInjective(st) PROVE IsInjective(s) /\ IsInjective(t) /\ ToSet(s) \cap ToSet(t) = {}
  <2>1. ASSUME NEW i \in DOMAIN s, NEW j \in DOMAIN s, s[i] = s[j] PROVE i = j
    BY <1>4, <1>8, <2>1 DEF IsInjective
  <2>2. ASSUME NEW i \in DOMAIN t, NEW j \in DOMAIN t, t[i] = t[j] PROVE i = j
    <3>1. i + Len(s) = j + Len(s)
      BY <1>5, <1>8, <2>2 DEF IsInjective
    <3> QED
      BY <1>1, <3>1
  <2>3. ASSUME NEW i \in DOMAIN s, NEW j \in DOMAIN t, s[i] = t[j] PROVE FALSE
    <3>1. i = j + Len(s)
      BY <1>4, <1>5, <1>8, <2>3 DEF IsInjective
    <3> QED
      BY <1>1, <3>1
  <2> QED
    BY <2>1, <2>2, <2>3 DEF IsInjective, ToSet
<1>9. ASSUME IsInjective(s), IsInjective(t), ToSet(s) \cap ToSet(t) = {} PROVE IsInjective(st)
  <2> SUFFICES ASSUME NEW i \in DOMAIN st, NEW j \in DOMAIN st, st[i] = st[j] PROVE i = j
    BY DEF IsInjective
  <2>1. i \in Nat /\ j \in Nat
    BY <1>1 DEF st
  <2>2. ASSUME NEW k \in DOMAIN st, ~ (k <= Len(s))
        PROVE  k - Len(s) \in DOMAIN t /\ st[k] = t[k - Len(s)] /\ st[k] \in ToSet(t)
    <3>1. k - Len(s) \in DOMAIN t /\ st[k] = t[k - Len(s)]
      BY <1>1, <1>2, <2>2 DEF st
    <3> QED
      BY <3>1 DEF ToSet
  <2>3. ASSUME NEW k \in DOMAIN st, k <= Len(s) PROVE k \in DOMAIN s /\ st[k] = s[k] /\ st[k] \in ToSet(s)
    <3>1. k \in DOMAIN s /\ st[k] = s[k]
      BY <1>1, <1>2, <2>3 DEF st
    <3> QED
      BY <3>1 DEF ToSet
  <2>4. CASE i <= Len(s) /\ j <= Len(s)
    BY <1>9, <2>3, <2>4 DEF IsInjective
  <2>5. CASE ~ (i <= Len(s)) /\ ~ (j <= Len(s))
    <3>1. i - Len(s) = j - Len(s)
      BY <1>9, <2>2, <2>5 DEF IsInjective
    <3> QED
      BY <1>1, <2>1, <3>1
  <2>6. CASE i <= Len(s) /\ ~ (j <= Len(s))
    BY <1>9, <2>2, <2>3, <2>6
  <2>7. CASE ~ (i <= Len(s)) /\ j <= Len(s)
    BY <1>9, <2>2, <2>3, <2>7
  <2> QED
    BY <2>4, <2>5, <2>6, <2>7
<1> QED
  BY <1>1, <1>6, <1>7, <1>8, <1>9 DEF st

\* What a list of columns is, whatever the columns are called.
IsList(s) == s \in Seq(ToSet(s))

LEMMA ListOf ==
  ASSUME NEW U, NEW s \in Seq(U)
  PROVE  IsList(s) /\ DOMAIN s = 1..Len(s) /\ Len(s) \in Nat
<1>1. DOMAIN s = 1..Len(s) /\ Len(s) \in Nat /\ s = [i \in 1..Len(s) |-> s[i]]
  OBVIOUS
<1>2. \A i \in 1..Len(s) : s[i] \in ToSet(s)
  BY <1>1 DEF ToSet
<1>3. s \in [1..Len(s) -> ToSet(s)]
  BY <1>1, <1>2
<1> QED
  BY <1>1, <1>3 DEF IsList

\* A sequence taken element by element is a list again.
LEMMA MappedIs ==
  ASSUME NEW k, IsList(k), NEW f, f = [i \in DOMAIN k |-> f[i]]
  PROVE  IsList(f) /\ DOMAIN f = 1..Len(k) /\ Len(f) = Len(k)
<1>1. DOMAIN k = 1..Len(k) /\ Len(k) \in Nat
  BY DEF IsList
<1>2. \A i \in DOMAIN k : f[i] \in ToSet(f)
  BY DEF ToSet
<1>3. f \in [1..Len(k) -> ToSet(f)]
  BY <1>1, <1>2
<1> QED
  BY <1>1, <1>3 DEF IsList

\* Two lists joined: what the result holds, and when it repeats nothing.
LEMMA JoinedLists ==
  ASSUME NEW s, NEW t, IsList(s), IsList(t)
  PROVE  /\ IsList(s \o t) /\ ToSet(s \o t) = ToSet(s) \cup ToSet(t)
         /\ IsInjective(s \o t) <=>
              IsInjective(s) /\ IsInjective(t) /\ ToSet(s) \cap ToSet(t) = {}
<1> DEFINE U == ToSet(s) \cup ToSet(t)
<1>1. s \in Seq(U) /\ t \in Seq(U)
  BY SeqMonotonic DEF IsList
<1> QED
  BY <1>1, JoinedIs DEF IsList

\* The lists of up to two columns.
LEMMA ShortIs ==
  ASSUME NEW a, NEW b
  PROVE  /\ IsList(<<>>) /\ ToSet(<<>>) = {} /\ IsInjective(<<>>)
         /\ IsList(<<a>>) /\ ToSet(<<a>>) = {a} /\ IsInjective(<<a>>)
         /\ IsList(<<a, b>>) /\ ToSet(<<a, b>>) = {a, b} /\ (a # b => IsInjective(<<a, b>>))
<1> DEFINE one == <<a>>
           two == <<a, b>>
<1>1. /\ one \in Seq({a}) /\ DOMAIN one = {1} /\ one[1] = a
      /\ two \in Seq({a, b}) /\ DOMAIN two = {1, 2} /\ two[1] = a /\ two[2] = b
  OBVIOUS
<1>2. ToSet(<<>>) = {} /\ IsInjective(<<>>) /\ <<>> \in Seq({a})
  BY DEF ToSet, IsInjective
<1> HIDE DEF one, two
<1>3. ToSet(one) = {a} /\ IsInjective(one)
  BY <1>1 DEF ToSet, IsInjective
<1>4. ToSet(two) = {a, b}
  BY <1>1 DEF ToSet
<1>5. a # b => IsInjective(two)
  BY <1>1 DEF IsInjective
<1>6. IsList(one) /\ IsList(two) /\ IsList(<<>>)
  BY <1>1, <1>2, ListOf
<1> QED
  BY <1>2, <1>3, <1>4, <1>5, <1>6 DEF one, two

LEMMA NamesAre ==
  ASSUME NEW keys, IsList(keys)
  PROVE  IsList(Names(keys)) /\ DOMAIN Names(keys) = DOMAIN keys /\ DOMAIN keys = 1..Len(keys)
<1>1. Names(keys) = [i \in DOMAIN keys |-> Names(keys)[i]]
  BY DEF Names
<1>2. DOMAIN keys = 1..Len(keys)
  BY DEF IsList
<1> QED
  BY <1>1, <1>2, MappedIs

LEMMA StampIs ==
  /\ IsList(Stamp) /\ ToSet(Stamp) = {"load_date", "record_source"} /\ IsInjective(Stamp)
  /\ ToSet(Stamp) \subseteq Metadata
<1>1. "load_date" # "record_source"
  OBVIOUS
<1>2. IsList(Stamp) /\ ToSet(Stamp) = {"load_date", "record_source"} /\ IsInjective(Stamp)
  BY <1>1, ShortIs, Zenon DEF Stamp
<1> QED
  BY <1>2 DEF Metadata

-----------------------------------------------------------------------------
(* A sequence of sequences, one after the other.                           *)

\* Of some places there is a first.
LEMMA FirstPlace ==
  ASSUME NEW S \in SUBSET Nat, S # {}
  PROVE  \E x \in S : \A y \in S : x <= y
<1> DEFINE Before == {ss \in Nat \X Nat : ss[1] < ss[2]}
<1>1. IsWellFoundedOn(Before, Nat)
  BY NatLessThanWellFounded, Zenon DEF OpToRel
<1>2. PICK x \in S : \A y \in S : ~ (<<y, x>> \in Before)
  BY <1>1, WFMin
<1>3. \A y \in S : x \in Nat /\ y \in Nat /\ (y < x => <<y, x>> \in Before)
  OBVIOUS
<1>4. ASSUME NEW y \in S PROVE x <= y
  <2>1. ~ (y < x) /\ x \in Nat /\ y \in Nat
    BY <1>2, <1>3
  <2> QED
    BY <2>1
<1> QED
  BY <1>4

\* A set of places that holds 1 and the next of each holds them all.
LEMMA StepByStep ==
  ASSUME NEW n \in Nat, NEW S \in SUBSET (1..n),
         n > 0 => 1 \in S, \A i \in S : i < n => i + 1 \in S
  PROVE  S = 1..n
<1> SUFFICES ASSUME (1..n) \ S # {} PROVE FALSE
  OBVIOUS
<1>1. (1..n) \ S \in SUBSET Nat
  OBVIOUS
<1>2. PICK x \in (1..n) \ S : \A y \in (1..n) \ S : x <= y
  BY <1>1, FirstPlace
<1>3. x # 1
  BY <1>2
<1>4. x - 1 \in 1..n /\ ~ (x <= x - 1)
  BY <1>2, <1>3
<1>5. x - 1 \in S
  BY <1>2, <1>4
<1>6. x - 1 + 1 \in S /\ x - 1 + 1 = x
  BY <1>2, <1>4, <1>5
<1> QED
  BY <1>2, <1>6

\* flatten of FlattenSeq, up to its n-th.
Flattens(ss, n, f) == f = [i \in 1..n |-> IF i = 1 THEN ss[i] ELSE f[i - 1] \o ss[i]]

LEMMA FlattenAt ==
  ASSUME NEW ss, NEW n \in Nat, NEW f, Flattens(ss, n, f), NEW i \in 1..n
  PROVE  f[i] = IF i = 1 THEN ss[i] ELSE f[i - 1] \o ss[i]
BY DEF Flattens

LEMMA FlattenStep ==
  ASSUME NEW ss, NEW n \in Nat \ {0}, NEW f, Flattens(ss, n, f)
  PROVE  Flattens(ss, n + 1, [i \in 1..(n + 1) |-> IF i <= n THEN f[i] ELSE f[n] \o ss[n + 1]])
<1> DEFINE g == [i \in 1..(n + 1) |-> IF i <= n THEN f[i] ELSE f[n] \o ss[n + 1]]
<1>1. ASSUME NEW i \in 1..(n + 1) PROVE g[i] = IF i = 1 THEN ss[i] ELSE g[i - 1] \o ss[i]
  <2>1. CASE i <= n
    <3>1. g[i] = f[i] /\ i \in 1..n
      BY <2>1
    <3>2. f[i] = IF i = 1 THEN ss[i] ELSE f[i - 1] \o ss[i]
      BY <3>1 DEF Flattens
    <3>3. i # 1 => g[i - 1] = f[i - 1]
      BY <2>1
    <3> QED
      BY <3>1, <3>2, <3>3
  <2>2. CASE i = n + 1
    <3>1. i - 1 = n /\ ~ (i <= n) /\ i # 1 /\ n \in 1..(n + 1)
      BY <2>2
    <3>2. g[i] = f[n] \o ss[n + 1]
      BY <2>2, <3>1
    <3>3. g[n] = f[n]
      BY <3>1
    <3> QED
      BY <2>2, <3>1, <3>2, <3>3
  <2> QED
    BY <2>1, <2>2
<1> HIDE DEF g
<1>2. g = [i \in 1..(n + 1) |-> g[i]]
  BY DEF g
<1>3. g = [i \in 1..(n + 1) |-> IF i = 1 THEN ss[i] ELSE g[i - 1] \o ss[i]]
  BY <1>1, <1>2
<1> QED
  BY <1>3 DEF Flattens, g

LEMMA FlattenExists ==
  ASSUME NEW ss, NEW n \in Nat \ {0}
  PROVE  \E f : Flattens(ss, n, f)
<1> DEFINE S == {k \in 1..n : \E f : Flattens(ss, k, f)}
<1>1. 1 \in S
  <2>1. Flattens(ss, 1, [i \in 1..1 |-> ss[i]])
    BY DEF Flattens
  <2> QED
    BY <2>1
<1>2. ASSUME NEW k \in S, k < n PROVE k + 1 \in S
  <2>1. PICK f : Flattens(ss, k, f)
    OBVIOUS
  <2>2. k \in Nat \ {0} /\ k + 1 \in 1..n
    BY <1>2
  <2>3. Flattens(ss, k + 1, [i \in 1..(k + 1) |-> IF i <= k THEN f[i] ELSE f[k] \o ss[k + 1]])
    BY <2>1, <2>2, FlattenStep
  <2> QED
    BY <2>2, <2>3
<1> HIDE DEF S
<1>3. S \in SUBSET (1..n)
  BY DEF S
<1>4. S = 1..n
  BY <1>1, <1>2, <1>3, StepByStep
<1>5. n \in S
  BY <1>4
<1> QED
  BY <1>5 DEF S

\* What x is when it is the parts of ss one after the other: no column more,
\* and none twice only if no two places of the parts share one.
HoldsTheParts(x, ss, n) ==
  /\ ToSet(x) = UNION {ToSet(ss[i]) : i \in 1..n}
  /\ IsInjective(x) =>
       \A i, j \in 1..n : \A k \in DOMAIN ss[i], m \in DOMAIN ss[j] :
         ss[i][k] = ss[j][m] => i = j /\ k = m

\* What is flattened up to the p-th holds what the first p hold, and repeats nothing
\* only if no two of them share anything.
LEMMA FlattenedIs ==
  ASSUME NEW U, NEW n \in Nat \ {0}, NEW ss, DOMAIN ss = 1..n, \A i \in 1..n : ss[i] \in Seq(U),
         NEW f, Flattens(ss, n, f)
  PROVE  f[n] \in Seq(U) /\ HoldsTheParts(f[n], ss, n)
<1> DEFINE Unlike(p) == \A i, j \in 1..p : \A k \in DOMAIN ss[i], m \in DOMAIN ss[j] :
                          ss[i][k] = ss[j][m] => i = j /\ k = m
           Holds(p) == ToSet(f[p]) = UNION {ToSet(ss[i]) : i \in 1..p}
           S == {p \in 1..n : f[p] \in Seq(U) /\ Holds(p) /\ (IsInjective(f[p]) => Unlike(p))}
<1>0. n \in Nat /\ f[1] = ss[1] /\ \A i \in 1..n : i # 1 => f[i] = f[i - 1] \o ss[i]
  <2>1. ASSUME NEW i \in 1..n PROVE f[i] = IF i = 1 THEN ss[i] ELSE f[i - 1] \o ss[i]
    BY DEF Flattens
  <2>2. 1 \in 1..n /\ n \in Nat
    OBVIOUS
  <2>3. f[1] = ss[1]
    BY <2>1, <2>2
  <2>4. ASSUME NEW i \in 1..n, i # 1 PROVE f[i] = f[i - 1] \o ss[i]
    BY <2>1, <2>4
  <2> QED
    BY <2>2, <2>3, <2>4
<1>1. 1 \in 1..n /\ f[1] = ss[1] /\ ss[1] \in Seq(U)
  <2>1. 1 \in 1..n /\ n \in Nat
    OBVIOUS
  <2> QED
    BY <1>0, <2>1
<1>2. 1 \in S
  <2>1. 1..1 = {1}
    OBVIOUS
  <2>2. Holds(1)
    BY <1>1, <2>1
  <2>3. IsInjective(f[1]) => Unlike(1)
    BY <1>1, <2>1 DEF IsInjective
  <2> HIDE DEF Holds, Unlike
  <2> QED
    BY <1>1, <2>2, <2>3
<1>3. ASSUME NEW p \in S, p < n PROVE p + 1 \in S
  <2>1. p \in 1..n /\ n \in Nat /\ f[p] \in Seq(U) /\ Holds(p) /\ (IsInjective(f[p]) => Unlike(p))
    OBVIOUS
  <2> HIDE DEF S, Holds, Unlike
  <2>2. PICK q \in 1..n : q = p + 1 /\ q # 1 /\ q - 1 = p
    <3>1. p + 1 \in 1..n /\ p + 1 # 1 /\ p + 1 - 1 = p
      BY <1>3, <2>1
    <3>2. p \in Nat /\ n \in Nat
      BY <2>1
    <3> QED
      BY <3>1, <3>2
  <2>2b. 1..q = 1..p \cup {q}
    BY <2>1, <2>2
  <2>3. f[q] = f[p] \o ss[q]
    <3>1. f[q] = f[q - 1] \o ss[q]
      BY <1>0, <2>2
    <3> QED
      BY <2>2, <3>1
  <2>4. ss[q] \in Seq(U)
    BY <2>2
  <2>5. /\ f[q] \in Seq(U) /\ ToSet(f[q]) = ToSet(f[p]) \cup ToSet(ss[q])
        /\ IsInjective(f[q]) =>
             IsInjective(f[p]) /\ IsInjective(ss[q]) /\ ToSet(f[p]) \cap ToSet(ss[q]) = {}
    BY <2>1, <2>3, <2>4, JoinedIs
  <2>6. Holds(q)
    BY <2>1, <2>2b, <2>5 DEF Holds
  <2>7. ASSUME IsInjective(f[q]) PROVE Unlike(q)
    <3>1. Unlike(p) /\ IsInjective(ss[q])
      BY <2>1, <2>5, <2>7
    <3>2. \A i \in 1..p : \A k \in DOMAIN ss[i] : ss[i][k] \in ToSet(f[p])
      <4>1. \A i \in 1..p : \A k \in DOMAIN ss[i] : ss[i][k] \in ToSet(ss[i])
        BY DEF ToSet
      <4> QED
        BY <2>1, <4>1 DEF Holds
    <3>3. \A k \in DOMAIN ss[q] : ss[q][k] \in ToSet(ss[q])
      BY DEF ToSet
    <3>4. \A i \in 1..p : \A k \in DOMAIN ss[i], m \in DOMAIN ss[q] : ss[i][k] # ss[q][m]
      BY <2>5, <2>7, <3>2, <3>3
    <3>5. \A k, m \in DOMAIN ss[q] : ss[q][k] = ss[q][m] => k = m
      BY <3>1 DEF IsInjective
    <3> SUFFICES ASSUME NEW i \in 1..q, NEW j \in 1..q,
                        NEW k \in DOMAIN ss[i], NEW m \in DOMAIN ss[j], ss[i][k] = ss[j][m]
                 PROVE  i = j /\ k = m
      BY DEF Unlike
    <3>6. CASE i \in 1..p /\ j \in 1..p
      BY <3>1, <3>6 DEF Unlike
    <3>7. CASE i = q /\ j = q
      BY <3>5, <3>7
    <3>8. CASE i \in 1..p /\ j = q
      BY <3>4, <3>8
    <3>9. CASE i = q /\ j \in 1..p
      BY <3>4, <3>9
    <3> QED
      BY <2>2b, <3>6, <3>7, <3>8, <3>9
  <2> QED
    BY <2>2, <2>5, <2>6, <2>7 DEF S
<1> HIDE DEF S, Unlike, Holds
<1>4. S \in SUBSET (1..n)
  BY DEF S
<1>5. S = 1..n
  BY <1>2, <1>3, <1>4, StepByStep
<1>6. n \in S
  BY <1>5
<1> QED
  BY <1>6 DEF S, Unlike, Holds, HoldsTheParts

\* What a flattened sequence holds, and that its parts are apart when it repeats nothing.
LEMMA FlattenIs ==
  ASSUME NEW ss, IsList(ss), \A i \in DOMAIN ss : IsList(ss[i])
  PROVE  /\ IsList(FlattenSeq(ss))
         /\ ToSet(FlattenSeq(ss)) = UNION {ToSet(ss[i]) : i \in DOMAIN ss}
         /\ IsInjective(FlattenSeq(ss)) =>
              \A i, j \in DOMAIN ss : \A k \in DOMAIN ss[i], m \in DOMAIN ss[j] :
                ss[i][k] = ss[j][m] => i = j /\ k = m
<1> DEFINE U == UNION {ToSet(ss[i]) : i \in DOMAIN ss}
<1>0. /\ Len(ss) \in Nat /\ DOMAIN ss = 1..Len(ss) /\ (Len(ss) = 0 => ss = <<>>)
      /\ \A i \in DOMAIN ss : ss[i] \in Seq(U)
  <2>1. Len(ss) \in Nat /\ DOMAIN ss = 1..Len(ss) /\ (Len(ss) = 0 => ss = <<>>)
    BY DEF IsList
  <2>2. \A i \in DOMAIN ss : ss[i] \in Seq(ToSet(ss[i])) /\ ToSet(ss[i]) \subseteq U
    BY DEF IsList
  <2> QED
    BY <2>1, <2>2, SeqMonotonic
<1> HIDE DEF U
<1>1. CASE Len(ss) = 0
  <2>1. FlattenSeq(ss) = ss /\ ss = <<>> /\ DOMAIN ss = {}
    BY <1>0, <1>1 DEF FlattenSeq
  <2>2. IsList(<<>>) /\ ToSet(<<>>) = {}
    BY ShortIs
  <2> QED
    BY <2>1, <2>2
<1>2. CASE Len(ss) # 0
  <2>1. Len(ss) \in Nat \ {0}
    BY <1>0, <1>2
  <2>2. Flattens(ss, Len(ss), CHOOSE g : Flattens(ss, Len(ss), g))
    BY <2>1, FlattenExists
  <2>3. FlattenSeq(ss) = (CHOOSE g : Flattens(ss, Len(ss), g))[Len(ss)]
    BY <1>2, Zenon DEF FlattenSeq, Flattens
  <2>4. PICK f : Flattens(ss, Len(ss), f) /\ FlattenSeq(ss) = f[Len(ss)]
    BY <2>2, <2>3, Zenon
  <2>5. f[Len(ss)] \in Seq(U) /\ HoldsTheParts(f[Len(ss)], ss, Len(ss))
    <3>1. DOMAIN ss = 1..Len(ss) /\ \A i \in 1..Len(ss) : ss[i] \in Seq(U)
      BY <1>0
    <3> QED
      BY <2>1, <2>4, <3>1, FlattenedIs
  <2>6. IsList(FlattenSeq(ss))
    BY <2>4, <2>5, ListOf
  <2> QED
    BY <1>0, <2>4, <2>5, <2>6 DEF HoldsTheParts
<1> QED
  BY <1>0, <1>1, <1>2

-----------------------------------------------------------------------------
(* Catalogue: names and paths.                                             *)

\* One name per table and role of the registry.
NameOf == [at \in (DOMAIN bronze) \X (1..3) |-> Fold(DeltaNames(bronze[at[1]])[at[2]])]

LEMMA DeltaNamesAre ==
  ASSUME NEW s
  PROVE  /\ DOMAIN DeltaNames(s) = 1..3
         /\ ToSet(DeltaNames(s)) = {DeltaNames(s)[k] : k \in 1..3}
<1>1. DOMAIN DeltaNames(s) = 1..3
  BY DEF DeltaNames
<1> QED
  BY <1>1 DEF ToSet

\* As many names as there are places for one: no two are the same.
LEMMA DeltaNamesApart ==
  ASSUME IsFiniteSet(DOMAIN bronze), NoTwoTablesShareADeltaName
  PROVE  IsInjective(NameOf)
<1> DEFINE At == (DOMAIN bronze) \X (1..3)
           Folds == {Fold(n) : n \in BronzeNames}
<1>1. BronzeNames = UNION {ToSet(DeltaNames(bronze[i])) : i \in DOMAIN bronze}
  BY DEF BronzeNames, Specs
<1>2. Folds = {NameOf[at] : at \in At}
  <2>1. ASSUME NEW n \in BronzeNames PROVE \E at \in At : Fold(n) = NameOf[at]
    <3>1. PICK i \in DOMAIN bronze : n \in ToSet(DeltaNames(bronze[i]))
      BY <1>1
    <3>2. PICK k \in 1..3 : n = DeltaNames(bronze[i])[k]
      BY <3>1, DeltaNamesAre
    <3>3. <<i, k>> \in At /\ NameOf[<<i, k>>] = Fold(n)
      BY <3>2 DEF NameOf
    <3> QED
      BY <3>3
  <2>2. ASSUME NEW at \in At PROVE NameOf[at] \in Folds
    <3>1. DeltaNames(bronze[at[1]])[at[2]] \in BronzeNames
      BY <1>1, DeltaNamesAre
    <3> QED
      BY <3>1 DEF NameOf
  <2> QED
    BY <2>1, <2>2
<1>3. IsFiniteSet(At) /\ Cardinality(At) = 3 * Cardinality(DOMAIN bronze)
  <2>1. IsFiniteSet(1..3) /\ Cardinality(1..3) = 3
    <3>1. 1 \in Int /\ 3 \in Int /\ ~ (1 > 3) /\ 3 - 1 + 1 = 3
      OBVIOUS
    <3> QED
      BY <3>1, FS_Interval, Zenon
  <2>2. Cardinality(DOMAIN bronze) \in Nat
    BY FS_CardinalityType
  <2> QED
    BY <2>1, <2>2, FS_Product
<1>4. NameOf \in Surjection(At, Folds)
  BY <1>2 DEF NameOf, Surjection
<1>5. Cardinality(Folds) = Cardinality(At)
  BY <1>3 DEF NoTwoTablesShareADeltaName
<1>6. NameOf \in Injection(At, Folds)
  BY <1>3, <1>4, <1>5, FS_Surjection
<1> QED
  BY <1>6 DEF Injection

\* Guards that fold the names they compare leave every Delta table one declaration.
LEMMA OwnersApart ==
  ASSUME GoldImports, IsFiniteSet(DOMAIN bronze)
  PROVE  OneOwnerPerTable
<1>1. /\ BronzeImports /\ NoNameIsAnotherLayers /\ NoTwoTablesShareAName
  BY DEF GoldImports
<1>2. ASSUME NEW i \in DOMAIN gold
      PROVE  /\ \A j \in DOMAIN gold \ {i} : Resolves(gold[i].name) # Resolves(gold[j].name)
             /\ Resolves(gold[i].name) \notin
                  {Resolves(t.name) : t \in Tables} \cup {Resolves(n) : n \in BronzeNames}
  <2>1. \A j \in DOMAIN gold \ {i} : Resolves(gold[i].name) # Resolves(gold[j].name)
    BY <1>1 DEF NoTwoTablesShareAName, IsInjective, Fold
  <2>2. Fold(gold[i].name) \in {Fold(t.name) : t \in GoldTables}
    BY DEF GoldTables
  <2>3. Fold(gold[i].name) \notin {Fold(n) : n \in BronzeNames \cup {t.name : t \in Tables}}
    BY <1>1, <2>2 DEF NoNameIsAnotherLayers
  <2> QED
    BY <2>1, <2>3 DEF Fold
<1>3. ASSUME NEW i \in DOMAIN bronze, NEW j \in DOMAIN bronze, NEW k \in 1..3, NEW n \in 1..3,
             <<i, k>> # <<j, n>>
      PROVE  Resolves(DeltaNames(bronze[i])[k]) # Resolves(DeltaNames(bronze[j])[n])
  <2>1. IsInjective(NameOf)
    BY <1>1, DeltaNamesApart DEF BronzeImports
  <2>2. NameOf[<<i, k>>] # NameOf[<<j, n>>]
    <3>1. <<i, k>> \in DOMAIN NameOf /\ <<j, n>> \in DOMAIN NameOf
      BY DEF NameOf
    <3> QED
      BY <1>3, <2>1, <3>1, Zenon DEF IsInjective
  <2> QED
    BY <2>2 DEF NameOf, Fold
<1> QED
  BY <1>2, <1>3 DEF OneOwnerPerTable

\* A path inside a directory agrees with it as far as it goes.
LEMMA InsideAgrees ==
  ASSUME NEW path, NEW dir, Inside(path, dir)
  PROVE  \A i \in 1..Len(dir) : dir[i] = path[i]
BY DEF Inside, IsPrefix

\* Guards on keys, subdirs and landing modes leave no directory, checkpoint or schema
\* at, above or below another, whatever the months.
LEMMA StreamsApart ==
  ASSUME BronzeImports
  PROVE  StreamsKeepApart
<1> SUFFICES ASSUME NEW i \in DOMAIN bronze, NEW j \in DOMAIN bronze, NEW m \in Months, NEW n \in Months
             PROVE
      LET a == bronze[i]
          b == bronze[j]
      IN /\ <<i, m>> # <<j, n>> =>
              /\ Apart(LandingDir(a, m), LandingDir(b, n))
              /\ Apart(Checkpoint(a, m), Checkpoint(b, n))
              /\ Apart(SchemaLocation(a, m), SchemaLocation(b, n))
         /\ \A path \in PutElsewhere(b, n) : ~Inside(path, LandingDir(a, m))
         /\ \A orphan \in Orphans(b) :
              Apart(Checkpoint(a, m), orphan) /\ Apart(SchemaLocation(a, m), orphan)
  BY DEF StreamsKeepApart
<1> DEFINE a == bronze[i]
           b == bronze[j]
<1>1. a \in Specs /\ b \in Specs
  BY DEF Specs
<1>2. /\ a.landing \in LandingModes /\ b.landing \in LandingModes
      /\ a.subdir # "zips" /\ a.key \notin Months /\ b.key \notin Months
  BY <1>1 DEF BronzeImports, LandingModesKnown, NoTableClaimsAReservedSubdir, ReservedSubdirs,
              NoTableKeyIsMonthShaped
<1>3. i # j => a.subdir # b.subdir /\ a.key # b.key
  <2>1. IsInjective([x \in DOMAIN bronze |-> bronze[x].subdir])
    BY DEF BronzeImports, NoTwoTablesShareASubdir, Each
  <2>2. IsInjective([x \in DOMAIN bronze |-> bronze[x].key])
    BY DEF BronzeImports, NoTwoTablesShareACheckpoint, Each
  <2> QED
    BY <2>1, <2>2 DEF IsInjective
<1>4. RootOf(a.landing) \in {"cnpj"} \cup NotFileFed /\ RootOf(b.landing) \in {"cnpj"} \cup NotFileFed
  BY <1>2 DEF RootOf, LandingModes
<1> HIDE DEF a, b
<1>5. ASSUME <<i, m>> # <<j, n>>
      PROVE  /\ Apart(LandingDir(a, m), LandingDir(b, n))
             /\ Apart(Checkpoint(a, m), Checkpoint(b, n))
             /\ Apart(SchemaLocation(a, m), SchemaLocation(b, n))
  <2>1. m # n \/ (a.subdir # b.subdir /\ a.key # b.key)
    <3>1. i # j \/ m # n
      BY <1>5, Zenon
    <3> QED
      BY <1>3, <3>1
  <2>2. Apart(LandingDir(a, m), LandingDir(b, n))
    BY <2>1, InsideAgrees DEF Apart, LandingDir
  <2>3. Apart(Checkpoint(a, m), Checkpoint(b, n))
    BY <2>1, InsideAgrees DEF Apart, Checkpoint
  <2>4. Apart(SchemaLocation(a, m), SchemaLocation(b, n))
    BY <2>1, InsideAgrees DEF Apart, SchemaLocation
  <2> QED
    BY <2>2, <2>3, <2>4
<1>6. ASSUME NEW path \in PutElsewhere(b, n), Inside(path, LandingDir(a, m)) PROVE FALSE
  <2>1. LandingDir(a, m)[1] = path[1] /\ LandingDir(a, m)[3] = path[3]
    <3>1. \A x \in 1..Len(LandingDir(a, m)) : LandingDir(a, m)[x] = path[x]
      BY <1>6, InsideAgrees, Zenon
    <3>2. 1 \in 1..Len(LandingDir(a, m)) /\ 3 \in 1..Len(LandingDir(a, m))
      BY DEF LandingDir
    <3> QED
      BY <3>1, <3>2, Zenon
  <2>2. CASE path = LandingTmp(b, n)
    BY <1>4, <2>1, <2>2 DEF LandingDir, LandingTmp, NotFileFed
  <2>3. CASE path = LandingZips(b, n)
    BY <1>2, <2>1, <2>3 DEF LandingDir, LandingZips
  <2> QED
    BY <1>6, <2>2, <2>3 DEF PutElsewhere
<1>7. ASSUME NEW orphan \in Orphans(b)
      PROVE  Apart(Checkpoint(a, m), orphan) /\ Apart(SchemaLocation(a, m), orphan)
  <2>1. orphan = <<"_checkpoints", b.key>> \/ orphan = <<"_schemas", b.key>>
    BY <1>7 DEF Orphans
  <2>2. m # b.key
    BY <1>2
  <2>3. Apart(Checkpoint(a, m), orphan)
    BY <2>1, <2>2, InsideAgrees DEF Apart, Checkpoint
  <2>4. Apart(SchemaLocation(a, m), orphan)
    BY <2>1, <2>2, InsideAgrees DEF Apart, SchemaLocation
  <2> QED
    BY <2>3, <2>4
<1> QED
  BY <1>5, <1>6, <1>7 DEF a, b

-----------------------------------------------------------------------------
(* The declarations, typed.                                                *)

\* Every table is declared as the specs type it, and every ledger hangs off a gated table.
DraftTyped ==
  /\ DOMAIN vault = DOMAIN LiveVault /\ \A i \in DOMAIN vault : IsDeclared(vault[i], VaultKinds)
  /\ DOMAIN gold = DOMAIN LiveGold /\ \A i \in DOMAIN gold : IsDeclared(gold[i], GoldKinds)
  /\ domain \in DomainEdits \cup {LiveDomain}
  /\ \A i \in DOMAIN ledger : i \in DOMAIN vault /\ vault[i].kind \in Gated /\ IsLedger(ledger[i])
  /\ \A i \in DOMAIN gold : gold[i].kind = "pit" => ToSet(gold[i].satellites) \subseteq PitSatellites
  /\ DOMAIN bronze = DOMAIN LiveBronze

\* What the tables of a kind declare.
LEMMA FieldNames ==
  /\ DOMAIN FieldsOf = VaultKinds \cup GoldKinds
  /\ DOMAIN FieldsOf["hub"] = {"name", "hashKey", "keys"}
  /\ DOMAIN FieldsOf["satellite"] = {"name", "parent", "payload", "applied", "transactional"}
  /\ DOMAIN FieldsOf["link"] = {"name", "hashKey", "ends", "child"}
  /\ DOMAIN FieldsOf["effectivity"] = {"name", "parent", "entry"}
  /\ DOMAIN FieldsOf["reference"] = {"name", "lookupType", "naturalKey", "payload"}
  /\ DOMAIN FieldsOf["scd2"] = {"name", "surrogate", "source"}
  /\ DOMAIN FieldsOf["enumerated"] = {"name", "surrogate", "natural", "column", "members"}
  /\ DOMAIN FieldsOf["calendar"] = {"name", "surrogate", "natural", "source", "roles"}
  /\ DOMAIN FieldsOf["pit"] = {"name", "hub", "satellites", "asOf"}
  /\ DOMAIN FieldsOf["fact"] =
       {"name", "grain", "measure", "additivity", "company", "roles", "derived", "conformed"}
BY DEF FieldsOf, VaultKinds, GoldKinds

\* An edit of one field leaves a declaration one.
LEMMA VariantDeclared ==
  ASSUME NEW t, NEW kinds \in {VaultKinds, GoldKinds}, IsDeclared(t, kinds), NEW u \in Variants(t, t.kind)
  PROVE  /\ IsDeclared(u, kinds) /\ u.kind = t.kind
         /\ u.kind = "pit" /\ ToSet(t.satellites) \subseteq PitSatellites
              => ToSet(u.satellites) \subseteq PitSatellites
<1>1. t.kind \in kinds /\ t.kind \in DOMAIN FieldsOf /\ "kind" \notin DOMAIN FieldsOf[t.kind]
  <2>1. t.kind \in kinds
    BY DEF IsDeclared
  <2>2. t.kind \in VaultKinds \cup GoldKinds
    BY <2>1
  <2> QED
    BY <2>1, <2>2, FieldNames DEF VaultKinds, GoldKinds
<1>2. PICK f \in DOMAIN Candidates[t.kind] : \E v \in Candidates[t.kind][f] : u = [t EXCEPT ![f] = v]
  BY DEF Variants
<1>3. PICK v \in Candidates[t.kind][f] : u = [t EXCEPT ![f] = v]
  BY <1>2
<1>4. f \in DOMAIN FieldsOf[t.kind] /\ v \in FieldsOf[t.kind][f]
  BY <1>1, CatalogueAssumption
<1>5. DOMAIN u = DOMAIN t /\ u.kind = t.kind
  BY <1>1, <1>3, <1>4
<1>6. ASSUME NEW g \in DOMAIN FieldsOf[t.kind] PROVE u[g] \in FieldsOf[t.kind][g]
  <2>1. g \in DOMAIN t /\ t[g] \in FieldsOf[t.kind][g]
    BY DEF IsDeclared
  <2> QED
    BY <1>3, <1>4, <2>1
<1>7. IsDeclared(u, kinds)
  BY <1>1, <1>5, <1>6 DEF IsDeclared
<1>8. ASSUME u.kind = "pit", ToSet(t.satellites) \subseteq PitSatellites
      PROVE  ToSet(u.satellites) \subseteq PitSatellites
  <2>1. t.kind = "pit" /\ "satellites" \in DOMAIN t
    BY <1>5, <1>8, FieldNames DEF IsDeclared
  <2>2. CASE f = "satellites"
    <3>1. u.satellites = v /\ v \in Candidates["pit"].satellites
      BY <1>3, <2>1, <2>2
    <3> QED
      BY <3>1 DEF PitSatellites
  <2>3. CASE f # "satellites"
    <3>1. u.satellites = t.satellites
      BY <1>3, <2>1, <2>3
    <3> QED
      BY <1>8, <3>1
  <2> QED
    BY <2>2, <2>3
<1> QED
  BY <1>5, <1>7, <1>8

LEMMA DraftInit == Init => DraftTyped
<1> SUFFICES ASSUME Init PROVE DraftTyped
  OBVIOUS
<1>1. \A i \in DOMAIN LiveLedger : IsLedger(LiveLedger[i])
  BY CatalogueAssumption
<1>2. ASSUME NEW i \in DOMAIN LiveGold, LiveGold[i].kind = "pit"
      PROVE  ToSet(LiveGold[i].satellites) \subseteq PitSatellites
  BY <1>2 DEF PitSatellites
<1> QED
  BY <1>1, <1>2, CatalogueAssumption DEF Init, DraftTyped

LEMMA DraftStep == DraftTyped /\ [Next]_vars => DraftTyped'
<1> SUFFICES ASSUME DraftTyped, [Next]_vars PROVE DraftTyped'
  OBVIOUS
<1>1. CASE EditVault
  <2>1. PICK i \in DOMAIN vault : \E t \in Variants(vault[i], vault[i].kind) : vault' = [vault EXCEPT ![i] = t]
    BY <1>1 DEF EditVault
  <2>2. PICK t \in Variants(vault[i], vault[i].kind) : vault' = [vault EXCEPT ![i] = t]
    BY <2>1
  <2>3. IsDeclared(t, VaultKinds) /\ t.kind = vault[i].kind
    BY VariantDeclared DEF DraftTyped
  <2>4. \A j \in DOMAIN vault' : IsDeclared(vault'[j], VaultKinds) /\ vault'[j].kind = vault[j].kind
    BY <2>2, <2>3 DEF DraftTyped
  <2> QED
    BY <1>1, <2>2, <2>4 DEF DraftTyped, EditVault
<1>2. CASE EditLedger
  <2>1. PICK i \in DOMAIN ledger, g \in LedgerEdits : ledger' = [ledger EXCEPT ![i] = g]
    BY <1>2 DEF EditLedger
  <2>2. IsLedger(g)
    BY CatalogueAssumption
  <2>3. \A j \in DOMAIN ledger' : j \in DOMAIN ledger /\ IsLedger(ledger'[j])
    BY <2>1, <2>2 DEF DraftTyped
  <2> QED
    BY <1>2, <2>3 DEF EditLedger, DraftTyped
<1>3. CASE EditDomain
  BY <1>3 DEF EditDomain, DraftTyped
<1>4. CASE EditGold
  <2>1. PICK i \in DOMAIN gold : \E t \in Variants(gold[i], gold[i].kind) : gold' = [gold EXCEPT ![i] = t]
    BY <1>4 DEF EditGold
  <2>2. PICK t \in Variants(gold[i], gold[i].kind) : gold' = [gold EXCEPT ![i] = t]
    BY <2>1
  <2>3. /\ IsDeclared(t, GoldKinds)
        /\ t.kind = "pit" => ToSet(t.satellites) \subseteq PitSatellites
    BY VariantDeclared DEF DraftTyped
  <2>4. \A j \in DOMAIN gold' :
          /\ IsDeclared(gold'[j], GoldKinds)
          /\ gold'[j].kind = "pit" => ToSet(gold'[j].satellites) \subseteq PitSatellites
    BY <2>2, <2>3 DEF DraftTyped
  <2> QED
    BY <1>4, <2>2, <2>4 DEF DraftTyped, EditGold, vaultVars
<1>5. CASE EditBronze
  BY <1>5 DEF EditBronze, DraftTyped, vaultVars
<1>6. CASE Import
  BY <1>6 DEF Import, DraftTyped, vaultVars
<1>7. CASE UNCHANGED vars
  BY <1>7 DEF vars, DraftTyped, vaultVars
<1> QED
  BY <1>1, <1>2, <1>3, <1>4, <1>5, <1>6, <1>7 DEF Next

-----------------------------------------------------------------------------
(* What is written stays as it was imported.                               *)

Frozen == UNCHANGED <<vault, domain, ledger, gold, bronze>>

\* What is accepted is what was declared: with the declarations unchanged, so is all that is
\* read off them.
LEMMA TablesFrozen ==
  ASSUME Frozen
  PROVE  /\ Tables' = Tables /\ GoldTables' = GoldTables /\ Specs' = Specs /\ Slots' = Slots
         /\ BronzeNames' = BronzeNames
<1>1. Slots' = Slots
  BY DEF Frozen, Slots
<1>2. Tables' = Tables
  BY <1>1 DEF Frozen, Tables
<1>3. Specs' = Specs
  BY DEF Frozen, Specs
<1>4. GoldTables' = GoldTables
  BY DEF Frozen, GoldTables
<1>5. BronzeNames' = BronzeNames
  BY <1>3 DEF BronzeNames
<1> QED
  BY <1>1, <1>2, <1>3, <1>4, <1>5

LEMMA NamesFrozen ==
  ASSUME Frozen
  PROVE  (OneOwnerPerTable' <=> OneOwnerPerTable) /\ (StreamsKeepApart' <=> StreamsKeepApart)
<1>1. OneOwnerPerTable' <=> OneOwnerPerTable
  BY TablesFrozen DEF Frozen, OneOwnerPerTable
<1>2. StreamsKeepApart' <=> StreamsKeepApart
  BY DEF Frozen, StreamsKeepApart
<1> QED
  BY <1>1, <1>2

LEMMA TheTableFrozen ==
  ASSUME Frozen, NEW name
  PROVE  TheTable(name)' = TheTable(name) /\ GoldNamed(name)' = GoldNamed(name)
BY TablesFrozen DEF TheTable, GoldNamed

LEMMA TablesTyped ==
  ASSUME DraftTyped
  PROVE  /\ \A t \in Tables : IsDeclared(t, VaultKinds)
         /\ \A t \in GoldTables :
              /\ IsDeclared(t, GoldKinds)
              /\ t.kind = "pit" => ToSet(t.satellites) \subseteq PitSatellites
<1>1. Slots \subseteq DOMAIN vault
  <2>1. ASSUME NEW m \in DOMAIN domain PROVE domain[m].tables \subseteq DOMAIN vault
    BY CatalogueAssumption DEF DraftTyped
  <2> QED
    BY <2>1 DEF Slots
<1> QED
  BY <1>1 DEF DraftTyped, Tables, GoldTables

\* A tree is accepted by an import of what is declared then, and stays as it is.
LEMMA OnlyAnImportAccepts ==
  ASSUME [Next]_vars, Accepted'
  PROVE  Frozen /\ (Accepted \/ GoldImports)
<1>1. CASE Accepted
  BY <1>1 DEF Accepted, Next, EditVault, EditGold, EditLedger, EditBronze, EditDomain, Edited, Import, vars, Frozen, vaultVars
<1>2. CASE ~ Accepted
  <2>1. Import /\ GoldImports
    BY <1>2 DEF Accepted, Next, EditVault, EditGold, EditLedger, EditBronze, EditDomain, Edited, Import, vars
  <2> QED
    BY <2>1 DEF Import, Frozen, vaultVars
<1> QED
  BY <1>1, <1>2

\* No edit of a declaration lets two of them share a table or a directory once
\* the registries import: names are compared as they resolve, keys, subdirs and months apart.
THEOREM DeclarationsKeepApart == Spec => []NamesKeepApart
<1>1. Init => NamesKeepApart
  BY DEF Init, NamesKeepApart, Accepted
<1>2. DraftTyped /\ NamesKeepApart /\ [Next]_vars => NamesKeepApart'
  <2> SUFFICES ASSUME DraftTyped, NamesKeepApart, [Next]_vars, Accepted'
               PROVE  (OneOwnerPerTable /\ StreamsKeepApart)'
    BY DEF NamesKeepApart
  <2>1. Frozen /\ (Accepted \/ GoldImports)
    BY OnlyAnImportAccepts
  <2>2. OneOwnerPerTable /\ StreamsKeepApart
    <3>1. IsFiniteSet(DOMAIN bronze)
      BY CatalogueAssumption DEF DraftTyped
    <3> QED
      BY <2>1, <3>1, OwnersApart, StreamsApart DEF GoldImports, NamesKeepApart
  <2> QED
    BY <2>1, <2>2, NamesFrozen
<1> QED
  BY <1>1, <1>2, DraftInit, DraftStep, PTL DEF Spec

-----------------------------------------------------------------------------
(* What an import resolves.                                                *)

LEMMA FieldTypes ==
  /\ FieldsOf["hub"]["keys"] = Seq(KeyColumn)
  /\ FieldsOf["satellite"]["payload"] = Seq(STRING)
  /\ FieldsOf["link"]["ends"] = Seq(LinkEnd)
  /\ FieldsOf["link"]["child"] = Seq(KeyColumn)
BY DEF FieldsOf

LEMMA DeclaredLists ==
  ASSUME DraftTyped, NEW t \in Tables
  PROVE  /\ t.kind \in VaultKinds
         /\ t.kind = "hub" => IsList(t.keys)
         /\ t.kind = "satellite" => IsList(t.payload)
         /\ t.kind = "link" =>
              /\ IsList(t.ends) /\ IsList(t.child)
              /\ \A i \in DOMAIN t.ends :
                   t.ends[i].identifying \in BOOLEAN /\ \A from \in t.ends[i].keyFrom : IsList(from)
<1>1. t.kind \in VaultKinds /\ \A f \in DOMAIN FieldsOf[t.kind] : t[f] \in FieldsOf[t.kind][f]
  BY TablesTyped DEF IsDeclared
<1>2. CASE t.kind = "hub"
  <2>1. t.keys \in Seq(KeyColumn)
    BY <1>1, <1>2, FieldNames, FieldTypes
  <2> QED
    BY <1>1, <1>2, <2>1, ListOf
<1>3. CASE t.kind = "satellite"
  <2>1. t.payload \in Seq(STRING)
    BY <1>1, <1>3, FieldNames, FieldTypes
  <2> QED
    BY <1>1, <1>3, <2>1, ListOf
<1>4. CASE t.kind = "link"
  <2>1. t.ends \in Seq(LinkEnd) /\ t.child \in Seq(KeyColumn)
    BY <1>1, <1>4, FieldNames, FieldTypes
  <2>2. ASSUME NEW i \in DOMAIN t.ends
        PROVE  t.ends[i].identifying \in BOOLEAN /\ \A from \in t.ends[i].keyFrom : IsList(from)
    <3>1. t.ends[i] \in LinkEnd
      BY <2>1
    <3>2. t.ends[i].identifying \in BOOLEAN /\ t.ends[i].keyFrom \subseteq Seq(KeyPrefix)
      BY <3>1 DEF LinkEnd
    <3> QED
      BY <3>2, ListOf
  <2> QED
    BY <1>1, <1>4, <2>1, <2>2, ListOf
<1> QED
  BY <1>1, <1>2, <1>3, <1>4

\* A name a guard found is the name of a table of that kind.
LEMMA LookedUp ==
  ASSUME NEW name, NEW kinds, IsA(name, kinds)
  PROVE  TheTable(name) \in Tables /\ TheTable(name).name = name /\ TheTable(name).kind \in kinds
BY DEF IsA, Registered, TheTable

\* The ends of an accepted link join hubs that are declared.
LEMMA EndsAreHubs ==
  ASSUME DraftTyped, VaultImports, NEW l \in Of("link"), NEW i \in DOMAIN l.ends
  PROVE  /\ HubsOf(l)[i] \in Tables /\ HubsOf(l)[i].kind = "hub" /\ IsList(HubsOf(l)[i].keys)
         /\ \A from \in l.ends[i].keyFrom : IsList(from) /\ Fits(from, HubsOf(l)[i])
<1>1. l \in Tables /\ l.kind = "link"
  BY DEF Of
<1>2. HubsOf(l)[i] = TheTable(l.ends[i].hub)
  BY DEF HubsOf
<1>3. IsA(l.ends[i].hub, {"hub"})
  BY DEF VaultImports, LinksJoinRegisteredHubs, JoinsHubs
<1>4. HubsOf(l)[i] \in Tables /\ HubsOf(l)[i].kind = "hub"
  BY <1>2, <1>3, LookedUp
<1>5. \A from \in l.ends[i].keyFrom : Fits(from, HubsOf(l)[i])
  BY DEF VaultImports, DerivationsFitTheirHubs
<1> QED
  BY <1>1, <1>4, <1>5, DeclaredLists

\* How the columns an end is read from, what cuts them and what its digest is
\* taken over go together.
LEMMA EndReads ==
  ASSUME NEW e, NEW h, IsList(h.keys), \A from \in e.keyFrom : IsList(from) /\ Fits(from, h)
  PROVE  LET K == DOMAIN h.keys
             source == SourceColumns(e, h)
             key == EndKey(e, h)
             cut == Derivation(e, h)
         IN /\ IsList(source) /\ IsList(key) /\ IsList(cut)
            /\ DOMAIN source = K /\ DOMAIN key = K /\ Len(key) = Len(h.keys)
            /\ \A k \in K : key[k].column = source[k] /\ key[k].pad = h.keys[k].width
            /\ \/ cut = <<>> /\ \A k \in K : key[k].cut = {}
               \/ DOMAIN cut = K /\ \A k \in K :
                    cut[k].column = source[k] /\ key[k].cut = {cut[k].width} /\ key[k].cut = key[k].pad
<1> DEFINE K == DOMAIN h.keys
           source == SourceColumns(e, h)
           key == EndKey(e, h)
           cut == Derivation(e, h)
<1>1. K = 1..Len(h.keys) /\ Len(h.keys) \in Nat
  BY DEF IsList
<1>2. CASE e.keyFrom = {}
  <2>1. source = Names(h.keys) /\ key = HubKey(h) /\ cut = <<>>
    BY <1>2 DEF SourceColumns, EndKey, Derivation
  <2>2. IsList(source) /\ DOMAIN source = K /\ \A k \in K : source[k] = h.keys[k].name
    <3>1. \A k \in K : Names(h.keys)[k] = h.keys[k].name
      BY DEF Names
    <3> QED
      BY <2>1, <3>1, NamesAre
  <2>3. /\ IsList(key) /\ DOMAIN key = K /\ Len(key) = Len(h.keys)
        /\ \A k \in K : key[k] = Component(h.keys[k].name, {}, h.keys[k].width)
    <3>1. HubKey(h) = [k \in K |-> Component(h.keys[k].name, {}, h.keys[k].width)]
      BY DEF HubKey
    <3>2. HubKey(h) = [k \in K |-> HubKey(h)[k]]
      BY <3>1
    <3>3. IsList(HubKey(h)) /\ DOMAIN HubKey(h) = K /\ Len(HubKey(h)) = Len(h.keys)
      BY <1>1, <3>2, MappedIs
    <3> QED
      BY <2>1, <3>1, <3>3
  <2> HIDE DEF source, key, cut, K
  <2>4. \A k \in K : key[k].column = source[k] /\ key[k].pad = h.keys[k].width /\ key[k].cut = {}
    BY <2>2, <2>3 DEF Component
  <2>5. IsList(cut)
    BY <2>1, ShortIs
  <2>6. /\ IsList(source) /\ IsList(key) /\ IsList(cut)
        /\ DOMAIN source = K /\ DOMAIN key = K /\ Len(key) = Len(h.keys)
        /\ \A k \in K : key[k].column = source[k] /\ key[k].pad = h.keys[k].width
        /\ cut = <<>> /\ \A k \in K : key[k].cut = {}
    BY <2>1, <2>2, <2>3, <2>4, <2>5
  <2> QED
    BY <2>6 DEF source, key, cut, K
<1>3. CASE e.keyFrom # {}
  <2> DEFINE from == CHOOSE f \in e.keyFrom : TRUE
  <2>1. from \in e.keyFrom
    BY <1>3
  <2>2. IsList(from) /\ Fits(from, h)
    BY <2>1
  <2>3. /\ source = [i \in DOMAIN from |-> from[i].column]
        /\ key = [i \in DOMAIN from |-> Component(from[i].column, {from[i].width}, h.keys[i].width)]
        /\ cut = from
    BY <1>3, Zenon DEF SourceColumns, EndKey, Derivation
  <2> HIDE DEF from, source, key, cut
  <2>4. DOMAIN from = K /\ Len(from) = Len(h.keys) /\ \A k \in K : h.keys[k].width = {from[k].width}
    <3>1. DOMAIN from = 1..Len(from)
      BY <2>2 DEF IsList
    <3> QED
      BY <1>1, <2>2, <3>1 DEF Fits
  <2>5. IsList(source) /\ DOMAIN source = K /\ \A k \in K : source[k] = from[k].column
    <3>1. source = [i \in DOMAIN from |-> source[i]]
      BY <2>3
    <3>2. IsList(source)
      BY <2>2, <3>1, MappedIs
    <3> QED
      BY <2>3, <2>4, <3>2
  <2>6. /\ IsList(key) /\ DOMAIN key = K /\ Len(key) = Len(h.keys)
        /\ \A k \in K : key[k] = Component(from[k].column, {from[k].width}, h.keys[k].width)
    <3>1. key = [i \in DOMAIN from |-> key[i]]
      BY <2>3
    <3>2. IsList(key) /\ Len(key) = Len(from)
      BY <2>2, <3>1, MappedIs
    <3> QED
      BY <2>3, <2>4, <3>2
  <2> HIDE DEF K
  <2>7. \A k \in K : /\ key[k].column = source[k] /\ key[k].pad = h.keys[k].width
                     /\ cut[k].column = source[k] /\ key[k].cut = {cut[k].width}
                     /\ key[k].cut = key[k].pad
    BY <2>3, <2>4, <2>5, <2>6 DEF Component
  <2> QED
    BY <2>2, <2>3, <2>4, <2>5, <2>6, <2>7 DEF source, key, cut, K
<1> QED
  BY <1>2, <1>3

\* What the identifying ends contribute, each of what it would.
LEMMA ContributedIs ==
  ASSUME NEW l, IsList(l.ends), NEW each, \A i \in DOMAIN l.ends : IsList(each[i])
  PROVE  /\ IsList(OfIdentifying(l, each))
         /\ ToSet(OfIdentifying(l, each)) = UNION {ToSet(each[i]) : i \in IdentifyingEnds(l)}
         /\ IsInjective(OfIdentifying(l, each)) =>
              \A i, j \in IdentifyingEnds(l) : \A k \in DOMAIN each[i], m \in DOMAIN each[j] :
                each[i][k] = each[j][m] => i = j /\ k = m
<1> DEFINE ss == [i \in DOMAIN l.ends |-> IF l.ends[i].identifying THEN each[i] ELSE <<>>]
<1>1. OfIdentifying(l, each) = FlattenSeq(ss)
  BY DEF OfIdentifying
<1>2. ss = [i \in DOMAIN l.ends |-> ss[i]] /\ DOMAIN ss = DOMAIN l.ends
  OBVIOUS
<1>3. /\ \A i \in IdentifyingEnds(l) : i \in DOMAIN ss /\ ss[i] = each[i]
      /\ \A i \in DOMAIN ss : i \notin IdentifyingEnds(l) => ss[i] = <<>>
  BY DEF IdentifyingEnds
<1> HIDE DEF ss
<1>4. IsList(ss)
  BY <1>2, MappedIs
<1>5. IsList(<<>>) /\ ToSet(<<>>) = {}
  BY ShortIs
<1>6. \A i \in DOMAIN ss : IsList(ss[i])
  BY <1>2, <1>3, <1>5
<1>7. /\ IsList(FlattenSeq(ss))
      /\ ToSet(FlattenSeq(ss)) = UNION {ToSet(ss[i]) : i \in DOMAIN ss}
      /\ IsInjective(FlattenSeq(ss)) =>
           \A i, j \in DOMAIN ss : \A k \in DOMAIN ss[i], m \in DOMAIN ss[j] :
             ss[i][k] = ss[j][m] => i = j /\ k = m
  BY <1>4, <1>6, FlattenIs
<1>8. UNION {ToSet(ss[i]) : i \in DOMAIN ss} = UNION {ToSet(each[i]) : i \in IdentifyingEnds(l)}
  <2>1. \A i \in DOMAIN ss : i \in IdentifyingEnds(l) \/ ToSet(ss[i]) = {}
    BY <1>3, <1>5
  <2>2. \A i \in IdentifyingEnds(l) : i \in DOMAIN ss /\ ToSet(ss[i]) = ToSet(each[i])
    BY <1>3
  <2> QED
    BY <2>1, <2>2
<1>9. ASSUME IsInjective(FlattenSeq(ss)), NEW i \in IdentifyingEnds(l), NEW j \in IdentifyingEnds(l),
             NEW k \in DOMAIN each[i], NEW m \in DOMAIN each[j], each[i][k] = each[j][m]
      PROVE  i = j /\ k = m
  BY <1>3, <1>7, <1>9
<1> QED
  BY <1>1, <1>7, <1>8, <1>9

LEMMA HubKeyIs ==
  ASSUME NEW h, IsList(h.keys)
  PROVE  /\ IsList(HubKey(h)) /\ DOMAIN HubKey(h) = DOMAIN h.keys /\ Len(HubKey(h)) = Len(h.keys)
         /\ \A k \in DOMAIN h.keys :
              /\ HubKey(h)[k].column = h.keys[k].name /\ HubKey(h)[k].cut = {}
              /\ HubKey(h)[k].pad = h.keys[k].width
<1>1. HubKey(h) = [k \in DOMAIN h.keys |-> HubKey(h)[k]]
  BY DEF HubKey
<1>2. IsList(HubKey(h)) /\ DOMAIN HubKey(h) = DOMAIN h.keys /\ Len(HubKey(h)) = Len(h.keys)
  <2>1. DOMAIN h.keys = 1..Len(h.keys)
    BY DEF IsList
  <2> QED
    BY <1>1, <2>1, MappedIs
<1>3. \A k \in DOMAIN h.keys : HubKey(h)[k] = Component(h.keys[k].name, {}, h.keys[k].width)
  BY DEF HubKey
<1>4. \A k \in DOMAIN h.keys :
        /\ HubKey(h)[k].column = h.keys[k].name /\ HubKey(h)[k].cut = {}
        /\ HubKey(h)[k].pad = h.keys[k].width
  <2> SUFFICES ASSUME NEW k \in DOMAIN h.keys
               PROVE  /\ HubKey(h)[k].column = h.keys[k].name /\ HubKey(h)[k].cut = {}
                      /\ HubKey(h)[k].pad = h.keys[k].width
    OBVIOUS
  <2>1. HubKey(h)[k] = [column |-> h.keys[k].name, cut |-> {}, pad |-> h.keys[k].width]
    BY <1>3 DEF Component
  <2> QED
    BY <2>1
<1> QED
  BY <1>2, <1>4

\* The guards of an import leave every key a loader reads by name where it reads it.
LEMMA KeysResolve ==
  ASSUME DraftTyped, GoldImports
  PROVE  EveryKeyResolves
<1>0. VaultImports /\ PitsResolve
  BY DEF GoldImports
<1>1. ASSUME NEW l \in Of("link"), NEW i \in DOMAIN l.ends
      PROVE  LET reference == EndKey(l.ends[i], HubsOf(l)[i])
                 key == HubKey(HubsOf(l)[i])
             IN /\ Len(reference) = Len(key)
                /\ \A k \in DOMAIN key :
                     reference[k].pad = key[k].pad /\ reference[k].cut \in {{}, key[k].pad}
  <2> DEFINE e == l.ends[i]
             h == HubsOf(l)[i]
             reference == EndKey(e, h)
             key == HubKey(h)
  <2>1. IsList(h.keys) /\ \A from \in e.keyFrom : IsList(from) /\ Fits(from, h)
    BY <1>0, EndsAreHubs
  <2> HIDE DEF e, h
  <2>2. /\ Len(reference) = Len(h.keys)
        /\ \A k \in DOMAIN h.keys :
             reference[k].pad = h.keys[k].width
               /\ (reference[k].cut = {} \/ reference[k].cut = reference[k].pad)
    BY <2>1, EndReads
  <2>3. /\ Len(key) = Len(h.keys) /\ DOMAIN key = DOMAIN h.keys
        /\ \A k \in DOMAIN h.keys : key[k].pad = h.keys[k].width
    BY <2>1, HubKeyIs
  <2> HIDE DEF reference, key
  <2>4. /\ Len(reference) = Len(key)
        /\ \A k \in DOMAIN key :
             reference[k].pad = key[k].pad /\ reference[k].cut \in {{}, key[k].pad}
    BY <2>2, <2>3
  <2> QED
    BY <2>4 DEF reference, key, e, h
<1>2. ASSUME NEW p \in Are({"pit"}), NEW s \in ToSet(p.satellites)
      PROVE  \E t \in Of("satellite") : t.name = s /\ KeyOf(TheTable(t.parent)) = HubKey(HubOf(p))
  <2>1. IsA(p.hub, {"hub"}) /\ IsA(s, {"satellite"}) /\ TheTable(s).parent = p.hub
    BY <1>0 DEF PitsResolve
  <2>2. TheTable(s) \in Of("satellite") /\ TheTable(s).name = s
    BY <2>1, LookedUp DEF Of
  <2>3. HubOf(p) = TheTable(TheTable(s).parent) /\ HubOf(p).kind = "hub"
    BY <2>1, LookedUp DEF HubOf
  <2>4. KeyOf(TheTable(TheTable(s).parent)) = HubKey(HubOf(p))
    BY <2>3 DEF KeyOf
  <2> QED
    BY <2>2, <2>4
<1>3. ASSUME NEW f \in Are({"fact"}), NEW i \in DOMAIN f.derived
      PROVE  ToSet(f.derived[i].inputs) \subseteq
               Carried \cup {f.derived[j].name : j \in 1..(i - 1)}
  <2>1. GoldSpecIsSound(f) /\ f.kind = "fact"
    BY DEF Are, GoldImports
  <2>2. FactIsSound(f)
    BY <2>1 DEF GoldSpecIsSound
  <2> QED
    BY <2>2 DEF FactIsSound, DerivedAreComputable
<1> QED
  BY <1>1, <1>2, <1>3 DEF EveryKeyResolves

\* What cuts a column of the ledger, whatever the order of its prefixes.
LEMMA CutByIs ==
  ASSUME NEW g, NEW c
  PROVE  CutBy(g, c) = {p.width : p \in {q \in ToSet(g.prefixes) : q.column = c}}
BY DEF CutBy, ToSet

\* The ledger a hub's satellite loads under is keyed by the hub's business key.
LEMMA LedgerOfAHub ==
  ASSUME NEW h, IsList(h.keys), NEW g, g.keys = Names(h.keys), g.prefixes = <<>>
  PROVE  LedgerKey(g) = {<<HubKey(h)[k].column, HubKey(h)[k].cut>> : k \in DOMAIN HubKey(h)}
<1>1. ToSet(g.keys) = {h.keys[k].name : k \in DOMAIN h.keys}
  BY NamesAre DEF ToSet, Names
<1>2. ASSUME NEW c PROVE CutBy(g, c) = {}
  <2>1. ToSet(g.prefixes) = {}
    BY ShortIs
  <2> QED
    BY <2>1, CutByIs
<1>3. LedgerKey(g) = {<<c, {}>> : c \in ToSet(g.keys)}
  BY <1>2 DEF LedgerKey
<1>4. /\ DOMAIN HubKey(h) = DOMAIN h.keys
      /\ \A k \in DOMAIN h.keys : HubKey(h)[k].column = h.keys[k].name /\ HubKey(h)[k].cut = {}
  BY HubKeyIs
<1> DEFINE Is == {<<HubKey(h)[k].column, HubKey(h)[k].cut>> : k \in DOMAIN HubKey(h)}
<1>5. ASSUME NEW c \in ToSet(g.keys) PROVE <<c, {}>> \in Is
  <2>1. PICK k \in DOMAIN h.keys : c = h.keys[k].name
    BY <1>1
  <2> QED
    BY <1>4, <2>1
<1>6. ASSUME NEW k \in DOMAIN HubKey(h)
      PROVE  <<HubKey(h)[k].column, HubKey(h)[k].cut>> \in {<<c, {}>> : c \in ToSet(g.keys)}
  BY <1>1, <1>4
<1> QED
  BY <1>3, <1>5, <1>6

\* The ledger an effectivity loads under is keyed, and cut, as the identity of its link.
LEMMA LedgerOfALink ==
  ASSUME DraftTyped, VaultImports, NEW l \in Of("link"), IsInjective(IdentityColumns(l)),
         NEW g, GrainIsTheLinks(l, g)
  PROVE  LedgerKey(g) = {<<LinkKey(l)[k].column, LinkKey(l)[k].cut>> : k \in DOMAIN LinkKey(l)}
<1> DEFINE I == IdentifyingEnds(l)
           E == DOMAIN l.ends
           sources == [i \in E |-> SourceColumns(l.ends[i], HubsOf(l)[i])]
           keys == [i \in E |-> EndKey(l.ends[i], HubsOf(l)[i])]
           cuts == [i \in E |-> Derivation(l.ends[i], HubsOf(l)[i])]
           own == [i \in DOMAIN l.child |-> Component(l.child[i].name, {}, l.child[i].width)]
           A == OfIdentifying(l, sources)
           B == OfIdentifying(l, keys)
           C == OfIdentifying(l, cuts)
<1>1. l \in Tables /\ l.kind = "link" /\ I \subseteq E
  BY DEF Of, IdentifyingEnds
<1>2. IsList(l.ends) /\ IsList(l.child)
  BY <1>1, DeclaredLists
<1>3. ASSUME NEW i \in E
      PROVE  /\ IsList(sources[i]) /\ IsList(keys[i]) /\ IsList(cuts[i])
             /\ DOMAIN sources[i] = DOMAIN keys[i]
             /\ \A k \in DOMAIN keys[i] : keys[i][k].column = sources[i][k]
             /\ \/ cuts[i] = <<>> /\ \A k \in DOMAIN keys[i] : keys[i][k].cut = {}
                \/ /\ DOMAIN cuts[i] = DOMAIN keys[i]
                   /\ \A k \in DOMAIN keys[i] :
                        cuts[i][k].column = sources[i][k] /\ keys[i][k].cut = {cuts[i][k].width}
  <2>1. IsList(HubsOf(l)[i].keys) /\ \A from \in l.ends[i].keyFrom : IsList(from) /\ Fits(from, HubsOf(l)[i])
    BY EndsAreHubs
  <2>2. /\ sources[i] = SourceColumns(l.ends[i], HubsOf(l)[i])
        /\ keys[i] = EndKey(l.ends[i], HubsOf(l)[i])
        /\ cuts[i] = Derivation(l.ends[i], HubsOf(l)[i])
    OBVIOUS
  <2> HIDE DEF sources, keys, cuts
  <2> QED
    BY <2>1, <2>2, EndReads
<1>4. /\ IdentityColumns(l) = A \o Names(l.child)
      /\ LinkKey(l) = B \o own
      /\ IdentityDerivations(l) = C
  BY DEF IdentityColumns, LinkKey, IdentityDerivations
<1>5. IsList(own) /\ DOMAIN own = DOMAIN l.child
      /\ \A k \in DOMAIN own : own[k].column = l.child[k].name /\ own[k].cut = {}
  <2>1. own = [i \in DOMAIN l.child |-> own[i]]
    OBVIOUS
  <2>2. \A k \in DOMAIN l.child : own[k].column = l.child[k].name /\ own[k].cut = {}
    BY DEF Component
  <2>3. DOMAIN own = DOMAIN l.child
    OBVIOUS
  <2> HIDE DEF own
  <2>4. IsList(own)
    BY <1>2, <2>1, MappedIs
  <2> QED
    BY <2>2, <2>3, <2>4
<1> HIDE DEF I, E, sources, keys, cuts, own
<1>6. /\ IsList(A) /\ ToSet(A) = UNION {ToSet(sources[i]) : i \in I}
      /\ IsInjective(A) =>
           \A i, j \in I : \A k \in DOMAIN sources[i], m \in DOMAIN sources[j] :
             sources[i][k] = sources[j][m] => i = j /\ k = m
  BY <1>2, <1>3, ContributedIs DEF E, I
<1>7. IsList(B) /\ ToSet(B) = UNION {ToSet(keys[i]) : i \in I}
  BY <1>2, <1>3, ContributedIs DEF E, I
<1>8. ToSet(C) = UNION {ToSet(cuts[i]) : i \in I}
  BY <1>2, <1>3, ContributedIs DEF E, I
<1> HIDE DEF A, B, C
<1>9. IsList(Names(l.child)) /\ ToSet(Names(l.child)) = {l.child[k].name : k \in DOMAIN l.child}
  BY <1>2, NamesAre DEF Names, ToSet
<1>10. /\ g.keys = A \o Names(l.child) /\ g.prefixes = C
       /\ ToSet(g.keys) = ToSet(A) \cup ToSet(Names(l.child))
       /\ IsInjective(A) /\ ToSet(A) \cap ToSet(Names(l.child)) = {}
  <2>1. g.keys = A \o Names(l.child) /\ g.prefixes = C
    BY <1>4 DEF GrainIsTheLinks
  <2>2. IsInjective(A \o Names(l.child))
    BY <1>4
  <2> QED
    BY <1>6, <1>9, <2>1, <2>2, JoinedLists
<1>11. ToSet(LinkKey(l)) = ToSet(B) \cup ToSet(own)
  BY <1>4, <1>5, <1>7, JoinedLists
<1>12. ASSUME NEW p \in ToSet(C)
       PROVE  \E j \in I : \E m \in DOMAIN sources[j] :
                p = cuts[j][m] /\ p.column = sources[j][m] /\ cuts[j] # <<>> /\ m \in DOMAIN cuts[j]
  <2>1. PICK j \in I : p \in ToSet(cuts[j])
    BY <1>8
  <2>2. PICK m \in DOMAIN cuts[j] : p = cuts[j][m]
    BY <2>1 DEF ToSet
  <2>3. cuts[j] # <<>>
    BY <2>1, ShortIs
  <2>4. j \in E
    BY <1>1
  <2>5. DOMAIN cuts[j] = DOMAIN keys[j] /\ \A k \in DOMAIN keys[j] : cuts[j][k].column = sources[j][k]
    BY <1>3, <2>3, <2>4
  <2>6. m \in DOMAIN sources[j] /\ p.column = sources[j][m]
    BY <1>3, <2>2, <2>4, <2>5
  <2> QED
    BY <2>2, <2>3, <2>6
<1>13. ASSUME NEW i \in I, NEW k \in DOMAIN keys[i]
       PROVE  CutBy(g, keys[i][k].column) = keys[i][k].cut
  <2> DEFINE c == keys[i][k].column
             Cut == {q \in ToSet(C) : q.column = c}
  <2>1. i \in E /\ DOMAIN sources[i] = DOMAIN keys[i] /\ c = sources[i][k]
    BY <1>1, <1>3
  <2>2. CutBy(g, c) = {q.width : q \in Cut}
    BY <1>10, CutByIs
  <2> HIDE DEF c
  <2>3. ASSUME NEW q \in Cut PROVE cuts[i] # <<>> /\ q = cuts[i][k]
    <3>1. q \in ToSet(C) /\ q.column = c
      OBVIOUS
    <3>2. PICK j \in I : \E m \in DOMAIN sources[j] :
            q = cuts[j][m] /\ q.column = sources[j][m] /\ cuts[j] # <<>> /\ m \in DOMAIN cuts[j]
      BY <1>12, <3>1
    <3>3. PICK m \in DOMAIN sources[j] :
            q = cuts[j][m] /\ q.column = sources[j][m] /\ cuts[j] # <<>>
      BY <3>2
    <3>4. i = j /\ k = m
      BY <1>6, <1>10, <2>1, <3>1, <3>3
    <3> QED
      BY <3>3, <3>4
  <2>4. CASE cuts[i] = <<>>
    <3>1. keys[i][k].cut = {}
      <4>1. DOMAIN cuts[i] = {}
        BY <2>4
      <4> QED
        BY <1>3, <2>1, <4>1
    <3>2. Cut = {}
      BY <2>3, <2>4
    <3> QED
      BY <2>2, <3>1, <3>2 DEF c
  <2>5. CASE cuts[i] # <<>>
    <3>1. /\ DOMAIN cuts[i] = DOMAIN keys[i] /\ cuts[i][k].column = c
          /\ keys[i][k].cut = {cuts[i][k].width}
      BY <1>3, <2>1, <2>5
    <3>2. cuts[i][k] \in ToSet(cuts[i])
      BY <3>1 DEF ToSet
    <3>3. cuts[i][k] \in Cut
      BY <1>8, <3>1, <3>2
    <3>4. Cut = {cuts[i][k]}
      BY <2>3, <3>3
    <3> QED
      BY <2>2, <3>1, <3>4 DEF c
  <2> QED
    BY <2>4, <2>5
<1>14. ASSUME NEW k \in DOMAIN own PROVE CutBy(g, own[k].column) = own[k].cut
  <2>1. own[k].column \in ToSet(Names(l.child)) /\ own[k].cut = {}
    BY <1>5, <1>9
  <2>2. ASSUME NEW q \in ToSet(C), q.column = own[k].column PROVE FALSE
    <3>1. PICK j \in I : \E m \in DOMAIN sources[j] : q.column = sources[j][m]
      BY <1>12
    <3>2. PICK m \in DOMAIN sources[j] : q.column = sources[j][m]
      BY <3>1
    <3>3. sources[j][m] \in ToSet(sources[j])
      BY DEF ToSet
    <3>4. q.column \in ToSet(A)
      BY <1>6, <3>2, <3>3
    <3> QED
      BY <1>10, <2>1, <2>2, <3>4
  <2>3. CutBy(g, own[k].column) = {q.width : q \in {r \in ToSet(C) : r.column = own[k].column}}
    BY <1>10, CutByIs
  <2> QED
    BY <2>1, <2>2, <2>3
<1>15. \A x \in ToSet(LinkKey(l)) : x.column \in ToSet(g.keys) /\ CutBy(g, x.column) = x.cut
  <2>1. ASSUME NEW x \in ToSet(B) PROVE x.column \in ToSet(A) /\ CutBy(g, x.column) = x.cut
    <3>1. PICK i \in I : x \in ToSet(keys[i])
      BY <1>7
    <3>2. PICK k \in DOMAIN keys[i] : x = keys[i][k]
      BY <3>1 DEF ToSet
    <3>3. i \in E
      BY <1>1
    <3>4. x.column = sources[i][k] /\ k \in DOMAIN sources[i]
      BY <1>3, <3>2, <3>3
    <3>5. x.column \in ToSet(sources[i])
      BY <3>4 DEF ToSet
    <3> QED
      BY <1>6, <1>13, <3>2, <3>5
  <2>2. ASSUME NEW x \in ToSet(own)
        PROVE  x.column \in ToSet(Names(l.child)) /\ CutBy(g, x.column) = x.cut
    <3>1. PICK k \in DOMAIN own : x = own[k]
      BY DEF ToSet
    <3> QED
      BY <1>5, <1>9, <1>14, <3>1
  <2> QED
    BY <1>10, <1>11, <2>1, <2>2
<1>16. ASSUME NEW c \in ToSet(g.keys) PROVE \E x \in ToSet(LinkKey(l)) : x.column = c
  <2>1. CASE c \in ToSet(A)
    <3>1. PICK i \in I : c \in ToSet(sources[i])
      BY <1>6, <2>1
    <3>2. PICK k \in DOMAIN sources[i] : c = sources[i][k]
      BY <3>1 DEF ToSet
    <3>3. i \in E
      BY <1>1
    <3>4. k \in DOMAIN keys[i] /\ keys[i][k].column = c
      BY <1>3, <3>2, <3>3
    <3>5. keys[i][k] \in ToSet(keys[i])
      BY <3>4 DEF ToSet
    <3> QED
      BY <1>7, <1>11, <3>4, <3>5
  <2>2. CASE c \in ToSet(Names(l.child))
    <3>1. PICK k \in DOMAIN l.child : c = l.child[k].name
      BY <1>9, <2>2
    <3>2. own[k] \in ToSet(own) /\ own[k].column = c
      BY <1>5, <3>1 DEF ToSet
    <3> QED
      BY <1>11, <3>2
  <2> QED
    BY <1>10, <2>1, <2>2
<1>17. {<<LinkKey(l)[k].column, LinkKey(l)[k].cut>> : k \in DOMAIN LinkKey(l)} =
         {<<x.column, x.cut>> : x \in ToSet(LinkKey(l))}
  BY DEF ToSet
<1>18. LedgerKey(g) = {<<x.column, x.cut>> : x \in ToSet(LinkKey(l))}
  <2>1. ASSUME NEW c \in ToSet(g.keys)
        PROVE  <<c, CutBy(g, c)>> \in {<<x.column, x.cut>> : x \in ToSet(LinkKey(l))}
    <3>1. PICK x \in ToSet(LinkKey(l)) : x.column = c
      BY <1>16
    <3>2. <<c, CutBy(g, c)>> = <<x.column, x.cut>>
      BY <1>15, <3>1
    <3> QED
      BY <3>2
  <2>2. ASSUME NEW x \in ToSet(LinkKey(l))
        PROVE  <<x.column, x.cut>> \in {<<c, CutBy(g, c)>> : c \in ToSet(g.keys)}
    BY <1>15
  <2> QED
    BY <2>1, <2>2 DEF LedgerKey
<1> QED
  BY <1>17, <1>18

\* What a loader does not refuse is gated on a ledger keyed as its table.
LEMMA LedgersAgree ==
  ASSUME DraftTyped, VaultImports
  PROVE  LedgerIsKeyedAsItsTable
<1> SUFFICES ASSUME NEW i \in DOMAIN ledger \cap Slots, NEW g \in ledger[i],
                    Loads(vault[i], ledger[i], SourceTable[i])
             PROVE  LedgerKey(g) = LET key == KeyOf(TheTable(vault[i].parent))
                                   IN {<<key[k].column, key[k].cut>> : k \in DOMAIN key}
  BY DEF LedgerIsKeyedAsItsTable
<1> DEFINE s == vault[i]
           parent == TheTable(s.parent)
<1>1. s \in Tables /\ s.kind \in Gated /\ \A a, b \in ledger[i] : a = b
  BY DEF Tables, DraftTyped, IsLedger
<1>2. CASE s.kind = "satellite"
  <2>1. SatelliteLoads(s, ledger[i], SourceTable[i])
    BY <1>2 DEF Loads
  <2>2. parent.kind = "hub" /\ \E a \in ledger[i] : GrainIsTheHubs(parent, a, SourceTable[i])
    BY <2>1 DEF SatelliteLoads
  <2>3. g.keys = Names(parent.keys) /\ g.prefixes = <<>>
    BY <1>1, <2>2 DEF GrainIsTheHubs
  <2>4. IsA(s.parent, {"hub", "link"})
    BY <1>1, <1>2 DEF VaultImports, SatellitesHangOffHubsOrLinks, Of
  <2>5. parent \in Tables
    BY <2>4, LookedUp
  <2> HIDE DEF parent
  <2>6. IsList(parent.keys)
    BY <2>2, <2>5, DeclaredLists
  <2>7. KeyOf(parent) = HubKey(parent)
    BY <2>2 DEF KeyOf
  <2>8. LedgerKey(g) = {<<HubKey(parent)[k].column, HubKey(parent)[k].cut>> : k \in DOMAIN HubKey(parent)}
    BY <2>3, <2>6, LedgerOfAHub
  <2> QED
    BY <2>7, <2>8 DEF parent
<1>3. CASE s.kind = "effectivity"
  <2>1. EffectivityLoads(s, ledger[i], SourceTable[i])
    BY <1>3 DEF Loads
  <2>2. GrainIsTheLinks(parent, g)
    BY <1>1, <2>1 DEF EffectivityLoads
  <2>3. s \in Of("effectivity")
    BY <1>1, <1>3 DEF Of
  <2>4. IsA(s.parent, {"link"}) /\ IsInjective(IdentityColumns(parent))
    BY <2>3 DEF VaultImports, EffectivitiesHangOffLinks, GatedIdentitiesNameAColumnOnce
  <2>5. parent \in Of("link") /\ parent.kind = "link"
    BY <2>4, LookedUp DEF Of
  <2> HIDE DEF parent
  <2>6. KeyOf(parent) = LinkKey(parent)
    BY <2>5 DEF KeyOf
  <2>7. LedgerKey(g) = {<<LinkKey(parent)[k].column, LinkKey(parent)[k].cut>> : k \in DOMAIN LinkKey(parent)}
    BY <2>2, <2>4, <2>5, LedgerOfALink
  <2> QED
    BY <2>6, <2>7 DEF parent
<1> QED
  BY <1>1, <1>2, <1>3 DEF Gated

-----------------------------------------------------------------------------
(* What is resolved stays as it was imported.                              *)

LEMMA LinksFrozen ==
  ASSUME Frozen, NEW l
  PROVE  /\ HubsOf(l)' = HubsOf(l) /\ References(l)' = References(l)
         /\ IdentityColumns(l)' = IdentityColumns(l)
         /\ IdentityDerivations(l)' = IdentityDerivations(l)
         /\ KeyOf(l)' = KeyOf(l)
<1>1. HubsOf(l)' = HubsOf(l)
  BY TheTableFrozen DEF HubsOf
<1>2. References(l)' = References(l)
  BY <1>1 DEF References
<1>3. IdentityColumns(l)' = IdentityColumns(l)
  BY <1>1 DEF IdentityColumns
<1>4. IdentityDerivations(l)' = IdentityDerivations(l)
  BY <1>1 DEF IdentityDerivations
<1>5. LinkKey(l)' = LinkKey(l)
  BY <1>1 DEF LinkKey
<1>6. KeyOf(l)' = KeyOf(l)
  BY <1>5 DEF KeyOf
<1> QED
  BY <1>1, <1>2, <1>3, <1>4, <1>6

LEMMA LoadsFrozen ==
  ASSUME Frozen, NEW t, NEW gate, NEW source
  PROVE  Loads(t, gate, source)' <=> Loads(t, gate, source)
<1>1. SatelliteLoads(t, gate, source)' <=> SatelliteLoads(t, gate, source)
  BY TheTableFrozen DEF SatelliteLoads
<1>2. EffectivityLoads(t, gate, source)' <=> EffectivityLoads(t, gate, source)
  <2>1. TheTable(t.parent)' = TheTable(t.parent)
    BY TheTableFrozen
  <2>2. \A l : IdentityColumns(l)' = IdentityColumns(l) /\ IdentityDerivations(l)' = IdentityDerivations(l)
    BY LinksFrozen
  <2>3. \A g : GrainIsTheLinks(TheTable(t.parent), g)' <=> GrainIsTheLinks(TheTable(t.parent), g)
    BY <2>1, <2>2 DEF GrainIsTheLinks
  <2> QED
    BY <2>3 DEF EffectivityLoads
<1>3. LinkLoads(t)' <=> LinkLoads(t)
  BY DEF LinkLoads
<1> QED
  BY <1>1, <1>2, <1>3 DEF Loads

LEMMA KeysFrozen ==
  ASSUME Frozen, EveryKeyResolves, LedgerIsKeyedAsItsTable
  PROVE  EveryKeyResolves' /\ LedgerIsKeyedAsItsTable'
<1>1. \A t : KeyOf(t)' = KeyOf(t) /\ HubsOf(t)' = HubsOf(t)
  BY LinksFrozen
<1>2. \A name : TheTable(name)' = TheTable(name)
  BY TheTableFrozen
<1>3. EveryKeyResolves'
  <2>1. Of("link")' = Of("link") /\ Of("satellite")' = Of("satellite")
    BY TablesFrozen DEF Of
  <2>2. Are({"pit"})' = Are({"pit"}) /\ Are({"fact"})' = Are({"fact"})
    BY TablesFrozen DEF Are
  <2>3. ASSUME NEW l \in Of("link")', NEW i \in DOMAIN l.ends
        PROVE  (LET reference == EndKey(l.ends[i], HubsOf(l)[i])
                    key == HubKey(HubsOf(l)[i])
                IN /\ Len(reference) = Len(key)
                   /\ \A k \in DOMAIN key :
                        reference[k].pad = key[k].pad /\ reference[k].cut \in {{}, key[k].pad})'
    <3>1. l \in Of("link") /\ HubsOf(l)' = HubsOf(l)
      BY <1>1, <2>1
    <3> DEFINE reference == EndKey(l.ends[i], HubsOf(l)[i])
               key == HubKey(HubsOf(l)[i])
    <3>2. /\ Len(reference) = Len(key)
          /\ \A k \in DOMAIN key :
               reference[k].pad = key[k].pad /\ reference[k].cut \in {{}, key[k].pad}
      BY <3>1, Zenon DEF EveryKeyResolves
    <3>3. reference' = reference /\ key' = key
      BY <3>1
    <3> HIDE DEF reference, key
    <3>4. /\ Len(reference') = Len(key')
          /\ \A k \in DOMAIN key' :
               reference'[k].pad = key'[k].pad /\ reference'[k].cut \in {{}, key'[k].pad}
      BY <3>2, <3>3
    <3> QED
      BY <3>4 DEF reference, key
  <2>4. ASSUME NEW p \in Are({"pit"})', NEW s \in ToSet(p.satellites)
        PROVE  (\E t \in Of("satellite") : t.name = s /\ KeyOf(TheTable(t.parent)) = HubKey(HubOf(p)))'
    <3>1. PICK t \in Of("satellite") : t.name = s /\ KeyOf(TheTable(t.parent)) = HubKey(HubOf(p))
      BY <2>2 DEF EveryKeyResolves
    <3>2. KeyOf(TheTable(t.parent))' = KeyOf(TheTable(t.parent)) /\ HubOf(p)' = HubOf(p)
      BY <1>1, <1>2 DEF HubOf
    <3> QED
      BY <2>1, <3>1, <3>2
  <2>5. ASSUME NEW f \in Are({"fact"})', NEW i \in DOMAIN f.derived
        PROVE  ToSet(f.derived[i].inputs) \subseteq
                 Carried \cup {f.derived[j].name : j \in 1..(i - 1)}
    BY <2>2 DEF EveryKeyResolves
  <2> QED
    BY <2>3, <2>4, <2>5 DEF EveryKeyResolves
<1>4. LedgerIsKeyedAsItsTable'
  <2> SUFFICES ASSUME NEW i \in (DOMAIN ledger \cap Slots)', NEW g \in ledger'[i],
                      Loads(vault[i], ledger[i], SourceTable[i])'
               PROVE  (LedgerKey(g) = LET key == KeyOf(TheTable(vault[i].parent))
                                      IN {<<key[k].column, key[k].cut>> : k \in DOMAIN key})'
    BY DEF LedgerIsKeyedAsItsTable
  <2>1. i \in DOMAIN ledger \cap Slots /\ g \in ledger[i]
    BY TablesFrozen DEF Frozen
  <2>2. Loads(vault[i], ledger[i], SourceTable[i])
    <3>1. \A t, gate, source : Loads(t, gate, source)' <=> Loads(t, gate, source)
      BY LoadsFrozen
    <3> QED
      BY <3>1 DEF Frozen
  <2>3. KeyOf(TheTable(vault[i].parent))' = KeyOf(TheTable(vault[i].parent))
    BY <1>1, <1>2 DEF Frozen
  <2> QED
    BY <2>1, <2>2, <2>3 DEF LedgerIsKeyedAsItsTable
<1> QED
  BY <1>3, <1>4

\* Once the registries import, whatever was edited before, every key a loader
\* reads by name is there, as long and as wide as it is read, and the
\* observation ledger of a gated load is grouped by the columns, cut the same,
\* that the digest of its table is taken over.
THEOREM DeclaredKeysAgree == Spec => []KeysAgree
<1>1. Init => KeysAgree
  BY DEF Init, KeysAgree, Accepted
<1>2. DraftTyped /\ KeysAgree /\ [Next]_vars => KeysAgree'
  <2> SUFFICES ASSUME DraftTyped, KeysAgree, [Next]_vars, Accepted'
               PROVE  (EveryKeyResolves /\ LedgerIsKeyedAsItsTable)'
    BY DEF KeysAgree
  <2>1. Frozen /\ (Accepted \/ GoldImports)
    BY OnlyAnImportAccepts
  <2>2. EveryKeyResolves /\ LedgerIsKeyedAsItsTable
    BY <2>1, KeysResolve, LedgersAgree DEF KeysAgree, GoldImports
  <2> QED
    BY <2>1, <2>2, KeysFrozen
<1> QED
  BY <1>1, <1>2, DraftInit, DraftStep, PTL DEF Spec

-----------------------------------------------------------------------------
(* The columns a table is written with.                                    *)

\* Three lists one after the other repeat nothing when none does and no two share anything.
LEMMA ThreeApart ==
  ASSUME NEW a, NEW b, NEW c, IsList(a), IsList(b), IsList(c),
         IsInjective(a), IsInjective(b), IsInjective(c),
         ToSet(a) \cap ToSet(b) = {}, ToSet(a) \cap ToSet(c) = {}, ToSet(b) \cap ToSet(c) = {}
  PROVE  IsInjective(a \o b \o c) /\ IsList(a \o b \o c)
         /\ ToSet(a \o b \o c) = ToSet(a) \cup ToSet(b) \cup ToSet(c)
<1>1. IsList(a \o b) /\ ToSet(a \o b) = ToSet(a) \cup ToSet(b) /\ IsInjective(a \o b)
  BY JoinedLists
<1>2. ToSet(a \o b) \cap ToSet(c) = {}
  BY <1>1
<1> QED
  BY <1>1, <1>2, JoinedLists

LEMMA FourApart ==
  ASSUME NEW a, NEW b, NEW c, NEW d, IsList(a), IsList(b), IsList(c), IsList(d),
         IsInjective(a), IsInjective(b), IsInjective(c), IsInjective(d),
         ToSet(a) \cap ToSet(b) = {}, ToSet(a) \cap ToSet(c) = {}, ToSet(b) \cap ToSet(c) = {},
         (ToSet(a) \cup ToSet(b) \cup ToSet(c)) \cap ToSet(d) = {}
  PROVE  IsInjective(a \o b \o c \o d)
<1>1. /\ IsInjective(a \o b \o c) /\ IsList(a \o b \o c)
      /\ ToSet(a \o b \o c) = ToSet(a) \cup ToSet(b) \cup ToSet(c)
  BY ThreeApart
<1> QED
  BY <1>1, JoinedLists

LEMMA HubWritten ==
  ASSUME DraftTyped, VaultImports, NEW t \in Tables, t.kind = "hub", NamesNobodyCompares(t) = {}
  PROVE  IsInjective(HubColumns(t))
<1> DEFINE key == <<t.hashKey>>
           names == Names(t.keys)
<1>1. HubIsSound(t)
  BY DEF VaultImports, SpecIsSound
<1>2. t.hashKey \notin Metadata
  BY DEF NamesNobodyCompares
<1>3. IsList(key) /\ ToSet(key) = {t.hashKey} /\ IsInjective(key)
  BY ShortIs
<1>4. IsList(names)
  BY DeclaredLists, NamesAre
<1>5. IsInjective(names) /\ ToSet(names) \cap Metadata = {} /\ t.hashKey \notin ToSet(names)
  BY <1>1 DEF HubIsSound, ColumnsAreSound
<1> HIDE DEF key, names
<1>6. IsInjective(key \o names \o Stamp)
  BY <1>2, <1>3, <1>4, <1>5, StampIs, ThreeApart
<1> QED
  BY <1>6 DEF HubColumns, key, names

LEMMA SatelliteWritten ==
  ASSUME DraftTyped, VaultImports, NEW t \in Tables, t.kind = "satellite", NamesNobodyCompares(t) = {}
  PROVE  IsInjective(SatelliteColumns(t))
<1> DEFINE h == TheTable(t.parent).hashKey
           own == <<h, "load_date", "applied_date", "record_source", "hash_diff">>
<1>1. SatelliteIsSound(t)
  BY DEF VaultImports, SpecIsSound
<1>2. h \notin Metadata
  BY DEF NamesNobodyCompares
<1>3. h \notin ToSet(t.payload)
  BY DEF VaultImports, SatellitesHangOffHubsOrLinks, KeepsItsColumns, Of
<1>4. IsList(t.payload) /\ IsInjective(t.payload) /\ ToSet(t.payload) \cap Metadata = {}
  BY <1>1, DeclaredLists DEF SatelliteIsSound, ColumnsAreSound
<1> HIDE DEF h
<1>5. IsList(own) /\ ToSet(own) = {h} \cup Metadata /\ IsInjective(own)
  <2>1. /\ own \in Seq({h} \cup Metadata) /\ DOMAIN own = 1..5
        /\ own[1] = h /\ own[2] = "load_date" /\ own[3] = "applied_date" /\ own[4] = "record_source"
        /\ own[5] = "hash_diff"
    BY DEF Metadata
  <2> HIDE DEF own
  <2>2. 1..5 = {1, 2, 3, 4, 5}
    OBVIOUS
  <2>3. ToSet(own) = {h} \cup Metadata
    BY <2>1, <2>2 DEF ToSet, Metadata
  <2>4. IsInjective(own)
    BY <1>2, <2>1, <2>2 DEF IsInjective, Metadata
  <2> QED
    BY <2>1, <2>3, <2>4, ListOf
<1> HIDE DEF own
<1>6. IsInjective(own \o t.payload)
  BY <1>3, <1>4, <1>5, JoinedLists
<1> QED
  BY <1>6 DEF SatelliteColumns, own, h

LEMMA LinkWritten ==
  ASSUME DraftTyped, VaultImports, NEW t \in Tables, t.kind = "link", NamesNobodyCompares(t) = {}
  PROVE  IsInjective(LinkColumns(t))
<1> DEFINE key == <<t.hashKey>>
           ends == References(t)
           own == Names(t.child)
<1>1. LinkIsSound(t) /\ t \in Of("link")
  BY DEF VaultImports, SpecIsSound, Of
<1>2. /\ ({t.hashKey} \cup ToSet(ends)) \cap Metadata = {}
      /\ t.hashKey \notin ToSet(own)
  BY DEF NamesNobodyCompares
<1>3. IsList(key) /\ ToSet(key) = {t.hashKey} /\ IsInjective(key)
  BY ShortIs
<1>4. IsInjective(ends) /\ ToSet(ends) \cap ({t.hashKey} \cup ToSet(own)) = {}
  BY <1>1 DEF VaultImports, LinksJoinRegisteredHubs
<1>5. IsList(ends)
  <2>1. IsList(t.ends)
    BY DeclaredLists
  <2>2. ends = [i \in DOMAIN t.ends |-> ends[i]]
    BY DEF References
  <2> HIDE DEF ends
  <2> QED
    BY <2>1, <2>2, MappedIs
<1>6. IsList(own) /\ IsInjective(own) /\ ToSet(own) \cap Metadata = {}
  <2>1. IsList(t.child) /\ IsList(own)
    BY DeclaredLists, NamesAre
  <2>2. CASE t.child = <<>>
    <3>1. DOMAIN own = {}
      BY <2>2 DEF Names
    <3> QED
      BY <2>1, <3>1 DEF IsInjective, ToSet
  <2>3. CASE t.child # <<>>
    BY <1>1, <2>1, <2>3 DEF LinkIsSound, ColumnsAreSound
  <2> QED
    BY <2>2, <2>3
<1> HIDE DEF key, ends, own
<1>7. (ToSet(key) \cup ToSet(ends) \cup ToSet(own)) \cap ToSet(Stamp) = {}
  BY <1>2, <1>3, <1>6, StampIs
<1>8. IsInjective(key \o ends \o own \o Stamp)
  BY <1>2, <1>3, <1>4, <1>5, <1>6, <1>7, StampIs, FourApart
<1> QED
  BY <1>8 DEF LinkColumns, key, ends, own

LEMMA EffectivityWritten ==
  ASSUME DraftTyped, VaultImports, NEW t \in Tables, t.kind = "effectivity", NamesNobodyCompares(t) = {}
  PROVE  IsInjective(EffectivityColumns(t))
<1> DEFINE h == TheTable(t.parent).hashKey
           own == <<h, "load_date", "applied_date", "record_source", "is_active",
                    t.entry, "last_observed_on", "closed_by">>
<1>1. EffectivityIsSound(t) /\ t \in Of("effectivity")
  BY DEF VaultImports, SpecIsSound, Of
<1>2. h \notin Metadata \cup Effectivity
  BY DEF NamesNobodyCompares
<1>3. t.entry \notin Metadata \cup Effectivity /\ t.entry # h
  BY <1>1 DEF EffectivityIsSound, VaultImports, EffectivitiesHangOffLinks
<1> HIDE DEF h
<1>4. /\ DOMAIN own = 1..8 /\ 1..8 = {1, 2, 3, 4, 5, 6, 7, 8}
      /\ own[1] = h /\ own[2] = "load_date" /\ own[3] = "applied_date" /\ own[4] = "record_source"
      /\ own[5] = "is_active" /\ own[6] = t.entry /\ own[7] = "last_observed_on" /\ own[8] = "closed_by"
  OBVIOUS
<1> HIDE DEF own
<1>5. IsInjective(own)
  BY <1>2, <1>3, <1>4 DEF IsInjective, Metadata, Effectivity
<1> QED
  BY <1>5 DEF EffectivityColumns, own, h

LEMMA ReferenceWritten ==
  ASSUME VaultImports, NEW t \in Tables, t.kind = "reference"
  PROVE  IsInjective(ReferenceColumns(t))
<1>1. ReferenceIsSound(t)
  BY DEF VaultImports, SpecIsSound
<1> DEFINE own == <<t.naturalKey, t.payload>>
<1>2. t.naturalKey # t.payload /\ {t.naturalKey, t.payload} \cap Metadata = {}
  BY <1>1 DEF ReferenceIsSound
<1>3. IsList(own) /\ ToSet(own) = {t.naturalKey, t.payload} /\ IsInjective(own)
  BY <1>2, ShortIs
<1> HIDE DEF own
<1>4. IsInjective(own \o Stamp)
  BY <1>2, <1>3, StampIs, JoinedLists
<1> QED
  BY <1>4 DEF ReferenceColumns, own

\* What the guards of the vault leave of the columns of any of its tables.
LEMMA VaultWritten ==
  ASSUME DraftTyped, VaultImports, NEW t \in Tables, NamesNobodyCompares(t) = {}
  PROVE  IsInjective(Written(t))
<1>1. t.kind \in VaultKinds
  BY DeclaredLists
<1>2. CASE t.kind = "hub"
  BY <1>2, HubWritten DEF Written
<1>3. CASE t.kind = "satellite"
  BY <1>3, SatelliteWritten DEF Written
<1>4. CASE t.kind = "link"
  BY <1>4, LinkWritten DEF Written
<1>5. CASE t.kind = "effectivity"
  BY <1>5, EffectivityWritten DEF Written
<1>6. CASE t.kind = "reference"
  BY <1>6, ReferenceWritten DEF Written
<1> QED
  BY <1>1, <1>2, <1>3, <1>4, <1>5, <1>6 DEF VaultKinds

-----------------------------------------------------------------------------
(* The columns a gold table is written with.                               *)

LEMMA GoldFieldTypes ==
  /\ FieldsOf["calendar"]["roles"] = Seq(FactRole)
  /\ FieldsOf["pit"]["satellites"] = Seq(STRING)
  /\ FieldsOf["fact"]["roles"] = Seq(STRING \X STRING)
  /\ FieldsOf["fact"]["conformed"] = Seq(STRING)
BY DEF FieldsOf

LEMMA GoldLists ==
  ASSUME DraftTyped, NEW t \in GoldTables
  PROVE  /\ t.kind \in GoldKinds
         /\ t.kind = "calendar" => IsList(t.roles)
         /\ t.kind = "pit" => IsList(t.satellites) /\ ToSet(t.satellites) \subseteq PitSatellites
         /\ t.kind = "fact" => IsList(t.roles) /\ IsList(t.conformed)
<1>1. t.kind \in GoldKinds /\ \A f \in DOMAIN FieldsOf[t.kind] : t[f] \in FieldsOf[t.kind][f]
  BY TablesTyped DEF IsDeclared
<1>2. CASE t.kind = "calendar"
  <2>1. t.roles \in Seq(FactRole)
    BY <1>1, <1>2, FieldNames, GoldFieldTypes
  <2> QED
    BY <1>1, <1>2, <2>1, ListOf
<1>3. CASE t.kind = "pit"
  <2>1. t.satellites \in Seq(STRING)
    BY <1>1, <1>3, FieldNames, GoldFieldTypes
  <2>2. ToSet(t.satellites) \subseteq PitSatellites
    BY <1>3, TablesTyped
  <2> QED
    BY <1>1, <1>3, <2>1, <2>2, ListOf
<1>4. CASE t.kind = "fact"
  <2>1. t.roles \in Seq(STRING \X STRING) /\ t.conformed \in Seq(STRING)
    BY <1>1, <1>4, FieldNames, GoldFieldTypes
  <2>2. IsList(t.roles) /\ IsList(t.conformed)
    BY <2>1, ListOf
  <2> QED
    BY <1>1, <1>4, <2>2
<1> QED
  BY <1>1, <1>2, <1>3, <1>4

LEMMA GoldSound ==
  ASSUME GoldImports, NEW t \in GoldTables
  PROVE  GoldSpecIsSound(t)
BY DEF GoldImports

LEMMA DimensionWritten ==
  ASSUME DraftTyped, GoldImports, NEW t \in GoldTables, t.kind = "scd2", NamesNobodyCompares(t) = {}
  PROVE  IsInjective(DimensionColumns(t))
<1> DEFINE s == TheTable(t.source)
           h == TheTable(s.parent)
           names == Names(h.keys)
           key == <<t.surrogate>>
           span == <<"valid_from", "valid_to", "is_current">>
<1>1. Scd2IsSound(t) /\ t \in Are({"scd2"}) /\ t \in Are({"scd2", "calendar"})
  BY GoldSound DEF GoldSpecIsSound, Are
<1>2. s \in Tables /\ s.kind = "satellite"
  <2>1. IsA(t.source, {"satellite"})
    BY <1>1 DEF GoldImports, DimensionsReadSatellites
  <2> QED
    BY <2>1, LookedUp
<1>3. h \in Tables /\ h.kind = "hub" /\ ToSet(Delivered(t)) \cap (Reserved \cup {t.surrogate}) = {}
  <2>1. IsA(s.parent, {"hub"}) /\ ToSet(Delivered(t)) \cap (Reserved \cup {t.surrogate}) = {}
    BY <1>1 DEF GoldImports, SourceColumnsDoNotCollide
  <2> QED
    BY <2>1, LookedUp
<1>4. Delivered(t) = names \o s.payload
  BY DEF Delivered
<1>5. ToSet(names) \cap ToSet(s.payload) = {}
  BY DEF NamesNobodyCompares
<1> HIDE DEF s, h
<1>6. HubIsSound(h) /\ SatelliteIsSound(s)
  BY <1>2, <1>3 DEF GoldImports, VaultImports, SpecIsSound
<1>7. IsList(names) /\ IsInjective(names)
  BY <1>3, <1>6, DeclaredLists, NamesAre DEF HubIsSound, ColumnsAreSound
<1>8. IsList(s.payload) /\ IsInjective(s.payload)
  BY <1>2, <1>6, DeclaredLists DEF SatelliteIsSound, ColumnsAreSound
<1> HIDE DEF names
<1>9. IsList(Delivered(t)) /\ IsInjective(Delivered(t))
  BY <1>4, <1>5, <1>7, <1>8, JoinedLists
<1>10. IsList(key) /\ ToSet(key) = {t.surrogate} /\ IsInjective(key)
  BY ShortIs
<1>11. IsList(span) /\ ToSet(span) = {"valid_from", "valid_to", "is_current"} /\ IsInjective(span)
  <2>1. /\ span \in Seq({"valid_from", "valid_to", "is_current"}) /\ DOMAIN span = {1, 2, 3}
        /\ span[1] = "valid_from" /\ span[2] = "valid_to" /\ span[3] = "is_current"
    OBVIOUS
  <2> HIDE DEF span
  <2>2. ToSet(span) = {"valid_from", "valid_to", "is_current"}
    BY <2>1 DEF ToSet
  <2>3. IsInjective(span)
    BY <2>1 DEF IsInjective
  <2> QED
    BY <2>1, <2>2, <2>3, ListOf
<1>12. t.surrogate \notin Reserved
  BY <1>1 DEF Scd2IsSound
<1>13. ToSet(span) \subseteq Reserved /\ ToSet(Stamp) \subseteq Reserved /\ ToSet(span) \cap ToSet(Stamp) = {}
  BY <1>11, StampIs DEF Reserved
<1> HIDE DEF key, span
<1>14. IsInjective(key \o Delivered(t) \o span \o Stamp)
  BY <1>3, <1>9, <1>10, <1>11, <1>12, <1>13, StampIs, FourApart
<1> QED
  BY <1>14 DEF DimensionColumns, key, span

LEMMA ConformedWritten ==
  ASSUME GoldImports, NEW t \in GoldTables, t.kind \in {"enumerated", "calendar"},
         NamesNobodyCompares(t) = {}
  PROVE  IsInjective(ConformedColumns(t))
<1> DEFINE keys == <<t.surrogate, t.natural>>
           attributes == IF t.kind = "calendar" THEN Attributes ELSE <<>>
<1>1. KeysAreItsOwn(t)
  BY GoldSound DEF GoldSpecIsSound, EnumeratedIsSound, CalendarIsSound
<1>2. IsList(keys) /\ ToSet(keys) = {t.surrogate, t.natural} /\ IsInjective(keys)
  BY <1>1, ShortIs DEF KeysAreItsOwn
<1>3. IsList(attributes) /\ IsInjective(attributes) /\ ToSet(attributes) \subseteq {"year", "month"}
  <2>1. "year" # "month"
    OBVIOUS
  <2>2. IsList(Attributes) /\ ToSet(Attributes) = {"year", "month"} /\ IsInjective(Attributes)
    BY <2>1, ShortIs, Zenon DEF Attributes
  <2>3. IsList(<<>>) /\ ToSet(<<>>) = {} /\ IsInjective(<<>>)
    BY ShortIs
  <2> QED
    BY <2>2, <2>3
<1>4. ToSet(keys) \cap ToSet(attributes) = {}
  <2>1. CASE t.kind = "calendar"
    BY <1>2, <2>1 DEF NamesNobodyCompares
  <2>2. CASE t.kind # "calendar"
    BY <2>2, ShortIs
  <2> QED
    BY <2>1, <2>2
<1>5. ToSet(keys) \cap ToSet(Stamp) = {} /\ ToSet(attributes) \cap ToSet(Stamp) = {}
  BY <1>1, <1>2, <1>3, StampIs DEF KeysAreItsOwn, Reserved
<1> HIDE DEF keys, attributes
<1>6. IsInjective(keys \o attributes \o Stamp)
  BY <1>2, <1>3, <1>4, <1>5, StampIs, ThreeApart
<1> QED
  BY <1>6 DEF ConformedColumns, keys, attributes

\* The pointers of a point-in-time table are apart as its satellites are.
LEMMA PitWritten ==
  ASSUME DraftTyped, GoldImports, NEW t \in GoldTables, t.kind = "pit", NamesNobodyCompares(t) = {}
  PROVE  IsInjective(PitColumns(t))
<1> DEFINE h == HubOf(t).hashKey
           keys == <<h, t.asOf>>
           pointers == Pointers(t)
<1>1. PitIsSound(t) /\ t \in Are({"pit"})
  BY GoldSound DEF GoldSpecIsSound, Are
<1>2. h \notin Metadata \cup ToSet(pointers)
  BY DEF NamesNobodyCompares
<1>3. t.asOf # h /\ t.asOf \notin ToSet(pointers) \cup Reserved
  BY <1>1 DEF GoldImports, PitsResolve, PitIsSound, AsOfIsItsOwn
<1>4. IsList(t.satellites) /\ ToSet(t.satellites) \subseteq PitSatellites /\ IsInjective(t.satellites)
  BY <1>1, GoldLists DEF PitIsSound, IsADeclaredSet
<1>5. /\ pointers = [i \in DOMAIN t.satellites |-> pointers[i]]
      /\ \A i \in DOMAIN t.satellites : pointers[i] = Pointer(t.satellites[i])
  BY DEF Pointers
<1> HIDE DEF h, pointers
<1>6. \A i \in DOMAIN t.satellites : t.satellites[i] \in PitSatellites
  BY <1>4 DEF ToSet
<1>7. IsList(pointers) /\ IsInjective(pointers) /\ ToSet(pointers) \cap ToSet(Stamp) = {}
  <2>1. IsList(pointers) /\ DOMAIN pointers = DOMAIN t.satellites
    BY <1>4, <1>5, MappedIs
  <2>2. ASSUME NEW i \in DOMAIN pointers, NEW j \in DOMAIN pointers, pointers[i] = pointers[j]
        PROVE  i = j
    <3>1. Pointer(t.satellites[i]) = Pointer(t.satellites[j])
      BY <1>5, <2>1, <2>2
    <3>2. t.satellites[i] = t.satellites[j]
      BY <1>6, <2>1, <3>1, SpellingAssumption
    <3> QED
      BY <1>4, <2>1, <3>2 DEF IsInjective
  <2>3. \A i \in DOMAIN pointers : pointers[i] \notin ToSet(Stamp)
    BY <1>5, <1>6, <2>1, SpellingAssumption
  <2>4. ToSet(pointers) \cap ToSet(Stamp) = {}
    BY <2>3 DEF ToSet
  <2> QED
    BY <2>1, <2>2, <2>4 DEF IsInjective
<1>8. IsList(keys) /\ ToSet(keys) = {h, t.asOf} /\ IsInjective(keys)
  BY <1>3, ShortIs
<1>9. ToSet(keys) \cap ToSet(Stamp) = {} /\ ToSet(keys) \cap ToSet(pointers) = {}
  BY <1>2, <1>3, <1>8, StampIs DEF Reserved
<1> HIDE DEF keys
<1>10. IsInjective(keys \o pointers \o Stamp)
  BY <1>7, <1>8, <1>9, StampIs, ThreeApart
<1> QED
  BY <1>10 DEF PitColumns, keys, h, pointers

\* The measures of a fact after its keys, written part by part and at once.
InParts(s, a, b, c, d, e) == s \o <<a, b>> \o <<c, d>> \o <<e>>
AtOnce(s, a, b, c, d, e) == s \o <<a, b, c, d, e>>

LEMMA OneAfterTheOther ==
  ASSUME NEW s, IsList(s), NEW a, NEW b, NEW c, NEW d, NEW e
  PROVE  InParts(s, a, b, c, d, e) = AtOnce(s, a, b, c, d, e)
<1> DEFINE U == ToSet(s) \cup {a, b, c, d, e}
<1>1. /\ s \in Seq(U) /\ <<a, b>> \in Seq(U) /\ <<c, d>> \in Seq(U) /\ <<e>> \in Seq(U)
      /\ <<a, b, c, d>> \in Seq(U)
  <2>1. s \in Seq(U)
    BY SeqMonotonic DEF IsList
  <2>2. a \in U /\ b \in U /\ c \in U /\ d \in U /\ e \in U
    OBVIOUS
  <2> HIDE DEF U
  <2> QED
    BY <2>1, <2>2
<1> HIDE DEF U
<1>2. <<a, b>> \o <<c, d>> = <<a, b, c, d>>
  <2> DEFINE x == <<a, b>> \o <<c, d>>
  <2>1. x \in Seq(U) /\ Len(x) = 4
    BY <1>1
  <2>2. x[1] = a /\ x[2] = b /\ x[3] = c /\ x[4] = d
    OBVIOUS
  <2> HIDE DEF x
  <2>3. x = <<x[1], x[2], x[3], x[4]>>
    BY <2>1
  <2> QED
    BY <2>2, <2>3 DEF x
<1>3. <<a, b, c, d>> \o <<e>> = <<a, b, c, d, e>>
  <2> DEFINE x == <<a, b, c, d>> \o <<e>>
  <2>1. x \in Seq(U) /\ Len(x) = 5
    BY <1>1
  <2>2. x[1] = a /\ x[2] = b /\ x[3] = c /\ x[4] = d /\ x[5] = e
    OBVIOUS
  <2> HIDE DEF x
  <2>3. x = <<x[1], x[2], x[3], x[4], x[5]>>
    BY <2>1
  <2> QED
    BY <2>2, <2>3 DEF x
<1>4. s \o <<a, b>> \o <<c, d>> = s \o <<a, b, c, d>>
  <2>1. (s \o <<a, b>>) \o <<c, d>> = s \o (<<a, b>> \o <<c, d>>)
    BY <1>1, ConcatAssociative
  <2> QED
    BY <1>2, <2>1
<1>5. (s \o <<a, b, c, d>>) \o <<e>> = s \o (<<a, b, c, d>> \o <<e>>)
  BY <1>1, ConcatAssociative
<1> QED
  BY <1>3, <1>4, <1>5, Zenon DEF InParts, AtOnce

\* The guard compares the declared measures; the loader refuses a fact whose measures it does
\* not write, so the columns compared are the columns written.
LEMMA FactWritten ==
  ASSUME DraftTyped, GoldImports, NEW t \in GoldTables, t.kind = "fact", FactLoads(t)
  PROVE  IsInjective(FactColumns(t))
<1> DEFINE parts == [i \in DOMAIN t.conformed |-> FactKeys(GoldNamed(t.conformed[i]))]
           roles == RoleKeys(t)
           keys == roles \o FlattenSeq(parts)
<1>1. DerivedNames(t) = <<"fx_rate", "amount_brl">>
  BY DEF FactLoads, MeasuresAreTheLoaders
<1>2. IsInjective(DeclaredFactColumns(t)) /\ t \in Are({"fact"})
  BY DEF GoldImports, FactColumnsAreDistinct, Are
<1>3. IsList(t.roles) /\ IsList(t.conformed)
  BY GoldLists
<1>4. IsList(roles)
  <2>1. roles = [i \in DOMAIN t.roles |-> roles[i]]
    BY DEF RoleKeys
  <2> HIDE DEF roles
  <2> QED
    BY <1>3, <2>1, MappedIs
<1>5. ASSUME NEW i \in DOMAIN t.conformed PROVE IsList(FactKeys(GoldNamed(t.conformed[i])))
  <2> DEFINE name == t.conformed[i]
             d == GoldNamed(name)
  <2>1. name \in {e.name : e \in Conformed}
    BY <1>2 DEF GoldImports, FactsReachEveryDimension, ToSet
  <2>2. PICK e \in Conformed : e.name = name
    BY <2>1
  <2>3. d \in GoldTables /\ d.name = name
    BY <2>2 DEF GoldNamed, Conformed, Are
  <2>4. d = e
    <3>1. PICK x \in DOMAIN gold : d = gold[x]
      BY <2>3 DEF GoldTables
    <3>2. PICK y \in DOMAIN gold : e = gold[y]
      BY <2>2 DEF GoldTables, Conformed, Are
    <3>3. IsInjective([z \in DOMAIN gold |-> Fold(gold[z].name)])
      BY DEF GoldImports, NoTwoTablesShareAName
    <3>4. gold[x].name = gold[y].name
      BY <2>2, <2>3, <3>1, <3>2
    <3>5. x = y
      BY <3>3, <3>4 DEF IsInjective
    <3> QED
      BY <3>1, <3>2, <3>5
  <2> HIDE DEF d
  <2>5. IsList(FactRoles(d))
    <3>1. CASE d.kind = "calendar"
      BY <2>3, <3>1, GoldLists DEF FactRoles
    <3>2. CASE d.kind # "calendar"
      BY <3>2, ShortIs DEF FactRoles
    <3> QED
      BY <3>1, <3>2
  <2>6. FactKeys(d) = [k \in DOMAIN FactRoles(d) |-> FactKeys(d)[k]]
    BY DEF FactKeys
  <2>7. IsList(FactKeys(d))
    BY <2>5, <2>6, MappedIs
  <2> QED
    BY <2>7 DEF d
<1>6. IsList(parts) /\ \A i \in DOMAIN parts : IsList(parts[i])
  <2>1. parts = [i \in DOMAIN t.conformed |-> parts[i]] /\ DOMAIN parts = DOMAIN t.conformed
    OBVIOUS
  <2>2. \A i \in DOMAIN parts : IsList(parts[i])
    BY <1>5
  <2> HIDE DEF parts
  <2> QED
    BY <1>3, <2>1, <2>2, MappedIs
<1> HIDE DEF parts, roles
<1>7. IsList(keys)
  BY <1>4, <1>6, FlattenIs, JoinedLists
<1>8. /\ FactColumns(t) =
           AtOnce(keys, t.grain, t.measure, "fx_rate", "amount_brl", EventTime) \o Stamp
      /\ DeclaredFactColumns(t) =
           InParts(keys, t.grain, t.measure, "fx_rate", "amount_brl", EventTime) \o Stamp
  BY <1>1, Zenon DEF FactColumns, DeclaredFactColumns, InParts, AtOnce, keys, parts, roles
<1> HIDE DEF keys
<1>9. ASSUME NEW a, NEW b, NEW c, NEW d, NEW e
      PROVE  InParts(keys, a, b, c, d, e) = AtOnce(keys, a, b, c, d, e)
  BY <1>7, OneAfterTheOther
<1> DEFINE rate == "fx_rate"
           amount == "amount_brl"
<1>10. /\ FactColumns(t) = AtOnce(keys, t.grain, t.measure, rate, amount, EventTime) \o Stamp
       /\ DeclaredFactColumns(t) = InParts(keys, t.grain, t.measure, rate, amount, EventTime) \o Stamp
  BY <1>8, Zenon
<1> HIDE DEF rate, amount
<1>11. FactColumns(t) = DeclaredFactColumns(t)
  BY <1>9, <1>10
<1> QED
  BY <1>2, <1>11

\* What the guards of gold leave of the columns of any of its tables.
LEMMA GoldIsWritten ==
  ASSUME DraftTyped, GoldImports, NEW t \in GoldTables, NamesNobodyCompares(t) = {},
         t.kind = "fact" => FactLoads(t)
  PROVE  IsInjective(GoldWritten(t))
<1>1. t.kind \in GoldKinds
  BY GoldLists
<1>2. CASE t.kind = "scd2"
  BY <1>2, DimensionWritten DEF GoldWritten
<1>3. CASE t.kind \in {"enumerated", "calendar"}
  BY <1>3, ConformedWritten DEF GoldWritten
<1>4. CASE t.kind = "pit"
  BY <1>4, PitWritten DEF GoldWritten
<1>5. CASE t.kind = "fact"
  BY <1>5, FactWritten DEF GoldWritten
<1> QED
  BY <1>1, <1>2, <1>3, <1>4, <1>5 DEF GoldKinds

-----------------------------------------------------------------------------
(* What is written stays apart.                                            *)

LEMMA WrittenFrozen ==
  ASSUME Frozen, NEW t, t.kind \in VaultKinds
  PROVE  Written(t)' = Written(t)
<1>1. TheTable(t.parent)' = TheTable(t.parent)
  BY TheTableFrozen
<1>2. References(t)' = References(t)
  BY LinksFrozen
<1>3. SatelliteColumns(t)' = SatelliteColumns(t)
  BY <1>1 DEF SatelliteColumns
<1>4. EffectivityColumns(t)' = EffectivityColumns(t)
  BY <1>1 DEF EffectivityColumns
<1>5. LinkColumns(t)' = LinkColumns(t)
  BY <1>2 DEF LinkColumns
<1>6. HubColumns(t)' = HubColumns(t) /\ ReferenceColumns(t)' = ReferenceColumns(t)
  BY DEF HubColumns, ReferenceColumns
<1> QED
  BY <1>3, <1>4, <1>5, <1>6 DEF Written, VaultKinds

LEMMA FactColumnsFrozen ==
  ASSUME Frozen, NEW t
  PROVE  FactColumns(t)' = FactColumns(t) /\ (FactLoads(t)' <=> FactLoads(t))
<1>1. \A name : GoldNamed(name)' = GoldNamed(name)
  BY TheTableFrozen
<1>2. FactColumns(t)' = FactColumns(t)
  <2> DEFINE parts == [i \in DOMAIN t.conformed |-> FactKeys(GoldNamed(t.conformed[i]))]
  <2>1. parts' = parts
    BY <1>1
  <2> HIDE DEF parts
  <2>2. FactColumns(t)' =
          RoleKeys(t) \o FlattenSeq(parts')
            \o <<t.grain, t.measure, "fx_rate", "amount_brl", EventTime>> \o Stamp
    BY Zenon DEF FactColumns, parts
  <2>3. FactColumns(t) =
          RoleKeys(t) \o FlattenSeq(parts)
            \o <<t.grain, t.measure, "fx_rate", "amount_brl", EventTime>> \o Stamp
    BY Zenon DEF FactColumns, parts
  <2> QED
    BY <2>1, <2>2, <2>3, Zenon
<1>3. FactLoads(t)' <=> FactLoads(t)
  <2>1. CompanyHasOneKey(t)' <=> CompanyHasOneKey(t)
    <3>1. GoldNamed(t.company)' = GoldNamed(t.company)
      BY <1>1
    <3>2. TheTable(GoldNamed(t.company).source)' = TheTable(GoldNamed(t.company).source)
      BY <3>1, TheTableFrozen
    <3>3. TheTable(TheTable(GoldNamed(t.company).source).parent)' =
            TheTable(TheTable(GoldNamed(t.company).source).parent)
      BY <3>2, TheTableFrozen
    <3> QED
      BY <3>3 DEF CompanyHasOneKey
  <2>2. DerivedRolesAreTheLoaders(t)' <=> DerivedRolesAreTheLoaders(t)
    BY <1>1 DEF DerivedRolesAreTheLoaders
  <2> QED
    BY <2>1, <2>2 DEF FactLoads
<1> QED
  BY <1>2, <1>3

LEMMA DeliveredFrozen ==
  ASSUME Frozen, NEW t
  PROVE  /\ TheTable(t.source)' = TheTable(t.source)
         /\ TheTable(TheTable(t.source).parent)' = TheTable(TheTable(t.source).parent)
         /\ Delivered(t)' = Delivered(t) /\ HubOf(t)' = HubOf(t)
<1>1. TheTable(t.source)' = TheTable(t.source)
  BY TheTableFrozen
<1>2. TheTable(TheTable(t.source).parent)' = TheTable(TheTable(t.source).parent)
  BY <1>1, TheTableFrozen
<1>3. HubOf(t)' = HubOf(t)
  BY TheTableFrozen DEF HubOf
<1> QED
  BY <1>1, <1>2, <1>3 DEF Delivered

LEMMA GoldWrittenFrozen ==
  ASSUME Frozen, NEW t, t.kind \in GoldKinds
  PROVE  GoldWritten(t)' = GoldWritten(t)
<1>1. DimensionColumns(t)' = DimensionColumns(t)
  BY DeliveredFrozen DEF DimensionColumns
<1>2. PitColumns(t)' = PitColumns(t)
  BY DeliveredFrozen DEF PitColumns
<1>3. ConformedColumns(t)' = ConformedColumns(t)
  BY DEF ConformedColumns
<1>4. FactColumns(t)' = FactColumns(t)
  BY FactColumnsFrozen
<1> QED
  BY <1>1, <1>2, <1>3, <1>4 DEF GoldWritten, GoldKinds

LEMMA UncomparedFrozen ==
  ASSUME Frozen, NEW t, t.kind \in VaultKinds \cup GoldKinds
  PROVE  NamesNobodyCompares(t)' = NamesNobodyCompares(t)
<1>1. TheTable(t.parent)' = TheTable(t.parent)
  BY TheTableFrozen
<1>2. References(t)' = References(t)
  BY LinksFrozen
<1> QED
  BY <1>1, <1>2, DeliveredFrozen DEF NamesNobodyCompares

\* The columns of an accepted tree stay apart.
LEMMA ColumnsFrozen ==
  ASSUME DraftTyped, Frozen, ColumnsAreWrittenOnce
  PROVE  ColumnsAreWrittenOnce'
<1>1. Tables' = Tables /\ GoldTables' = GoldTables
  BY TablesFrozen
<1>2. (\A t \in Tables : t.kind \in VaultKinds) /\ \A t \in GoldTables : t.kind \in GoldKinds
  BY TablesTyped DEF IsDeclared
<1>3. ASSUME NEW t \in Tables', (NamesNobodyCompares(t) = {})'
      PROVE  IsInjective(Written(t))'
  <2>1. t \in Tables /\ t.kind \in VaultKinds
    BY <1>1, <1>2
  <2>2. NamesNobodyCompares(t)' = NamesNobodyCompares(t) /\ Written(t)' = Written(t)
    BY <2>1, UncomparedFrozen, WrittenFrozen
  <2>3. IsInjective(Written(t))
    BY <1>3, <2>1, <2>2 DEF ColumnsAreWrittenOnce
  <2> QED
    BY <2>2, <2>3
<1>4. ASSUME NEW t \in GoldTables', (NamesNobodyCompares(t) = {})', (t.kind = "fact" => FactLoads(t))'
      PROVE  IsInjective(GoldWritten(t))'
  <2>1. t \in GoldTables /\ t.kind \in GoldKinds
    BY <1>1, <1>2
  <2>2. /\ NamesNobodyCompares(t)' = NamesNobodyCompares(t) /\ GoldWritten(t)' = GoldWritten(t)
        /\ FactLoads(t)' <=> FactLoads(t)
    BY <2>1, UncomparedFrozen, GoldWrittenFrozen, FactColumnsFrozen
  <2>3. IsInjective(GoldWritten(t))
    BY <1>4, <2>1, <2>2 DEF ColumnsAreWrittenOnce
  <2> QED
    BY <2>2, <2>3
<1> QED
  BY <1>3, <1>4 DEF ColumnsAreWrittenOnce

\* Once the registries import, no table the loaders write has two columns of one
\* name, whatever was declared and edited, unless the two are of a pair that no
\* guard of the specs compares.
THEOREM NothingIsWrittenTwice == Spec => []NoColumnIsWrittenTwice
<1>1. Init => NoColumnIsWrittenTwice
  BY DEF Init, NoColumnIsWrittenTwice, Accepted
<1>2. DraftTyped /\ NoColumnIsWrittenTwice /\ [Next]_vars => NoColumnIsWrittenTwice'
  <2> SUFFICES ASSUME DraftTyped, NoColumnIsWrittenTwice, [Next]_vars, Accepted'
               PROVE  ColumnsAreWrittenOnce'
    BY DEF NoColumnIsWrittenTwice
  <2>1. Frozen /\ (Accepted \/ GoldImports)
    BY OnlyAnImportAccepts
  <2>2. ColumnsAreWrittenOnce
    <3>1. CASE GoldImports
      BY <3>1, VaultWritten, GoldIsWritten DEF ColumnsAreWrittenOnce, GoldImports
    <3> QED
      BY <2>1, <3>1 DEF NoColumnIsWrittenTwice
  <2> QED
    BY <2>1, <2>2, ColumnsFrozen
<1> QED
  BY <1>1, <1>2, DraftInit, DraftStep, PTL DEF Spec

=============================================================================
