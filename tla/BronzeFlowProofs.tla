-------------------------- MODULE BronzeFlowProofs --------------------------
(***************************************************************************)
(* Proofs about BronzeFlow, for every set of files, records, runs, builds  *)
(* and interventions; and about DqRules, the rules its gate reads a batch   *)
(* with, for every set of contracts, frame and staged rows.                *)
(***************************************************************************)
EXTENDS BronzeFlow, DqRules, FiniteSetTheorems, WellFoundedInduction, TLAPS

-----------------------------------------------------------------------------
(* The helpers the actions are built from.                                 *)

\* The records of any files are records of the source, finitely many.
LEMMA RowsInFacts ==
  ASSUME NEW files \in SUBSET File
  PROVE  RowsIn(files) \subseteq Row /\ IsFiniteSet(RowsIn(files))
<1>1. RowsIn(files) \subseteq Row
  BY DataAssumption DEF RowsIn
<1> QED
  BY <1>1, FS_Subset, DataAssumption

\* The copies of a batch, of some records, or of both, are finitely many.
LEMMA CopiesFinite ==
  ASSUME NEW table, IsFiniteSet(table), NEW b, NEW rows
  PROVE  IsFiniteSet(CopiesOf(table, b)) /\ IsFiniteSet(CopiesHeld(table, b, rows))
BY FS_Subset DEF CopiesOf, CopiesHeld

\* A batch none of whose rows are counted has no copy in the table.
LEMMA NoRowsNoCopies ==
  ASSUME NEW table, IsFiniteSet(table), NEW b
  PROVE  /\ RowsOfBatch(table, b) \in Nat
         /\ RowsOfBatch(table, b) = 0 <=> CopiesOf(table, b) = {}
BY CopiesFinite, FS_CardinalityType, FS_EmptySet DEF RowsOfBatch

\* An append of finitely many records leaves a finite table of copies.
LEMMA AppendedFacts ==
  ASSUME NEW table \in SUBSET Copy, IsFiniteSet(table), NEW b \in Run,
         NEW rows \in SUBSET Row
  PROVE  Appended(table, b, rows) \in SUBSET Copy /\ IsFiniteSet(Appended(table, b, rows))
<1> DEFINE new(r) == [batch |-> b, row |-> r,
                      copy |-> Cardinality(CopiesHeld(table, b, {r}))]
           f == [r \in rows |-> new(r)]
           T == {new(r) : r \in rows}
<1>1. ASSUME NEW r \in rows PROVE new(r) \in Copy
  BY CopiesFinite, FS_CardinalityType DEF Copy
<1>2. IsFiniteSet(rows)
  BY FS_Subset, DataAssumption
<1>3. f \in Surjection(rows, T)
  BY DEF Surjection
<1>4. IsFiniteSet(T)
  BY <1>2, <1>3, FS_Surjection
<1>5. Appended(table, b, rows) = table \cup T
  BY DEF Appended
<1>6. T \in SUBSET Copy
  BY <1>1
<1> HIDE DEF T, f, new
<1>7. IsFiniteSet(table \cup T)
  BY <1>4, FS_Union
<1> QED
  BY <1>5, <1>6, <1>7

\* The three ways a task ends keep the jobs well typed.
LEMMA JobSteps ==
  ASSUME JobsOK, NEW j \in Job
  PROVE  /\ \A t \in RunTask : j \in Run /\ Goto(j, t) => JobsOK'
         /\ \A t \in RepromoteTask \cap RunTask : Goto(j, t) => JobsOK'
         /\ Finish(j) => JobsOK'
         /\ Fail(j) => JobsOK'
BY RunAssumption
   DEF JobsOK, Job, Repromote, Goto, Finish, Fail, RestartAt, RunTask, RepromoteTask

-----------------------------------------------------------------------------------------------------------------------------------------------------
(* Type correctness.                                                       *)

LEMMA RunStepsTyped ==
  ASSUME TypeOK, NEW r \in Run, RunNext(r)
  PROVE  TypeOK'
<1> USE DEF TypeOK, volume, tables, control
<1>1. r \in Job
  BY DEF Job
<1>2. CASE Launch(r)
  BY <1>2, RunAssumption DEF Launch, JobsOK, Job, Repromote, RunTask
<1>3. CASE Repair(r)
  BY <1>3, RunAssumption DEF Repair, JobsOK, Job, Repromote
<1>4. CASE RerunGate(r)
  BY <1>4, RunAssumption DEF RerunGate, JobsOK, Job, Repromote, RunTask
<1>5. CASE Unzip(r)
  BY <1>1, <1>5, JobSteps DEF Unzip, RunTask
<1>6. CASE UnzipFails(r)
  BY <1>1, <1>6, JobSteps DEF UnzipFails
<1>7. CASE IngestMicrobatch(r)
  BY <1>7 DEF IngestMicrobatch, JobsOK
<1>8. CASE IngestDone(r)
  BY <1>1, <1>8, JobSteps DEF IngestDone, RunTask
<1>9. /\ Bad(r, deployed) \in SUBSET Row
      /\ Cardinality(Bad(r, deployed)) \in Nat
  BY RowsInFacts, FS_Subset, FS_CardinalityType DEF Bad
<1>10. ASSUME GateWrites(r) PROVE quarantine' \subseteq Copy /\ IsFiniteSet(quarantine')
  BY <1>9, <1>10, AppendedFacts DEF GateWrites
<1>11. CASE Gate(r)
  BY <1>1, <1>9, <1>10, <1>11, JobSteps DEF Gate, RunTask
<1>12. CASE GateDiesAfterAppend(r)
  BY <1>1, <1>10, <1>12, JobSteps DEF GateDiesAfterAppend
<1>13. CASE GateRefuses(r)
  BY <1>1, <1>13, JobSteps DEF GateRefuses
<1>14. CASE CheckBadRows(r)
  BY <1>1, <1>14, JobSteps DEF CheckBadRows, RunTask
<1>15. CASE FailOnDq(r)
  BY <1>1, <1>15, JobSteps DEF FailOnDq
<1> QED
  BY <1>2, <1>3, <1>4, <1>5, <1>6, <1>7, <1>8, <1>11, <1>12, <1>13, <1>14, <1>15
  DEF RunNext

\* The batch a promoting job works on is a batch.
LEMMA BatchOfJob ==
  ASSUME TypeOK, OneJobPerBatch, NEW j \in Job, task[j] \in {"promote", "append", "ddl", "reclaim"}
  PROVE  BatchOf(j) \in Run
BY RunAssumption DEF BatchOf, OneJobPerBatch, Job, Repromote

LEMMA JobStepsTyped ==
  ASSUME TypeOK, OneJobPerBatch, NEW j \in Job, JobNext(j)
  PROVE  TypeOK'
<1> USE DEF TypeOK, volume, tables, control
<1>1. CASE PlanPromote(j)
  <2> SUFFICES JobsOK' /\ plan' \in [Job -> Version]
    BY <1>1 DEF PlanPromote
  <2>1. plan' \in [Job -> Version]
    BY <1>1 DEF PlanPromote
  <2>2. JobsOK'
    BY <1>1, JobSteps DEF PlanPromote, RunTask, RepromoteTask
  <2> QED
    BY <2>1, <2>2
<1>2. CASE AppendToBronze(j)
  <2>1. BatchOf(j) \in Run
    BY <1>2, BatchOfJob DEF AppendToBronze, Executing
  <2>2. Good(BatchOf(j), plan[j]) \in SUBSET Row
    BY <2>1, RowsInFacts DEF Good
  <2> QED
    BY <1>2, <2>1, <2>2, AppendedFacts, JobSteps DEF AppendToBronze, RunTask, RepromoteTask
<1>3. CASE AssertConstraints(j)
  BY <1>3, JobSteps DEF AssertConstraints, RunTask, RepromoteTask
<1>4. CASE TaskFails(j)
  BY <1>4, JobSteps DEF TaskFails
<1>5. CASE Reclaim(j)
  BY <1>5, JobSteps DEF Reclaim
<1>6. CASE ReclaimFails(j)
  BY <1>6, JobSteps DEF ReclaimFails
<1> QED
  BY <1>1, <1>2, <1>3, <1>4, <1>5, <1>6 DEF JobNext

LEMMA OperatorStepsTyped ==
  ASSUME TypeOK, OperatorNext
  PROVE  TypeOK'
<1> USE DEF TypeOK, volume, tables, control
<1>1. CASE \E f \in File : UploadZip(f)
  BY <1>1 DEF UploadZip, JobsOK
<1>2. CASE \E v \in Version : Deploy(v)
  BY <1>2 DEF Deploy, JobsOK
<1>3. CASE \E b \in Run : StartRepromote(b)
  BY <1>3, RunAssumption DEF StartRepromote, JobsOK, Job, Repromote, RepromoteTask
<1>4. CASE \E b \in Run : ReconcileBronze(b)
  BY <1>4, FS_Subset DEF ReconcileBronze, JobsOK
<1>5. CASE \E b \in Run : ReconcileQuarantine(b)
  BY <1>5, FS_Subset DEF ReconcileQuarantine, JobsOK
<1>6. CASE \E b \in Run : TruncateStaging(b)
  BY <1>6 DEF TruncateStaging, JobsOK
<1>7. CASE RebuildBronze
  BY <1>7, FS_EmptySet DEF RebuildBronze, JobsOK
<1> QED
  BY <1>1, <1>2, <1>3, <1>4, <1>5, <1>6, <1>7 DEF OperatorNext

-----------------------------------------------------------------------------
(* One job at a time on a batch.                                           *)

\* A job going on to its next task, ending or failing leaves the others be.
LEMMA OneJobSteps ==
  ASSUME TypeOK, OneJobPerBatch, NEW j \in Job, NEW t, t # "idle", Executing(j, t),
         t # "new",
         Finish(j) \/ Fail(j) \/ \E u : u # "new" /\ Goto(j, u)
  PROVE  OneJobPerBatch'
<1> USE RunAssumption DEF TypeOK, JobsOK, OneJobPerBatch, Job, Repromote, Executing
<1>1. CASE Finish(j)
  BY <1>1 DEF Finish
<1>2. CASE Fail(j)
  BY <1>2 DEF Fail, RestartAt
<1>3. CASE \E u : u # "new" /\ Goto(j, u)
  BY <1>3 DEF Goto
<1> QED
  BY <1>1, <1>2, <1>3

LEMMA OneJobPerBatchStep ==
  ASSUME TypeOK, OneJobPerBatch, Next
  PROVE  OneJobPerBatch'
<1>1. ASSUME NEW r \in Run, RunNext(r) PROVE OneJobPerBatch'
  <2> USE RunAssumption DEF TypeOK, JobsOK, OneJobPerBatch, Job, Repromote
  <2>1. CASE Launch(r)
    BY <2>1 DEF Launch
  <2>2. CASE Repair(r)
    BY <2>2 DEF Repair, Busy
  <2>3. CASE RerunGate(r)
    BY <2>3 DEF RerunGate, Busy
  <2>4. CASE IngestMicrobatch(r)
    BY <2>4 DEF IngestMicrobatch, control
  <2>5. CASE Unzip(r) \/ UnzipFails(r) \/ IngestDone(r)
    BY <2>5, OneJobSteps DEF Unzip, UnzipFails, IngestDone
  <2>6. CASE Gate(r) \/ GateDiesAfterAppend(r) \/ GateRefuses(r)
    BY <2>6, OneJobSteps DEF Gate, GateDiesAfterAppend, GateRefuses
  <2>7. CASE CheckBadRows(r) \/ FailOnDq(r)
    BY <2>7, OneJobSteps DEF CheckBadRows, FailOnDq
  <2> QED
    BY <1>1, <2>1, <2>2, <2>3, <2>4, <2>5, <2>6, <2>7 DEF RunNext
<1>2. ASSUME NEW j \in Job, JobNext(j) PROVE OneJobPerBatch'
  <2>1. CASE PlanPromote(j)
    BY <2>1, OneJobSteps DEF PlanPromote
  <2>2. CASE AppendToBronze(j) \/ AssertConstraints(j)
    BY <2>2, OneJobSteps DEF AppendToBronze, AssertConstraints
  <2>3. CASE TaskFails(j)
    BY <2>3, OneJobSteps DEF TaskFails
  <2>4. CASE Reclaim(j) \/ ReclaimFails(j)
    BY <2>4, OneJobSteps DEF Reclaim, ReclaimFails
  <2> QED
    BY <1>2, <2>1, <2>2, <2>3, <2>4 DEF JobNext
<1>3. ASSUME OperatorNext PROVE OneJobPerBatch'
  <2> USE RunAssumption DEF TypeOK, JobsOK, OneJobPerBatch, Job, Repromote, control
  <2>1. CASE \E b \in Run : StartRepromote(b)
    BY <2>1 DEF StartRepromote, Busy
  <2>2. CASE (\E f \in File : UploadZip(f)) \/ (\E v \in Version : Deploy(v))
    BY <2>2 DEF UploadZip, Deploy
  <2>3. CASE \E b \in Run : ReconcileBronze(b) \/ ReconcileQuarantine(b) \/ TruncateStaging(b)
    BY <2>3 DEF ReconcileBronze, ReconcileQuarantine, TruncateStaging
  <2>4. CASE RebuildBronze
    BY <2>4 DEF RebuildBronze
  <2> QED
    BY <1>3, <2>1, <2>2, <2>3, <2>4 DEF OperatorNext
<1> QED
  BY <1>1, <1>2, <1>3 DEF Next

\* TypeOK needs OneJobPerBatch: a promote appends to the batch it was given.
LEMMA TypedJobsStep ==
  ASSUME TypeOK, OneJobPerBatch, [Next]_vars
  PROVE  TypeOK' /\ OneJobPerBatch'
<1>1. CASE Next
  BY <1>1, RunStepsTyped, JobStepsTyped, OperatorStepsTyped, OneJobPerBatchStep DEF Next
<1>2. CASE UNCHANGED vars
  BY <1>2 DEF vars, TypeOK, JobsOK, OneJobPerBatch
<1> QED
  BY <1>1, <1>2

LEMMA TypedJobsInit == Init => TypeOK /\ OneJobPerBatch
<1> SUFFICES ASSUME Init PROVE TypeOK /\ OneJobPerBatch
  OBVIOUS
<1> USE RunAssumption, RuleAssumption DEF Init
<1>1. TypeOK
  BY FS_EmptySet DEF TypeOK, JobsOK, Job, Repromote, RunTask, RepromoteTask
<1>2. OneJobPerBatch
  BY DEF OneJobPerBatch, Job, Repromote
<1> QED
  BY <1>1, <1>2

\* Every variable of the flow keeps its type: tables of finitely many copies
\* of source records, each job at one of its own tasks.
THEOREM TypeCorrect == Spec => []TypeOK
<1>1. TypeOK /\ OneJobPerBatch /\ [Next]_vars => (TypeOK /\ OneJobPerBatch)'
  BY TypedJobsStep
<1> QED
  BY TypedJobsInit, <1>1, PTL DEF Spec

-----------------------------------------------------------------------------
(* Each record once.                                                       *)

\* Who writes: staging and the checkpoint change in an ingest or a truncate,
\* bronze grows in an append and quarantine in a gate; a delete from bronze
\* takes a batch whole.
StagingStep ==
  \/ UNCHANGED <<staging, seen>>
  \/ \E r \in Run : IngestMicrobatch(r) \/ TruncateStaging(r)

BronzeStep ==
  \/ /\ bronze' \subseteq bronze
     /\ \A b \in Run : CopiesOf(bronze', b) \in {CopiesOf(bronze, b), {}}
  \/ \E j \in Job : AppendToBronze(j)

QuarantineStep ==
  \/ quarantine' \subseteq quarantine
  \/ \E r \in Run : GateAppends(r) /\ quarantine' = Appended(quarantine, r, Bad(r, deployed))

OneTableStep == UNCHANGED <<staging, seen>> \/ UNCHANGED <<bronze, quarantine>>

Writes == StagingStep /\ BronzeStep /\ QuarantineStep /\ OneTableStep

LEMMA WhoWrites ==
  ASSUME [Next]_vars
  PROVE  Writes
<1> USE DEF Writes, StagingStep, BronzeStep, QuarantineStep, OneTableStep, tables
<1>1. ASSUME NEW r \in Run, RunNext(r) PROVE Writes
  <2>1. CASE Launch(r) \/ Repair(r) \/ RerunGate(r)
    BY <2>1 DEF Launch, Repair, RerunGate
  <2>2. CASE Unzip(r) \/ UnzipFails(r) \/ IngestDone(r)
    BY <2>2 DEF Unzip, UnzipFails, IngestDone
  <2>3. CASE IngestMicrobatch(r)
    BY <2>3 DEF IngestMicrobatch
  <2>4. CASE Gate(r) \/ GateDiesAfterAppend(r)
    BY <2>4 DEF Gate, GateDiesAfterAppend, GateWrites
  <2>5. CASE GateRefuses(r) \/ CheckBadRows(r) \/ FailOnDq(r)
    BY <2>5 DEF GateRefuses, CheckBadRows, FailOnDq
  <2> QED
    BY <1>1, <2>1, <2>2, <2>3, <2>4, <2>5 DEF RunNext
<1>2. ASSUME NEW j \in Job, JobNext(j) PROVE Writes
  <2>1. CASE PlanPromote(j) \/ AssertConstraints(j) \/ TaskFails(j)
    BY <2>1 DEF PlanPromote, AssertConstraints, TaskFails
  <2>2. CASE AppendToBronze(j)
    BY <2>2 DEF AppendToBronze
  <2>3. CASE Reclaim(j) \/ ReclaimFails(j)
    BY <2>3 DEF Reclaim, ReclaimFails
  <2> QED
    BY <1>2, <2>1, <2>2, <2>3 DEF JobNext
<1>3. ASSUME OperatorNext PROVE Writes
  <2>1. CASE (\E f \in File : UploadZip(f)) \/ (\E v \in Version : Deploy(v))
    BY <2>1 DEF UploadZip, Deploy
  <2>2. CASE \E b \in Run : StartRepromote(b)
    BY <2>2 DEF StartRepromote
  <2>3. CASE (\E b \in Run : ReconcileBronze(b)) \/ RebuildBronze
    BY <2>3 DEF ReconcileBronze, RebuildBronze, CopiesOf
  <2>5. CASE \E b \in Run : ReconcileQuarantine(b)
    BY <2>5 DEF ReconcileQuarantine
  <2>4. CASE \E b \in Run : TruncateStaging(b)
    BY <2>4 DEF TruncateStaging
  <2> QED
    BY <1>3, <2>1, <2>2, <2>3, <2>4, <2>5 DEF OperatorNext
<1>4. CASE UNCHANGED vars
  BY <1>4 DEF vars
<1> QED
  BY <1>1, <1>2, <1>3, <1>4 DEF Next

\* The checkpoint gives a file to one batch: no later microbatch reads it.
LEMMA OneBatchPerFileStep ==
  ASSUME TypeOK, OneBatchPerFile, [Next]_vars
  PROVE  OneBatchPerFile'
<1> USE DEF TypeOK, OneBatchPerFile
<1>1. CASE UNCHANGED <<staging, seen>>
  BY <1>1
<1>2. ASSUME NEW r \in Run, IngestMicrobatch(r) PROVE OneBatchPerFile'
  BY <1>2 DEF IngestMicrobatch
<1>3. ASSUME NEW b \in Run, TruncateStaging(b) PROVE OneBatchPerFile'
  BY <1>3 DEF TruncateStaging
<1>4. StagingStep
  BY WhoWrites DEF Writes
<1> QED
  BY <1>1, <1>2, <1>3, <1>4 DEF StagingStep

\* A microbatch stages no record a table holds, and a truncate stages none.
LEMMA StagingKeepsOwn ==
  ASSUME TypeOK, OwnRecordsOnce(bronze), OwnRecordsOnce(quarantine),
         StagingStep, UNCHANGED <<bronze, quarantine>>
  PROVE  OwnRecordsOnce(bronze)' /\ OwnRecordsOnce(quarantine)'
<1> USE DEF OwnRecordsOnce, RowsIn
<1>1. CASE UNCHANGED <<staging, seen>>
  BY <1>1
<1>2. ASSUME NEW r \in Run, TruncateStaging(r)
      PROVE  seen' = seen /\ \A q \in Run : staging'[q] \subseteq staging[q]
  BY <1>2 DEF TruncateStaging, TypeOK
<1>3. ASSUME NEW r \in Run, IngestMicrobatch(r)
      PROVE  /\ seen \subseteq seen'
             /\ \A q \in Run : staging'[q] \subseteq staging[q] \cup (File \ seen)
  BY <1>3 DEF IngestMicrobatch, TypeOK
<1>4. \A f \in seen, g \in File \ seen : RowsOf[f] \cap RowsOf[g] = {}
  BY DataAssumption DEF TypeOK
<1>5. ASSUME NEW r \in Run, IngestMicrobatch(r)
      PROVE  OwnRecordsOnce(bronze)' /\ OwnRecordsOnce(quarantine)'
  BY <1>3, <1>4, <1>5
<1>6. ASSUME NEW r \in Run, TruncateStaging(r)
      PROVE  OwnRecordsOnce(bronze)' /\ OwnRecordsOnce(quarantine)'
  BY <1>2, <1>6
<1> QED
  BY <1>1, <1>5, <1>6 DEF StagingStep

\* The heart: appending staged records of a batch the table holds no copy of
\* gives every record one copy.
LEMMA AppendOnce ==
  ASSUME TypeOK, OneBatchPerFile, NEW table, OwnRecordsOnce(table),
         NEW b \in Run, CopiesOf(table, b) = {},
         NEW rows, rows \subseteq RowsIn(staging[b])
  PROVE  OwnRecordsOnce(Appended(table, b, rows))
<1> DEFINE new(r) == [batch |-> b, row |-> r,
                      copy |-> Cardinality(CopiesHeld(table, b, {r}))]
<1>1. ASSUME NEW c \in Appended(table, b, rows), c \notin table
      PROVE  c.row \in rows /\ c = new(c.row) /\ c.batch = b
  <2>1. PICK r \in rows : c = new(r)
    BY <1>1 DEF Appended
  <2>2. new(r).row = r /\ new(r).batch = b
    OBVIOUS
  <2> QED
    BY <2>1, <2>2
<1>2. ASSUME NEW r \in rows PROVE \E f \in staging[b] : f \in seen /\ r \in RowsOf[f]
  BY <1>2 DEF RowsIn, OneBatchPerFile
<1>3. \A c \in table : c.batch # b
  BY DEF CopiesOf
<1>4. \A c \in table : c.row \notin rows
  BY <1>3 DEF OwnRecordsOnce
<1>5. \A c, d \in Appended(table, b, rows) : c.row = d.row => c = d
  <2> SUFFICES ASSUME NEW c \in Appended(table, b, rows),
                      NEW d \in Appended(table, b, rows), c.row = d.row
               PROVE  c = d
    OBVIOUS
  <2>1. CASE c \in table /\ d \in table
    BY <2>1 DEF OwnRecordsOnce
  <2>2. CASE c \notin table /\ d \notin table
    BY <2>2, <1>1
  <2>3. CASE c \in table <=> d \notin table
    BY <2>3, <1>1, <1>4
  <2> QED
    BY <2>1, <2>2, <2>3
<1>6. \A c \in Appended(table, b, rows) : \E f \in seen : c.row \in RowsOf[f]
  BY <1>1, <1>2 DEF OwnRecordsOnce
<1>7. \A r \in rows, q \in Run : q # b => r \notin RowsIn(staging[q])
  <2> SUFFICES ASSUME NEW r \in rows, NEW q \in Run, q # b, NEW g \in staging[q], r \in RowsOf[g]
               PROVE  FALSE
    BY DEF RowsIn
  <2>1. PICK f \in staging[b] : r \in RowsOf[f]
    BY <1>2
  <2>2. f \in File /\ g \in File /\ f # g
    BY DEF TypeOK, OneBatchPerFile
  <2> QED
    BY <2>1, <2>2, DataAssumption
<1>8. \A c \in Appended(table, b, rows), q \in Run :
        q # c.batch => c.row \notin RowsIn(staging[q])
  BY <1>1, <1>7 DEF OwnRecordsOnce
<1> QED
  BY <1>5, <1>6, <1>8 DEF OwnRecordsOnce

\* A delete leaves every record that stays its one copy.
LEMMA ShrinkOnce ==
  ASSUME NEW table, OwnRecordsOnce(table), NEW rest, rest \subseteq table
  PROVE  OwnRecordsOnce(rest)
BY DEF OwnRecordsOnce

\* An append is planned only for a batch bronze holds nothing of.
LEMMA PlansToAppendToNothing ==
  ASSUME TypeOK, NEW b \in Run, NEW v \in Version, NEW inFlow,
         PlanPromotion(b, v, inFlow) = "appended"
  PROVE  CopiesOf(bronze, b) = {}
<1> DEFINE held == RowsOfBatch(bronze, b)
           promotable == Cardinality(Good(b, v))
           total == promotable + Cardinality(Bad(b, v))
<1>1. IsFiniteSet(Good(b, v)) /\ IsFiniteSet(Bad(b, v))
  BY RowsInFacts, FS_Subset DEF Good, Bad, TypeOK
<1>2. promotable \in Nat /\ Cardinality(Bad(b, v)) \in Nat
  BY <1>1, FS_CardinalityType
<1>3. held \in Nat
  BY NoRowsNoCopies DEF TypeOK
<1> HIDE DEF held, promotable
<1>4. held = 0
  BY <1>2, <1>3 DEF PlanPromotion, held, promotable
<1> QED
  BY <1>4, NoRowsNoCopies DEF held, TypeOK

\* A job in append came there from a plan to append, or was there already.
Stays(k) == task[k] = "append" /\ BatchOf(k)' = BatchOf(k)

LEMMA OtherStepsStay ==
  ASSUME TypeOK, NEW j \in Job,
         Finish(j) \/ Fail(j) \/ \E u : u # "append" /\ Goto(j, u)
  PROVE  \A k \in Job : task'[k] = "append" => Stays(k)
<1> USE RunAssumption DEF TypeOK, JobsOK, Job, Repromote, Stays, BatchOf
<1>1. CASE Finish(j)
  BY <1>1 DEF Finish
<1>2. CASE Fail(j)
  BY <1>2 DEF Fail, RestartAt
<1>3. CASE \E u : u # "append" /\ Goto(j, u)
  BY <1>3 DEF Goto
<1> QED
  BY <1>1, <1>2, <1>3

LEMMA WhoAppends ==
  ASSUME TypeOK, OneJobPerBatch, [Next]_vars, NEW k \in Job, task'[k] = "append"
  PROVE  \/ Stays(k)
         \/ CopiesOf(bronze, BatchOf(k)) = {} /\ bronze' = bronze /\ BatchOf(k)' = BatchOf(k)
<1>1. CASE \E r \in Run : RunNext(r)
  <2> PICK r \in Run : RunNext(r)
    BY <1>1
  <2>1. r \in Job
    BY DEF Job
  <2>2. CASE Launch(r) \/ Repair(r) \/ RerunGate(r)
    BY <2>2, RunAssumption
    DEF Launch, Repair, RerunGate, TypeOK, JobsOK, Job, Repromote, Stays, BatchOf
  <2>3. CASE IngestMicrobatch(r)
    BY <2>3 DEF IngestMicrobatch, control, Stays, BatchOf
  <2>4. CASE Unzip(r) \/ UnzipFails(r) \/ IngestDone(r)
    BY <2>1, <2>4, OtherStepsStay DEF Unzip, UnzipFails, IngestDone
  <2>5. CASE Gate(r) \/ GateDiesAfterAppend(r) \/ GateRefuses(r)
    BY <2>1, <2>5, OtherStepsStay DEF Gate, GateDiesAfterAppend, GateRefuses
  <2>6. CASE CheckBadRows(r) \/ FailOnDq(r)
    BY <2>1, <2>6, OtherStepsStay DEF CheckBadRows, FailOnDq
  <2> QED
    BY <2>2, <2>3, <2>4, <2>5, <2>6 DEF RunNext
<1>2. CASE \E j \in Job : JobNext(j)
  <2> PICK j \in Job : JobNext(j)
    BY <1>2
  <2>1. CASE PlanPromote(j)
    <3>1. CASE /\ PlanPromotion(BatchOf(j), deployed, j # Repromote) = "appended"
               /\ Goto(j, "append")
      <4>1. BatchOf(j) \in Run
        BY <2>1, BatchOfJob DEF PlanPromote, Executing
      <4>2. CopiesOf(bronze, BatchOf(j)) = {}
        BY <3>1, <4>1, PlansToAppendToNothing DEF TypeOK
      <4>3. CASE k = j
        BY <2>1, <3>1, <4>2, <4>3 DEF PlanPromote, tables, BatchOf, Goto
      <4>4. CASE k # j
        BY <3>1, <4>4 DEF Goto, Stays, BatchOf, TypeOK, JobsOK
      <4> QED
        BY <4>3, <4>4
    <3>2. CASE Fail(j) \/ Goto(j, "ddl") \/ Goto(j, "reclaim")
      BY <3>2, OtherStepsStay
    <3> QED
      BY <2>1, <3>1, <3>2 DEF PlanPromote
  <2>2. CASE AppendToBronze(j) \/ AssertConstraints(j) \/ TaskFails(j)
    BY <2>2, OtherStepsStay DEF AppendToBronze, AssertConstraints, TaskFails
  <2>3. CASE Reclaim(j) \/ ReclaimFails(j)
    BY <2>3, OtherStepsStay DEF Reclaim, ReclaimFails
  <2> QED
    BY <2>1, <2>2, <2>3 DEF JobNext
<1>3. CASE OperatorNext
  <2>1. CASE \E b \in Run : StartRepromote(b)
    BY <2>1, RunAssumption
    DEF StartRepromote, TypeOK, JobsOK, Job, Repromote, Stays, BatchOf
  <2>2. CASE (\E f \in File : UploadZip(f)) \/ (\E v \in Version : Deploy(v))
    BY <2>2 DEF UploadZip, Deploy, control, Stays, BatchOf
  <2>3. CASE \E b \in Run : ReconcileBronze(b) \/ ReconcileQuarantine(b) \/ TruncateStaging(b)
    BY <2>3 DEF ReconcileBronze, ReconcileQuarantine, TruncateStaging, control, Stays, BatchOf
  <2>4. CASE RebuildBronze
    BY <2>4 DEF RebuildBronze, control, Stays, BatchOf
  <2> QED
    BY <1>3, <2>1, <2>2, <2>3, <2>4 DEF OperatorNext
<1>4. CASE UNCHANGED vars
  BY <1>4 DEF vars, Stays, BatchOf
<1> QED
  BY <1>1, <1>2, <1>3, <1>4 DEF Next

\* What an append to a batch adds is of that batch.
LEMMA AppendsItsOwn ==
  ASSUME NEW table, NEW b, NEW rows, NEW c \in Appended(table, b, rows), c \notin table
  PROVE  c.batch = b
<1>1. PICK r \in rows : c = [batch |-> b, row |-> r,
                            copy |-> Cardinality(CopiesHeld(table, b, {r}))]
  BY DEF Appended
<1> QED
  BY <1>1

LEMMA AppendsToNothingStep ==
  ASSUME TypeOK, OneJobPerBatch, AppendsToNothing, [Next]_vars
  PROVE  AppendsToNothing'
<1> SUFFICES ASSUME NEW k \in Job, task'[k] = "append"
             PROVE  CopiesOf(bronze', BatchOf(k)') = {}
  BY DEF AppendsToNothing, CopiesOf
<1>1. CASE CopiesOf(bronze, BatchOf(k)) = {} /\ bronze' = bronze /\ BatchOf(k)' = BatchOf(k)
  BY <1>1
<1>2. CASE Stays(k)
  <2>1. CopiesOf(bronze, BatchOf(k)) = {} /\ BatchOf(k)' = BatchOf(k)
    BY <1>2 DEF Stays, AppendsToNothing
  <2>2. CASE bronze' \subseteq bronze
    BY <2>1, <2>2 DEF CopiesOf
  <2>3. ASSUME NEW j \in Job, AppendToBronze(j) PROVE CopiesOf(bronze', BatchOf(k)') = {}
    <3>1. j # k
      BY <2>3, RunAssumption DEF AppendToBronze, Goto, TypeOK, JobsOK
    <3>2. BatchOf(j) # BatchOf(k)
      BY <1>2, <2>3, <3>1, RunAssumption
      DEF AppendToBronze, Executing, Stays, BatchOf, OneJobPerBatch, Job, Repromote
    <3>3. bronze' = Appended(bronze, BatchOf(j), Good(BatchOf(j), plan[j]))
      BY <2>3 DEF AppendToBronze
    <3>4. \A c \in bronze' : c \in bronze \/ c.batch = BatchOf(j)
      BY <3>3, AppendsItsOwn
    <3> QED
      BY <2>1, <3>2, <3>4 DEF CopiesOf
  <2> QED
    BY <2>2, <2>3, WhoWrites DEF Writes, BronzeStep
<1> QED
  BY <1>1, <1>2, WhoAppends

LEMMA RecordsOnceStep ==
  ASSUME TypeOK, RecordsOnceInv, [Next]_vars
  PROVE  RecordsOnceInv'
<1> USE DEF RecordsOnceInv
<1>1. OneJobPerBatch' /\ OneBatchPerFile' /\ AppendsToNothing'
  BY TypedJobsStep, OneBatchPerFileStep, AppendsToNothingStep
<1>2. CASE UNCHANGED <<bronze, quarantine>>
  BY <1>1, <1>2, WhoWrites, StagingKeepsOwn DEF Writes
<1>3. CASE UNCHANGED <<staging, seen>>
  <2>1. OwnRecordsOnce(bronze)'
    <3>1. CASE bronze' \subseteq bronze
      BY <1>3, <3>1, ShrinkOnce DEF OwnRecordsOnce
    <3>2. ASSUME NEW j \in Job, AppendToBronze(j) PROVE OwnRecordsOnce(bronze)'
      <4>1. BatchOf(j) \in Run /\ CopiesOf(bronze, BatchOf(j)) = {}
        BY <3>2, BatchOfJob DEF AppendToBronze, Executing, AppendsToNothing
      <4>2. Good(BatchOf(j), plan[j]) \subseteq RowsIn(staging[BatchOf(j)])
        BY DEF Good
      <4>3. OwnRecordsOnce(Appended(bronze, BatchOf(j), Good(BatchOf(j), plan[j])))
        BY <4>1, <4>2, AppendOnce
      <4> QED
        BY <1>3, <3>2, <4>3 DEF AppendToBronze, OwnRecordsOnce
    <3> QED
      BY <3>1, <3>2, WhoWrites DEF Writes, BronzeStep
  <2>2. OwnRecordsOnce(quarantine)'
    <3>1. CASE quarantine' \subseteq quarantine
      BY <1>3, <3>1, ShrinkOnce DEF OwnRecordsOnce
    <3>2. ASSUME NEW r \in Run, GateAppends(r),
                 quarantine' = Appended(quarantine, r, Bad(r, deployed))
          PROVE  OwnRecordsOnce(quarantine)'
      <4>1. CopiesOf(quarantine, r) = {}
        BY <3>2, NoRowsNoCopies DEF GateAppends, TypeOK
      <4>2. Bad(r, deployed) \subseteq RowsIn(staging[r])
        BY DEF Bad
      <4>3. OwnRecordsOnce(Appended(quarantine, r, Bad(r, deployed)))
        BY <4>1, <4>2, AppendOnce
      <4> QED
        BY <1>3, <3>2, <4>3 DEF OwnRecordsOnce
    <3> QED
      BY <3>1, <3>2, WhoWrites DEF Writes, QuarantineStep
  <2> QED
    BY <1>1, <2>1, <2>2
<1> QED
  BY <1>2, <1>3, WhoWrites DEF Writes, OneTableStep

LEMMA RecordsOnceInit == Init => RecordsOnceInv
<1> SUFFICES ASSUME Init PROVE RecordsOnceInv
  OBVIOUS
<1>1. OneJobPerBatch
  BY TypedJobsInit
<1>2. OneBatchPerFile
  BY DEF Init, OneBatchPerFile
<1>3. AppendsToNothing
  <2>1. bronze = {} /\ \A b : CopiesOf({}, b) = {}
    BY DEF Init, CopiesOf
  <2> QED
    BY <2>1 DEF AppendsToNothing
<1>4. OwnRecordsOnce(bronze) /\ OwnRecordsOnce(quarantine)
  BY DEF Init, OwnRecordsOnce
<1> QED
  BY <1>1, <1>2, <1>3, <1>4 DEF RecordsOnceInv

\* The strengthening that makes both of the next theorems inductive: one job
\* per batch, one batch per file, appends only where the table has nothing.
THEOREM RecordsOnce == Spec => []RecordsOnceInv
<1>1. TypeOK /\ RecordsOnceInv /\ [Next]_vars => (TypeOK /\ RecordsOnceInv)'
  BY RecordsOnceStep, TypedJobsStep DEF RecordsOnceInv
<1> QED
  BY TypedJobsInit, RecordsOnceInit, <1>1, PTL DEF Spec

\* No record is in bronze twice, however runs, repairs, repromotes, gates,
\* redeploys, deletes and rebuilds interleave.
THEOREM PromotedOnce == Spec => []RowsPromotedOnce
<1>1. RecordsOnceInv => RowsPromotedOnce
  BY DEF RecordsOnceInv, OwnRecordsOnce, RowsPromotedOnce
<1> QED
  BY <1>1, RecordsOnce, PTL

\* No record is in quarantine twice, however often its gate is re-run.
THEOREM QuarantinedOnce == Spec => []RowsQuarantinedOnce
<1>1. RecordsOnceInv => RowsQuarantinedOnce
  BY DEF RecordsOnceInv, OwnRecordsOnce, RowsQuarantinedOnce
<1> QED
  BY <1>1, RecordsOnce, PTL

-----------------------------------------------------------------------------
(* What an append leaves in bronze.                                        *)

\* The records of a batch's copies after an append to a table without any.
LEMMA AppendedRecords ==
  ASSUME NEW table, NEW b, NEW rows, CopiesOf(table, b) = {}
  PROVE  /\ RecordsOf(Appended(table, b, rows), b) = rows
         /\ \A q : q # b => RecordsOf(Appended(table, b, rows), q) = RecordsOf(table, q)
<1> DEFINE new(r) == [batch |-> b, row |-> r,
                      copy |-> Cardinality(CopiesHeld(table, b, {r}))]
<1>1. \A r : new(r).row = r /\ new(r).batch = b
  OBVIOUS
<1>2. Appended(table, b, rows) = table \cup {new(r) : r \in rows}
  BY DEF Appended
<1> HIDE DEF new
<1>3. CopiesOf(Appended(table, b, rows), b) = {new(r) : r \in rows}
  BY <1>1, <1>2 DEF CopiesOf
<1>4. RecordsOf(Appended(table, b, rows), b) = rows
  BY <1>1, <1>3 DEF RecordsOf
<1>5. ASSUME NEW q, q # b PROVE CopiesOf(Appended(table, b, rows), q) = CopiesOf(table, q)
  BY <1>1, <1>2, <1>5 DEF CopiesOf
<1> QED
  BY <1>4, <1>5 DEF RecordsOf

LEMMA WholeFilesStep ==
  ASSUME TypeOK, RecordsOnceInv, WholeFilesOneRuleSet, [Next]_vars
  PROVE  WholeFilesOneRuleSet'
<1> SUFFICES ASSUME NEW b \in Run
             PROVE  \E files \in SUBSET File, v \in Version :
                      RecordsOf(bronze', b) = RowsIn(files) \cap Passes[v]
  BY DEF WholeFilesOneRuleSet, RecordsOf, CopiesOf
<1>1. CASE RecordsOf(bronze', b) = RecordsOf(bronze, b)
  BY <1>1 DEF WholeFilesOneRuleSet
<1>2. CASE RecordsOf(bronze', b) = {}
  <2>1. RowsIn({}) \cap Passes[V0] = {} /\ {} \in SUBSET File
    BY DEF RowsIn
  <2> QED
    BY <1>2, <2>1, RuleAssumption
<1>3. ASSUME NEW j \in Job, AppendToBronze(j)
      PROVE  \E files \in SUBSET File, v \in Version :
               RecordsOf(bronze', b) = RowsIn(files) \cap Passes[v]
  <2>1. BatchOf(j) \in Run /\ CopiesOf(bronze, BatchOf(j)) = {}
    BY <1>3, BatchOfJob DEF AppendToBronze, Executing, AppendsToNothing, RecordsOnceInv
  <2>2. bronze' = Appended(bronze, BatchOf(j), Good(BatchOf(j), plan[j]))
    BY <1>3 DEF AppendToBronze
  <2>3. CASE b = BatchOf(j)
    <3>1. RecordsOf(bronze', b) = RowsIn(staging[b]) \cap Passes[plan[j]]
      BY <2>1, <2>2, <2>3, AppendedRecords DEF Good
    <3>2. staging[b] \in SUBSET File /\ plan[j] \in Version
      BY DEF TypeOK
    <3> QED
      BY <3>1, <3>2
  <2>4. CASE b # BatchOf(j)
    BY <1>1, <2>1, <2>2, <2>4, AppendedRecords
  <2> QED
    BY <2>3, <2>4
<1>4. CASE CopiesOf(bronze', b) \in {CopiesOf(bronze, b), {}}
  <2>1. RecordsOf(bronze', b) = RecordsOf(bronze, b) \/ RecordsOf(bronze', b) = {}
    BY <1>4 DEF RecordsOf
  <2> QED
    BY <1>1, <1>2, <2>1
<1> QED
  BY <1>3, <1>4, WhoWrites DEF Writes, BronzeStep

\* What bronze holds of a batch is whole files under the rules of one build,
\* even when the build changes between the plan and the append.
THEOREM WholeFiles == Spec => []WholeFilesOneRuleSet
<1>1. Init => WholeFilesOneRuleSet
  <2>1. RowsIn({}) = {} /\ RecordsOf({}, None) = {} /\ \A b : RecordsOf({}, b) = {}
    BY DEF RowsIn, RecordsOf, CopiesOf
  <2> QED
    BY <2>1, RuleAssumption DEF Init, WholeFilesOneRuleSet
<1>2. TypeOK /\ RecordsOnceInv /\ WholeFilesOneRuleSet /\ [Next]_vars => WholeFilesOneRuleSet'
  BY WholeFilesStep
<1> QED
  BY <1>1, <1>2, TypeCorrect, RecordsOnce, PTL DEF Spec

-----------------------------------------------------------------------------
(* While the rules do not change.                                          *)

SplitByTheRules ==
  /\ \A c \in bronze : c.row \in Passes[V0]
  /\ \A c \in quarantine : c.row \notin Passes[V0]

LEMMA AppendedAreRows ==
  ASSUME NEW table, NEW b, NEW rows, NEW c \in Appended(table, b, rows), c \notin table
  PROVE  c.row \in rows
<1>1. PICK r \in rows : c = [batch |-> b, row |-> r,
                            copy |-> Cardinality(CopiesHeld(table, b, {r}))]
  BY DEF Appended
<1> QED
  BY <1>1

LEMMA SplitStep ==
  ASSUME Version = {V0}, TypeOK, SplitByTheRules, [Next]_vars
  PROVE  SplitByTheRules'
<1>1. \A c \in bronze' : c.row \in Passes[V0]
  <2>1. CASE bronze' \subseteq bronze
    BY <2>1 DEF SplitByTheRules
  <2>2. ASSUME NEW j \in Job, AppendToBronze(j) PROVE \A c \in bronze' : c.row \in Passes[V0]
    <3>1. bronze' = Appended(bronze, BatchOf(j), Good(BatchOf(j), plan[j])) /\ plan[j] = V0
      BY <2>2 DEF AppendToBronze, TypeOK
    <3>2. Good(BatchOf(j), plan[j]) \subseteq Passes[V0]
      BY <3>1 DEF Good
    <3> QED
      BY <3>1, <3>2, AppendedAreRows DEF SplitByTheRules
  <2> QED
    BY <2>1, <2>2, WhoWrites DEF Writes, BronzeStep
<1>2. \A c \in quarantine' : c.row \notin Passes[V0]
  <2>1. CASE quarantine' \subseteq quarantine
    BY <2>1 DEF SplitByTheRules
  <2>2. ASSUME NEW r \in Run, quarantine' = Appended(quarantine, r, Bad(r, deployed))
        PROVE  \A c \in quarantine' : c.row \notin Passes[V0]
    <3>1. \A x \in Bad(r, deployed) : x \notin Passes[V0]
      BY DEF Bad, TypeOK
    <3> QED
      BY <2>2, <3>1, AppendedAreRows DEF SplitByTheRules
  <2> QED
    BY <2>1, <2>2, WhoWrites DEF Writes, QuarantineStep
<1> QED
  BY <1>1, <1>2 DEF SplitByTheRules

\* While one build is deployed no rejected record is ever also promoted,
\* over partial ingests, re-run gates and repromotes of triaged batches.
THEOREM RejectsStayOut ==
  ASSUME Version = {V0}
  PROVE  Spec => []PromotedOrRejected
<1>1. Init => SplitByTheRules
  BY DEF Init, SplitByTheRules
<1>2. TypeOK /\ SplitByTheRules /\ [Next]_vars => SplitByTheRules'
  BY SplitStep
<1>3. SplitByTheRules => PromotedOrRejected
  BY DEF SplitByTheRules, PromotedOrRejected
<1> QED
  BY <1>1, <1>2, <1>3, TypeCorrect, PTL DEF Spec

-----------------------------------------------------------------------------
(* Counting: a table that holds each record once holds as many copies as    *)
(* records, so equal counts are equal sets.                                *)

LEMMA CountOnce ==
  ASSUME NEW table, IsFiniteSet(table), \A c, d \in table : c.row = d.row => c = d,
         NEW part, part \subseteq table
  PROVE  LET records == {c.row : c \in part}
         IN  /\ IsFiniteSet(records)
             /\ Cardinality(part) = Cardinality(records)
             /\ Cardinality(records) \in Nat
<1> DEFINE records == {c.row : c \in part}
           f == [c \in part |-> c.row]
<1>1. IsFiniteSet(part)
  BY FS_Subset
<1>2. f \in [part -> records] /\ \A x \in part : f[x] = x.row
  OBVIOUS
<1>4. f \in Surjection(part, records)
  BY <1>2 DEF Surjection
<1>5. f \in Injection(part, records)
  BY <1>2 DEF Injection, IsInjective
<1> HIDE DEF f
<1>3. IsFiniteSet(records) /\ Cardinality(part) = Cardinality(records)
  BY <1>1, <1>4, <1>5, FS_Surjection
<1> QED
  BY <1>3, FS_CardinalityType

\* A subset with as many elements is the whole set.
LEMMA AsManyIsAll ==
  ASSUME NEW S, IsFiniteSet(S), NEW T, T \subseteq S, Cardinality(T) = Cardinality(S)
  PROVE  T = S
BY FS_Subset

\* Two parts of a set, apart from each other, that make up its number.
LEMMA TwoPartsAreAll ==
  ASSUME NEW S, IsFiniteSet(S), NEW X, NEW Y, X \subseteq S, Y \subseteq S, X \cap Y = {},
         Cardinality(X) + Cardinality(Y) = Cardinality(S)
  PROVE  X \cup Y = S
<1>1. IsFiniteSet(X) /\ IsFiniteSet(Y)
  BY FS_Subset
<1>2. Cardinality(X) \in Nat /\ Cardinality(Y) \in Nat
  BY <1>1, FS_CardinalityType
<1>3. Cardinality(X \cup Y) = Cardinality(X) + Cardinality(Y) - Cardinality({})
  BY <1>1, FS_Union
<1>4. Cardinality({}) = 0
  BY FS_EmptySet
<1>5. Cardinality(X \cup Y) = Cardinality(S)
  BY <1>2, <1>3, <1>4
<1>6. X \cup Y \subseteq S
  OBVIOUS
<1> QED
  BY <1>5, <1>6, AsManyIsAll

\* While one build is deployed a file leaves the landing dir only once each of its
\* records is in bronze or in quarantine under the batch that staged it: the counts
\* the proof is made of can only agree if the records do.
THEOREM DeletesAccounted ==
  ASSUME Version = {V0}
  PROVE  Spec => DeleteOnlyAccounted
<1>1. ASSUME TypeOK, RecordsOnceInv, SplitByTheRules, [Next]_vars,
             NEW f \in landed \ landed'
      PROVE  \E b \in Run :
               /\ f \in staging[b]
               /\ RowsOf[f] \subseteq RecordsOf(bronze, b) \cup RecordsOf(quarantine, b)
  <2>1. PICK j \in Job : /\ Reclaim(j) \/ ReclaimFails(j)
                         /\ f \in Proven(BatchOf(j))
    <3>1. \A r \in Run : ~ RunNext(r)
      BY <1>1 DEF RunNext, Launch, Repair, RerunGate, Unzip, UnzipFails, IngestMicrobatch,
                  IngestDone, Gate, GateDiesAfterAppend, GateRefuses, CheckBadRows, FailOnDq,
                  volume
    <3>2. ~ OperatorNext
      BY <1>1 DEF OperatorNext, UploadZip, Deploy, StartRepromote, ReconcileBronze,
                  ReconcileQuarantine, TruncateStaging, RebuildBronze, volume
    <3>3. PICK j \in Job : JobNext(j)
      BY <1>1, <3>1, <3>2 DEF Next, vars
    <3>4. Reclaim(j) \/ ReclaimFails(j)
      BY <1>1, <3>3 DEF JobNext, PlanPromote, AppendToBronze, AssertConstraints, TaskFails, volume
    <3> QED
      BY <1>1, <3>4 DEF Reclaim, ReclaimFails
  <2> DEFINE b == BatchOf(j)
  <2>2. b \in Run
    BY <1>1, <2>1, BatchOfJob DEF Reclaim, ReclaimFails, Executing, RecordsOnceInv
  <2> HIDE DEF b
  <2>3. f \in File /\ Reclaimable(b, f)
    BY <2>1 DEF Proven, b
  <2> DEFINE P == CopiesHeld(bronze, b, RowsOf[f])
             Q == CopiesHeld(quarantine, b, RowsOf[f])
             S == RowsIn(staging[b] \cap {f})
             X == {c.row : c \in P}
             Y == {c.row : c \in Q}
  <2>4. Cardinality(P) > 0 /\ Cardinality(P) + Cardinality(Q) = Cardinality(S)
    BY <2>3 DEF Reclaimable, Account
  <2>5. /\ P \subseteq bronze /\ Q \subseteq quarantine
        /\ X \subseteq RowsOf[f] /\ Y \subseteq RowsOf[f]
        /\ X \subseteq Passes[V0] /\ Y \cap Passes[V0] = {}
    BY <1>1 DEF CopiesHeld, SplitByTheRules
  <2>6. /\ Cardinality(P) = Cardinality(X) /\ Cardinality(X) \in Nat
        /\ Cardinality(Q) = Cardinality(Y) /\ Cardinality(Y) \in Nat
    <3>1. /\ IsFiniteSet(bronze) /\ \A c, d \in bronze : c.row = d.row => c = d
          /\ IsFiniteSet(quarantine) /\ \A c, d \in quarantine : c.row = d.row => c = d
      BY <1>1 DEF TypeOK, RecordsOnceInv, OwnRecordsOnce
    <3> HIDE DEF P, Q
    <3> QED
      BY <2>5, <3>1, CountOnce
  <2>7. f \in staging[b] /\ S = RowsOf[f]
    <3>1. CASE f \in staging[b]
      BY <3>1 DEF RowsIn
    <3>2. CASE f \notin staging[b]
      <4>1. S = {}
        BY <3>2 DEF RowsIn
      <4>2. Cardinality(S) = 0
        BY <4>1, FS_EmptySet
      <4> HIDE DEF P, Q, S, X, Y
      <4> QED
        BY <2>4, <2>6, <4>2
    <3> QED
      BY <3>1, <3>2
  <2>8. IsFiniteSet(RowsOf[f])
    BY <2>3, DataAssumption, FS_Subset
  <2>9. X \cup Y = RowsOf[f]
    <3>1. Cardinality(X) + Cardinality(Y) = Cardinality(RowsOf[f])
      BY <2>4, <2>6, <2>7
    <3>2. X \cap Y = {}
      BY <2>5
    <3> HIDE DEF X, Y
    <3> QED
      BY <2>5, <2>8, <3>1, <3>2, TwoPartsAreAll
  <2>10. X \subseteq RecordsOf(bronze, b) /\ Y \subseteq RecordsOf(quarantine, b)
    BY DEF CopiesHeld, CopiesOf, RecordsOf
  <2> HIDE DEF X, Y
  <2> QED
    BY <2>2, <2>7, <2>9, <2>10
<1>2. TypeOK /\ RecordsOnceInv /\ SplitByTheRules /\ [Next]_vars =>
        [\A f \in landed \ landed' : \E b \in Run :
           /\ f \in staging[b]
           /\ RowsOf[f] \subseteq RecordsOf(bronze, b) \cup RecordsOf(quarantine, b)]_vars
  BY <1>1
<1>3. Init => SplitByTheRules
  BY DEF Init, SplitByTheRules
<1>4. TypeOK /\ SplitByTheRules /\ [Next]_vars => SplitByTheRules'
  BY SplitStep
<1> QED
  BY <1>2, <1>3, <1>4, TypeCorrect, RecordsOnce, PTL DEF Spec, DeleteOnlyAccounted

-----------------------------------------------------------------------------
(* The whole flow under one build, with nothing dropped or truncated.       *)

SteadyRules ==
  /\ Version = {V0}
  /\ "rebuild_bronze" \notin Interventions /\ "truncate_staging" \notin Interventions

\* What a table holds of a batch, staging still holds of it.
Staged(table) == \A c \in table : c.row \in RowsIn(staging[c.batch])

\* How far a run has got and what the tables hold of its batch.  Rejects are
\* appended whole and after the ingest; behind the check there are none, and
\* behind the append all the rest is in bronze.
Gated(r) ==
  /\ RecordsOf(quarantine, r) # {} =>
       task[r] \notin {"new", "unzip", "ingest"} /\ RecordsOf(quarantine, r) = Bad(r, V0)
  /\ task[r] \in {"check", "promote", "append", "ddl", "reclaim", "fail_on_dq", "done"} =>
       /\ RecordsOf(quarantine, r) = Bad(r, V0)
       /\ published[r] = Cardinality(Bad(r, V0))
  /\ task[r] \in {"promote", "append", "ddl", "reclaim", "done"} => Bad(r, V0) = {}
  /\ task[r] \in {"ddl", "reclaim", "done"} => RecordsOf(bronze, r) = Good(r, V0)

RepromoteDone ==
  task[Repromote] \in {"ddl", "reclaim"} =>
    RecordsOf(bronze, repromoting) = Good(repromoting, V0)

SteadyInv ==
  /\ TypeOK /\ RecordsOnceInv /\ SplitByTheRules
  /\ Staged(bronze) /\ Staged(quarantine)
  /\ (\A r \in Run : Gated(r)) /\ RepromoteDone

\* Counting the copies of a batch counts its records.
LEMMA CountsOfBatch ==
  ASSUME TypeOK, RecordsOnceInv, NEW b \in Run, NEW table \in {bronze, quarantine}
  PROVE  /\ RowsOfBatch(table, b) = Cardinality(RecordsOf(table, b))
         /\ RowsOfBatch(table, b) \in Nat
         /\ RowsOfBatch(table, b) = 0 <=> RecordsOf(table, b) = {}
         /\ Cardinality(CopiesHeld(table, b, Row)) = RowsOfBatch(table, b)
<1>1. IsFiniteSet(table) /\ table \subseteq Copy /\ \A c, d \in table : c.row = d.row => c = d
  BY DEF TypeOK, RecordsOnceInv, OwnRecordsOnce
<1>2. CopiesOf(table, b) \subseteq table
  BY DEF CopiesOf
<1>3. /\ IsFiniteSet(RecordsOf(table, b))
      /\ RowsOfBatch(table, b) = Cardinality(RecordsOf(table, b))
      /\ RowsOfBatch(table, b) \in Nat
  BY <1>1, <1>2, CountOnce DEF RecordsOf, RowsOfBatch
<1>4. RowsOfBatch(table, b) = 0 <=> RecordsOf(table, b) = {}
  BY <1>3, FS_EmptySet
<1>5. CopiesHeld(table, b, Row) = CopiesOf(table, b)
  BY <1>1 DEF CopiesHeld, CopiesOf, Copy
<1> QED
  BY <1>3, <1>4, <1>5 DEF RowsOfBatch

\* The two sides of a batch.
LEMMA Halves ==
  ASSUME TypeOK, NEW b \in Run
  PROVE  /\ IsFiniteSet(Good(b, V0)) /\ IsFiniteSet(Bad(b, V0))
         /\ Cardinality(Good(b, V0)) \in Nat /\ Cardinality(Bad(b, V0)) \in Nat
         /\ Cardinality(Good(b, V0)) = 0 <=> Good(b, V0) = {}
         /\ Cardinality(Bad(b, V0)) = 0 <=> Bad(b, V0) = {}
         /\ Good(b, V0) \cup Bad(b, V0) = RowsIn(staging[b])
         /\ Cardinality(RowsIn(staging[b] \cap File)) =
              Cardinality(Good(b, V0)) + Cardinality(Bad(b, V0))
<1>1. /\ IsFiniteSet(RowsIn(staging[b])) /\ staging[b] \cap File = staging[b]
  BY RowsInFacts DEF TypeOK
<1>2. IsFiniteSet(Good(b, V0)) /\ IsFiniteSet(Bad(b, V0))
  BY <1>1, FS_Subset DEF Good, Bad
<1>3. /\ Cardinality(Good(b, V0)) \in Nat /\ Cardinality(Bad(b, V0)) \in Nat
      /\ Cardinality(Good(b, V0)) = 0 <=> Good(b, V0) = {}
      /\ Cardinality(Bad(b, V0)) = 0 <=> Bad(b, V0) = {}
  BY <1>2, FS_CardinalityType, FS_EmptySet
<1>4. Good(b, V0) \cup Bad(b, V0) = RowsIn(staging[b]) /\ Good(b, V0) \cap Bad(b, V0) = {}
  BY DEF Good, Bad
<1>5. Cardinality(RowsIn(staging[b])) =
        Cardinality(Good(b, V0)) + Cardinality(Bad(b, V0)) - Cardinality({})
  BY <1>2, <1>4, FS_Union
<1>6. Cardinality({}) = 0
  BY FS_EmptySet
<1>7. Cardinality(RowsIn(staging[b])) = Cardinality(Good(b, V0)) + Cardinality(Bad(b, V0))
  BY <1>3, <1>5, <1>6
<1> QED
  BY <1>1, <1>2, <1>3, <1>4, <1>7

\* What the tables hold of a batch is of its one side and of its other.
LEMMA HeldOfBatch ==
  ASSUME SteadyInv, NEW b \in Run
  PROVE  /\ RecordsOf(bronze, b) \subseteq Good(b, V0)
         /\ RecordsOf(quarantine, b) \subseteq Bad(b, V0)
BY DEF SteadyInv, SplitByTheRules, Staged, RecordsOf, CopiesOf, Good, Bad

\* What the outcomes of a plan say of bronze.
LEMMA PlanTells ==
  ASSUME SteadyInv, NEW b \in Run, NEW inFlow
  PROVE  /\ PlanPromotion(b, V0, inFlow) \in
              {"already_promoted", "already_promoted_staging_gone", "nothing_ingested"}
              => RecordsOf(bronze, b) = Good(b, V0)
         /\ PlanPromotion(b, V0, inFlow) = "refused" /\ RowsOfBatch(bronze, b) > 0
              => RecordsOf(bronze, b) # Good(b, V0)
         /\ PlanPromotion(b, V0, inFlow) = "nothing_ingested" => inFlow
<1> DEFINE held == RowsOfBatch(bronze, b)
           promotable == Cardinality(Good(b, V0))
           total == promotable + Cardinality(Bad(b, V0))
<1>1. /\ held \in Nat /\ held = Cardinality(RecordsOf(bronze, b))
      /\ held = 0 <=> RecordsOf(bronze, b) = {}
  BY CountsOfBatch DEF SteadyInv
<1>2. /\ IsFiniteSet(Good(b, V0)) /\ promotable \in Nat /\ Cardinality(Bad(b, V0)) \in Nat
      /\ promotable = 0 <=> Good(b, V0) = {}
  BY Halves DEF SteadyInv
<1>3. RecordsOf(bronze, b) \subseteq Good(b, V0)
  BY HeldOfBatch
<1>4. held = promotable <=> RecordsOf(bronze, b) = Good(b, V0)
  BY <1>1, <1>2, <1>3, AsManyIsAll
<1>5. held <= promotable
  BY <1>1, <1>2, <1>3, FS_Subset
<1>6. PlanPromotion(b, V0, inFlow) =
        CASE held > 0 /\ held = promotable -> "already_promoted"
          [] held > 0 /\ held # promotable /\ total = 0 -> "already_promoted_staging_gone"
          [] held > 0 /\ held # promotable /\ total > 0 -> "refused"
          [] held = 0 /\ total = 0 -> IF inFlow THEN "nothing_ingested" ELSE "refused"
          [] held = 0 /\ total > 0 /\ promotable = 0 -> "refused"
          [] OTHER -> "appended"
  BY Zenon DEF PlanPromotion
<1> DEFINE bad == Cardinality(Bad(b, V0))
<1>7. total = promotable + bad /\ bad \in Nat
  BY <1>2
<1> HIDE DEF held, promotable, total, bad
<1>8. PlanPromotion(b, V0, inFlow) \in
              {"already_promoted", "already_promoted_staging_gone", "nothing_ingested"}
        => held = promotable
  BY <1>1, <1>2, <1>5, <1>6, <1>7
<1>9. PlanPromotion(b, V0, inFlow) = "refused" /\ held > 0 => held # promotable
  BY <1>1, <1>2, <1>6, <1>7
<1>10. PlanPromotion(b, V0, inFlow) = "nothing_ingested" => inFlow
  BY <1>1, <1>2, <1>6, <1>7
<1> QED
  BY <1>4, <1>8, <1>9, <1>10 DEF held

\* A gate that goes on leaves in quarantine exactly what the rules reject of its
\* batch; one that refuses has found something there that this flow never leaves.
LEMMA GateTells ==
  ASSUME SteadyRules, SteadyInv, NEW r \in Run
  PROVE  /\ GateWrites(r) => /\ RecordsOf(quarantine', r) = Bad(r, V0)
                             /\ \A q \in Run \ {r} :
                                  RecordsOf(quarantine', q) = RecordsOf(quarantine, q)
                             /\ \A c \in quarantine' : c \notin quarantine =>
                                  c.batch = r /\ c.row \in Bad(r, V0)
         /\ GateAppends(r) \/ GateSkips(r)
<1>1. deployed = V0
  BY DEF SteadyRules, SteadyInv, TypeOK
<1>2. /\ RowsOfBatch(quarantine, r) = Cardinality(RecordsOf(quarantine, r))
      /\ RowsOfBatch(quarantine, r) = 0 <=> RecordsOf(quarantine, r) = {}
  BY CountsOfBatch DEF SteadyInv
<1>3. GateAppends(r) \/ GateSkips(r)
  BY <1>1, <1>2 DEF GateAppends, GateSkips, SteadyInv, Gated
<1>4. ASSUME GateAppends(r), quarantine' = Appended(quarantine, r, Bad(r, deployed))
      PROVE  /\ RecordsOf(quarantine', r) = Bad(r, V0)
             /\ \A q \in Run \ {r} : RecordsOf(quarantine', q) = RecordsOf(quarantine, q)
             /\ \A c \in quarantine' : c \notin quarantine => c.batch = r /\ c.row \in Bad(r, V0)
  <2>1. CopiesOf(quarantine, r) = {}
    BY <1>4, NoRowsNoCopies DEF GateAppends, SteadyInv, TypeOK
  <2>2. quarantine' = Appended(quarantine, r, Bad(r, V0))
    BY <1>1, <1>4
  <2>3. /\ RecordsOf(quarantine', r) = Bad(r, V0)
        /\ \A q \in Run \ {r} : RecordsOf(quarantine', q) = RecordsOf(quarantine, q)
    BY <2>1, <2>2, AppendedRecords
  <2>4. ASSUME NEW c \in quarantine', c \notin quarantine
        PROVE  c.batch = r /\ c.row \in Bad(r, V0)
    BY <2>2, <2>4, AppendsItsOwn, AppendedAreRows
  <2> QED
    BY <2>3, <2>4
<1>5. ASSUME GateSkips(r), quarantine' = quarantine
      PROVE  RecordsOf(quarantine', r) = Bad(r, V0)
  BY <1>2, <1>5 DEF GateSkips, SteadyInv, Gated
<1>6. GateWrites(r) =>
        \/ GateAppends(r) /\ quarantine' = Appended(quarantine, r, Bad(r, deployed))
        \/ GateSkips(r) /\ quarantine' = quarantine
  BY DEF GateWrites
<1> QED
  BY <1>3, <1>4, <1>5, <1>6

\* The verdict on a batch both tables hold their side of.
LEMMA BothSidesReconcile ==
  ASSUME SteadyInv, NEW b \in Run,
         RecordsOf(bronze, b) = Good(b, V0), RecordsOf(quarantine, b) = Bad(b, V0)
  PROVE  Verdict(b) = "reconciled"
<1> DEFINE good == Cardinality(Good(b, V0))
           bad  == Cardinality(Bad(b, V0))
<1>1. good \in Nat /\ bad \in Nat /\ Cardinality(RowsIn(staging[b] \cap File)) = good + bad
  BY Halves DEF SteadyInv
<1>2. /\ Cardinality(CopiesHeld(bronze, b, Row)) = good
      /\ Cardinality(CopiesHeld(quarantine, b, Row)) = bad
  BY CountsOfBatch DEF SteadyInv
<1> DEFINE n == Account(b, Row, File)
<1>3. n.promoted = good /\ n.quarantined = bad /\ n.staged = good + bad
  BY <1>1, <1>2 DEF Account
<1> HIDE DEF n, good, bad
<1> QED
  BY <1>1, <1>3 DEF Verdict, n

\* Staging only grows, in an ingest, and only with the batch of the active run,
\* which has rejected nothing yet.
LEMMA StagingGrows ==
  ASSUME SteadyRules, SteadyInv, [Next]_vars
  PROVE  /\ \A q \in Run : staging[q] \subseteq staging'[q]
         /\ \A q \in Run : staging'[q] # staging[q] =>
              /\ task[q] = "ingest" /\ active = q /\ task' = task /\ active' = active
              /\ UNCHANGED <<bronze, quarantine, published, repromoting>>
<1> USE DEF SteadyInv, TypeOK
<1>1. CASE UNCHANGED <<staging, seen>>
  BY <1>1
<1>2. ASSUME NEW r \in Run, IngestMicrobatch(r)
      PROVE  /\ \A q \in Run : staging[q] \subseteq staging'[q]
             /\ \A q \in Run : staging'[q] # staging[q] => q = r
             /\ task[r] = "ingest" /\ active = r /\ task' = task /\ active' = active
             /\ UNCHANGED <<bronze, quarantine, published, repromoting>>
  BY <1>2, RunAssumption DEF IngestMicrobatch, control, Executing, Repromote
<1>3. ASSUME NEW r \in Run, TruncateStaging(r) PROVE FALSE
  BY <1>3 DEF TruncateStaging, SteadyRules
<1> QED
  BY <1>1, <1>2, <1>3, WhoWrites DEF Writes, StagingStep

LEMMA StagedStep ==
  ASSUME SteadyRules, SteadyInv, [Next]_vars
  PROVE  Staged(bronze)' /\ Staged(quarantine)'
<1> USE DEF SteadyInv
<1>1. \A q \in Run : RowsIn(staging[q]) \subseteq RowsIn(staging'[q])
  BY StagingGrows DEF RowsIn
<1>2. \A c \in bronze \cup quarantine : c.batch \in Run
  BY DEF TypeOK, Copy
<1>3. \A c \in bronze \cup quarantine : c.row \in RowsIn(staging'[c.batch])
  BY <1>1, <1>2 DEF Staged
<1>4. Staged(bronze)'
  <2>1. CASE bronze' \subseteq bronze
    BY <1>3, <2>1 DEF Staged
  <2>2. ASSUME NEW j \in Job, AppendToBronze(j) PROVE Staged(bronze)'
    <3>1. BatchOf(j) \in Run
      BY <2>2, BatchOfJob DEF AppendToBronze, Executing, RecordsOnceInv
    <3>2. bronze' = Appended(bronze, BatchOf(j), Good(BatchOf(j), plan[j]))
      BY <2>2 DEF AppendToBronze
    <3>3. \A c \in bronze' : c \notin bronze =>
            c.batch = BatchOf(j) /\ c.row \in RowsIn(staging[BatchOf(j)])
      BY <3>2, AppendsItsOwn, AppendedAreRows DEF Good
    <3> QED
      BY <1>1, <1>3, <3>1, <3>3 DEF Staged
  <2> QED
    BY <2>1, <2>2, WhoWrites DEF Writes, BronzeStep
<1>5. Staged(quarantine)'
  <2>1. CASE quarantine' \subseteq quarantine
    BY <1>3, <2>1 DEF Staged
  <2>2. ASSUME NEW r \in Run, quarantine' = Appended(quarantine, r, Bad(r, deployed))
        PROVE  Staged(quarantine)'
    <3>1. \A c \in quarantine' : c \notin quarantine =>
            c.batch = r /\ c.row \in RowsIn(staging[r])
      BY <2>2, AppendsItsOwn, AppendedAreRows DEF Bad
    <3> QED
      BY <1>1, <1>3, <3>1 DEF Staged
  <2> QED
    BY <2>1, <2>2, WhoWrites DEF Writes, QuarantineStep
<1> QED
  BY <1>4, <1>5

\* A step that leaves the tables alone moves jobs on.
LEMMA MovesStay ==
  ASSUME UNCHANGED <<staging, bronze, quarantine>>
  PROVE  \A b \in Run : /\ Good(b, V0)' = Good(b, V0) /\ Bad(b, V0)' = Bad(b, V0)
                        /\ RecordsOf(bronze', b) = RecordsOf(bronze, b)
                        /\ RecordsOf(quarantine', b) = RecordsOf(quarantine, b)
BY DEF Good, Bad

\* The steps of a run but the gate's.
LEMMA RunMoves ==
  ASSUME SteadyRules, SteadyInv, NEW r \in Run,
         \/ Launch(r) \/ Repair(r) \/ RerunGate(r) \/ Unzip(r) \/ UnzipFails(r)
         \/ IngestDone(r) \/ CheckBadRows(r) \/ FailOnDq(r)
  PROVE  (\A q \in Run : Gated(q)') /\ RepromoteDone'
<1> USE DEF SteadyInv
<1>1. UNCHANGED <<staging, bronze, quarantine, published, repromoting>>
  BY RunAssumption
     DEF Launch, Repair, RerunGate, Unzip, UnzipFails, IngestDone, CheckBadRows, FailOnDq,
         tables, Goto, Fail, Repromote
<1>2. /\ \A q \in Run : q # r => task'[q] = task[q]
      /\ task'[Repromote] = task[Repromote] /\ r # Repromote
  BY RunAssumption
     DEF Launch, Repair, RerunGate, Unzip, UnzipFails, IngestDone, CheckBadRows, FailOnDq,
         Goto, Fail, TypeOK, JobsOK, Job, Repromote
<1>3. \/ task'[r] = task[r]
      \/ task[r] = "new" /\ task'[r] = "unzip"
      \/ task[r] \in {"promote", "reclaim", "fail_on_dq", "done"} /\ task'[r] = "gate"
      \/ task[r] = "unzip" /\ task'[r] = "ingest"
      \/ task[r] = "ingest" /\ task'[r] = "gate"
      \/ /\ task[r] = "check"
         /\ task'[r] = IF published[r] = 0 THEN "promote" ELSE "fail_on_dq"
  BY <1>2, RunAssumption
     DEF Launch, Repair, RerunGate, Unzip, UnzipFails, IngestDone, CheckBadRows, FailOnDq,
         Goto, Fail, RestartAt, Executing, TypeOK, JobsOK, Job, Repromote
<1>4. Cardinality(Bad(r, V0)) = 0 <=> Bad(r, V0) = {}
  BY Halves
<1>5. Gated(r)'
  <2>1. Gated(r)
    OBVIOUS
  <2>2. /\ Good(r, V0)' = Good(r, V0) /\ Bad(r, V0)' = Bad(r, V0)
        /\ RecordsOf(bronze', r) = RecordsOf(bronze, r)
        /\ RecordsOf(quarantine', r) = RecordsOf(quarantine, r)
        /\ published'[r] = published[r]
    BY <1>1, MovesStay
  <2> HIDE DEF SteadyInv
  <2> QED
    BY <1>3, <1>4, <2>1, <2>2 DEF Gated
<1>6. \A q \in Run : q # r => Gated(q)'
  BY <1>1, <1>2, MovesStay DEF Gated
<1>7. RepromoteDone'
  <2>1. CASE task[Repromote] \in {"ddl", "reclaim"}
    <3>1. repromoting \in Run
      BY <2>1 DEF RecordsOnceInv, OneJobPerBatch
    <3> QED
      BY <1>1, <1>2, <3>1, MovesStay DEF RepromoteDone
  <2>2. CASE task[Repromote] \notin {"ddl", "reclaim"}
    BY <1>2, <2>2 DEF RepromoteDone
  <2> QED
    BY <2>1, <2>2
<1> QED
  BY <1>5, <1>6, <1>7

\* The gate.
LEMMA GateKeeps ==
  ASSUME SteadyRules, SteadyInv, NEW r \in Run,
         Gate(r) \/ GateDiesAfterAppend(r) \/ GateRefuses(r)
  PROVE  (\A q \in Run : Gated(q)') /\ RepromoteDone'
<1> USE DEF SteadyInv
<1>0. ~ GateRefuses(r)
  BY GateTells DEF GateRefuses
<1>1. /\ GateWrites(r) /\ task[r] = "gate"
      /\ UNCHANGED <<staging, bronze, repromoting>>
  BY <1>0, RunAssumption DEF Gate, GateDiesAfterAppend, Executing, Goto, Fail, Repromote
<1>2. /\ RecordsOf(quarantine', r) = Bad(r, V0)
      /\ \A q \in Run \ {r} : RecordsOf(quarantine', q) = RecordsOf(quarantine, q)
  BY <1>1, GateTells
<1>3. /\ \A q \in Run : q # r => task'[q] = task[q] /\ published'[q] = published[q]
      /\ task'[Repromote] = task[Repromote] /\ r # Repromote
  BY <1>0, RunAssumption
     DEF Gate, GateDiesAfterAppend, Goto, Fail, TypeOK, JobsOK, Job, Repromote
<1>4. \/ task'[r] = "check" /\ published'[r] = Cardinality(Bad(r, V0))
      \/ task'[r] = "gate"
  BY <1>0, RunAssumption
     DEF Gate, GateDiesAfterAppend, Executing, Goto, Fail, RestartAt, TypeOK, JobsOK, Job,
         Repromote, SteadyRules
<1>5. \A q \in Run : Good(q, V0)' = Good(q, V0) /\ Bad(q, V0)' = Bad(q, V0)
  BY <1>1 DEF Good, Bad
<1>6. Gated(r)'
  <2> HIDE DEF SteadyInv
  <2> QED
    BY <1>1, <1>2, <1>4, <1>5 DEF Gated
<1>7. ASSUME NEW q \in Run, q # r PROVE Gated(q)'
  <2>1. Gated(q)
    OBVIOUS
  <2> HIDE DEF SteadyInv
  <2> QED
    BY <1>1, <1>2, <1>3, <1>5, <1>7, <2>1 DEF Gated
<1>8. RepromoteDone'
  <2>1. CASE task[Repromote] \in {"ddl", "reclaim"}
    <3>1. repromoting \in Run
      BY <2>1 DEF RecordsOnceInv, OneJobPerBatch
    <3> QED
      BY <1>1, <1>3, <1>5, <3>1 DEF RepromoteDone
  <2>2. CASE task[Repromote] \notin {"ddl", "reclaim"}
    BY <1>3, <2>2 DEF RepromoteDone
  <2> QED
    BY <2>1, <2>2
<1> QED
  BY <1>6, <1>7, <1>8

\* The promote of a batch and what follows it, in flow and from the other job.
LEMMA JobKeeps ==
  ASSUME SteadyRules, SteadyInv, NEW j \in Job, JobNext(j)
  PROVE  (\A q \in Run : Gated(q)') /\ RepromoteDone'
<1> USE DEF SteadyInv
<1> DEFINE b == BatchOf(j)
<1>0. deployed = V0 /\ plan[j] = V0 /\ UNCHANGED <<staging, quarantine, published>>
  BY DEF SteadyRules, TypeOK, JobNext, PlanPromote, AppendToBronze, AssertConstraints,
         TaskFails, Reclaim, ReclaimFails, tables
<1>1. /\ \A k \in Job : k # j => task'[k] = task[k]
      /\ j # Repromote => repromoting' = repromoting
      /\ task[Repromote] \in {"ddl", "reclaim"} => repromoting \in Run
  BY RunAssumption
     DEF JobNext, PlanPromote, AppendToBronze, AssertConstraints, TaskFails, Reclaim,
         ReclaimFails, Goto, Fail, Finish, TypeOK, JobsOK, RecordsOnceInv, OneJobPerBatch
<1>2. \A q \in Run : q \in Job /\ q # Repromote
  BY RunAssumption DEF Job, Repromote
<1>3. \A q \in Run : Good(q, V0)' = Good(q, V0) /\ Bad(q, V0)' = Bad(q, V0)
  BY <1>0 DEF Good, Bad
<1>4. CASE AppendToBronze(j)
  <2>1. /\ task[j] = "append" /\ task' = [task EXCEPT ![j] = "ddl"] /\ repromoting' = repromoting
        /\ bronze' = Appended(bronze, b, Good(b, V0))
    BY <1>0, <1>4 DEF AppendToBronze, Executing, Goto
  <2>2. b \in Run
    BY <2>1, BatchOfJob DEF RecordsOnceInv
  <2>3. CopiesOf(bronze, b) = {}
    BY <2>1 DEF RecordsOnceInv, AppendsToNothing
  <2> HIDE DEF b
  <2>4. /\ RecordsOf(bronze', b) = Good(b, V0)
        /\ \A q \in Run \ {b} : RecordsOf(bronze', q) = RecordsOf(bronze, q)
    BY <2>1, <2>3, AppendedRecords
  <2>5. task'[j] = "ddl"
    BY <2>1 DEF TypeOK, JobsOK
  <2>6. ASSUME NEW q \in Run PROVE Gated(q)'
    <3>1. Gated(q)
      OBVIOUS
    <3>2. task'[q] = task[q] \/ (q = j /\ task[q] = "append" /\ task'[q] = "ddl" /\ q = b)
      BY <1>1, <1>2, <2>1, <2>5 DEF b, BatchOf
    <3>3. RecordsOf(bronze', q) = RecordsOf(bronze, q) \/ RecordsOf(bronze', q) = Good(q, V0)
      BY <2>4
    <3>4. q = b => RecordsOf(bronze', q) = Good(q, V0)
      BY <2>4
    <3>5. /\ RecordsOf(quarantine', q) = RecordsOf(quarantine, q)
          /\ published'[q] = published[q]
          /\ Good(q, V0)' = Good(q, V0) /\ Bad(q, V0)' = Bad(q, V0)
      BY <1>0, <1>3
    <3> HIDE DEF SteadyInv
    <3> QED
      BY <3>1, <3>2, <3>3, <3>4, <3>5 DEF Gated
  <2>7. RepromoteDone'
    <3>1. CASE j = Repromote
      <4>1. repromoting' = b
        BY <2>1, <3>1 DEF b, BatchOf
      <4> QED
        BY <1>3, <2>2, <2>4, <4>1 DEF RepromoteDone
    <3>2. CASE j # Repromote
      <4> SUFFICES ASSUME task[Repromote] \in {"ddl", "reclaim"}
                   PROVE  RecordsOf(bronze', repromoting) = Good(repromoting, V0)
        BY <1>1, <1>3, <2>1, <3>2 DEF RepromoteDone, Job
      <4>1. repromoting \in Run /\ RecordsOf(bronze, repromoting) = Good(repromoting, V0)
        BY <1>1 DEF RepromoteDone
      <4> QED
        BY <2>4, <4>1
    <3> QED
      BY <3>1, <3>2
  <2> QED
    BY <2>6, <2>7
<1>5. CASE ~ AppendToBronze(j)
  <2>1. UNCHANGED bronze
    BY <1>5 DEF JobNext, PlanPromote, AssertConstraints, TaskFails, Reclaim, ReclaimFails, tables
  <2>2. \/ /\ task[j] = "promote" /\ task'[j] \in {"append", "promote", "idle"}
        \/ /\ task[j] = "promote" /\ b \in Run /\ repromoting' = repromoting
           /\ \/ task'[j] = "ddl"
              \/ task'[j] = "reclaim" /\ j # Repromote
           /\ RecordsOf(bronze, b) = Good(b, V0)
        \/ /\ task[j] = "ddl" /\ task'[j] = "reclaim" /\ repromoting' = repromoting
        \/ /\ task[j] \in {"ingest", "gate", "promote", "append", "ddl"}
           /\ task'[j] \in {RestartAt(task[j]), "idle"}
        \/ /\ task[j] = "reclaim"
           /\ task'[j] \in {"reclaim", "idle", "done"}
    <3>1. CASE PlanPromote(j)
      <4>1. task[j] = "promote" /\ b \in Run
        BY <3>1, BatchOfJob DEF PlanPromote, Executing, RecordsOnceInv
      <4> DEFINE outcome == PlanPromotion(b, V0, j # Repromote)
      <4>2. /\ outcome \in {"already_promoted", "already_promoted_staging_gone",
                            "nothing_ingested"} => RecordsOf(bronze, b) = Good(b, V0)
            /\ outcome = "nothing_ingested" => j # Repromote
        BY <4>1, PlanTells
      <4>3. \/ outcome = "appended" /\ Goto(j, "append")
            \/ /\ outcome \in {"already_promoted", "already_promoted_staging_gone"}
               /\ Goto(j, "ddl")
            \/ outcome = "nothing_ingested" /\ Goto(j, "reclaim")
            \/ outcome = "refused" /\ Fail(j)
        BY <1>0, <3>1 DEF PlanPromote
      <4> HIDE DEF outcome, b
      <4> QED
        BY <4>1, <4>2, <4>3 DEF Goto, Fail, RestartAt, TypeOK, JobsOK
    <3>2. CASE AssertConstraints(j)
      BY <3>2 DEF AssertConstraints, Executing, Goto, TypeOK, JobsOK
    <3>3. CASE TaskFails(j)
      BY <3>3 DEF TaskFails, Executing, Fail, TypeOK, JobsOK
    <3>4. CASE Reclaim(j) \/ ReclaimFails(j)
      BY <3>4 DEF Reclaim, ReclaimFails, Executing, Fail, Finish, RestartAt, TypeOK, JobsOK
    <3> QED
      BY <1>5, <3>1, <3>2, <3>3, <3>4 DEF JobNext
  <2>3. ASSUME NEW q \in Run PROVE Gated(q)'
    <3>1. Gated(q)
      OBVIOUS
    <3>2. /\ RecordsOf(bronze', q) = RecordsOf(bronze, q)
          /\ RecordsOf(quarantine', q) = RecordsOf(quarantine, q)
          /\ published'[q] = published[q]
          /\ Good(q, V0)' = Good(q, V0) /\ Bad(q, V0)' = Bad(q, V0)
      BY <1>0, <1>3, <2>1
    <3>3. CASE q # j
      <4>1. task'[q] = task[q]
        BY <1>1, <1>2, <3>3
      <4> HIDE DEF SteadyInv
      <4> QED
        BY <3>1, <3>2, <4>1 DEF Gated
    <3>4. CASE q = j
      <4>1. b = q
        BY <1>2, <3>4 DEF BatchOf
      <4>2. task'[q] # "idle"
        BY TypedJobsStep, <1>2 DEF RecordsOnceInv, TypeOK, JobsOK, RunTask, Next
      <4> HIDE DEF SteadyInv, b
      <4> QED
        BY <2>2, <3>1, <3>2, <3>4, <4>1, <4>2 DEF Gated, RestartAt
    <3> QED
      BY <3>3, <3>4
  <2>4. RepromoteDone'
    <3> SUFFICES ASSUME task'[Repromote] \in {"ddl", "reclaim"}
                 PROVE  /\ repromoting' = repromoting /\ repromoting \in Run
                        /\ RecordsOf(bronze, repromoting) = Good(repromoting, V0)
      BY <1>3, <2>1 DEF RepromoteDone
    <3>1. CASE j # Repromote
      <4>1. task[Repromote] = task'[Repromote] /\ repromoting' = repromoting
        BY <1>1, <3>1 DEF Job
      <4> QED
        BY <1>1, <4>1 DEF RepromoteDone
    <3>2. CASE j = Repromote
      <4>1. b = repromoting
        BY <3>2 DEF BatchOf
      <4>2. task[Repromote] # "ingest" /\ task[Repromote] # "gate"
        BY DEF TypeOK, JobsOK, RepromoteTask
      <4>3. task'[Repromote] = "reclaim" /\ task[Repromote] = "reclaim" => FALSE
        BY <3>2, <1>5, RunAssumption DEF JobNext, PlanPromote, AssertConstraints, TaskFails, Reclaim,
           ReclaimFails, Executing, Fail, Finish, Goto, TypeOK, JobsOK
      <4>4. \/ task[j] = "promote" /\ b \in Run /\ RecordsOf(bronze, b) = Good(b, V0)
            \/ task[j] = "ddl"
        BY <2>2, <3>2, <4>2, <4>3 DEF RestartAt
      <4>5. repromoting' = repromoting
        BY <2>2, <3>2, <4>2, <4>3 DEF RestartAt
      <4>6. RecordsOf(bronze, b) = Good(b, V0) /\ b \in Run
        BY <1>1, <3>2, <4>1, <4>4 DEF RepromoteDone
      <4> HIDE DEF b
      <4> QED
        BY <4>1, <4>5, <4>6
    <3> QED
      BY <3>1, <3>2
  <2> QED
    BY <2>3, <2>4
<1> QED
  BY <1>4, <1>5

\* The operators: the one delete they are told to make is of a batch that is not
\* held whole, which no job has then promoted.
LEMMA OperatorsKeep ==
  ASSUME SteadyRules, SteadyInv, OperatorNext
  PROVE  (\A q \in Run : Gated(q)') /\ RepromoteDone'
<1> USE DEF SteadyInv
<1>1. deployed = V0
  BY DEF SteadyRules, TypeOK
<1>2. \A v \in Version : ~ Deploy(v)
  BY <1>1 DEF Deploy, SteadyRules
<1>3. \A b \in Run : ~ ReconcileQuarantine(b) /\ ~ TruncateStaging(b)
  BY GateTells DEF ReconcileQuarantine, TruncateStaging, SteadyRules
<1>4. ~ RebuildBronze
  BY DEF RebuildBronze, SteadyRules
<1>5. ASSUME NEW f \in File, UploadZip(f) PROVE (\A q \in Run : Gated(q)') /\ RepromoteDone'
  BY <1>5, MovesStay DEF UploadZip, tables, control, Gated, RepromoteDone, RecordsOf, CopiesOf,
     Good, Bad
<1>6. ASSUME NEW b \in Run, StartRepromote(b)
      PROVE  (\A q \in Run : Gated(q)') /\ RepromoteDone'
  <2>1. /\ UNCHANGED <<staging, bronze, quarantine, published>>
        /\ task'[Repromote] = "promote" /\ \A q \in Run : task'[q] = task[q]
    BY <1>6, RunAssumption DEF StartRepromote, tables, TypeOK, JobsOK, Job, Repromote
  <2> QED
    BY <2>1, MovesStay DEF Gated, RepromoteDone
<1>7. ASSUME NEW b \in Run, ReconcileBronze(b)
      PROVE  (\A q \in Run : Gated(q)') /\ RepromoteDone'
  <2>1. RecordsOf(bronze, b) # Good(b, V0)
    <3>1. PlanPromotion(b, V0, FALSE) = "refused" /\ RowsOfBatch(bronze, b) > 0
      BY <1>1, <1>7 DEF ReconcileBronze
    <3> QED
      BY <3>1, PlanTells
  <2>2. /\ UNCHANGED <<staging, quarantine, published, task, repromoting>>
        /\ \A q \in Run : q # b => RecordsOf(bronze', q) = RecordsOf(bronze, q)
        /\ ~ Busy(b)
    BY <1>7 DEF ReconcileBronze, control, RecordsOf, CopiesOf
  <2>3. \A q \in Run : /\ Good(q, V0)' = Good(q, V0) /\ Bad(q, V0)' = Bad(q, V0)
                       /\ RecordsOf(quarantine', q) = RecordsOf(quarantine, q)
    BY <2>2 DEF Good, Bad
  <2>4. task[b] \notin {"ddl", "reclaim", "done"}
    BY <2>1 DEF Gated
  <2>5. ASSUME NEW q \in Run PROVE Gated(q)'
    <3>1. Gated(q)
      OBVIOUS
    <3> HIDE DEF SteadyInv
    <3> QED
      BY <2>2, <2>3, <2>4, <3>1 DEF Gated
  <2>6. RepromoteDone'
    <3>1. CASE task[Repromote] \in {"ddl", "reclaim"}
      <4>1. repromoting \in Run /\ repromoting # b
        BY <2>2, <3>1 DEF Busy, RecordsOnceInv, OneJobPerBatch
      <4> QED
        BY <2>2, <2>3, <3>1, <4>1 DEF RepromoteDone
    <3>2. CASE task[Repromote] \notin {"ddl", "reclaim"}
      BY <2>2, <3>2 DEF RepromoteDone
    <3> QED
      BY <3>1, <3>2
  <2> QED
    BY <2>5, <2>6
<1> QED
  BY <1>2, <1>3, <1>4, <1>5, <1>6, <1>7 DEF OperatorNext

\* A microbatch is staged for a run that has not been gated, and that no repromote
\* works on.
LEMMA IngestKeeps ==
  ASSUME SteadyRules, SteadyInv, NEW r \in Run, IngestMicrobatch(r)
  PROVE  (\A q \in Run : Gated(q)') /\ RepromoteDone'
<1> USE DEF SteadyInv
<1>1. /\ task[r] = "ingest" /\ active = r
      /\ UNCHANGED <<bronze, quarantine, published, task, repromoting>>
      /\ \A q \in Run : q # r => staging'[q] = staging[q]
  BY RunAssumption DEF IngestMicrobatch, Executing, control, Repromote, TypeOK
<1>2. \A q \in Run : q # r => Good(q, V0)' = Good(q, V0) /\ Bad(q, V0)' = Bad(q, V0)
  BY <1>1 DEF Good, Bad
<1>3. Gated(r)'
  <2>1. RecordsOf(quarantine, r) = {}
    BY <1>1 DEF Gated
  <2> HIDE DEF SteadyInv
  <2> QED
    BY <1>1, <2>1 DEF Gated
<1>4. ASSUME NEW q \in Run, q # r PROVE Gated(q)'
  <2>1. Gated(q)
    OBVIOUS
  <2> HIDE DEF SteadyInv
  <2> QED
    BY <1>1, <1>2, <1>4, <2>1 DEF Gated
<1>5. RepromoteDone'
  <2>1. CASE task[Repromote] \in {"ddl", "reclaim"}
    <3>1. repromoting \in Run /\ repromoting # r
      BY <1>1, <2>1 DEF RecordsOnceInv, OneJobPerBatch
    <3> QED
      BY <1>1, <1>2, <2>1, <3>1 DEF RepromoteDone
  <2>2. CASE task[Repromote] \notin {"ddl", "reclaim"}
    BY <1>1, <2>2 DEF RepromoteDone
  <2> QED
    BY <2>1, <2>2
<1> QED
  BY <1>3, <1>4, <1>5

LEMMA SteadyInit == Init => SteadyInv
<1> SUFFICES ASSUME Init PROVE SteadyInv
  OBVIOUS
<1>1. TypeOK /\ RecordsOnceInv
  BY TypedJobsInit, RecordsOnceInit
<1>2. SplitByTheRules /\ Staged(bronze) /\ Staged(quarantine)
  BY DEF Init, SplitByTheRules, Staged
<1>3. \A r \in Run : task[r] = "new" /\ RecordsOf(quarantine, r) = {}
  BY RunAssumption DEF Init, Job, Repromote, RecordsOf, CopiesOf
<1>4. task[Repromote] = "idle"
  BY DEF Init, Job
<1> QED
  BY <1>1, <1>2, <1>3, <1>4 DEF SteadyInv, Gated, RepromoteDone

LEMMA SteadyStep ==
  ASSUME SteadyRules, SteadyInv, [Next]_vars
  PROVE  SteadyInv'
<1>1. TypeOK'
  BY TypedJobsStep DEF SteadyInv, RecordsOnceInv
<1>2. RecordsOnceInv' /\ SplitByTheRules'
  BY RecordsOnceStep, SplitStep DEF SteadyInv, SteadyRules
<1>3. Staged(bronze)' /\ Staged(quarantine)'
  BY StagedStep
<1>4. (\A q \in Run : Gated(q)') /\ RepromoteDone'
  <2>1. CASE UNCHANGED vars
    <3>1. (\A q \in Run : Gated(q)) /\ RepromoteDone
      BY DEF SteadyInv
    <3>2. Good(repromoting, V0)' = Good(repromoting, V0)
      BY <2>1 DEF vars, Good
    <3> QED
      BY <2>1, <3>1, <3>2, MovesStay DEF vars, Gated, RepromoteDone
  <2>2. CASE Next
    BY <2>2, RunMoves, GateKeeps, JobKeeps, IngestKeeps, OperatorsKeep DEF Next, RunNext
  <2> QED
    BY <2>1, <2>2
<1> QED
  BY <1>1, <1>2, <1>3, <1>4 DEF SteadyInv

\* While one build's rules are in force and nobody drops bronze or truncates
\* staging, a run that has passed the check has no rejects, one that has promoted
\* has all the rest of its batch in bronze, quarantine holds the rejects of a
\* gated batch and of no other, and a repromote past its promote has left its
\* batch whole in bronze.
THEOREM SteadyFlow == ASSUME SteadyRules PROVE Spec => []SteadyInv
<1>1. SteadyInv /\ [Next]_vars => SteadyInv'
  BY SteadyStep
<1> QED
  BY <1>1, SteadyInit, PTL DEF Spec

\* Only a reclaim ends a run, and only a gate sends one from gate to check.
EndsAndChecks ==
  \A r \in Run : /\ task[r] # "done" /\ task'[r] = "done" => task[r] = "reclaim"
                 /\ task[r] = "gate" /\ task'[r] = "check" => Gate(r)

LEMMA OthersGoOn ==
  ASSUME TypeOK, NEW j \in Job,
         (Finish(j) /\ task[j] = "reclaim") \/ Fail(j) \/ (\E u : u \notin {"done", "check"} /\ Goto(j, u))
  PROVE  EndsAndChecks
<1> USE RunAssumption DEF TypeOK, JobsOK, Job, Repromote, EndsAndChecks
<1>1. CASE Finish(j) /\ task[j] = "reclaim"
  BY <1>1 DEF Finish
<1>2. CASE Fail(j)
  BY <1>2 DEF Fail, RestartAt
<1>3. CASE \E u : u \notin {"done", "check"} /\ Goto(j, u)
  BY <1>3 DEF Goto
<1> QED
  BY <1>1, <1>2, <1>3

LEMMA WhoEndsAndChecks ==
  ASSUME TypeOK, [Next]_vars
  PROVE  EndsAndChecks
<1>1. ASSUME NEW r \in Run, RunNext(r) PROVE EndsAndChecks
  <2>1. r \in Job
    BY DEF Job
  <2>2. CASE Launch(r) \/ Repair(r) \/ RerunGate(r)
    BY <2>2, RunAssumption
       DEF Launch, Repair, RerunGate, TypeOK, JobsOK, Job, Repromote, EndsAndChecks
  <2>3. CASE IngestMicrobatch(r)
    BY <2>3 DEF IngestMicrobatch, control, EndsAndChecks
  <2>4. CASE Unzip(r) \/ UnzipFails(r) \/ IngestDone(r)
    BY <2>1, <2>4, OthersGoOn DEF Unzip, UnzipFails, IngestDone
  <2>5. CASE GateDiesAfterAppend(r) \/ GateRefuses(r)
    BY <2>1, <2>5, OthersGoOn DEF GateDiesAfterAppend, GateRefuses
  <2>6. CASE Gate(r)
    <3>1. /\ task'[r] = "check" /\ \A q \in Run : q # r => task'[q] = task[q]
      BY <2>1, <2>6 DEF Gate, Goto, TypeOK, JobsOK, Job
    <3> QED
      BY <2>6, <3>1 DEF EndsAndChecks
  <2>7. CASE CheckBadRows(r)
    <3>1. \/ Goto(r, "promote")
          \/ Goto(r, "fail_on_dq")
      BY <2>7 DEF CheckBadRows
    <3> QED
      BY <2>1, <3>1, OthersGoOn
  <2>8. CASE FailOnDq(r)
    BY <2>1, <2>8, OthersGoOn DEF FailOnDq
  <2> QED
    BY <1>1, <2>2, <2>3, <2>4, <2>5, <2>6, <2>7, <2>8 DEF RunNext
<1>2. ASSUME NEW j \in Job, JobNext(j) PROVE EndsAndChecks
  <2>1. CASE PlanPromote(j)
    <3>1. Fail(j) \/ Goto(j, "append") \/ Goto(j, "ddl") \/ Goto(j, "reclaim")
      BY <2>1 DEF PlanPromote
    <3> QED
      BY <3>1, OthersGoOn
  <2>2. CASE AppendToBronze(j) \/ AssertConstraints(j) \/ TaskFails(j)
    BY <2>2, OthersGoOn DEF AppendToBronze, AssertConstraints, TaskFails
  <2>3. CASE Reclaim(j) \/ ReclaimFails(j)
    BY <2>3, OthersGoOn DEF Reclaim, ReclaimFails, Executing
  <2> QED
    BY <1>2, <2>1, <2>2, <2>3 DEF JobNext
<1>3. ASSUME OperatorNext PROVE EndsAndChecks
  <2>1. CASE \E b \in Run : StartRepromote(b)
    BY <2>1, RunAssumption DEF StartRepromote, TypeOK, JobsOK, Job, Repromote, EndsAndChecks
  <2>2. CASE task' = task
    BY <2>2 DEF EndsAndChecks
  <2> QED
    BY <1>3, <2>1, <2>2
       DEF OperatorNext, UploadZip, Deploy, ReconcileBronze, ReconcileQuarantine,
           TruncateStaging, RebuildBronze, control
<1>4. CASE UNCHANGED vars
  BY <1>4 DEF vars, EndsAndChecks
<1> QED
  BY <1>1, <1>2, <1>3, <1>4 DEF Next

\* Bronze changes in an append and in the delete of a batch no job works on.
LEMMA WhoChangesBronze ==
  ASSUME SteadyRules, [Next]_vars, bronze' # bronze
  PROVE  \/ \E j \in Job : AppendToBronze(j)
         \/ \E b \in Run : ReconcileBronze(b)
<1>1. ~ RebuildBronze
  BY DEF RebuildBronze, SteadyRules
<1>2. ASSUME NEW r \in Run, RunNext(r) PROVE FALSE
  BY <1>2 DEF RunNext, Launch, Repair, RerunGate, Unzip, UnzipFails, IngestDone,
     IngestMicrobatch, Gate, GateDiesAfterAppend, GateRefuses, CheckBadRows, FailOnDq, tables
<1>3. ASSUME NEW j \in Job, JobNext(j) PROVE AppendToBronze(j)
  BY <1>3 DEF JobNext, PlanPromote, AssertConstraints, TaskFails, Reclaim, ReclaimFails, tables
<1>4. ASSUME OperatorNext PROVE \E b \in Run : ReconcileBronze(b)
  BY <1>1, <1>4 DEF OperatorNext, UploadZip, Deploy, StartRepromote, ReconcileQuarantine,
     TruncateStaging, tables
<1>5. CASE UNCHANGED vars
  BY <1>5 DEF vars
<1> QED
  BY <1>2, <1>3, <1>4, <1>5 DEF Next

\* Quarantine changes in the append of a gate.
LEMMA WhoGates ==
  ASSUME SteadyRules, SteadyInv, [Next]_vars, quarantine' # quarantine
  PROVE  \E r \in Run : quarantine' = Appended(quarantine, r, Bad(r, V0)) /\ UNCHANGED staging
<1>1. deployed = V0
  BY DEF SteadyRules, SteadyInv, TypeOK
<1>2. ASSUME NEW r \in Run, RunNext(r)
      PROVE  quarantine' = Appended(quarantine, r, Bad(r, V0)) /\ UNCHANGED staging
  <2>1. CASE Gate(r) \/ GateDiesAfterAppend(r)
    BY <1>1, <2>1 DEF Gate, GateDiesAfterAppend, GateWrites
  <2>2. CASE ~ (Gate(r) \/ GateDiesAfterAppend(r))
    BY <1>2, <2>2 DEF RunNext, Launch, Repair, RerunGate, Unzip, UnzipFails, IngestDone,
       IngestMicrobatch, GateRefuses, CheckBadRows, FailOnDq, tables
  <2> QED
    BY <2>1, <2>2
<1>3. ASSUME NEW j \in Job, JobNext(j) PROVE FALSE
  BY <1>3 DEF JobNext, PlanPromote, AppendToBronze, AssertConstraints, TaskFails, Reclaim,
     ReclaimFails, tables
<1>4. \A b \in Run : ~ ReconcileQuarantine(b)
  BY GateTells DEF ReconcileQuarantine
<1>5. ASSUME OperatorNext PROVE FALSE
  BY <1>4, <1>5 DEF OperatorNext, UploadZip, Deploy, StartRepromote, ReconcileBronze,
     RebuildBronze, TruncateStaging, tables
<1>6. CASE UNCHANGED vars
  BY <1>6 DEF vars
<1> QED
  BY <1>2, <1>3, <1>5, <1>6 DEF Next

\* What the flow's own promote adds.
LEMMA FlowStep ==
  ASSUME SteadyRules, SteadyInv, [Next]_vars, NEW b \in Run, active = b,
         CopiesOf(bronze', b) # CopiesOf(bronze, b)
  PROVE  RecordsOf(bronze', b) = RowsIn(staging[b])
<1> USE DEF SteadyInv
<1>1. ASSUME NEW j \in Job, AppendToBronze(j) PROVE RecordsOf(bronze', b) = RowsIn(staging[b])
  <2>1. /\ task[j] = "append" /\ plan[j] = V0
        /\ j = Repromote \/ active = j
        /\ bronze' = Appended(bronze, BatchOf(j), Good(BatchOf(j), plan[j]))
    BY <1>1 DEF AppendToBronze, Executing, TypeOK, SteadyRules
  <2>2. BatchOf(j) \in Run /\ CopiesOf(bronze, BatchOf(j)) = {}
    BY <2>1, BatchOfJob DEF RecordsOnceInv, AppendsToNothing
  <2>3. BatchOf(j) = b
    <3>1. \A c \in bronze' : c \notin bronze => c.batch = BatchOf(j)
      BY <2>1, AppendsItsOwn
    <3>2. bronze \subseteq bronze'
      BY <2>1 DEF Appended
    <3> QED
      BY <3>1, <3>2 DEF CopiesOf
  <2>4. j = b
    BY <2>1, <2>3, RunAssumption DEF BatchOf, RecordsOnceInv, OneJobPerBatch
  <2>5. RecordsOf(bronze', b) = Good(b, V0)
    BY <2>1, <2>2, <2>3, AppendedRecords
  <2>6. Bad(b, V0) = {}
    BY <2>1, <2>4 DEF Gated
  <2> QED
    BY <2>5, <2>6, Halves
<1>2. ASSUME NEW q \in Run, ReconcileBronze(q) PROVE FALSE
  BY <1>2 DEF ReconcileBronze, Busy, CopiesOf
<1> QED
  BY <1>1, <1>2, WhoChangesBronze DEF CopiesOf

\* Under one build's rules, with bronze never dropped nor staging truncated, the
\* gate and the promote split a batch between the two tables and account for all
\* of it, whatever failed, was repaired, re-run or repromoted on the way: a run
\* that ends green is reconciled, so is a gated batch once its repromote has
\* promoted, the flow itself promotes only a batch its rules accept whole, and a
\* gate that goes on has quarantined what they reject.
THEOREM BatchSplit == ASSUME SteadyRules PROVE Spec => BatchesAreSplit
<1> DEFINE Green    == \A r \in Run : task[r] # "done" /\ task'[r] = "done"
                                        => Verdict(r) = "reconciled"
           Clean    == \A b \in Run : active = b /\ CopiesOf(bronze', b) # CopiesOf(bronze, b)
                                        => RecordsOf(bronze', b) = RowsIn(staging[b])
           Rejected == \A r \in Run : task[r] = "gate" /\ task'[r] = "check"
                                        => RecordsOf(quarantine', r) = Bad(r, deployed)
<1>1. ASSUME SteadyInv, [Next]_vars PROVE Green
  <2> SUFFICES ASSUME NEW r \in Run, task[r] # "done", task'[r] = "done"
               PROVE  Verdict(r) = "reconciled"
    OBVIOUS
  <2>1. task[r] = "reclaim"
    BY <1>1, WhoEndsAndChecks DEF EndsAndChecks, SteadyInv
  <2>2. Bad(r, V0) = RecordsOf(quarantine, r) /\ Good(r, V0) = RecordsOf(bronze, r)
    BY <1>1, <2>1 DEF SteadyInv, Gated
  <2> QED
    BY <1>1, <2>2, BothSidesReconcile
<1>2. SteadyInv => GatedRepromoteReconciles
  <2> SUFFICES ASSUME SteadyInv, task[Repromote] = "reclaim", CopiesOf(quarantine, repromoting) # {}
               PROVE  Verdict(repromoting) = "reconciled"
    BY DEF GatedRepromoteReconciles, Executing
  <2>1. repromoting \in Run
    BY DEF SteadyInv, RecordsOnceInv, OneJobPerBatch
  <2>2. RecordsOf(quarantine, repromoting) # {}
    BY DEF RecordsOf
  <2>3. /\ RecordsOf(bronze, repromoting) = Good(repromoting, V0)
        /\ RecordsOf(quarantine, repromoting) = Bad(repromoting, V0)
    BY <2>1, <2>2 DEF SteadyInv, RepromoteDone, Gated
  <2> QED
    BY <2>1, <2>3, BothSidesReconcile
<1>3. ASSUME SteadyInv, [Next]_vars PROVE Clean
  BY <1>3, FlowStep
<1>4. ASSUME SteadyInv, [Next]_vars PROVE Rejected
  <2> SUFFICES ASSUME NEW r \in Run, task[r] = "gate", task'[r] = "check"
               PROVE  RecordsOf(quarantine', r) = Bad(r, deployed)
    OBVIOUS
  <2>1. GateWrites(r)
    BY <1>4, WhoEndsAndChecks DEF EndsAndChecks, SteadyInv, Gate
  <2>2. deployed = V0
    BY <1>4 DEF SteadyInv, SteadyRules, TypeOK
  <2> QED
    BY <1>4, <2>1, <2>2, GateTells
<1>5. SteadyInv /\ [Next]_vars => [Green]_vars /\ [Clean]_vars /\ [Rejected]_vars
  BY <1>1, <1>3, <1>4
<1> QED
  BY <1>2, <1>5, SteadyFlow, PTL
     DEF Spec, BatchesAreSplit, GreenRunReconciled, FlowPromotesCleanBatches,
         GateQuarantinesItsRejects

-----------------------------------------------------------------------------
(* Each record in one place: the steps of the flow are moves of the ledger.  *)

InTable(table, x) == \E c \in table : c.row = x
InStaging(x) == \E b \in Run : x \in RowsIn(staging[b])

\* Where a record is, before a step and after it.
LEMMA WhereIs ==
  /\ Where = [x \in Row |-> IF InTable(bronze, x) THEN "bronze"
                            ELSE IF InTable(quarantine, x) THEN "quarantine"
                            ELSE IF InStaging(x) THEN "staged" ELSE "unread"]
  /\ Where' = [x \in Row |-> IF InTable(bronze', x) THEN "bronze"
                             ELSE IF InTable(quarantine', x) THEN "quarantine"
                             ELSE IF InStaging(x)' THEN "staged" ELSE "unread"]
BY DEF Where, InTable, InStaging

\* A step in which every record stays or goes the one way moves those that go.
LEMMA OneWay ==
  ASSUME NEW from, NEW to,
         \A x \in Row : Where'[x] = Where[x] \/ (Where[x] = from /\ Where'[x] = to)
  PROVE  \E rows \in SUBSET Row : Ledger!Move(rows, from, to)
<1> DEFINE rows == {x \in Row : Where[x] = from /\ Where'[x] = to}
<1>1. Where' = [x \in Row |-> Where'[x]]
  BY WhereIs
<1>2. \A x \in Row : Where'[x] = IF x \in rows THEN to ELSE Where[x]
  OBVIOUS
<1>3. Where' = [x \in Row |-> IF x \in rows THEN to ELSE Where[x]]
  BY <1>1, <1>2
<1>4. \A x \in rows : Where[x] = from
  OBVIOUS
<1>5. rows \in SUBSET Row
  OBVIOUS
<1> HIDE DEF rows
<1> QED
  BY <1>3, <1>4, <1>5 DEF Ledger!Move

LEMMA LedgerStep ==
  ASSUME SteadyRules, SteadyInv, [Next]_vars
  PROVE  [Ledger!Next]_Where
<1> USE DEF SteadyInv
<1>1. CASE UNCHANGED <<bronze, quarantine>>
  <2>1. \A b \in Run : RowsIn(staging[b]) \subseteq RowsIn(staging'[b])
    BY StagingGrows DEF RowsIn
  <2>2. \A x : InStaging(x) => InStaging(x)'
    BY <2>1 DEF InStaging
  <2>3. \A x \in Row : Where'[x] = Where[x] \/ (Where[x] = "unread" /\ Where'[x] = "staged")
    BY <1>1, <2>2, WhereIs
  <2> QED
    BY <2>3, OneWay DEF Ledger!Next, Ledger!Stage
<1>2. CASE bronze' # bronze
  <2>1. ASSUME NEW j \in Job, AppendToBronze(j) PROVE Ledger!Promote
    <3>1. /\ task[j] = "append" /\ plan[j] = V0 /\ UNCHANGED <<staging, quarantine>>
          /\ bronze' = Appended(bronze, BatchOf(j), Good(BatchOf(j), V0))
      BY <2>1 DEF AppendToBronze, Executing, TypeOK, SteadyRules
    <3>2. BatchOf(j) \in Run
      BY <3>1, BatchOfJob DEF RecordsOnceInv
    <3>3. bronze \subseteq bronze'
      BY <3>1 DEF Appended
    <3>4. \A c \in bronze' : c \notin bronze => c.row \in Good(BatchOf(j), V0)
      BY <3>1, AppendedAreRows
    <3>5. \A x \in Good(BatchOf(j), V0) : InStaging(x) /\ ~ InTable(quarantine, x)
      BY <3>2 DEF Good, InStaging, InTable, SplitByTheRules
    <3>6. \A x : InTable(bronze', x) =>
                   InTable(bronze, x) \/ (InStaging(x) /\ ~ InTable(quarantine, x))
      BY <3>4, <3>5 DEF InTable
    <3>7. \A x : /\ InTable(bronze, x) => InTable(bronze', x)
                 /\ InTable(quarantine', x) = InTable(quarantine, x)
                 /\ InStaging(x)' = InStaging(x)
      BY <3>1, <3>3 DEF InTable, InStaging
    <3>8. \A x \in Row : Where'[x] = Where[x] \/ (Where[x] = "staged" /\ Where'[x] = "bronze")
      BY <3>6, <3>7, WhereIs
    <3> QED
      BY <3>8, OneWay DEF Ledger!Promote
  <2>2. ASSUME NEW b \in Run, ReconcileBronze(b) PROVE Ledger!Withdraw
    <3>1. UNCHANGED <<staging, quarantine>> /\ bronze' \subseteq bronze
      BY <2>2 DEF ReconcileBronze
    <3>2. \A x : InTable(bronze, x) => InStaging(x) /\ ~ InTable(quarantine, x)
      BY DEF InTable, InStaging, Staged, SplitByTheRules, TypeOK, Copy
    <3>3. \A x : /\ InTable(bronze', x) => InTable(bronze, x)
                 /\ InTable(quarantine', x) = InTable(quarantine, x)
                 /\ InStaging(x)' = InStaging(x)
      BY <3>1 DEF InTable, InStaging
    <3>4. \A x \in Row : Where'[x] = Where[x] \/ (Where[x] = "bronze" /\ Where'[x] = "staged")
      BY <3>2, <3>3, WhereIs
    <3> QED
      BY <3>4, OneWay DEF Ledger!Withdraw
  <2> QED
    BY <1>2, <2>1, <2>2, WhoChangesBronze DEF Ledger!Next
<1>3. CASE bronze' = bronze /\ quarantine' # quarantine
  <2>1. PICK r \in Run : quarantine' = Appended(quarantine, r, Bad(r, V0)) /\ UNCHANGED staging
    BY <1>3, WhoGates
  <2>2. quarantine \subseteq quarantine'
    BY <2>1 DEF Appended
  <2>3. \A c \in quarantine' : c \notin quarantine => c.row \in Bad(r, V0)
    BY <2>1, AppendedAreRows
  <2>4. \A x \in Bad(r, V0) : InStaging(x)
    BY DEF Bad, InStaging
  <2>5. \A x : InTable(quarantine', x) => InTable(quarantine, x) \/ InStaging(x)
    BY <2>3, <2>4 DEF InTable
  <2>6. \A x : /\ InTable(quarantine, x) => InTable(quarantine', x)
               /\ InTable(bronze', x) = InTable(bronze, x)
               /\ InStaging(x)' = InStaging(x)
    BY <1>3, <2>1, <2>2 DEF InTable, InStaging
  <2>7. \A x \in Row : Where'[x] = Where[x] \/ (Where[x] = "staged" /\ Where'[x] = "quarantine")
    BY <2>5, <2>6, WhereIs
  <2> QED
    BY <2>7, OneWay DEF Ledger!Next, Ledger!Reject
<1> QED
  BY <1>1, <1>2, <1>3

\* The flow keeps the ledger: while one build's rules are in force and nobody drops
\* bronze or truncates staging, each record is unread, staged, in bronze or in
\* quarantine, only a staged one is promoted or rejected, and none goes from one
\* table to the other but by the operator's delete and a new promote.
THEOREM OneTableAnswers == ASSUME SteadyRules PROVE Spec => EachRecordInOnePlace
<1>1. Init => Ledger!Init
  <2> SUFFICES ASSUME Init PROVE Where = [x \in Row |-> "unread"]
    BY DEF Ledger!Init
  <2>1. \A x : ~ InTable(bronze, x) /\ ~ InTable(quarantine, x) /\ ~ InStaging(x)
    BY DEF Init, InTable, InStaging, RowsIn
  <2> QED
    BY <2>1, WhereIs
<1>2. SteadyInv /\ [Next]_vars => [Ledger!Next]_Where
  BY LedgerStep
<1> QED
  BY <1>1, <1>2, SteadyFlow, PTL DEF Spec, EachRecordInOnePlace, Ledger!Spec

-----------------------------------------------------------------------------
(* DqRules: the rules a batch is read with.                                *)

\* What can be staged under the contract of the frame.
StagedRow ==
  [cells : [Columns -> Flaw \cup {"good"}], dated : BOOLEAN, rescued : BOOLEAN]

FrameTyped == frame \in [contract : DOMAIN ColumnsOf, refDated : BOOLEAN, rescues : BOOLEAN]

Rejected == {p \in DOMAIN batch : RejectReason(batch[p]) # {}}

DqInv ==
  /\ FrameTyped
  /\ batch \in Seq(StagedRow)
  /\ \A s \in split : s.good = (DOMAIN batch) \ Rejected /\ s.bad = Rejected

\* Of some places there is a first.
LEMMA LeastPlace ==
  ASSUME NEW S \in SUBSET Nat, S # {}
  PROVE  \E x \in S : \A y \in S : x <= y
<1> DEFINE Before == {ss \in Nat \X Nat : ss[1] < ss[2]}
<1>1. IsWellFoundedOn(Before, Nat)
  BY NatLessThanWellFounded, Zenon DEF OpToRel
<1>2. PICK x \in S : \A y \in S : ~ (<<y, x>> \in Before)
  BY <1>1, WFMin
<1>3. \A y \in S : x \in Nat /\ y \in Nat /\ (y < x => <<y, x>> \in Before)
  OBVIOUS
<1>4. ASSUME NEW y \in S PROVE x <= y
  <2>1. ~ (y < x) /\ x \in Nat /\ y \in Nat
    BY <1>2, <1>3
  <2> QED
    BY <2>1
<1> QED
  BY <1>4

LEMMA Single ==
  ASSUME NEW U, NEW x \in U
  PROVE  /\ <<x>> \in Seq(U) /\ ToSet(<<x>>) = {x}
         /\ <<>> \in Seq(U) /\ ToSet(<<>>) = {}
<1>1. <<x>> \in Seq(U) /\ <<>> \in Seq(U) /\ DOMAIN <<x>> = {1} /\ <<x>>[1] = x
  OBVIOUS
<1> QED
  BY <1>1 DEF ToSet

LEMMA Together ==
  ASSUME NEW U, NEW s \in Seq(U), NEW t \in Seq(U)
  PROVE  s \o t \in Seq(U) /\ ToSet(s \o t) = ToSet(s) \cup ToSet(t)
<1>1. /\ s \o t \in Seq(U) /\ DOMAIN s = 1..Len(s) /\ DOMAIN t = 1..Len(t)
      /\ DOMAIN (s \o t) = 1..(Len(s) + Len(t)) /\ Len(s) \in Nat /\ Len(t) \in Nat
  OBVIOUS
<1>2. \A i \in DOMAIN (s \o t) : (s \o t)[i] = IF i <= Len(s) THEN s[i] ELSE t[i - Len(s)]
  OBVIOUS
<1> DEFINE st == s \o t
<1> HIDE DEF st
<1>3. ASSUME NEW i \in DOMAIN st PROVE st[i] \in ToSet(s) \cup ToSet(t)
  <2>1. CASE i <= Len(s)
    BY <1>1, <1>2, <2>1 DEF ToSet, st
  <2>2. CASE ~ (i <= Len(s))
    <3>1. i - Len(s) \in DOMAIN t /\ st[i] = t[i - Len(s)]
      BY <1>1, <1>2, <2>2 DEF st
    <3> QED
      BY <3>1 DEF ToSet
  <2> QED
    BY <2>1, <2>2
<1>4. ASSUME NEW i \in DOMAIN s PROVE s[i] \in ToSet(st)
  <2>1. i \in DOMAIN st /\ st[i] = s[i]
    BY <1>1, <1>2 DEF st
  <2> QED
    BY <2>1 DEF ToSet
<1>5. ASSUME NEW i \in DOMAIN t PROVE t[i] \in ToSet(st)
  <2>1. i + Len(s) \in DOMAIN st /\ st[i + Len(s)] = t[i]
    BY <1>1, <1>2 DEF st
  <2> QED
    BY <2>1 DEF ToSet
<1>6. ToSet(st) \subseteq ToSet(s) \cup ToSet(t)
  BY <1>3 DEF ToSet
<1>7. ToSet(s) \cup ToSet(t) \subseteq ToSet(st)
  BY <1>4, <1>5 DEF ToSet
<1> QED
  BY <1>1, <1>6, <1>7 DEF st

\* The rules of a contract, whatever their order.
Ruled(c) ==
  {<<"required", x>> : x \in ToSet(RequiredOf[c])} \cup ToSet(ShapesOf[c]) \cup {<<"encoding", "*">>}
    \cup (IF c \in Divergence THEN {<<"divergence", "*">>} ELSE {})
    \cup (IF c \in RefDated THEN {<<"ref date", "*">>} ELSE {})

LEMMA RulesAre ==
  ASSUME NEW c \in DOMAIN ColumnsOf
  PROVE  /\ \E n \in Nat : DOMAIN RulesFor[c] = 1..n
         /\ {RulesFor[c][i] : i \in DOMAIN RulesFor[c]} = Ruled(c)
<1> DEFINE U == (Shape \cup {"required", "encoding", "divergence", "ref date"})
                  \X (ColumnsOf[c] \cup {"*"})
           A == Each("required", RequiredOf[c])
           B == ShapesOf[c]
           C == <<<<"encoding", "*">>>>
           D == When(Divergence, c, <<"divergence", "*">>)
           E == When(RefDated, c, <<"ref date", "*">>)
<1>1. RequiredOf[c] \in Seq(ColumnsOf[c]) /\ B \in Seq(Shape \X ColumnsOf[c])
  BY DqAssumption
<1>2. A \in Seq(U) /\ ToSet(A) = {<<"required", x>> : x \in ToSet(RequiredOf[c])}
  <2>1. /\ DOMAIN RequiredOf[c] = 1..Len(RequiredOf[c]) /\ Len(RequiredOf[c]) \in Nat
        /\ \A i \in 1..Len(RequiredOf[c]) : RequiredOf[c][i] \in ColumnsOf[c]
    BY <1>1
  <2>2. A = [i \in 1..Len(RequiredOf[c]) |-> <<"required", RequiredOf[c][i]>>]
    BY <2>1 DEF Each
  <2>3. \A i \in 1..Len(RequiredOf[c]) : A[i] = <<"required", RequiredOf[c][i]>> /\ A[i] \in U
    <3>1. \A x \in ColumnsOf[c] : <<"required", x>> \in U
      OBVIOUS
    <3> HIDE DEF U
    <3> QED
      BY <2>1, <2>2, <3>1
  <2> HIDE DEF U
  <2>4. A \in Seq(U)
    BY <2>1, <2>2, <2>3
  <2>5. ToSet(A) = {<<"required", x>> : x \in ToSet(RequiredOf[c])}
    BY <2>1, <2>2 DEF ToSet
  <2> QED
    BY <2>4, <2>5
<1>3. B \in Seq(U)
  <2>1. \A x \in Shape \X ColumnsOf[c] : x \in U
    OBVIOUS
  <2>2. DOMAIN B = 1..Len(B) /\ Len(B) \in Nat /\ \A i \in 1..Len(B) : B[i] \in U
    <3>1. DOMAIN B = 1..Len(B) /\ Len(B) \in Nat /\ \A i \in 1..Len(B) : B[i] \in Shape \X ColumnsOf[c]
      BY <1>1
    <3> HIDE DEF U, B
    <3> QED
      BY <2>1, <3>1
  <2>3. B = [i \in 1..Len(B) |-> B[i]]
    BY <1>1
  <2> HIDE DEF U
  <2> QED
    BY <2>2, <2>3
<1>4. C \in Seq(U) /\ ToSet(C) = {<<"encoding", "*">>}
  <2>1. <<"encoding", "*">> \in U
    OBVIOUS
  <2> QED
    BY <2>1, Single
<1>5. D \in Seq(U) /\ ToSet(D) = IF c \in Divergence THEN {<<"divergence", "*">>} ELSE {}
  <2>1. <<"divergence", "*">> \in U
    OBVIOUS
  <2> HIDE DEF U
  <2> QED
    BY <2>1, Single DEF When
<1>6. E \in Seq(U) /\ ToSet(E) = IF c \in RefDated THEN {<<"ref date", "*">>} ELSE {}
  <2>1. <<"ref date", "*">> \in U
    OBVIOUS
  <2> HIDE DEF U
  <2> QED
    BY <2>1, Single DEF When
<1> DEFINE AB == A \o B
           ABC == AB \o C
           ABCD == ABC \o D
           ABCDE == ABCD \o E
<1>7. RulesFor[c] = ABCDE
  BY DEF RulesFor
<1> HIDE DEF A, B, C, D, E, U
<1>8. AB \in Seq(U) /\ ToSet(AB) = ToSet(A) \cup ToSet(B)
  BY <1>2, <1>3, Together
<1> HIDE DEF AB
<1>9. ABC \in Seq(U) /\ ToSet(ABC) = ToSet(AB) \cup ToSet(C)
  BY <1>4, <1>8, Together
<1> HIDE DEF ABC
<1>10. ABCD \in Seq(U) /\ ToSet(ABCD) = ToSet(ABC) \cup ToSet(D)
  BY <1>5, <1>9, Together
<1> HIDE DEF ABCD
<1>11. ABCDE \in Seq(U) /\ ToSet(ABCDE) = ToSet(ABCD) \cup ToSet(E)
  <2>1. E \in Seq(U) /\ ABCD \in Seq(U)
    BY <1>6, <1>10
  <2> QED
    BY <2>1, Together
<1> HIDE DEF ABCDE
<1>12. ToSet(ABCDE) = Ruled(c)
  BY <1>2, <1>4, <1>5, <1>6, <1>8, <1>9, <1>10, <1>11 DEF Ruled, B
<1>13. DOMAIN ABCDE = 1..Len(ABCDE) /\ Len(ABCDE) \in Nat
  BY <1>11
<1> QED
  BY <1>7, <1>12, <1>13 DEF ToSet

-----------------------------------------------------------------------------
(* What a rule answers.                                                    *)

LEMMA CellAnswers ==
  ASSUME NEW cell \in Flaw \cup {"good"}
  PROVE  /\ NullOrBlank(cell) = "T" <=> cell \in {"null", "blank"}
         /\ \A shape \in Shape :
              Misshapen(shape, cell) = "T" <=>
                /\ cell \notin WellShaped(shape)
                /\ cell = "null" => shape \in {"iso date", "decimal", "publication"}
<1> USE DEF Is, Of, Either, Flaw
<1>1. NullOrBlank(cell) = "T" <=> cell \in {"null", "blank"}
  BY DEF NullOrBlank
<1>2. BasicoLength(cell) = "T" <=> cell \in {"blank", "misfit"}
  BY DEF BasicoLength
<1>3. BadIsoDate(cell) = "T" <=> cell # "good"
  BY DEF BadIsoDate
<1>4. UnparseableDecimal(cell) = "T" <=> cell # "good"
  BY DEF UnparseableDecimal
<1>5. UnparseablePublicationInstant(cell) = "T" <=> cell # "good"
  BY DEF UnparseablePublicationInstant
<1>6. BadCnpj(cell) = "T" <=> cell \notin {"good", "null"}
  BY DEF BadCnpj
<1>7. BadSnapshotInstant(cell) = "T" <=> cell \notin {"good", "null"}
  BY DEF BadSnapshotInstant
<1> QED
  BY <1>1, <1>2, <1>3, <1>4, <1>5, <1>6, <1>7 DEF Misshapen, Shape, WellShaped

LEMMA ColumnAnswers ==
  ASSUME NEW row \in StagedRow, NEW flaw \in Flaw \ {"null"}
  PROVE  AnyColumn(row, flaw) = "T" <=> \E c \in Columns : row.cells[c] = flaw
<1>1. AnyColumn(row, flaw) = "T"
        <=> \E c \in Columns : Of(row.cells[c], row.cells[c] = flaw) = "T"
  BY DEF AnyColumn, Either
<1>2. \A c \in Columns : Of(row.cells[c], row.cells[c] = flaw) = "T" <=> row.cells[c] = flaw
  BY DEF Of, Is
<1> QED
  BY <1>1, <1>2

\* The rules that run on a row and reject it.
Matching(row) == {i \in Rules : Condition(Rule(i), row) = "T"}

LEMMA ReasonIs ==
  ASSUME FrameTyped, NEW row
  PROVE  /\ Rules \subseteq Nat \ {0}
         /\ RejectReason(row) = IF RescuedCondition(row) = "T" THEN {0}
                                ELSE {i \in Matching(row) : \A j \in Matching(row) : i <= j}
         /\ RejectReason(row) = {} <=> RescuedCondition(row) # "T" /\ Matching(row) = {}
<1>1. Rules \subseteq Nat \ {0}
  <2>1. frame.contract \in DOMAIN ColumnsOf
    BY DEF FrameTyped
  <2>2. PICK n \in Nat : DOMAIN RulesFor[frame.contract] = 1..n
    BY <2>1, RulesAre
  <2> QED
    BY <2>2 DEF Rules
<1>2. RejectReason(row) = IF RescuedCondition(row) = "T" THEN {0}
                          ELSE {i \in Matching(row) : \A j \in Matching(row) : i <= j}
  BY DEF RejectReason, Matching
<1>3. Matching(row) # {} => {i \in Matching(row) : \A j \in Matching(row) : i <= j} # {}
  <2>1. Matching(row) \in SUBSET Nat
    BY <1>1 DEF Matching
  <2> QED
    BY <2>1, LeastPlace
<1> QED
  BY <1>1, <1>2, <1>3

\* The gate rejects a row for the reasons that make it unsound, and no others: the
\* columns whose rule answers NULL of a NULL are required, and so rejected for that.
LEMMA MatchingIs ==
  ASSUME FrameTyped, NEW row \in StagedRow
  PROVE  Sound(row) <=> RejectReason(row) = {}
<1> DEFINE c == frame.contract
           Cell(x) == row.cells[x]
           Runs(rule) == rule \in Ruled(c) /\ ~ Skipped(rule)
           Says(rule) == Runs(rule) /\ Condition(rule, row) = "T"
<1>1. c \in DOMAIN ColumnsOf /\ Columns = ColumnsOf[c] /\ frame.refDated \in BOOLEAN
      /\ frame.rescues \in BOOLEAN
  BY DEF FrameTyped, Columns
<1>2. /\ \A x \in Columns : Cell(x) \in Flaw \cup {"good"}
      /\ row.dated \in BOOLEAN /\ row.rescued \in BOOLEAN
  BY DEF StagedRow
<1>3. Matching(row) # {} <=> \E rule \in Ruled(c) : Says(rule)
  <2>1. {RulesFor[c][i] : i \in DOMAIN RulesFor[c]} = Ruled(c)
    BY <1>1, RulesAre
  <2>2. Matching(row) # {} <=> \E i \in DOMAIN RulesFor[c] :
          ~ Skipped(RulesFor[c][i]) /\ Condition(RulesFor[c][i], row) = "T"
    BY DEF Matching, Rules, Rule
  <2> QED
    BY <2>1, <2>2
<1>4. RescuedCondition(row) = "T" <=> frame.rescues /\ row.rescued
  BY DEF RescuedCondition, Is
<1>5. RejectReason(row) = {} <=> ~ (frame.rescues /\ row.rescued) /\ ~ \E rule \in Ruled(c) : Says(rule)
  BY <1>3, <1>4, ReasonIs
<1>6. RequiredOf[c] \in Seq(Columns) /\ ShapesOf[c] \in Seq(Shape \X Columns)
      /\ \A s \in ToSet(ShapesOf[c]) :
           s[1] \in {"basico", "cnpj", "instant"} => s[2] \in ToSet(RequiredOf[c])
  BY <1>1, DqAssumption
<1>7. ToSet(RequiredOf[c]) \subseteq Columns /\ ToSet(ShapesOf[c]) \subseteq Shape \X Columns
  BY <1>6 DEF ToSet
\* Kind by kind.
<1>8. ASSUME NEW x \in ToSet(RequiredOf[c])
      PROVE  Says(<<"required", x>>) <=> Cell(x) \in {"null", "blank"}
  <2>1. <<"required", x>> \in Ruled(c) /\ ~ Skipped(<<"required", x>>)
    BY DEF Ruled, Skipped
  <2>2. Condition(<<"required", x>>, row) = NullOrBlank(Cell(x))
    BY DEF Condition
  <2>3. Cell(x) \in Flaw \cup {"good"}
    BY <1>2, <1>7
  <2> QED
    BY <2>1, <2>2, <2>3, CellAnswers
<1>9. ASSUME NEW s \in ToSet(ShapesOf[c])
      PROVE  Says(s) <=> /\ Cell(s[2]) \notin WellShaped(s[1])
                         /\ Cell(s[2]) = "null" => s[1] \in {"iso date", "decimal", "publication"}
  <2>1. s[1] \in Shape /\ s[2] \in Columns
    BY <1>7
  <2>2. s \in Ruled(c) /\ ~ Skipped(s)
    BY <2>1 DEF Ruled, Skipped, Shape
  <2>3. Condition(s, row) = Misshapen(s[1], Cell(s[2]))
    BY <2>1 DEF Condition, Shape
  <2>4. Cell(s[2]) \in Flaw \cup {"good"}
    BY <1>2, <2>1
  <2>5. Misshapen(s[1], Cell(s[2])) = "T" <=>
          /\ Cell(s[2]) \notin WellShaped(s[1])
          /\ Cell(s[2]) = "null" => s[1] \in {"iso date", "decimal", "publication"}
    BY <2>1, <2>4, CellAnswers
  <2> QED
    BY <2>2, <2>3, <2>5
<1>10. Says(<<"encoding", "*">>) <=> \E x \in Columns : Cell(x) = "lost"
  <2>1. <<"encoding", "*">> \in Ruled(c) /\ ~ Skipped(<<"encoding", "*">>)
    BY DEF Ruled, Skipped
  <2>2. Condition(<<"encoding", "*">>, row) = AnyColumn(row, "lost")
    BY DEF Condition, EncodingCheck
  <2>3. "lost" \in Flaw \ {"null"}
    BY DEF Flaw
  <2> QED
    BY <2>1, <2>2, <2>3, ColumnAnswers
<1>11. ASSUME c \in Divergence
       PROVE  Says(<<"divergence", "*">>) <=> \E x \in Columns : Cell(x) = "divergent"
  <2>1. <<"divergence", "*">> \in Ruled(c) /\ ~ Skipped(<<"divergence", "*">>)
    BY <1>11 DEF Ruled, Skipped
  <2>2. Condition(<<"divergence", "*">>, row) = AnyColumn(row, "divergent")
    BY DEF Condition, CaseDivergenceCheck
  <2>3. "divergent" \in Flaw \ {"null"}
    BY DEF Flaw
  <2> QED
    BY <2>1, <2>2, <2>3, ColumnAnswers
<1>12. ASSUME c \in RefDated
       PROVE  Says(<<"ref date", "*">>) <=> frame.refDated /\ ~ row.dated
  <2>1. <<"ref date", "*">> \in Ruled(c) /\ (Skipped(<<"ref date", "*">>) <=> ~ frame.refDated)
    BY <1>12 DEF Ruled, Skipped
  <2>2. Condition(<<"ref date", "*">>, row) = UnprovableRefDate(row)
    BY DEF Condition
  <2>3. UnprovableRefDate(row) = "T" <=> ~ row.dated
    BY DEF UnprovableRefDate, Is
  <2> QED
    BY <2>1, <2>2, <2>3
<1>13. (\E rule \in Ruled(c) : Says(rule)) <=>
         \/ \E x \in ToSet(RequiredOf[c]) : Says(<<"required", x>>)
         \/ \E s \in ToSet(ShapesOf[c]) : Says(s)
         \/ Says(<<"encoding", "*">>)
         \/ c \in Divergence /\ Says(<<"divergence", "*">>)
         \/ c \in RefDated /\ Says(<<"ref date", "*">>)
  <2> HIDE DEF Says
  <2>1. \A rule : rule \in Ruled(c) <=>
          \/ \E x \in ToSet(RequiredOf[c]) : rule = <<"required", x>>
          \/ rule \in ToSet(ShapesOf[c])
          \/ rule = <<"encoding", "*">>
          \/ c \in Divergence /\ rule = <<"divergence", "*">>
          \/ c \in RefDated /\ rule = <<"ref date", "*">>
    BY DEF Ruled
  <2> DEFINE Of5 ==
         \/ \E x \in ToSet(RequiredOf[c]) : Says(<<"required", x>>)
         \/ \E s \in ToSet(ShapesOf[c]) : Says(s)
         \/ Says(<<"encoding", "*">>)
         \/ c \in Divergence /\ Says(<<"divergence", "*">>)
         \/ c \in RefDated /\ Says(<<"ref date", "*">>)
  <2>2. ASSUME NEW rule \in Ruled(c), Says(rule) PROVE Of5
    <3>1. CASE \E x \in ToSet(RequiredOf[c]) : rule = <<"required", x>>
      BY <2>2, <3>1
    <3>2. CASE rule \in ToSet(ShapesOf[c])
      BY <2>2, <3>2
    <3>3. CASE rule = <<"encoding", "*">>
      BY <2>2, <3>3
    <3>4. CASE c \in Divergence /\ rule = <<"divergence", "*">>
      BY <2>2, <3>4
    <3>5. CASE c \in RefDated /\ rule = <<"ref date", "*">>
      BY <2>2, <3>5
    <3> QED
      BY <2>1, <3>1, <3>2, <3>3, <3>4, <3>5
  <2>3. ASSUME Of5 PROVE \E rule \in Ruled(c) : Says(rule)
    <3>1. CASE \E x \in ToSet(RequiredOf[c]) : Says(<<"required", x>>)
      BY <2>1, <3>1
    <3>2. CASE \E s \in ToSet(ShapesOf[c]) : Says(s)
      BY <2>1, <3>2
    <3>3. CASE Says(<<"encoding", "*">>)
      BY <2>1, <3>3
    <3>4. CASE c \in Divergence /\ Says(<<"divergence", "*">>)
      BY <2>1, <3>4
    <3>5. CASE c \in RefDated /\ Says(<<"ref date", "*">>)
      BY <2>1, <3>5
    <3> QED
      BY <2>3, <3>1, <3>2, <3>3, <3>4, <3>5
  <2> QED
    BY <2>2, <2>3
<1>14. Sound(row) <=>
         /\ \A x \in ToSet(RequiredOf[c]) : Cell(x) \notin {"null", "blank"}
         /\ \A x \in Columns : Cell(x) # "lost"
         /\ c \in Divergence => \A x \in Columns : Cell(x) # "divergent"
         /\ \A s \in ToSet(ShapesOf[c]) : Cell(s[2]) \in WellShaped(s[1])
         /\ ~ (frame.rescues /\ row.rescued)
         /\ ~ (c \in RefDated /\ frame.refDated /\ ~ row.dated)
  BY <1>1, <1>2 DEF Sound
\* A NULL of a column whose shape says nothing of it is a missing value.
<1>15. ASSUME NEW s \in ToSet(ShapesOf[c]), Cell(s[2]) = "null",
              s[1] \notin {"iso date", "decimal", "publication"}
       PROVE  \E x \in ToSet(RequiredOf[c]) : Cell(x) \in {"null", "blank"}
  <2>1. s[1] \in {"basico", "cnpj", "instant"}
    BY <1>7, <1>15 DEF Shape
  <2>2. s[2] \in ToSet(RequiredOf[c])
    BY <1>6, <2>1
  <2> QED
    BY <1>15, <2>2
<1> HIDE DEF Says, Cell, c
<1>16. (\E rule \in Ruled(c) : Says(rule)) <=>
         \/ \E x \in ToSet(RequiredOf[c]) : Cell(x) \in {"null", "blank"}
         \/ \E s \in ToSet(ShapesOf[c]) : Cell(s[2]) \notin WellShaped(s[1])
         \/ \E x \in Columns : Cell(x) = "lost"
         \/ c \in Divergence /\ \E x \in Columns : Cell(x) = "divergent"
         \/ c \in RefDated /\ frame.refDated /\ ~ row.dated
  <2>1. (\E x \in ToSet(RequiredOf[c]) : Says(<<"required", x>>))
          <=> \E x \in ToSet(RequiredOf[c]) : Cell(x) \in {"null", "blank"}
    BY <1>8
  <2>2. (\E s \in ToSet(ShapesOf[c]) : Says(s))
          => \E s \in ToSet(ShapesOf[c]) : Cell(s[2]) \notin WellShaped(s[1])
    BY <1>9
  <2>3. (\E s \in ToSet(ShapesOf[c]) : Cell(s[2]) \notin WellShaped(s[1]))
          => \/ \E s \in ToSet(ShapesOf[c]) : Says(s)
             \/ \E x \in ToSet(RequiredOf[c]) : Cell(x) \in {"null", "blank"}
    BY <1>9, <1>15
  <2> QED
    BY <1>10, <1>11, <1>12, <1>13, <2>1, <2>2, <2>3
<1> QED
  BY <1>5, <1>14, <1>16

-----------------------------------------------------------------------------
(* The gate.                                                               *)

LEMMA WornAreStaged ==
  ASSUME FrameTyped, NEW n
  PROVE  WornBy(n) \subseteq StagedRow
<1>1. ASSUME NEW S \in SUBSET Columns PROVE WornIn(S) \subseteq [Columns -> Flaw \cup {"good"}]
  BY DEF WornIn
<1>2. UNION {WornIn(S) : S \in {T \in SUBSET Columns : Cardinality(T) <= n}}
        \subseteq [Columns -> Flaw \cup {"good"}]
  BY <1>1
<1>3. \A row \in WornBy(n) : \E cells \in [Columns -> Flaw \cup {"good"}], dated \in BOOLEAN, rescued \in BOOLEAN :
        row = [cells |-> cells, dated |-> dated, rescued |-> rescued]
  BY <1>2 DEF WornBy
<1> QED
  BY <1>3 DEF StagedRow

LEMMA GateInit == DqInit => DqInv
<1> SUFFICES ASSUME DqInit PROVE DqInv
  OBVIOUS
<1>1. frame \in [contract : DOMAIN ColumnsOf, refDated : BOOLEAN, rescues : BOOLEAN]
      /\ batch = <<>> /\ split = {}
  BY DEF DqInit
<1> QED
  BY <1>1 DEF DqInv, FrameTyped

\* What is rejected is told by the frame and the batch alone.
LEMMA RejectedStays ==
  ASSUME frame' = frame, batch' = batch
  PROVE  StagedRow' = StagedRow /\ FrameTyped' = FrameTyped /\ Rejected' = Rejected
<1>1. Columns' = Columns
  BY DEF Columns
<1>2. Rules' = Rules
  BY DEF Rules, Rule, Skipped
<1>3. ASSUME NEW p \in DOMAIN batch
      PROVE  (RejectReason(batch[p]) # {})' <=> RejectReason(batch[p]) # {}
  BY <1>1, <1>2 DEF RejectReason, RescuedCondition, Rule, Condition, EncodingCheck,
      CaseDivergenceCheck, AnyColumn, UnprovableRefDate, Misshapen, NullOrBlank, BasicoLength,
      BadIsoDate, UnparseableDecimal, UnparseablePublicationInstant, BadCnpj, BadSnapshotInstant,
      Either, Of, Is
<1>4. Rejected' = Rejected
  BY <1>3 DEF Rejected
<1>5. StagedRow' = StagedRow
  BY <1>1 DEF StagedRow
<1>6. FrameTyped' = FrameTyped
  BY DEF FrameTyped
<1> QED
  BY <1>4, <1>5, <1>6

LEMMA GateStep == DqInv /\ [DqNext]_dqVars => DqInv'
<1> SUFFICES ASSUME DqInv, [DqNext]_dqVars PROVE DqInv'
  OBVIOUS
<1>1. CASE Stage
  <2>1. PICK row \in WornBy(Wear[Len(batch) + 1]) : batch' = Append(batch, row)
    BY <1>1 DEF Stage
  <2>2. split' = {} /\ frame' = frame
    BY <1>1 DEF Stage
  <2>3. row \in StagedRow /\ batch \in Seq(StagedRow)
    BY WornAreStaged DEF DqInv
  <2>4. batch' \in Seq(StagedRow)
    BY <2>1, <2>3
  <2>5. StagedRow' = StagedRow /\ FrameTyped'
    BY <2>2 DEF StagedRow, Columns, DqInv, FrameTyped
  <2> QED
    BY <2>2, <2>4, <2>5 DEF DqInv
<1>2. CASE Split
  <2>1. frame' = frame /\ batch' = batch
    BY <1>2 DEF Split
  <2>2. split' = {[good |-> (DOMAIN batch) \ Rejected, bad |-> Rejected]}
    BY <1>2 DEF Split, Rejected
  <2>3. StagedRow' = StagedRow /\ FrameTyped' /\ Rejected' = Rejected
    BY <2>1, RejectedStays DEF DqInv
  <2> QED
    BY <2>1, <2>2, <2>3 DEF DqInv
<1>3. CASE UNCHANGED dqVars
  <2>1. frame' = frame /\ batch' = batch /\ split' = split
    BY <1>3 DEF dqVars
  <2>2. StagedRow' = StagedRow /\ FrameTyped' /\ Rejected' = Rejected
    BY <2>1, RejectedStays DEF DqInv
  <2> QED
    BY <2>1, <2>2 DEF DqInv
<1> QED
  BY <1>1, <1>2, <1>3 DEF DqNext

\* For every contract, rule set in its order, frame and staged rows: the gate
\* promotes the rows that are sound and quarantines the others, whatever columns
\* are NULL (bronze/dq.py: _reject_reason, split; bronze/rule_predicates.py).
THEOREM PromotesTheSound == DqSpec => []GatePromotesTheSound
<1>1. DqInv => GatePromotesTheSound
  <2> SUFFICES ASSUME DqInv, NEW s \in split, NEW p \in DOMAIN batch
               PROVE  p \in s.good <=> Sound(batch[p])
    BY DEF GatePromotesTheSound
  <2>1. batch[p] \in StagedRow
    BY DEF DqInv
  <2>2. Sound(batch[p]) <=> RejectReason(batch[p]) = {}
    BY <2>1, MatchingIs DEF DqInv
  <2>3. s.good = (DOMAIN batch) \ Rejected
    BY DEF DqInv
  <2> QED
    BY <2>2, <2>3 DEF Rejected
<1> QED
  BY <1>1, GateInit, GateStep, PTL DEF DqSpec

-----------------------------------------------------------------------------
(* What the measurement counts.                                            *)

RescuedRows == {p \in DOMAIN batch : RescuedCondition(batch[p]) = "T"}
Matched(i)  == {p \in DOMAIN batch : i \in Matching(batch[p])}
Twice       == {p \in DOMAIN batch : Cardinality(Matching(batch[p])) >= 2}
RescuedToo  == {p \in RescuedRows : Matching(batch[p]) # {}}

LEMMA OverlapIs ==
  /\ Overlap.rescued = Cardinality(RescuedRows)
  /\ Overlap.twoOrMore = Cardinality(Twice)
  /\ Overlap.rescuedAndARule = Cardinality(RescuedToo)
  /\ DOMAIN Overlap.perRule = Rules
  /\ \A i \in Rules : Overlap.perRule[i] = Cardinality(Matched(i))
<1> DEFINE matches == [p \in DOMAIN batch |-> {i \in Rules : Hits(Condition(Rule(i), batch[p]))}]
           rescued == {p \in DOMAIN batch : Hits(RescuedCondition(batch[p]))}
<1>1. \A p \in DOMAIN batch : matches[p] = Matching(batch[p])
  BY DEF Matching, Hits
<1>2. rescued = RescuedRows
  BY DEF RescuedRows, Hits
<1>3. Overlap = [rescued |-> Cardinality(rescued),
                 twoOrMore |-> Cardinality({p \in DOMAIN batch : Cardinality(matches[p]) >= 2}),
                 rescuedAndARule |-> Cardinality({p \in rescued : matches[p] # {}}),
                 perRule |-> [i \in Rules |-> Cardinality({p \in DOMAIN batch : i \in matches[p]})]]
  BY DEF Overlap
<1> HIDE DEF matches, rescued
<1>4. {p \in DOMAIN batch : Cardinality(matches[p]) >= 2} = Twice
  BY <1>1 DEF Twice
<1>5. {p \in rescued : matches[p] # {}} = RescuedToo
  BY <1>1, <1>2 DEF RescuedToo, RescuedRows
<1>6. \A i : {p \in DOMAIN batch : i \in matches[p]} = Matched(i)
  BY <1>1 DEF Matched
<1> QED
  BY <1>2, <1>3, <1>4, <1>5, <1>6

\* How the reasons reported relate to the rules that match.
LEMMA ReasonsAndRules ==
  ASSUME DqInv
  PROVE  LET Told(i) == {p \in Rejected : i \in RejectReason(batch[p])}
         IN /\ Told(0) = RescuedRows
            /\ \A i \in Rules : Told(i) \subseteq Matched(i)
            /\ (\A i \in Rules : Told(i) = Matched(i)) <=> Twice = {} /\ RescuedToo = {}
<1> DEFINE Told(i) == {p \in Rejected : i \in RejectReason(batch[p])}
<1>1. /\ Rules \subseteq Nat \ {0}
      /\ \A row : RejectReason(row) = IF RescuedCondition(row) = "T" THEN {0}
                     ELSE {i \in Matching(row) : \A j \in Matching(row) : i <= j}
  BY ReasonIs DEF DqInv
<1>2. \A row : Matching(row) \subseteq Rules
  BY DEF Matching
<1>3. \A i : Told(i) = {p \in DOMAIN batch : i \in RejectReason(batch[p])}
  BY DEF Rejected
<1> HIDE DEF Told
<1>4. Told(0) = RescuedRows
  BY <1>1, <1>2, <1>3 DEF RescuedRows
<1>5. ASSUME NEW i \in Rules
      PROVE  Told(i) = {p \in DOMAIN batch : /\ RescuedCondition(batch[p]) # "T" /\ i \in Matching(batch[p])
                                             /\ \A j \in Matching(batch[p]) : i <= j}
  <2>1. i # 0
    BY <1>1
  <2> QED
    BY <1>1, <1>3, <2>1
<1>6. \A i \in Rules : Told(i) \subseteq Matched(i)
  BY <1>5 DEF Matched
<1>7. ASSUME \A i \in Rules : Told(i) = Matched(i) PROVE Twice = {} /\ RescuedToo = {}
  <2>1. ASSUME NEW p \in DOMAIN batch, NEW i \in Matching(batch[p]), NEW j \in Matching(batch[p])
        PROVE  i = j
    <3>1. i \in Rules /\ j \in Rules /\ p \in Matched(i) /\ p \in Matched(j)
      BY <1>2 DEF Matched
    <3>2. p \in Told(i) /\ p \in Told(j)
      BY <1>7, <3>1
    <3>3. i <= j /\ j <= i /\ i \in Nat /\ j \in Nat
      BY <1>1, <1>5, <3>1, <3>2
    <3> QED
      BY <3>3
  <2>2. ASSUME NEW p \in Twice PROVE FALSE
    <3>1. p \in DOMAIN batch /\ Cardinality(Matching(batch[p])) >= 2
      BY DEF Twice
    <3>2. CASE Matching(batch[p]) = {}
      BY <3>1, <3>2, FS_EmptySet
    <3>3. CASE Matching(batch[p]) # {}
      <4>1. PICK i \in Matching(batch[p]) : TRUE
        BY <3>3
      <4>2. Matching(batch[p]) = {i}
        BY <2>1, <3>1, <4>1
      <4>3. Cardinality({i}) = 1
        BY FS_Singleton
      <4> QED
        BY <3>1, <4>2, <4>3
    <3> QED
      BY <3>2, <3>3
  <2>3. ASSUME NEW p \in RescuedToo PROVE FALSE
    <3>1. p \in DOMAIN batch /\ RescuedCondition(batch[p]) = "T" /\ Matching(batch[p]) # {}
      BY DEF RescuedToo, RescuedRows
    <3>2. PICK i \in Matching(batch[p]) : TRUE
      BY <3>1
    <3>3. i \in Rules /\ p \in Matched(i)
      BY <1>2, <3>1, <3>2 DEF Matched
    <3>4. p \in Told(i)
      BY <1>7, <3>3
    <3> QED
      BY <1>5, <3>1, <3>3, <3>4
  <2> QED
    BY <2>2, <2>3
<1>8. ASSUME Twice = {}, RescuedToo = {}, NEW i \in Rules PROVE Matched(i) \subseteq Told(i)
  <2> SUFFICES ASSUME NEW p \in Matched(i) PROVE p \in Told(i)
    OBVIOUS
  <2>1. p \in DOMAIN batch /\ i \in Matching(batch[p])
    BY DEF Matched
  <2>2. RescuedCondition(batch[p]) # "T"
    BY <1>8, <2>1 DEF RescuedToo, RescuedRows
  <2>3. ASSUME NEW j \in Matching(batch[p]), j # i PROVE FALSE
    <3>1. PICK n \in Nat : DOMAIN RulesFor[frame.contract] = 1..n
      <4>1. frame.contract \in DOMAIN ColumnsOf
        BY DEF DqInv, FrameTyped
      <4> QED
        BY <4>1, RulesAre
    <3>2. IsFiniteSet(Matching(batch[p]))
      <4>1. Matching(batch[p]) \subseteq 1..n
        BY <3>1 DEF Matching, Rules
      <4>2. IsFiniteSet(1..n)
        BY FS_Interval
      <4> QED
        BY <4>1, <4>2, FS_Subset
    <3>3. Cardinality({i, j}) = 2
      <4>1. IsFiniteSet({i}) /\ Cardinality({i}) = 1
        BY FS_Singleton
      <4>2. Cardinality({i} \cup {j}) = Cardinality({i}) + 1
        BY <2>3, <4>1, FS_AddElement
      <4>3. {i} \cup {j} = {i, j}
        OBVIOUS
      <4> QED
        BY <4>1, <4>2, <4>3
    <3>4. {i, j} \subseteq Matching(batch[p])
      BY <2>1, <2>3
    <3>5. Cardinality({i, j}) <= Cardinality(Matching(batch[p])) /\ Cardinality(Matching(batch[p])) \in Nat
      BY <3>2, <3>4, FS_Subset, FS_CardinalityType
    <3>6. Cardinality(Matching(batch[p])) >= 2
      BY <3>3, <3>5
    <3> QED
      BY <1>8, <2>1, <3>6 DEF Twice
  <2>4. \A j \in Matching(batch[p]) : i <= j
    <3>1. i \in Nat
      BY <1>1
    <3> QED
      BY <2>3, <3>1
  <2> QED
    BY <1>5, <2>1, <2>2, <2>4
<1>9. (\A i \in Rules : Told(i) = Matched(i)) <=> Twice = {} /\ RescuedToo = {}
  BY <1>6, <1>7, <1>8
<1> QED
  BY <1>4, <1>6, <1>9 DEF Told

\* For every contract, rule set, frame and staged rows: a reason is reported for no
\* more rows than the measurement counts for its rule, and for as many exactly when
\* no row matches two rules and no rescued row matches any (bronze/rule_overlap.py:
\* aggregate_columns; bronze/dq.py: _reject_reason).
THEOREM ExplainsTheReasons == DqSpec => []OverlapExplainsTheReasons
<1>1. DqInv => OverlapExplainsTheReasons
  <2> SUFFICES ASSUME DqInv PROVE OverlapExplainsTheReasons
    OBVIOUS
  <2> DEFINE Told(i) == {p \in Rejected : i \in RejectReason(batch[p])}
  <2>1. /\ Told(0) = RescuedRows
        /\ \A i \in Rules : Told(i) \subseteq Matched(i)
        /\ (\A i \in Rules : Told(i) = Matched(i)) <=> Twice = {} /\ RescuedToo = {}
    BY ReasonsAndRules
  <2> HIDE DEF Told
  <2>2. IsFiniteSet(DOMAIN batch)
    <3>1. DOMAIN batch = 1..Len(batch) /\ Len(batch) \in Nat
      BY DEF DqInv
    <3> QED
      BY <3>1, FS_Interval
  <2>3. \A i : IsFiniteSet(Matched(i))
    BY <2>2, FS_Subset DEF Matched
  <2>4. IsFiniteSet(Twice) /\ IsFiniteSet(RescuedToo)
    BY <2>2, FS_Subset DEF Twice, RescuedToo, RescuedRows
  <2>5. ASSUME NEW i \in Rules
        PROVE  /\ Cardinality(Told(i)) <= Cardinality(Matched(i))
               /\ Cardinality(Told(i)) = Cardinality(Matched(i)) <=> Told(i) = Matched(i)
    BY <2>1, <2>3, FS_Subset
  <2>6. (Cardinality(Twice) = 0 <=> Twice = {}) /\ (Cardinality(RescuedToo) = 0 <=> RescuedToo = {})
    BY <2>4, FS_EmptySet
  <2>7. (\A i \in Rules : Cardinality(Told(i)) = Cardinality(Matched(i)))
          <=> Cardinality(Twice) = 0 /\ Cardinality(RescuedToo) = 0
    BY <2>1, <2>5, <2>6
  <2> SUFFICES ASSUME NEW s \in split
               PROVE  LET reason == [p \in s.bad |-> RejectReason(batch[p])]
                          overlap == Overlap
                          Reported(i) == Cardinality({p \in s.bad : i \in reason[p]})
                      IN /\ Reported(0) = overlap.rescued
                         /\ \A i \in DOMAIN overlap.perRule : Reported(i) <= overlap.perRule[i]
                         /\ (\A i \in DOMAIN overlap.perRule : Reported(i) = overlap.perRule[i])
                              <=> overlap.twoOrMore = 0 /\ overlap.rescuedAndARule = 0
    BY DEF OverlapExplainsTheReasons
  <2> DEFINE reason == [p \in s.bad |-> RejectReason(batch[p])]
             Reported(i) == Cardinality({p \in s.bad : i \in reason[p]})
  <2>8. s.bad = Rejected
    BY DEF DqInv
  <2>9. \A i : Reported(i) = Cardinality(Told(i))
    <3>1. \A i : {p \in s.bad : i \in reason[p]} = Told(i)
      BY <2>8 DEF Told
    <3> QED
      BY <3>1
  <2> HIDE DEF Reported, reason
  <2>10. /\ Reported(0) = Overlap.rescued
         /\ \A i \in DOMAIN Overlap.perRule : Reported(i) <= Overlap.perRule[i]
         /\ (\A i \in DOMAIN Overlap.perRule : Reported(i) = Overlap.perRule[i])
              <=> Overlap.twoOrMore = 0 /\ Overlap.rescuedAndARule = 0
    BY <2>1, <2>5, <2>7, <2>9, OverlapIs
  <2> QED
    BY <2>10 DEF Reported, reason
<1> QED
  BY <1>1, GateInit, GateStep, PTL DEF DqSpec
=============================================================================
