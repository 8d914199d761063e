----------------------------- MODULE BronzeFlow -----------------------------
(***************************************************************************)
(* One zips-landed CNPJ table, one month, on its way from the Volume to    *)
(* bronze: unzip, Auto Loader ingest, batch-scoped DQ gate, promote,       *)
(* constraint DDL, reclaim of the landed files -- and the operator's       *)
(* repromote job, which runs promote and reclaim for an earlier batch.     *)
(*                                                                         *)
(* A batch is named by the run that ingested it (_batch_id is              *)
(* {{job.run_id}}), so a Repair, which re-runs tasks under the same run    *)
(* id, works on the same batch.  max_retries is 0 everywhere: nothing is   *)
(* re-run unless an operator repairs the run.  Databricks runs one run of  *)
(* a job at a time, so at most one ingestion run and one repromote run     *)
(* are active; the two jobs interleave freely.                             *)
(*                                                                         *)
(* A run whose revision parameter is not the deployed one ends at          *)
(* assert_deployed_revision, before it reads or writes anything: it is a   *)
(* stuttering step here.  The wheel may be redeployed at any time.         *)
(***************************************************************************)
EXTENDS Integers, FiniteSets

CONSTANTS
  File,           \* the inner files of the month, one per zip
  Row,            \* the records those files hold
  RowsOf,         \* RowsOf[f]: the records of file f
  Run,            \* run ids of the ingestion job = batch ids
  None,           \* no run
  Version,        \* builds of the wheel, told apart by their DQ rules
  V0,             \* the build deployed first
  Passes,         \* Passes[v]: the records every rule of build v accepts
  Interventions   \* which documented manual interventions operators make

InterventionKinds ==
  {"reconcile_bronze", "reconcile_quarantine", "rebuild_bronze", "truncate_staging"}

ASSUME DataAssumption ==
  /\ IsFiniteSet(File) /\ IsFiniteSet(Row)
  /\ RowsOf \in [File -> SUBSET Row]
  /\ \A f, g \in File : f # g => RowsOf[f] \cap RowsOf[g] = {}

ASSUME RuleAssumption == V0 \in Version /\ Passes \in [Version -> SUBSET Row]

ASSUME RunAssumption ==
  /\ None \notin Run /\ "repromote" \notin Run
  /\ Interventions \subseteq InterventionKinds

VARIABLES
  zips,         \* files whose zip has been uploaded to the Volume
  landed,       \* inner files now in the table's landing dir
  seen,         \* files the Auto Loader checkpoint has consumed
  staging,      \* staging[b]: files whose records staging holds for batch b
  quarantine,   \* copies of records in the quarantine table
  bronze,       \* copies of records in the bronze table
  deployed,     \* the build the next task process loads
  task,         \* task[j]: the task job j is at
  active,       \* the ingestion run now executing, or None
  repromoting,  \* the batch the repromote job was given, or None
  published,    \* published[b]: bad_row_count, the gate's task value
  plan          \* plan[j]: build whose rules a planned append will apply

volume     == <<zips, landed>>
tables     == <<staging, quarantine, bronze>>
control    == <<task, active, repromoting, published, plan>>
vars       == <<zips, landed, seen, staging, quarantine, bronze, deployed,
                task, active, repromoting, published, plan>>

Repromote == "repromote"
Job == Run \cup {Repromote}

RunTask == {"new", "unzip", "ingest", "gate", "check", "promote", "append",
            "ddl", "reclaim", "fail_on_dq", "done"}
RepromoteTask == {"idle", "promote", "append", "ddl", "reclaim"}

Copy == [batch : Run, row : Row, copy : Nat]

JobsOK ==
  /\ task \in [Job -> RunTask \cup RepromoteTask]
  /\ \A r \in Run : task[r] \in RunTask
  /\ task[Repromote] \in RepromoteTask
  /\ active \in Run \cup {None}
  /\ repromoting \in Run \cup {None}

TypeOK ==
  /\ zips \subseteq File /\ landed \subseteq File /\ seen \subseteq File
  /\ staging \in [Run -> SUBSET File]
  /\ quarantine \subseteq Copy /\ bronze \subseteq Copy
  /\ IsFiniteSet(quarantine) /\ IsFiniteSet(bronze)
  /\ deployed \in Version
  /\ JobsOK
  /\ published \in [Run -> Nat]
  /\ plan \in [Job -> Version]

Init ==
  /\ zips = {} /\ landed = {} /\ seen = {}
  /\ staging = [b \in Run |-> {}]
  /\ quarantine = {} /\ bronze = {}
  /\ deployed = V0
  /\ task = [j \in Job |-> IF j = Repromote THEN "idle" ELSE "new"]
  /\ active = None /\ repromoting = None
  /\ published = [b \in Run |-> 0]
  /\ plan = [j \in Job |-> V0]

-----------------------------------------------------------------------------
(* Reading the three tables.                                               *)

RowsIn(files) == UNION {RowsOf[f] : f \in files}

\* mutant: the frame promoted is not filtered on the reject column
Unfiltered(b, v) == RowsIn(staging[b])

\* dq.evaluate over the batch, split in the two sides tally counts.
Good(b, v) == RowsIn(staging[b]) \cap Passes[v]
Bad(b, v)  == RowsIn(staging[b]) \ Passes[v]

\* The copies a table holds of a batch, and of a set of records.
CopiesOf(table, b) == {c \in table : c.batch = b}
CopiesHeld(table, b, rows) == {c \in table : c.batch = b /\ c.row \in rows}

\* promote.rows_of_batch
RowsOfBatch(table, b) == Cardinality(CopiesOf(table, b))

\* An append: every record once more than the table holds it already.
Appended(table, b, rows) ==
  table \cup {[batch |-> b, row |-> r,
               copy |-> Cardinality(CopiesHeld(table, b, {r}))] : r \in rows}

\* mutant: on a mismatch the batch is appended again
PlanAppendingOnMismatch(b, v, inFlow) ==
  CASE RowsOfBatch(bronze, b) = Cardinality(Good(b, v)) -> "already_promoted"
    [] OTHER -> "appended"

\* mutant: a batch with rejects is refused by the repromote too
PlanRefusingRejects(b, v, inFlow) ==
  CASE Bad(b, v) # {} -> "refused"
    [] RowsOfBatch(bronze, b) > 0 -> "already_promoted"
    [] staging[b] = {} -> "nothing_ingested"
    [] OTHER -> "appended"

(* promote.plan_promotion: bronze is consulted first, staging second.      *)
PlanPromotion(b, v, inFlow) ==
  LET held       == RowsOfBatch(bronze, b)
      promotable == Cardinality(Good(b, v))
      total      == promotable + Cardinality(Bad(b, v))
  IN CASE held > 0 /\ held = promotable -> "already_promoted"
       [] held > 0 /\ held # promotable /\ total = 0 -> "already_promoted_staging_gone"
       [] held > 0 /\ held # promotable /\ total > 0 -> "refused"
       [] held = 0 /\ total = 0 -> IF inFlow THEN "nothing_ingested" ELSE "refused"
       [] held = 0 /\ total > 0 /\ promotable = 0 -> "refused"
       [] OTHER -> "appended"

(* reconcile: the three counts at the grain of a batch and of a file.      *)
Account(b, rows, files) ==
  [staged      |-> Cardinality(RowsIn(staging[b] \cap files)),
   promoted    |-> Cardinality(CopiesHeld(bronze, b, rows)),
   quarantined |-> Cardinality(CopiesHeld(quarantine, b, rows))]

Verdict(b) ==
  LET n == Account(b, Row, File)
  IN CASE n.promoted + n.quarantined > n.staged -> "over_promoted"
       [] n.promoted + n.quarantined = n.staged -> "reconciled"
       [] n.promoted + n.quarantined < n.staged /\ n.quarantined > 0 -> "stranded_gated"
       [] OTHER -> "stranded_unexplained"

\* mutant: the proof files_of_batch offered -- bronze holds a row of the file
HoldsARowOf(b, f) == Account(b, RowsOf[f], {f}).promoted > 0

\* reconcile.RECLAIMABLE_SQL, at file grain
Reclaimable(b, f) ==
  LET n == Account(b, RowsOf[f], {f})
  IN n.promoted > 0 /\ n.promoted + n.quarantined = n.staged

-----------------------------------------------------------------------------
(* Jobs.  A failed run keeps the task it failed at and is not active.      *)

Executing(j, t) == task[j] = t /\ (j = Repromote \/ active = j)

BatchOf(j) == IF j = Repromote THEN repromoting ELSE j

\* Some job is working on batch b.
Busy(b) == active = b \/ (repromoting = b /\ task[Repromote] # "idle")

Goto(j, t) == task' = [task EXCEPT ![j] = t] /\ UNCHANGED <<active, repromoting>>

\* The promote task is one process: it restarts at its beginning.
RestartAt(t) == IF t \in {"append", "ddl"} THEN "promote" ELSE t

\* mutant: a finished run is left idle, as the repromote job is
FinishIdle(j) == task' = [task EXCEPT ![j] = "idle"] /\ active' = None /\ repromoting' = None

Finish(j) ==
  IF j = Repromote
    THEN /\ task' = [task EXCEPT ![j] = "idle"]
         /\ repromoting' = None
         /\ UNCHANGED active
    ELSE /\ task' = [task EXCEPT ![j] = "done"]
         /\ active' = None
         /\ UNCHANGED repromoting

Fail(j) ==
  IF j = Repromote
    THEN /\ task' = [task EXCEPT ![j] = "idle"]
         /\ repromoting' = None
         /\ UNCHANGED active
    ELSE /\ task' = [task EXCEPT ![j] = RestartAt(@)]
         /\ active' = None
         /\ UNCHANGED repromoting

-----------------------------------------------------------------------------
(* Operators: uploads, launches, repairs, redeploys.                       *)

UploadZip(f) ==
  /\ f \notin zips
  /\ zips' = zips \cup {f}
  /\ UNCHANGED <<landed, seen, tables, deployed, control>>

Launch(r) ==
  /\ active = None /\ task[r] = "new"
  /\ task' = [task EXCEPT ![r] = "unzip"]
  /\ active' = r
  /\ UNCHANGED <<volume, seen, tables, deployed, repromoting, published, plan>>

\* Repair: the failed task again, under the same run id.  One promote of a
\* batch at a time is the operator's responsibility (promote_batch).
Repair(r) ==
  /\ active = None /\ task[r] \notin {"new", "done"} /\ ~Busy(r)
  /\ active' = r
  /\ UNCHANGED <<volume, seen, tables, deployed, task, repromoting, published, plan>>

\* Repair with the gate selected: the gate and everything after it again.
RerunGate(r) ==
  /\ active = None /\ task[r] \in {"promote", "reclaim", "fail_on_dq", "done"} /\ ~Busy(r)
  /\ active' = r
  /\ task' = [task EXCEPT ![r] = "gate"]
  /\ UNCHANGED <<volume, seen, tables, deployed, repromoting, published, plan>>

\* repromote_triaged_batch --params batch_id=b
StartRepromote(b) ==
  /\ task[Repromote] = "idle" /\ task[b] # "new" /\ ~Busy(b)
  /\ task' = [task EXCEPT ![Repromote] = "promote"]
  /\ repromoting' = b
  /\ UNCHANGED <<volume, seen, tables, deployed, active, published, plan>>

Deploy(v) ==
  /\ v # deployed
  /\ deployed' = v
  /\ UNCHANGED <<volume, seen, tables, control>>

-----------------------------------------------------------------------------
(* unzip and ingest.                                                       *)

\* unzip_dir: every zip whose inner file is not in the landing dir.
Unzip(r) ==
  /\ Executing(r, "unzip")
  /\ landed' = landed \cup zips
  /\ Goto(r, "ingest")
  /\ UNCHANGED <<zips, seen, tables, deployed, published, plan>>

\* A corrupt zip or a failed copy: the parts before it are in place, whole.
UnzipFails(r) ==
  /\ Executing(r, "unzip")
  /\ \E part \in SUBSET zips : landed' = landed \cup part
  /\ Fail(r)
  /\ UNCHANGED <<zips, seen, tables, deployed, published, plan>>

\* mutant: the checkpoint is not the one the files before were recorded in
RereadsSeenFiles(r) ==
  /\ Executing(r, "ingest")
  /\ \E files \in SUBSET landed \ {{}} :
       /\ staging' = [staging EXCEPT ![r] = @ \cup files]
       /\ seen' = seen \cup files
  /\ UNCHANGED <<volume, quarantine, bronze, deployed, control>>

\* One availableNow microbatch: one Delta commit and one checkpoint advance.
IngestMicrobatch(r) ==
  /\ Executing(r, "ingest")
  /\ \E files \in SUBSET (landed \ seen) \ {{}} :
       /\ staging' = [staging EXCEPT ![r] = @ \cup files]
       /\ seen' = seen \cup files
  /\ UNCHANGED <<volume, quarantine, bronze, deployed, control>>

IngestDone(r) ==
  /\ Executing(r, "ingest")
  /\ landed \subseteq seen
  /\ Goto(r, "gate")
  /\ UNCHANGED <<volume, seen, tables, deployed, published, plan>>

-----------------------------------------------------------------------------
(* dq_gate_batch and the condition task.                                   *)

\* mutant: the gate never recognises its own rejects
NeverSkips(r) == FALSE

\* What quarantine must hold of the batch for the gate to go on.
GateAppends(r) == RowsOfBatch(quarantine, r) = 0
GateSkips(r) ==
  /\ RowsOfBatch(quarantine, r) # 0
  /\ RowsOfBatch(quarantine, r) = Cardinality(Bad(r, deployed))

GateWrites(r) ==
  \/ GateAppends(r) /\ quarantine' = Appended(quarantine, r, Bad(r, deployed))
  \/ GateSkips(r) /\ UNCHANGED quarantine

Gate(r) ==
  /\ Executing(r, "gate")
  /\ GateWrites(r)
  /\ published' = [published EXCEPT ![r] = Cardinality(Bad(r, deployed))]
  /\ Goto(r, "check")
  /\ UNCHANGED <<volume, seen, staging, bronze, deployed, plan>>

\* The append commits and the process dies before it publishes the count.
GateDiesAfterAppend(r) ==
  /\ Executing(r, "gate")
  /\ GateWrites(r)
  /\ Fail(r)
  /\ UNCHANGED <<volume, seen, staging, bronze, deployed, published, plan>>

\* A quarantine holding another number of rows of the batch is an error.
GateRefuses(r) ==
  /\ Executing(r, "gate")
  /\ ~GateAppends(r) /\ ~GateSkips(r)
  /\ Fail(r)
  /\ UNCHANGED <<volume, seen, tables, deployed, published, plan>>

\* mutant: a batch goes on unless every row of it is bad
CheckStopsOnAllBad(r) ==
  /\ Executing(r, "check")
  /\ Goto(r, IF published[r] < Cardinality(RowsIn(staging[r])) THEN "promote" ELSE "fail_on_dq")
  /\ UNCHANGED <<volume, seen, tables, deployed, published, plan>>

CheckBadRows(r) ==
  /\ Executing(r, "check")
  /\ Goto(r, IF published[r] = 0 THEN "promote" ELSE "fail_on_dq")
  /\ UNCHANGED <<volume, seen, tables, deployed, published, plan>>

FailOnDq(r) ==
  /\ Executing(r, "fail_on_dq")
  /\ Fail(r)
  /\ UNCHANGED <<volume, seen, tables, deployed, published, plan>>

-----------------------------------------------------------------------------
(* promote_batch, in flow and from the repromote job.                      *)

PlanPromote(j) ==
  /\ Executing(j, "promote")
  /\ LET outcome == PlanPromotion(BatchOf(j), deployed, j # Repromote)
     IN \/ /\ outcome = "appended"
           /\ plan' = [plan EXCEPT ![j] = deployed]
           /\ Goto(j, "append")
        \/ /\ outcome \in {"already_promoted", "already_promoted_staging_gone"}
           /\ Goto(j, "ddl") /\ UNCHANGED plan
        \/ /\ outcome = "nothing_ingested"
           /\ Goto(j, "reclaim") /\ UNCHANGED plan
        \/ /\ outcome = "refused"
           /\ Fail(j) /\ UNCHANGED plan
  /\ UNCHANGED <<volume, seen, tables, deployed, published>>

AppendToBronze(j) ==
  /\ Executing(j, "append")
  /\ bronze' = Appended(bronze, BatchOf(j), Good(BatchOf(j), plan[j]))
  /\ Goto(j, "ddl")
  /\ UNCHANGED <<volume, seen, staging, quarantine, deployed, published, plan>>

\* The constraint DDL runs after every outcome but nothing_ingested.
AssertConstraints(j) ==
  /\ Executing(j, "ddl")
  /\ Goto(j, "reclaim")
  /\ UNCHANGED <<volume, seen, tables, deployed, published, plan>>

\* A task that fails having changed nothing (more): every task but the
\* condition task, fail_on_dq (which always fails) and unzip and reclaim
\* (whose failures may be partial).
TaskFails(j) ==
  /\ \E t \in {"ingest", "gate", "promote", "append", "ddl"} : Executing(j, t)
  /\ Fail(j)
  /\ UNCHANGED <<volume, seen, tables, deployed, published, plan>>

-----------------------------------------------------------------------------
(* reclaim_landing.                                                        *)

Proven(b) == {f \in File : Reclaimable(b, f)}

\* Unlinks that raise OSError are reported and leave the task green.
Reclaim(j) ==
  /\ Executing(j, "reclaim")
  /\ \E gone \in SUBSET (Proven(BatchOf(j)) \cap landed) : landed' = landed \ gone
  /\ Finish(j)
  /\ UNCHANGED <<zips, seen, tables, deployed, published, plan>>

ReclaimFails(j) ==
  /\ Executing(j, "reclaim")
  /\ \E gone \in SUBSET (Proven(BatchOf(j)) \cap landed) : landed' = landed \ gone
  /\ Fail(j)
  /\ UNCHANGED <<zips, seen, tables, deployed, published, plan>>

-----------------------------------------------------------------------------
(* Interventions the refusals and the docs tell an operator to make.       *)

\* DELETE FROM bronze WHERE _batch_id = b, after plan_promotion refused.
ReconcileBronze(b) ==
  /\ "reconcile_bronze" \in Interventions /\ ~Busy(b)
  /\ RowsOfBatch(bronze, b) > 0
  /\ PlanPromotion(b, deployed, FALSE) = "refused"
  /\ bronze' = bronze \ CopiesOf(bronze, b)
  /\ UNCHANGED <<volume, seen, staging, quarantine, deployed, control>>

\* DELETE FROM quarantine WHERE _batch_id = b, after the gate raised.
ReconcileQuarantine(b) ==
  /\ "reconcile_quarantine" \in Interventions /\ ~Busy(b)
  /\ task[b] = "gate" /\ ~GateAppends(b) /\ ~GateSkips(b)
  /\ quarantine' = quarantine \ CopiesOf(quarantine, b)
  /\ UNCHANGED <<volume, seen, staging, bronze, deployed, control>>

\* The documented rebuild: bronze is dropped, staging is left.
RebuildBronze ==
  /\ "rebuild_bronze" \in Interventions
  /\ active = None /\ task[Repromote] = "idle" /\ bronze # {}
  /\ bronze' = {}
  /\ UNCHANGED <<volume, seen, staging, quarantine, deployed, control>>

\* Staging no longer holds the batch.
TruncateStaging(b) ==
  /\ "truncate_staging" \in Interventions /\ ~Busy(b)
  /\ staging[b] # {}
  /\ staging' = [staging EXCEPT ![b] = {}]
  /\ UNCHANGED <<volume, seen, quarantine, bronze, deployed, control>>

-----------------------------------------------------------------------------

RunNext(r) ==
  \/ Launch(r) \/ Repair(r) \/ RerunGate(r)
  \/ Unzip(r) \/ UnzipFails(r) \/ IngestMicrobatch(r) \/ IngestDone(r)
  \/ Gate(r) \/ GateDiesAfterAppend(r) \/ GateRefuses(r)
  \/ CheckBadRows(r) \/ FailOnDq(r)

JobNext(j) ==
  \/ PlanPromote(j) \/ AppendToBronze(j) \/ AssertConstraints(j) \/ TaskFails(j)
  \/ Reclaim(j) \/ ReclaimFails(j)

OperatorNext ==
  \/ \E f \in File : UploadZip(f)
  \/ \E v \in Version : Deploy(v)
  \/ \E b \in Run : StartRepromote(b)
  \/ \E b \in Run : ReconcileBronze(b) \/ ReconcileQuarantine(b) \/ TruncateStaging(b)
  \/ RebuildBronze

Next ==
  \/ \E r \in Run : RunNext(r)
  \/ \E j \in Job : JobNext(j)
  \/ OperatorNext

Spec == Init /\ [][Next]_vars

-----------------------------------------------------------------------------
(* Fairness.  A running task ends, because a task is one process.  Nothing *)
(* in the code re-runs a failed one: the operators do, and they make the   *)
(* repairs, the repromotes and the deletes the printed remedies name.      *)
(* Crashes, re-runs of a gate, repairs of a run its gate stopped and       *)
(* repromotes no remedy asks for happen finitely often.                    *)

TaskEnds(j) ==
  \/ j \in Run /\ (Unzip(j) \/ IngestMicrobatch(j) \/ IngestDone(j) \/ Gate(j)
                    \/ GateRefuses(j) \/ CheckBadRows(j) \/ FailOnDq(j))
  \/ PlanPromote(j) \/ AppendToBronze(j) \/ AssertConstraints(j) \/ Reclaim(j)

Stranded(b) == Verdict(b) \in {"stranded_gated", "stranded_unexplained"}

RepairUnfinished(r) == task[r] # "fail_on_dq" /\ Repair(r)
RepromoteStranded(b) == Stranded(b) /\ StartRepromote(b)

\* A failure that is not also how the task ends by itself (a repromote run
\* that dies in reclaim leaves what one that ends leaves), or a re-run that
\* no one needs.
FaultStep ==
  \/ /\ \/ \E r \in Run : UnzipFails(r) \/ GateDiesAfterAppend(r)
        \/ \E j \in Job : TaskFails(j) \/ ReclaimFails(j)
     /\ \A j \in Job : ~TaskEnds(j)
  \/ \E r \in Run :
       \/ RerunGate(r)
       \/ Repair(r) /\ ~RepairUnfinished(r)
       \/ StartRepromote(r) /\ ~RepromoteStranded(r)

OperatorsAttend(b) ==
  /\ SF_vars(RepairUnfinished(b))
  /\ SF_vars(RepromoteStranded(b))
  /\ SF_vars(ReconcileBronze(b))

FairSpec ==
  /\ Spec
  /\ <>[][~FaultStep]_vars
  /\ \A j \in Job : WF_vars(TaskEnds(j))
  /\ \A b \in Run : OperatorsAttend(b)

-----------------------------------------------------------------------------
(* Safety, whatever rules are deployed and however often.                  *)

\* "exactly once" (promote.py): no record has two copies in bronze, across
\* batches, repairs, repromotes, redeploys and lost constraint DDL.
RowsPromotedOnce == \A c, d \in bronze : c.row = d.row => c = d

\* Re-running the gate never quarantines a record a second time, so the
\* measured reject history (ADR 0006) counts each reject once.
RowsQuarantinedOnce == \A c, d \in quarantine : c.row = d.row => c = d

\* Why: no two jobs work on one batch, no two batches stage one file, a batch
\* in append has no copy in bronze, and a record a table holds was read from a
\* file that no other batch staged.
OneJobPerBatch ==
  /\ task[Repromote] # "idle" =>
       repromoting \in Run /\ repromoting # active /\ task[repromoting] # "new"
  /\ \A r \in Run : task[r] = "append" => active = r

OneBatchPerFile ==
  /\ \A r \in Run : staging[r] \subseteq seen
  /\ \A q, r \in Run : q # r => staging[q] \cap staging[r] = {}

AppendsToNothing ==
  \A j \in Job : task[j] = "append" => CopiesOf(bronze, BatchOf(j)) = {}

OwnRecordsOnce(table) ==
  /\ \A c, d \in table : c.row = d.row => c = d
  /\ \A c \in table : \E f \in seen : c.row \in RowsOf[f]
  /\ \A c \in table, r \in Run : r # c.batch => c.row \notin RowsIn(staging[r])

RecordsOnceInv ==
  /\ OneJobPerBatch /\ OneBatchPerFile /\ AppendsToNothing
  /\ OwnRecordsOnce(bronze) /\ OwnRecordsOnce(quarantine)

\* What bronze holds of a batch is one append: the accepted records of whole
\* files under one build's rules, never a difference or a mix of two builds.
RecordsOf(table, b) == {c.row : c \in CopiesOf(table, b)}

WholeFilesOneRuleSet ==
  \A b \in Run : \E files \in SUBSET File, v \in Version :
    RecordsOf(bronze, b) = RowsIn(files) \cap Passes[v]

-----------------------------------------------------------------------------
(* Safety while the rules do not change.                                   *)

\* A rejected record is never also promoted: rejects stay out of bronze and
\* remain in quarantine (repromote_batch_job.yml), even over partial ingests.
PromotedOrRejected ==
  \A c \in bronze, d \in quarantine : c.row # d.row

\* The flow's own promote, reached only through the gate, never appends a
\* batch that holds a record the rules reject.
FlowPromotesCleanBatches ==
  [][\A b \in Run :
       active = b /\ CopiesOf(bronze', b) # CopiesOf(bronze, b)
         => RecordsOf(bronze', b) = RowsIn(staging[b])]_vars

\* A file leaves the landing dir only once each of its records is in bronze
\* or in quarantine, under the batch that staged it (retention.py).
DeleteOnlyAccounted ==
  [][\A f \in landed \ landed' : \E b \in Run :
       /\ f \in staging[b]
       /\ RowsOf[f] \subseteq RecordsOf(bronze, b) \cup RecordsOf(quarantine, b)]_vars

\* An ingestion run that ends green leaves its batch reconciled, whatever
\* failed, was repaired, re-run or repromoted on the way.
GreenRunReconciled ==
  [][\A r \in Run :
       task[r] # "done" /\ task'[r] = "done" => Verdict(r) = "reconciled"]_vars


\* Once the repromote of a batch the gate has been through has promoted, the
\* batch is reconciled.
GatedRepromoteReconciles ==
  Executing(Repromote, "reclaim") /\ CopiesOf(quarantine, repromoting) # {}
    => Verdict(repromoting) = "reconciled"

\* A gate that goes on has in quarantine exactly the records it rejects.
GateQuarantinesItsRejects ==
  [][\A r \in Run :
       task[r] = "gate" /\ task'[r] = "check"
         => RecordsOf(quarantine', r) = Bad(r, deployed)]_vars

\* The gate and the promote of a run, or the repromote of a batch it stopped, split
\* the batch between the two tables by the rules, and end with all of it accounted for.
BatchesAreSplit ==
  /\ GreenRunReconciled /\ []GatedRepromoteReconciles
  /\ FlowPromotesCleanBatches /\ GateQuarantinesItsRejects

\* The flow implements RowLedger: each record is answered for by one table,
\* and is promoted or rejected from staging only.
Where ==
  [r \in Row |->
     IF \E c \in bronze : c.row = r THEN "bronze"
     ELSE IF \E c \in quarantine : c.row = r THEN "quarantine"
     ELSE IF \E b \in Run : r \in RowsIn(staging[b]) THEN "staged" ELSE "unread"]

Ledger == INSTANCE RowLedger WITH where <- Where

EachRecordInOnePlace == Ledger!Spec

-----------------------------------------------------------------------------
(* Liveness while the rules do not change.                                 *)

\* A launched run ends done or stopped by its gate: no failure, no partial
\* ingest and no repromote in between leaves a run no Repair can finish.
EveryRunSettles ==
  \A r \in Run : task[r] = "unzip" ~> task[r] \in {"done", "fail_on_dq"}

\* The accepted records of a batch the gate stopped reach bronze.
GatedBatchReachesBronze ==
  \A b \in Run :
    task[b] = "fail_on_dq" ~> Good(b, V0) \subseteq RecordsOf(bronze, b)

-----------------------------------------------------------------------------
(* What the docs claim and the code does not keep.                         *)

\* reconcile.py prints the repromote as "what resolves a stranding": once it
\* has promoted, the batch it was printed for is no longer stranded.
RemedyResolvesStranding ==
  Executing(Repromote, "reclaim")
    => Verdict(repromoting) \notin {"stranded_gated", "stranded_unexplained"}
=============================================================================
