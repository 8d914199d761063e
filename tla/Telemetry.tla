----------------------------- MODULE Telemetry -----------------------------
(* The job runs of the bronze pipelines, what their DQ gate leaves in the    *)
(* tables, and the platform's record of them: the hour-sliced timeline of    *)
(* task runs and the table of job names, folded by the view                  *)
(* dataops_task_telemetry.  A job run is a batch; its gate appends the       *)
(* rejected rows to the quarantine, the condition task check_bad_rows reads  *)
(* their count, and fail_on_dq runs on a batch that has any.                 *)
EXTENDS Integers, FiniteSets, FiniteSetsExt, Functions

CONSTANTS
  Batch,        \* the job runs, which are also the batch ids
  JobOf,        \* [Batch -> Job]
  Reason,       \* the reject reasons
  Rejects,      \* a set of [Batch -> [Reason -> Nat]], the rows the gates reject
  Clean,        \* [Batch -> Nat], the rows it does not
  Declared,     \* the name TABLE_OF_JOB declares
  Renamed,      \* a name it does not declare
  MaxClock,     \* bound: the ticks of a behaviour
  MaxAttempts,  \* bound: the runs of one task in a job run, repairs included
  MaxLosses     \* bound: the tables emptied and the records aged out

ASSUME TelemetryAssumption ==
  /\ IsFiniteSet(Batch) /\ IsFiniteSet(Reason)
  /\ JobOf \in [Batch -> Range(JobOf)]
  /\ Rejects \subseteq [Batch -> [Reason -> Nat]] /\ Clean \in [Batch -> Nat]
  /\ Declared /= Renamed
  /\ MaxClock \in Nat \ {0} /\ MaxAttempts \in Nat /\ MaxLosses \in Nat

Job == Range(JobOf)
Check == "check_bad_rows"
Fail == "fail_on_dq"
Task == {Check, Fail}
NoTask == "none"

VARIABLES
  clock,       \* the hour
  rejects,     \* the member of Rejects this behaviour is about
  gate,        \* [Batch -> how far ingest and dq_gate_batch have come]
  running,     \* [Batch -> a task run, or NoTask as its task]
  tries,       \* [Batch -> [Task -> Nat]], the attempts begun
  begun,       \* history: [Batch -> the clock of its first check, 0 before]
  timeline,    \* system.lakeflow.job_task_run_timeline: the periods recorded
  names,       \* system.lakeflow.jobs: [Job -> the names it had, with the clock]
  staged, promoted,   \* [Batch -> Nat]
  quarantine,  \* [Batch -> [Reason -> Nat]]
  removed,     \* history: the batches whose quarantined rows were removed, and how
  losses,      \* bounded by MaxLosses
  aged         \* history: periods aged out of the timeline

jobs == <<rejects, clock, gate, running, tries, begun>>
tables == <<staged, promoted, quarantine, removed>>
record == <<timeline, names, aged>>
telemetryVars == <<jobs, losses, tables, record>>

NoRows == [r \in Reason |-> 0]
Rows(counts) == SumFunctionOnSet(counts, DOMAIN counts)
Idle == [task |-> NoTask, try |-> 0, from |-> 0]

TelemetryInit ==
  /\ rejects \in Rejects
  /\ clock = 1 /\ losses = 0 /\ aged = FALSE
  /\ gate = [b \in Batch |-> "none"]
  /\ running = [b \in Batch |-> Idle]
  /\ tries = [b \in Batch |-> [t \in Task |-> 0]]
  /\ begun = [b \in Batch |-> 0]
  /\ timeline = {}
  /\ names = [j \in Job |-> {[name |-> Declared, at |-> 0]}]
  /\ staged = [b \in Batch |-> 0] /\ promoted = [b \in Batch |-> 0]
  /\ quarantine = [b \in Batch |-> NoRows]
  /\ removed = {}

----------------------------------------------------------------------------
(* The view.                                                                *)

\* mutant: a task run is a row for every hour it was sliced into.
TaskRunsBySlice ==
  {[batch |-> q.batch, task |-> q.task, try |-> <<q.try, q.from>>, started |-> q.from] :
     q \in timeline}

\* The periods of one task run, folded: an attempt is a row however many
\* hours it was sliced into.
TaskRuns ==
  {LET slices == {p \in timeline : p.batch = q.batch /\ p.task = q.task /\ p.try = q.try}
   IN  [batch |-> q.batch, task |-> q.task, try |-> q.try,
        started |-> Min({p.from : p \in slices})] : q \in timeline}

\* The name of a job, from a table that keeps a row for every name it had.
JobNames(j) ==
  {n.name : n \in {m \in names[j] : \A o \in names[j] : o.at <= m.at}}

\* dataops_task_telemetry: a row for every task run.
TaskTelemetry ==
  UNION {{[batch |-> r.batch, job |-> JobOf[r.batch], name |-> n, task |-> r.task,
           try |-> r.try, started |-> r.started] : n \in JobNames(JobOf[r.batch])} :
         r \in TaskRuns}

----------------------------------------------------------------------------
(* The job runs.                                                            *)

Ingest(b) ==
  /\ gate[b] = "none"
  /\ gate' = [gate EXCEPT ![b] = "staged"]
  /\ staged' = [staged EXCEPT ![b] = Rows(rejects[b]) + Clean[b]]
  /\ UNCHANGED <<rejects, clock, running, tries, begun, losses, promoted, quarantine, removed, record>>

\* dq_gate_batch: the rejected rows are appended, and only then is their
\* number published to the condition task.
Append(b) ==
  /\ gate[b] = "staged"
  /\ gate' = [gate EXCEPT ![b] = "appended"]
  /\ quarantine' = [quarantine EXCEPT ![b] = rejects[b]]
  /\ UNCHANGED <<rejects, clock, running, tries, begun, losses, staged, promoted, removed, record>>

\* mutant: the count is published before the rows are appended.
CountIsKnownEarly(b) == gate[b] = "staged"

CountIsKnown(b) == gate[b] = "appended"

Publish(b) ==
  /\ CountIsKnown(b)
  /\ gate' = [gate EXCEPT ![b] = "published"]
  /\ UNCHANGED <<rejects, clock, running, tries, begun, losses, tables, record>>

Starts(b, t) ==
  /\ running[b] = Idle /\ tries[b][t] < MaxAttempts /\ clock < MaxClock
  /\ running' = [running EXCEPT ![b] = [task |-> t, try |-> tries[b][t] + 1, from |-> clock]]
  /\ tries' = [tries EXCEPT ![b][t] = @ + 1]
  /\ clock' = clock + 1
  /\ UNCHANGED <<rejects, gate, losses, tables, record>>

\* The condition task, in the first run of the job and in its repairs.
StartCheck(b) ==
  /\ gate[b] = "published"
  /\ tries[b][Check] = tries[b][Fail]
  /\ Starts(b, Check)
  /\ begun' = IF begun[b] = 0 THEN [begun EXCEPT ![b] = clock] ELSE begun

\* A batch with rejected rows fails; one with none is promoted.
StartFail(b) ==
  /\ tries[b][Fail] < tries[b][Check] /\ Rows(rejects[b]) > 0
  /\ Starts(b, Fail)
  /\ UNCHANGED begun

Promote(b) ==
  /\ tries[b][Check] > 0 /\ running[b] = Idle /\ staged[b] > 0
  /\ Rows(rejects[b]) = 0 /\ promoted[b] = 0
  /\ promoted' = [promoted EXCEPT ![b] = Clean[b]]
  /\ UNCHANGED <<jobs, losses, staged, quarantine, removed, record>>

\* repromote_batch_job, which an operator runs on a batch that failed.
Repromote(b) ==
  /\ tries[b][Fail] > 0 /\ promoted[b] = 0 /\ staged[b] > 0
  /\ promoted' = [promoted EXCEPT ![b] = Clean[b]]
  /\ UNCHANGED <<jobs, losses, staged, quarantine, removed, record>>

Period(b) ==
  [batch |-> b, task |-> running[b].task, try |-> running[b].try, from |-> running[b].from]

\* The platform records a task run once an hour and once when it ends.
EndOfHour(b) ==
  /\ running[b] /= Idle /\ clock < MaxClock /\ running[b].from < clock
  /\ timeline' = timeline \union {Period(b)}
  /\ running' = [running EXCEPT ![b].from = clock]
  /\ clock' = clock + 1
  /\ UNCHANGED <<rejects, gate, tries, begun, names, losses, tables, aged>>

EndTask(b) ==
  /\ running[b] /= Idle
  /\ timeline' = timeline \union {Period(b)}
  /\ running' = [running EXCEPT ![b] = Idle]
  /\ UNCHANGED <<rejects, clock, gate, tries, begun, names, losses, tables, aged>>

----------------------------------------------------------------------------
(* What operators and the platform do to the tables and the record.         *)

\* A job is renamed in the bundle; its task runs keep its id.
Rename(j) ==
  /\ \A n \in names[j] : n.name /= Renamed
  /\ losses < MaxLosses /\ losses' = losses + 1
  /\ names' = [names EXCEPT ![j] = @ \union {[name |-> Renamed, at |-> clock]}]
  /\ UNCHANGED <<jobs, tables, timeline, aged>>

Held == {b \in Batch : Rows(quarantine[b]) > 0}

\* The quarantine is truncated.
Truncate ==
  /\ losses < MaxLosses /\ losses' = losses + 1 /\ Held /= {}
  /\ quarantine' = [b \in Batch |-> NoRows]
  /\ removed' = removed \union (Held \X {"truncated"})
  /\ UNCHANGED <<jobs, staged, promoted, record>>

\* Every table of the source is dropped and made anew, between two gates.
Recreate ==
  /\ losses < MaxLosses /\ losses' = losses + 1
  /\ \A b \in Batch : gate[b] \in {"none", "published"}
  /\ quarantine' = [b \in Batch |-> NoRows]
  /\ removed' = removed \union (Held \X {"recreated"})
  /\ staged' = [b \in Batch |-> 0] /\ promoted' = [b \in Batch |-> 0]
  /\ UNCHANGED <<jobs, record>>

\* One batch's rows are deleted, as dq_gate_batch tells an operator to.
DeleteRejects(b) ==
  /\ losses < MaxLosses /\ losses' = losses + 1 /\ b \in Held
  /\ quarantine' = [quarantine EXCEPT ![b] = NoRows]
  /\ removed' = removed \union {<<b, "deleted">>}
  /\ UNCHANGED <<jobs, staged, promoted, record>>

\* The oldest periods leave the timeline.
AgeOut ==
  /\ losses < MaxLosses /\ losses' = losses + 1
  /\ \E p \in timeline :
       timeline' = {q \in timeline : q.from > p.from}
  /\ aged' = TRUE
  /\ UNCHANGED <<jobs, names, tables>>

TelemetryNext ==
  \/ \E b \in Batch : \/ Ingest(b) \/ Append(b) \/ Publish(b) \/ StartCheck(b) \/ StartFail(b) \/ Promote(b)
                      \/ Repromote(b) \/ EndOfHour(b) \/ EndTask(b) \/ DeleteRejects(b)
  \/ \E j \in Job : Rename(j)
  \/ Truncate \/ Recreate \/ AgeOut

TelemetryTypeOK ==
  /\ rejects \in Rejects
  /\ clock \in 1..MaxClock /\ losses \in 0..MaxLosses /\ aged \in BOOLEAN
  /\ \A b \in Batch :
       /\ gate[b] \in {"none", "staged", "appended", "published"}
       /\ running[b].task \in Task \union {NoTask} /\ running[b].from \in 0..MaxClock
       /\ tries[b] \in [Task -> 0..MaxAttempts] /\ begun[b] \in 0..MaxClock
       /\ staged[b] \in Nat /\ promoted[b] \in 0..staged[b] /\ quarantine[b] \in [Reason -> Nat]
  /\ \A p \in timeline : p.batch \in Batch /\ p.task \in Task /\ p.from \in 1..MaxClock
  /\ \A j \in Job : \A n \in names[j] : n.name \in {Declared, Renamed} /\ n.at \in 0..MaxClock
  /\ removed \subseteq Batch \X {"truncated", "recreated", "deleted"}
=============================================================================
