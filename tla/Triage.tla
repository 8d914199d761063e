------------------------------- MODULE Triage -------------------------------
(* The triage of DQ incidents: one run of triage_dq_incident reads the feed  *)
(* of incidents and then, for each, three more statements at three later     *)
(* moments; it assembles a payload from the four and writes them to a facts  *)
(* file, from which open_triage_issue publishes one.  The job runs, the      *)
(* tables and the record go on changing in between.                          *)
EXTENDS Telemetry

CONSTANTS
  Scale,       \* _POPULATION_SCALE_ROWS
  Executions,  \* N_EXECUTIONS
  MaxTriages,  \* bound: the runs of the triage job
  Declarations, \* the HOLDS a behaviour begins with
  MaxRevisions \* bound: the changes of the wheel

Null == "null"     \* the SQL NULL

VARIABLES
  holds,    \* HOLDS of the wheel: the batches not to be promoted
  manifest, \* the wheel's downstream manifest, as a version
  revised,  \* bounded by MaxRevisions
  triage,   \* the run: its step, the incidents left, the one at hand, its facts
  triages,  \* bounded by MaxTriages
  facts,    \* the facts file: the payloads of the last run that wrote one
  posted    \* the issues opened, with the wheel that opened them

agentVars == <<holds, manifest, revised, triage, triages, facts, posted>>
triageVars == <<telemetryVars, agentVars>>

NoRun == [step |-> "idle", left |-> {}, incident |-> Null, severity |-> Null,
          census |-> Null, drafts |-> {}]

TriageInit ==
  /\ TelemetryInit
  /\ holds = Declarations /\ manifest = 1 /\ revised = 0 /\ triages = 0
  /\ triage = NoRun /\ facts = {} /\ posted = {}

----------------------------------------------------------------------------
(* incident_feed_sql: the job runs that reached fail_on_dq.                 *)

\* TABLE_OF_JOB over the stripped name: NULL for a name it does not declare.
TableOfJob(name) == IF name = Declared THEN "table" ELSE Null

GateRuns == {t \in TaskTelemetry : t.task = Fail}

IncidentFeed ==
  {LET group == {t \in GateRuns : t.batch = g.batch /\ t.name = g.name}
   IN  [batch |-> g.batch, source |-> TableOfJob(g.name),
        attempts |-> Cardinality(group)] : g \in GateRuns}

----------------------------------------------------------------------------
(* quarantine_census_sql, reconciliation_sql and severity_sql.              *)

CensusOf(b) == IF Rows(quarantine[b]) = 0 THEN NoRows ELSE quarantine[b]

Evidence(b) ==
  CASE Rows(quarantine[b]) > 0 -> "rows_present"
    [] \A c \in Batch : Rows(quarantine[c]) = 0 -> "quarantine_empty"
    [] OTHER -> "batch_absent"

Absent == {"quarantine_empty", "batch_absent"}

Verdict(b) ==
  LET quarantined == Rows(quarantine[b])
      counted == promoted[b] + quarantined
  IN  CASE staged[b] = 0 /\ counted = 0 -> "no_reconciliation_row"
        [] counted > staged[b] -> "over_promoted"
        [] counted = staged[b] -> "reconciled"
        [] quarantined > 0 -> "stranded_gated"
        [] OTHER -> "stranded_unexplained"

Stranded == {"stranded_gated", "stranded_unexplained"}

Severity(b) ==
  CASE Verdict(b) \in Stranded \union {"over_promoted"} -> "does_not_reconcile"
    [] Evidence(b) \in Absent -> "evidence_removed"
    [] Rows(quarantine[b]) >= Scale -> "bulk_rejection"
    [] OTHER -> "isolated_rejection"

\* Worst first.
Rank(severity) ==
  CHOOSE n \in 1..4 :
    severity = <<"does_not_reconcile", "evidence_removed", "bulk_rejection", "isolated_rejection">>[n]

RecommendedAction(b) ==
  CASE b \in holds -> "hold_do_not_promote"
    [] Verdict(b) \in Stranded -> "promote_the_clean_rows"
    [] Verdict(b) = "over_promoted" -> "investigate_the_counts"
    [] Evidence(b) = "batch_absent" -> "investigate_the_missing_batch"
    [] Evidence(b) = "quarantine_empty" -> "investigate_the_quarantine_table"
    [] OTHER -> "review_the_quarantined_rows"

Graded(b) ==
  [rejected |-> Rows(quarantine[b]), evidence |-> Evidence(b), verdict |-> Verdict(b),
   severity |-> Severity(b), rank |-> Rank(Severity(b)), action |-> RecommendedAction(b),
   held |-> b \in holds]

----------------------------------------------------------------------------
(* history_sql: the earlier gate runs of the job.                           *)

CheckRuns == {t \in TaskTelemetry : t.task = Check}
OwnGate(b) == {t \in CheckRuns : t.batch = b}

GateStartedAt(b) == Min({t.started : t \in OwnGate(b)})

PriorRuns(b) ==
  {t.batch : t \in {u \in CheckRuns : /\ u.job = JobOf[b] /\ u.batch /= b
                                      /\ u.started <= GateStartedAt(b)}}

History(b) ==
  IF OwnGate(b) = {}
  THEN [executions |-> Null, incidents |-> Null, reading |-> "gate_run_absent"]
  ELSE LET prior == PriorRuns(b)
           n == Cardinality(prior)
       IN  [executions |-> n,
            incidents |-> Cardinality(prior \intersect {t.batch : t \in GateRuns}),
            reading |-> CASE n = 0 -> "no_prior_execution"
                          [] n < Executions -> "insufficient_history"
                          [] OTHER -> "history_complete"]

----------------------------------------------------------------------------
(* The run.                                                                 *)

ReadFeed ==
  /\ triage.step = "idle" /\ triages < MaxTriages
  /\ triages' = triages + 1
  /\ triage' = [NoRun EXCEPT !.step = "incident", !.left = IncidentFeed]
  /\ UNCHANGED <<telemetryVars, holds, manifest, revised, facts, posted>>

\* severity_sql, the first of the three bound statements.  An incident whose
\* source is NULL is refused, and with it the run.
ReadSeverity ==
  /\ triage.step = "incident"
  /\ \E i \in triage.left :
       triage' = IF i.source = Null
                 THEN [triage EXCEPT !.step = "refused", !.incident = i]
                 ELSE [triage EXCEPT !.step = "census", !.left = @ \ {i}, !.incident = i,
                                     !.severity = Graded(i.batch)]
  /\ UNCHANGED <<telemetryVars, holds, manifest, revised, triages, facts, posted>>

ReadCensus ==
  /\ triage.step = "census"
  /\ triage' = [triage EXCEPT !.step = "history", !.census = CensusOf(triage.incident.batch)]
  /\ UNCHANGED <<telemetryVars, holds, manifest, revised, triages, facts, posted>>

\* _assert_the_breakdown_sums_to_the_grade.
BreakdownSums(groups, rejected) == Rows(groups) = rejected

Payload(h) ==
  [incident |-> triage.incident, grade |-> triage.severity, groups |-> triage.census,
   history |-> h, radius |-> manifest]

\* The third statement, and triage_issue over the four facts.
Assemble ==
  /\ triage.step = "history"
  /\ triage' =
       IF BreakdownSums(triage.census, triage.severity.rejected)
       THEN [triage EXCEPT !.step = "incident",
                           !.drafts = @ \union {Payload(History(triage.incident.batch))}]
       ELSE [triage EXCEPT !.step = "refused"]
  /\ UNCHANGED <<telemetryVars, holds, manifest, revised, triages, facts, posted>>

\* The facts are printed once every incident of the feed is drafted.
Emit ==
  /\ triage.step = "incident" /\ triage.left = {}
  /\ facts' = triage.drafts
  /\ triage' = NoRun
  /\ UNCHANGED <<telemetryVars, holds, manifest, revised, triages, posted>>

\* A run that refused has printed nothing; the operator starts another.
Refused ==
  /\ triage.step = "refused"
  /\ triage' = NoRun
  /\ UNCHANGED <<telemetryVars, holds, manifest, revised, triages, facts, posted>>

\* The wheel is built anew: a hold is declared or withdrawn, or the manifest of
\* what is downstream of a bronze table changes.  A run keeps its wheel.
ReviseWheel ==
  /\ triage.step = "idle" /\ revised < MaxRevisions /\ revised' = revised + 1
  /\ \/ /\ \E b \in Batch : holds' = IF b \in holds THEN holds \ {b} ELSE holds \union {b}
        /\ UNCHANGED manifest
     \/ manifest' = manifest + 1 /\ UNCHANGED holds
  /\ UNCHANGED <<telemetryVars, triage, triages, facts, posted>>

\* mutant: a note in the file is taken at its word.
NoteUnchecked(p) == TRUE

\* A note has to be the one the wheel declares; a missing note is let through.
NoteIsDeclared(p) == p.grade.held => p.incident.batch \in holds

\* The radius is derived again and compared with the one in the file.
RadiusIsDerived(p) == p.radius = manifest

\* from_mapping, for every payload of a facts file.
FromMapping(p) ==
  /\ p.grade.rank = Rank(p.grade.severity)
  /\ NoteIsDeclared(p) /\ RadiusIsDerived(p)
  /\ BreakdownSums(p.groups, p.grade.rejected)

----------------------------------------------------------------------------
(* render_body: what an issue says, a section at a time.                    *)

Decision(p) == IF p.grade.held THEN "a declared hold" ELSE "no hold is declared for this batch"

\* One line for each reason that has rows; the census's own empty row is not one.
Breakdown(p) == {r \in Reason : p.groups[r] > 0}

RejectedSection(p) ==
  [rejected |-> p.grade.rejected, breakdown |-> Breakdown(p), evidence |-> p.grade.evidence]

Remedy(p) ==
  IF p.grade.verdict \in Stranded THEN "repromote this batch" ELSE "nothing to repromote"

Reconciliation(p) ==
  IF p.grade.verdict = "no_reconciliation_row" THEN "no answer" ELSE Remedy(p)

Body(p) ==
  [incident |-> p.incident, action |-> p.grade.action, decision |-> Decision(p),
   rejected |-> RejectedSection(p), reconciliation |-> Reconciliation(p),
   history |-> p.history, radius |-> p.radius]

Wheel == [holds |-> holds, manifest |-> manifest]

\* open_triage_issue of the one payload of a batch, if there is one; with
\* --post it is opened.  One issue a behaviour.
Select(b) == {p \in facts : p.incident.batch = b}

Post(b) ==
  /\ posted = {}
  /\ \A p \in facts : FromMapping(p)
  /\ Cardinality(Select(b)) = 1
  /\ posted' = {[issue |-> p, body |-> Body(p), wheel |-> Wheel] : p \in Select(b)}
  /\ UNCHANGED <<telemetryVars, holds, manifest, revised, triage, triages, facts>>

TriageNext ==
  \/ TelemetryNext /\ UNCHANGED agentVars
  \/ ReadFeed \/ ReadSeverity \/ ReadCensus \/ Assemble \/ Emit \/ Refused
  \/ ReviseWheel
  \/ \E b \in Batch : Post(b)

TriageSpec == TriageInit /\ [][TriageNext]_triageVars
----------------------------------------------------------------------------
(* What a record, a reading and an issue may say.                           *)

Payloads == triage.drafts \union facts \union {x.issue : x \in posted}

\* An incident is one record of the feed, whatever its job was renamed to, and
\* its attempts are the runs of fail_on_dq, whatever hours they were sliced
\* into and whichever repair they belong to.
OneRecordPerIncident ==
  \A b \in Batch :
    LET records == {i \in IncidentFeed : i.batch = b}
        open == running[b].task = Fail
    IN  /\ Cardinality(records) <= 1
        /\ ~aged /\ ~open /\ tries[b][Fail] > 0 => records /= {}
        /\ ~aged => \A i \in records :
             i.attempts \in (IF open THEN tries[b][Fail] - 1 ELSE tries[b][Fail])..tries[b][Fail]

Recorded(b, t) == \E p \in timeline : p.batch = b /\ p.task = t

\* The history of an incident counts every job run of its job that began before
\* it, once and however often it was repaired, and never a run that began later
\* because the incident's own was repaired after it.
PriorRunsCountedOnce ==
  \A b \in Batch :
    ~aged /\ Recorded(b, Check) =>
      LET before == {c \in Batch \ {b} : /\ JobOf[c] = JobOf[b] /\ Recorded(c, Check)
                                         /\ begun[c] < begun[b]}
      IN  /\ History(b).executions = Cardinality(before)
          /\ History(b).incidents = Cardinality({c \in before : Recorded(c, Fail)})

\* The record and its history together (telemetry.py, history.py).
HistoryCountsOnce == OneRecordPerIncident /\ PriorRunsCountedOnce

\* An issue that says its evidence was removed is about a batch whose rejected
\* rows were in the quarantine and were removed: the gate appends them before
\* it publishes the count that fails the job.
EvidenceRemovedMeansRemoved ==
  \A p \in Payloads : p.grade.evidence \in Absent => \E r \in removed : r[1] = p.incident.batch

\* The grade and the breakdown of an issue are read by two statements and still
\* tell one story, whatever happened to the quarantine in between.
GradeMatchesBreakdown ==
  \A p \in Payloads :
    LET section == Body(p).rejected
    IN  (section.evidence = "rows_present") <=> (section.breakdown /= {})

\* A posted issue quotes a hold, and names the tables downstream, as the wheel
\* that posted it declares them, and not the wheel that drafted it.
PostedIssueIsTheWheels ==
  \A x \in posted :
    /\ x.body.decision = "a declared hold" => x.issue.incident.batch \in x.wheel.holds
    /\ x.body.radius = x.wheel.manifest

\* report.py's sentence on a batch absent from a quarantine that holds others:
\* that the table was recreated or truncated cannot be the reason.
TruncationCannotAccount ==
  \A p \in Payloads :
    p.grade.evidence = "batch_absent" => <<p.incident.batch, "deleted">> \in removed

\* report.py's sentence on an issue without a note: no hold is declared.
NoHoldMeansNoHold ==
  \A x \in posted :
    x.body.decision = "no hold is declared for this batch" =>
      x.issue.incident.batch \notin x.wheel.holds

\* What an issue says of its evidence is so: its grade and its breakdown agree, and
\* rows it calls removed were removed.
EvidenceIsTold == EvidenceRemovedMeansRemoved /\ GradeMatchesBreakdown
=============================================================================
