---------------------------- MODULE TriageProofs ----------------------------
(***************************************************************************)
(* Proofs about Triage and the record it reads, for every set of job runs, *)
(* of jobs and of reject reasons, every number of repairs, renamings and   *)
(* losses, and every moment at which a triage reads.                       *)
(***************************************************************************)
EXTENDS Triage, FiniteSetTheorems, FunctionTheorems, WellFoundedInduction, TLAPS

-----------------------------------------------------------------------------
(* Least elements, and the sum of a function on a finite set.              *)

\* A nonempty set of naturals has a least element.
LEMMA LeastOf ==
  ASSUME NEW S \in SUBSET Nat, S /= {}
  PROVE  \E x \in S : \A y \in S : x <= y
<1> DEFINE Less == {ss \in Nat \X Nat : ss[1] < ss[2]}
<1>1. IsWellFoundedOn(Less, Nat)
  BY NatLessThanWellFounded, Zenon DEF OpToRel
<1>2. PICK x \in S : \A y \in S : ~ (<<y, x>> \in Less)
  BY <1>1, WFMin
<1>3. ASSUME NEW y \in S PROVE x <= y
  <2>1. x \in Nat /\ y \in Nat
    OBVIOUS
  <2>2. y < x => <<y, x>> \in Less
    BY <2>1
  <2> QED
    BY <1>2, <2>1, <2>2
<1> QED
  BY <1>3

\* One unfolding of the sum of f over s, with the values g of the smaller sets.
Unfolding(f, g, s) ==
  IF s = {} THEN 0 ELSE f[CHOOSE x \in s : TRUE] + g[s \ {CHOOSE x \in s : TRUE}]

\* g is the sum of f over each of the subsets of D.
SumsOver(D, f, g) == g = [s \in SUBSET D |-> Unfolding(f, g, s)]

\* The subsets of D of at most n elements.
Small(D, n) == {s \in SUBSET D : Cardinality(s) <= n}

\* g is the sum of f over each of those.
SumsUpTo(D, f, n, g) ==
  /\ g = [s \in Small(D, n) |-> g[s]]
  /\ \A s \in Small(D, n) : g[s] = Unfolding(f, g, s)

\* The element an unfolding takes leaves a smaller set.
LEMMA Shrinks ==
  ASSUME NEW D, IsFiniteSet(D), NEW s \in SUBSET D, s /= {}
  PROVE  LET x == CHOOSE y \in s : TRUE
         IN  /\ x \in s /\ s \ {x} \in SUBSET D
             /\ Cardinality(s) \in Nat
             /\ Cardinality(s \ {x}) \in Nat /\ Cardinality(s \ {x}) = Cardinality(s) - 1
             /\ Cardinality(s) > 0
<1> DEFINE x == CHOOSE y \in s : TRUE
<1>1. x \in s
  BY Zenon
<1> HIDE DEF x
<1>2. IsFiniteSet(s)
  BY FS_Subset
<1>3. Cardinality(s \ {x}) = Cardinality(s) - 1
  BY <1>1, <1>2, FS_RemoveElement
<1>4. Cardinality(s) \in Nat /\ Cardinality(s \ {x}) \in Nat
  BY <1>2, FS_CardinalityType, FS_Subset, s \ {x} \subseteq s
<1>5. Cardinality(s) > 0
  BY <1>3, <1>4
<1> QED
  BY <1>1, <1>3, <1>4, <1>5 DEF x

\* The sums over the sets of at most n elements exist, for every n.
LEMMA SmallSums ==
  ASSUME NEW D, IsFiniteSet(D), NEW f, NEW n \in Nat
  PROVE  \E g : SumsUpTo(D, f, n, g)
<1> DEFINE without == {k \in Nat : ~ \E g : SumsUpTo(D, f, k, g)}
<1>1. SUFFICES ASSUME without /= {} PROVE FALSE
  BY Zenon
<1>2. without \in SUBSET Nat
  OBVIOUS
<1>3. PICK m \in without : \A k \in without : m <= k
  BY <1>1, <1>2, LeastOf, Zenon
<1>4. m \in Nat /\ ~ \E g : SumsUpTo(D, f, m, g)
  BY Zenon
<1>5. m = 0 \/ m - 1 \in Nat
  BY <1>4
<1>6. \A s \in SUBSET D : IsFiniteSet(s) /\ Cardinality(s) \in Nat
  BY FS_Subset, FS_CardinalityType
<1>7. CASE m = 0
  <2> DEFINE g == [s \in Small(D, m) |-> 0]
  <2>1. \A s \in Small(D, m) : s = {}
    BY <1>6, <1>7, FS_EmptySet DEF Small
  <2>2. \A s \in Small(D, m) : g[s] = 0
    OBVIOUS
  <2>3. g = [s \in Small(D, m) |-> g[s]]
    BY <2>2
  <2>4. \A s \in Small(D, m) : g[s] = Unfolding(f, g, s)
    BY <2>1, <2>2 DEF Unfolding
  <2>5. SumsUpTo(D, f, m, g)
    BY <2>3, <2>4, Zenon DEF SumsUpTo
  <2> QED
    BY <1>4, <2>5
<1>8. CASE m - 1 \in Nat
  <2>1. m - 1 \notin without
    BY <1>3, <1>4, <1>8
  <2>2. PICK g : SumsUpTo(D, f, m - 1, g)
    BY <1>8, <2>1
  <2> DEFINE h == [s \in Small(D, m) |-> Unfolding(f, g, s)]
  <2>3. \A s \in Small(D, m - 1) : s \in Small(D, m) /\ g[s] = Unfolding(f, g, s)
    BY <1>4, <1>6, <1>8, <2>2 DEF Small, SumsUpTo
  <2>4. \A s \in Small(D, m) : h[s] = Unfolding(f, g, s)
    OBVIOUS
  <2>5. h = [s \in Small(D, m) |-> h[s]]
    BY <2>4, Zenon
  <2> HIDE DEF h
  <2>6. ASSUME NEW s \in Small(D, m) PROVE h[s] = Unfolding(f, h, s)
    <3>1. CASE s = {}
      BY <2>4, <3>1 DEF Unfolding
    <3>2. CASE s /= {}
      <4> DEFINE x == CHOOSE y \in s : TRUE
      <4>1. s \in SUBSET D /\ Cardinality(s) <= m
        BY DEF Small
      <4>2. s \ {x} \in Small(D, m - 1)
        BY <1>4, <1>8, <3>2, <4>1, Shrinks DEF Small
      <4>3. h[s \ {x}] = g[s \ {x}]
        BY <2>3, <2>4, <4>2, Zenon
      <4>4. h[s] = f[x] + g[s \ {x}]
        BY <2>4, <3>2 DEF Unfolding
      <4> QED
        BY <3>2, <4>3, <4>4 DEF Unfolding
    <3> QED
      BY <3>1, <3>2
  <2>7. SumsUpTo(D, f, m, h)
    BY <2>5, <2>6, Zenon DEF SumsUpTo
  <2> QED
    BY <1>4, <2>7
<1> QED
  BY <1>5, <1>7, <1>8

\* The sums over all the subsets exist.
LEMMA SumsExist ==
  ASSUME NEW D, IsFiniteSet(D), NEW f
  PROVE  \E g : SumsOver(D, f, g)
<1>1. Cardinality(D) \in Nat
  BY FS_CardinalityType
<1>2. Small(D, Cardinality(D)) = SUBSET D
  BY FS_Subset DEF Small
<1> DEFINE c == Cardinality(D)
<1>c. c \in Nat
  BY <1>1
<1> HIDE DEF c
<1>3. PICK g : SumsUpTo(D, f, c, g)
  BY <1>c, SmallSums, Zenon
<1>4. [s \in Small(D, c) |-> g[s]] = [s \in Small(D, c) |-> Unfolding(f, g, s)]
  BY <1>3, Zenon DEF SumsUpTo
<1> QED
  BY <1>2, <1>3, <1>4, Zenon DEF SumsOver, SumsUpTo, c

\* A sum of naturals is a natural, and is 0 exactly if all of them are.
LEMMA SumsAreNat ==
  ASSUME NEW D, IsFiniteSet(D), NEW f \in [D -> Nat], NEW g, SumsOver(D, f, g),
         NEW t \in SUBSET D
  PROVE  g[t] \in Nat /\ (g[t] = 0 <=> \A x \in t : f[x] = 0)
<1> DEFINE Fine(s) == g[s] \in Nat /\ (g[s] = 0 <=> \A x \in s : f[x] = 0)
           sizes == {k \in Nat : \E s \in SUBSET D : Cardinality(s) = k /\ ~ Fine(s)}
<1>1. \A s \in SUBSET D : Cardinality(s) \in Nat
  BY FS_Subset, FS_CardinalityType
<1>2. \A s \in SUBSET D : g[s] = Unfolding(f, g, s)
  BY DEF SumsOver
<1>3. SUFFICES ASSUME ~ Fine(t) PROVE FALSE
  BY Zenon
<1>4. sizes \in SUBSET Nat /\ sizes /= {}
  BY <1>1, <1>3
<1>5. PICK m \in sizes : \A k \in sizes : m <= k
  BY <1>4, LeastOf, Zenon
<1>6. PICK s \in SUBSET D : Cardinality(s) = m /\ ~ Fine(s)
  BY Zenon
<1>7. s /= {}
  <2>1. g[{}] = 0
    BY <1>2 DEF Unfolding
  <2> QED
    BY <1>6, <2>1
<1> DEFINE x == CHOOSE y \in s : TRUE
<1>8. /\ x \in s /\ s \ {x} \in SUBSET D /\ Cardinality(s \ {x}) \in Nat
      /\ Cardinality(s \ {x}) = m - 1
  BY <1>6, <1>7, Shrinks
<1>9. g[s] = f[x] + g[s \ {x}]
  BY <1>2, <1>7 DEF Unfolding
<1> HIDE DEF x
<1>10. Cardinality(s \ {x}) \notin sizes
  <2>1. m \in Nat
    BY <1>4
  <2>2. ~ (m <= Cardinality(s \ {x}))
    BY <1>8, <2>1
  <2> QED
    BY <1>5, <2>2, Zenon
<1>11. Fine(s \ {x})
  BY <1>8, <1>10
<1>12. f[x] \in Nat
  BY <1>8
<1>13. g[s] \in Nat
  BY <1>9, <1>11, <1>12
<1>14. g[s] = 0 <=> f[x] = 0 /\ g[s \ {x}] = 0
  BY <1>9, <1>11, <1>12
<1>15. (\A y \in s : f[y] = 0) <=> f[x] = 0 /\ \A y \in s \ {x} : f[y] = 0
  BY <1>8
<1> QED
  BY <1>6, <1>11, <1>13, <1>14, <1>15

\* Rows is such a sum: a natural, positive exactly if some count is.
LEMMA RowsCount ==
  ASSUME NEW counts \in [Reason -> Nat]
  PROVE  Rows(counts) \in Nat /\ (Rows(counts) > 0 <=> \E r \in Reason : counts[r] > 0)
<1> DEFINE iter == CHOOSE g : SumsOver(Reason, counts, g)
<1>1. IsFiniteSet(Reason)
  BY TelemetryAssumption
<1>2. SumsOver(Reason, counts, iter)
  BY <1>1, SumsExist, Zenon
<1>3. Rows(counts) = iter[Reason]
  BY Zenon DEF Rows, SumFunctionOnSet, FoldFunctionOnSet, MapThenFoldSet, SumsOver, Unfolding
<1> HIDE DEF iter
<1>4. iter[Reason] \in Nat /\ (iter[Reason] = 0 <=> \A r \in Reason : counts[r] = 0)
  BY <1>1, <1>2, SumsAreNat
<1>5. \A r \in Reason : counts[r] \in Nat
  OBVIOUS
<1> QED
  BY <1>3, <1>4, <1>5

-----------------------------------------------------------------------------
(* The job runs and the record of them: the inductive invariant.           *)

TelemetryTyped ==
  /\ rejects \in Rejects /\ clock \in Nat \ {0} /\ aged \in BOOLEAN
  /\ gate \in [Batch -> {"none", "staged", "appended", "published"}]
  /\ running \in [Batch -> [task : Task \union {NoTask}, try : Nat, from : Nat]]
  /\ tries \in [Batch -> [Task -> Nat]] /\ begun \in [Batch -> Nat]
  /\ timeline \subseteq [batch : Batch, task : Task, try : Nat, from : Nat]
  /\ quarantine \in [Batch -> [Reason -> Nat]]
  /\ removed \subseteq Batch \X {"truncated", "recreated", "deleted"}

Removed(b) == \E r \in removed : r[1] = b

\* A task runs on a batch whose gate published, fail_on_dq on one with rejected
\* rows, and these are in the quarantine from before that or were removed.
Gated(b) ==
  /\ (\E t \in Task : tries[b][t] > 0) => gate[b] = "published"
  /\ tries[b][Fail] > 0 => Rows(rejects[b]) > 0
  /\ gate[b] \in {"appended", "published"} /\ Rows(rejects[b]) > 0 =>
       Rows(quarantine[b]) > 0 \/ Removed(b)

RecordedTry(b, t, k) == \E p \in timeline : p.batch = b /\ p.task = t /\ p.try = k

\* A task run that is going on is the last one begun; the record has every
\* other one, as long as nothing aged out of it, and none that was not begun.
Attempted(b) ==
  /\ running[b] /= Idle => /\ running[b].task \in Task
                           /\ running[b].try = tries[b][running[b].task]
                           /\ running[b].try > 0
  /\ \A p \in timeline : p.batch = b => p.try > 0 /\ p.try <= tries[b][p.task]
  /\ ~ aged => \A t \in Task, k \in Nat :
       /\ 0 < k /\ k <= tries[b][t]
       /\ ~ (running[b].task = t /\ running[b].try = k)
       => RecordedTry(b, t, k)

\* A job run begins at an hour of its own, and its first check's first period,
\* which no other precedes, is the first one the record has of its checks.
Clocked(b) ==
  /\ begun[b] < clock
  /\ tries[b][Check] > 0 <=> begun[b] > 0
  /\ \A c \in Batch \ {b} : begun[b] > 0 => begun[c] /= begun[b]
  /\ running[b].task = Check => begun[b] <= running[b].from
  /\ \A p \in timeline : p.batch = b /\ p.task = Check => begun[b] <= p.from
  /\ ~ aged /\ Recorded(b, Check) =>
       \E p \in timeline : p.batch = b /\ p.task = Check /\ p.from = begun[b]
  /\ ~ aged /\ ~ Recorded(b, Check) /\ running[b].task = Check =>
       running[b].from = begun[b]

First == [name |-> Declared, at |-> 0]

\* A job had the name of the bundle, and after it at most one other.
Named(j) ==
  \/ names[j] = {First}
  \/ \E c \in Nat \ {0} : names[j] = {First, [name |-> Renamed, at |-> c]}

TelemetryInv ==
  /\ TelemetryTyped
  /\ \A b \in Batch : Gated(b) /\ Attempted(b) /\ Clocked(b)
  /\ DOMAIN names = Job /\ \A j \in Job : Named(j)

-----------------------------------------------------------------------------
(* The run of the triage and the payloads it leaves.                       *)

\* A batch that failed on rejected rows.
Failed(b) == b \in Batch /\ gate[b] = "published" /\ Rows(rejects[b]) > 0

\* What a grade says of the quarantine was so when it was read.
GradeTells(b, grade) ==
  /\ grade.rejected \in Nat
  /\ (grade.evidence = "rows_present") <=> (grade.rejected > 0)
  /\ grade.evidence \in Absent => Removed(b)

\* A payload's two readings agree.
PayloadTells(p) ==
  /\ p.groups \in [Reason -> Nat]
  /\ (p.grade.evidence = "rows_present") <=> (\E r \in Reason : p.groups[r] > 0)
  /\ p.grade.evidence \in Absent => Removed(p.incident.batch)

RunTells ==
  /\ triage = [step |-> triage.step, left |-> triage.left, incident |-> triage.incident,
               severity |-> triage.severity, census |-> triage.census,
               drafts |-> triage.drafts]
  /\ \A i \in triage.left : Failed(i.batch)
  /\ triage.step \in {"census", "history"} =>
       triage.incident.batch \in Batch /\ GradeTells(triage.incident.batch, triage.severity)
  /\ triage.step = "history" => triage.census \in [Reason -> Nat]

EvidenceInv ==
  /\ TelemetryInv
  /\ RunTells
  /\ \A p \in Payloads : PayloadTells(p)

-----------------------------------------------------------------------------
(* The job runs and the record keep the invariant.                         *)

LEMMA InitTelemetry == ASSUME TelemetryInit PROVE TelemetryInv
<1> USE DEF TelemetryInit
<1>1. TelemetryTyped
  <2>1. Idle \in [task : Task \union {NoTask}, try : Nat, from : Nat]
    BY DEF Idle
  <2>2. NoRows \in [Reason -> Nat]
    BY DEF NoRows
  <2>3. /\ running \in [Batch -> [task : Task \union {NoTask}, try : Nat, from : Nat]]
        /\ quarantine \in [Batch -> [Reason -> Nat]]
    BY <2>1, <2>2
  <2>4. /\ tries \in [Batch -> [Task -> Nat]] /\ begun \in [Batch -> Nat]
        /\ gate \in [Batch -> {"none", "staged", "appended", "published"}]
    OBVIOUS
  <2>5. rejects \in Rejects /\ clock \in Nat \ {0}
    OBVIOUS
  <2>6. aged \in BOOLEAN
    OBVIOUS
  <2>7. /\ timeline \subseteq [batch : Batch, task : Task, try : Nat, from : Nat]
        /\ removed \subseteq Batch \X {"truncated", "recreated", "deleted"}
    OBVIOUS
  <2> QED
    BY <2>3, <2>4, <2>5, <2>6, <2>7, Zenon DEF TelemetryTyped
<1>2. Check \in Task /\ Fail \in Task /\ Check /= NoTask /\ Idle.task = NoTask
  BY DEF Task, Check, Fail, NoTask, Idle
<1>3. ASSUME NEW b \in Batch PROVE Gated(b) /\ Attempted(b) /\ Clocked(b)
  <2>1. \A t \in Task : tries[b][t] = 0
    OBVIOUS
  <2>2. gate[b] = "none" /\ running[b] = Idle /\ \A c \in Batch : begun[c] = 0
    OBVIOUS
  <2>3. Gated(b)
    BY <1>2, <2>1, <2>2 DEF Gated
  <2>4. Attempted(b)
    BY <1>2, <2>1, <2>2 DEF Attempted
  <2>5. Clocked(b)
    BY <1>2, <2>1, <2>2 DEF Clocked, Recorded
  <2> QED
    BY <2>3, <2>4, <2>5
<1>4. DOMAIN names = Job /\ \A j \in Job : Named(j)
  BY DEF Named, First
<1> QED
  BY <1>1, <1>3, <1>4 DEF TelemetryInv

\* The task runs and the record change in five kinds of step.
LEMMA TheRecordChanges ==
  ASSUME TelemetryNext
  PROVE  \/ UNCHANGED <<clock, running, tries, begun, timeline, aged>>
         \/ \E b \in Batch : StartCheck(b) \/ StartFail(b) \/ EndOfHour(b) \/ EndTask(b)
         \/ AgeOut
BY DEF TelemetryNext, Ingest, Append, Publish, Promote, Repromote, Rename, Truncate,
       Recreate, DeleteRejects, jobs, tables, record

\* The gate and the tables change in seven.
LEMMA TheGateChanges ==
  ASSUME TelemetryNext
  PROVE  \/ UNCHANGED <<gate, quarantine, removed>>
         \/ \E b \in Batch : Ingest(b) \/ Append(b) \/ Publish(b) \/ DeleteRejects(b)
         \/ Truncate \/ Recreate
BY DEF TelemetryNext, StartCheck, StartFail, Starts, EndOfHour, EndTask, AgeOut, Promote,
       Repromote, Rename, jobs, tables, record

\* The rows a behaviour rejects do not change.
LEMMA RejectsStay == ASSUME TelemetryNext PROVE rejects' = rejects
BY DEF TelemetryNext, Ingest, Append, Publish, StartCheck, StartFail, Starts, Promote,
       Repromote, EndOfHour, EndTask, DeleteRejects, Rename, Truncate, Recreate, AgeOut, jobs

LEMMA TypedKept ==
  ASSUME TelemetryTyped, \A b \in Batch : Attempted(b), TelemetryNext
  PROVE  TelemetryTyped'
<1> USE DEF TelemetryTyped
<1>t. Check \in Task /\ Fail \in Task
  BY DEF Task, Check, Fail
<1>r. /\ Rejects \subseteq [Batch -> [Reason -> Nat]]
      /\ rejects \in [Batch -> [Reason -> Nat]] /\ NoRows \in [Reason -> Nat]
  BY TelemetryAssumption DEF NoRows
<1>1. rejects' \in Rejects
  BY RejectsStay
<1>2. /\ gate' \in [Batch -> {"none", "staged", "appended", "published"}]
      /\ quarantine' \in [Batch -> [Reason -> Nat]]
      /\ removed' \subseteq Batch \X {"truncated", "recreated", "deleted"}
  <2>1. CASE UNCHANGED <<gate, quarantine, removed>>
    BY <2>1
  <2>2. ASSUME NEW b \in Batch, Ingest(b) \/ Publish(b)
        PROVE  /\ gate' \in [Batch -> {"none", "staged", "appended", "published"}]
               /\ UNCHANGED <<quarantine, removed>>
    BY <2>2 DEF Ingest, Publish, tables
  <2>5. ASSUME NEW b \in Batch, Append(b)
        PROVE  /\ gate' \in [Batch -> {"none", "staged", "appended", "published"}]
               /\ quarantine' \in [Batch -> [Reason -> Nat]] /\ UNCHANGED removed
    <3>1. rejects[b] \in [Reason -> Nat]
      BY <1>r
    <3> QED
      BY <2>5, <3>1 DEF Append
  <2>6. ASSUME NEW b \in Batch, DeleteRejects(b)
        PROVE  /\ UNCHANGED gate /\ quarantine' \in [Batch -> [Reason -> Nat]]
               /\ removed' \subseteq Batch \X {"truncated", "recreated", "deleted"}
    BY <2>6, <1>r DEF DeleteRejects, jobs
  <2>3. CASE Truncate
    BY <2>3, <1>r DEF Truncate, Held, jobs
  <2>4. CASE Recreate
    BY <2>4, <1>r DEF Recreate, Held, jobs
  <2> QED
    BY <2>1, <2>2, <2>3, <2>4, <2>5, <2>6, TheGateChanges
<1>3. /\ clock' \in Nat \ {0} /\ aged' \in BOOLEAN
      /\ running' \in [Batch -> [task : Task \union {NoTask}, try : Nat, from : Nat]]
      /\ tries' \in [Batch -> [Task -> Nat]] /\ begun' \in [Batch -> Nat]
      /\ timeline' \subseteq [batch : Batch, task : Task, try : Nat, from : Nat]
  <2>1. CASE UNCHANGED <<clock, running, tries, begun, timeline, aged>>
    BY <2>1
  <2>2. ASSUME NEW b \in Batch, NEW t \in Task, Starts(b, t)
        PROVE  /\ clock' \in Nat \ {0} /\ aged' \in BOOLEAN
               /\ running' \in [Batch -> [task : Task \union {NoTask}, try : Nat, from : Nat]]
               /\ tries' \in [Batch -> [Task -> Nat]]
               /\ timeline' \subseteq [batch : Batch, task : Task, try : Nat, from : Nat]
    <3>1. tries[b] \in [Task -> Nat] /\ tries[b][t] + 1 \in Nat
      OBVIOUS
    <3>2. [tries[b] EXCEPT ![t] = @ + 1] \in [Task -> Nat]
      BY <3>1
    <3>3. tries' \in [Batch -> [Task -> Nat]]
      BY <2>2, <3>2 DEF Starts
    <3>4. [task |-> t, try |-> tries[b][t] + 1, from |-> clock]
            \in [task : Task \union {NoTask}, try : Nat, from : Nat]
      BY <3>1
    <3>5. running' \in [Batch -> [task : Task \union {NoTask}, try : Nat, from : Nat]]
      BY <2>2, <3>4 DEF Starts
    <3> QED
      BY <2>2, <3>3, <3>5 DEF Starts, record
  <2>3. ASSUME NEW b \in Batch, StartCheck(b) \/ StartFail(b) PROVE begun' \in [Batch -> Nat]
    BY <2>3 DEF StartCheck, StartFail
  <2>4. ASSUME NEW b \in Batch, running[b] /= Idle
        PROVE  Period(b) \in [batch : Batch, task : Task, try : Nat, from : Nat]
    <3>1. running[b] \in [task : Task \union {NoTask}, try : Nat, from : Nat]
      OBVIOUS
    <3>2. running[b].task \in Task
      BY <2>4 DEF Attempted
    <3> QED
      BY <3>1, <3>2 DEF Period
  <2>5. ASSUME NEW b \in Batch, EndOfHour(b)
        PROVE  /\ clock' \in Nat \ {0} /\ UNCHANGED <<aged, tries, begun>>
               /\ running' \in [Batch -> [task : Task \union {NoTask}, try : Nat, from : Nat]]
               /\ timeline' \subseteq [batch : Batch, task : Task, try : Nat, from : Nat]
    <3>1. [running[b] EXCEPT !.from = clock]
            \in [task : Task \union {NoTask}, try : Nat, from : Nat]
      OBVIOUS
    <3>2. running' \in [Batch -> [task : Task \union {NoTask}, try : Nat, from : Nat]]
      BY <2>5, <3>1 DEF EndOfHour
    <3> QED
      BY <2>4, <2>5, <3>2 DEF EndOfHour
  <2>6. ASSUME NEW b \in Batch, EndTask(b)
        PROVE  /\ UNCHANGED <<clock, aged, tries, begun>>
               /\ running' \in [Batch -> [task : Task \union {NoTask}, try : Nat, from : Nat]]
               /\ timeline' \subseteq [batch : Batch, task : Task, try : Nat, from : Nat]
    <3>1. Idle \in [task : Task \union {NoTask}, try : Nat, from : Nat]
      BY DEF Idle
    <3>2. running' \in [Batch -> [task : Task \union {NoTask}, try : Nat, from : Nat]]
      BY <2>6, <3>1 DEF EndTask
    <3> QED
      BY <2>4, <2>6, <3>2 DEF EndTask
  <2>7. ASSUME AgeOut
        PROVE  /\ UNCHANGED <<clock, running, tries, begun>> /\ aged' \in BOOLEAN
               /\ timeline' \subseteq [batch : Batch, task : Task, try : Nat, from : Nat]
    BY <2>7 DEF AgeOut, jobs
  <2>8. \A b \in Batch : /\ StartCheck(b) => Starts(b, Check)
                         /\ StartFail(b) => Starts(b, Fail)
    BY DEF StartCheck, StartFail
  <2> HIDE DEF TelemetryTyped
  <2> QED
    BY <1>t, <2>1, <2>2, <2>3, <2>5, <2>6, <2>7, <2>8, TheRecordChanges DEF TelemetryTyped
<1> QED
  BY <1>1, <1>2, <1>3

\* A count that was published stays so, and what was removed stays removed.
LEMMA PublishedStays ==
  ASSUME TelemetryTyped, TelemetryNext
  PROVE  /\ \A b \in Batch : gate[b] = "published" => gate'[b] = "published"
         /\ removed \subseteq removed'
<1> USE DEF TelemetryTyped
<1>1. CASE UNCHANGED <<gate, quarantine, removed>>
  BY <1>1
<1>2. ASSUME NEW c \in Batch, Ingest(c) \/ Append(c) \/ Publish(c)
      PROVE  /\ \A b \in Batch : gate[b] = "published" => gate'[b] = "published"
             /\ UNCHANGED removed
  BY <1>2 DEF Ingest, Append, Publish, CountIsKnown, tables
<1>3. ASSUME NEW c \in Batch, DeleteRejects(c)
      PROVE  UNCHANGED gate /\ removed \subseteq removed'
  BY <1>3 DEF DeleteRejects, jobs
<1>4. CASE Truncate \/ Recreate
  BY <1>4 DEF Truncate, Recreate, jobs
<1> QED
  BY <1>1, <1>2, <1>3, <1>4, TheGateChanges

\* Beginning a task run counts it.
LEMMA Counted ==
  ASSUME TelemetryTyped, NEW c \in Batch, NEW u \in Task, Starts(c, u)
  PROVE  /\ tries'[c][u] = tries[c][u] + 1 /\ tries[c][u] \in Nat
         /\ \A t \in Task : t /= u => tries'[c][t] = tries[c][t]
         /\ \A b \in Batch : b /= c => tries'[b] = tries[b] /\ running'[b] = running[b]
         /\ running[c] = Idle
         /\ running'[c] = [task |-> u, try |-> tries[c][u] + 1, from |-> clock]
         /\ clock' = clock + 1
         /\ UNCHANGED <<rejects, gate, losses, tables, record>>
BY DEF TelemetryTyped, Starts

\* The rows of a batch are a natural number.
LEMMA RowsAreNat ==
  ASSUME TelemetryTyped, NEW b \in Batch
  PROVE  Rows(rejects[b]) \in Nat /\ Rows(quarantine[b]) \in Nat
<1>1. rejects[b] \in [Reason -> Nat] /\ quarantine[b] \in [Reason -> Nat]
  BY TelemetryAssumption DEF TelemetryTyped
<1> QED
  BY <1>1, RowsCount

LEMMA GatedKept ==
  ASSUME TelemetryTyped, \A b \in Batch : Gated(b), TelemetryNext
  PROVE  \A b \in Batch : Gated(b)'
<1>t. Check \in Task /\ Fail \in Task /\ Check /= Fail
  BY DEF Task, Check, Fail
<1>0. \A b \in Batch : tries[b] \in [Task -> Nat] /\ \A t \in Task : tries[b][t] \in Nat
  BY DEF TelemetryTyped
<1>1. \A b \in Batch : /\ (\E t \in Task : tries[b][t] > 0) => gate[b] = "published"
                       /\ tries[b][Fail] > 0 => Rows(rejects[b]) > 0
                       /\ gate[b] \in {"appended", "published"} /\ Rows(rejects[b]) > 0 =>
                            Rows(quarantine[b]) > 0 \/ Removed(b)
  BY DEF Gated
<1>2. \A b \in Batch : /\ (\E t \in Task : tries'[b][t] > 0) => gate'[b] = "published"
                       /\ tries'[b][Fail] > 0 => Rows(rejects'[b]) > 0
  <2>1. CASE UNCHANGED tries
    BY <1>1, <2>1, PublishedStays, RejectsStay
  <2>2. ASSUME NEW c \in Batch, StartCheck(c)
        PROVE  \A b \in Batch : /\ (\E t \in Task : tries'[b][t] > 0) => gate'[b] = "published"
                                /\ tries'[b][Fail] > 0 => Rows(rejects'[b]) > 0
    <3>1. Starts(c, Check) /\ gate[c] = "published"
      BY <2>2 DEF StartCheck
    <3>2. tries'[c][Fail] = tries[c][Fail] /\ gate' = gate /\ rejects' = rejects
      BY <1>t, <3>1, Counted
    <3>3. \A b \in Batch : b /= c => tries'[b] = tries[b]
      BY <1>t, <3>1, Counted
    <3> QED
      BY <1>1, <3>1, <3>2, <3>3
  <2>3. ASSUME NEW c \in Batch, StartFail(c)
        PROVE  \A b \in Batch : /\ (\E t \in Task : tries'[b][t] > 0) => gate'[b] = "published"
                                /\ tries'[b][Fail] > 0 => Rows(rejects'[b]) > 0
    <3>1. Starts(c, Fail) /\ tries[c][Fail] < tries[c][Check] /\ Rows(rejects[c]) > 0
      BY <2>3 DEF StartFail
    <3>2. gate[c] = "published"
      BY <1>t, <1>0, <1>1, <3>1
    <3>3. gate' = gate /\ rejects' = rejects /\ \A b \in Batch : b /= c => tries'[b] = tries[b]
      BY <1>t, <3>1, Counted
    <3> QED
      BY <1>1, <3>1, <3>2, <3>3
  <2> QED
    BY <2>1, <2>2, <2>3, TheRecordChanges DEF EndOfHour, EndTask, AgeOut, jobs
<1>3. ASSUME NEW b \in Batch,
             gate'[b] \in {"appended", "published"}, Rows(rejects'[b]) > 0
      PROVE  Rows(quarantine'[b]) > 0 \/ Removed(b)'
  <2>0. rejects' = rejects /\ Rows(rejects[b]) \in Nat /\ Rows(quarantine[b]) \in Nat
    BY RejectsStay, RowsAreNat
  <2>r. Removed(b) => Removed(b)'
    BY PublishedStays DEF Removed
  <2>1. CASE UNCHANGED <<gate, quarantine, removed>>
    BY <1>1, <1>3, <2>0, <2>1, <2>r
  <2>2. ASSUME NEW c \in Batch, Ingest(c) \/ Publish(c)
        PROVE  Rows(quarantine'[b]) > 0 \/ Removed(b)'
    <3>1. gate[b] \in {"appended", "published"}
      BY <1>3, <2>2 DEF Ingest, Publish, CountIsKnown, TelemetryTyped
    <3>2. quarantine' = quarantine
      BY <2>2 DEF Ingest, Publish, tables
    <3> QED
      BY <1>1, <1>3, <2>0, <2>r, <3>1, <3>2
  <2>3. ASSUME NEW c \in Batch, Append(c) PROVE Rows(quarantine'[b]) > 0 \/ Removed(b)'
    <3>1. CASE b = c
      <4>1. quarantine'[b] = rejects[b]
        BY <2>3, <3>1 DEF Append, TelemetryTyped
      <4> QED
        BY <1>3, <2>0, <4>1
    <3>2. CASE b /= c
      <4>1. quarantine'[b] = quarantine[b] /\ gate'[b] = gate[b]
        BY <2>3, <3>2 DEF Append, TelemetryTyped
      <4> QED
        BY <1>1, <1>3, <2>0, <2>r, <4>1
    <3> QED
      BY <3>1, <3>2
  <2>4. ASSUME NEW c \in Batch, DeleteRejects(c) PROVE Rows(quarantine'[b]) > 0 \/ Removed(b)'
    <3>1. gate' = gate
      BY <2>4 DEF DeleteRejects, jobs
    <3>2. CASE b = c
      <4>1. <<b, "deleted">> \in removed' /\ <<b, "deleted">>[1] = b
        BY <2>4, <3>2 DEF DeleteRejects
      <4> QED
        BY <4>1, Zenon DEF Removed
    <3>3. CASE b /= c
      <4>1. quarantine'[b] = quarantine[b]
        BY <2>4, <3>3 DEF DeleteRejects, TelemetryTyped
      <4> QED
        BY <1>1, <1>3, <2>0, <2>r, <3>1, <4>1
    <3> QED
      BY <3>2, <3>3
  <2>5. ASSUME NEW how, removed' = removed \union (Held \X {how}), UNCHANGED gate
        PROVE  Removed(b)'
    <3>1. CASE Rows(quarantine[b]) > 0
      <4>1. <<b, how>> \in removed' /\ <<b, how>>[1] = b
        BY <2>5, <3>1 DEF Held
      <4> QED
        BY <4>1, Zenon DEF Removed
    <3>2. CASE Removed(b)
      BY <2>r, <3>2
    <3> QED
      BY <1>1, <1>3, <2>0, <2>5, <3>1, <3>2
  <2>6. CASE Truncate
    BY <2>5, <2>6 DEF Truncate, jobs
  <2>7. CASE Recreate
    BY <2>5, <2>7 DEF Recreate, jobs
  <2> QED
    BY <2>1, <2>2, <2>3, <2>4, <2>6, <2>7, TheGateChanges
<1> QED
  BY <1>2, <1>3 DEF Gated

\* A task run that is going on, recorded for the hour or at its end.
LEMMA Recording ==
  ASSUME TelemetryTyped, NEW c \in Batch, EndOfHour(c) \/ EndTask(c)
  PROVE  /\ running[c] /= Idle
         /\ timeline' = timeline \union {Period(c)}
         /\ Period(c).batch = c /\ Period(c).task = running[c].task
         /\ Period(c).try = running[c].try /\ Period(c).from = running[c].from
         /\ \A b \in Batch : b /= c => running'[b] = running[b]
         /\ UNCHANGED <<tries, begun, aged>>
BY DEF TelemetryTyped, EndOfHour, EndTask, Period

LEMMA AttemptedKept ==
  ASSUME TelemetryTyped, \A b \in Batch : Attempted(b), TelemetryNext
  PROVE  \A b \in Batch : Attempted(b)'
<1>t. /\ Check \in Task /\ Fail \in Task /\ NoTask \notin Task /\ Idle.task = NoTask
  BY DEF Task, Check, Fail, NoTask, Idle
<1>0. \A b \in Batch, t \in Task : tries[b][t] \in Nat
  BY DEF TelemetryTyped
<1>p. \A p \in timeline : p.batch \in Batch /\ p.task \in Task /\ p.try \in Nat
  BY DEF TelemetryTyped
<1>1. CASE UNCHANGED <<clock, running, tries, begun, timeline, aged>>
  BY <1>1 DEF Attempted, RecordedTry
<1>2. ASSUME NEW c \in Batch, NEW u \in Task, Starts(c, u), NEW b \in Batch
      PROVE  Attempted(b)'
  <2>1. timeline' = timeline /\ aged' = aged
    BY <1>2, Counted DEF record
  <2>2. CASE b /= c
    <3>1. tries'[b] = tries[b] /\ running'[b] = running[b]
      BY <1>2, <2>2, Counted
    <3> QED
      BY <2>1, <3>1 DEF Attempted, RecordedTry
  <2>3. CASE b = c
    <3>1. /\ tries'[b][u] = tries[b][u] + 1 /\ \A t \in Task : t /= u => tries'[b][t] = tries[b][t]
          /\ running[b] = Idle
          /\ running'[b] = [task |-> u, try |-> tries[b][u] + 1, from |-> clock]
      BY <1>2, <2>3, Counted
    <3>2. running'[b].task = u /\ running'[b].try = tries'[b][u] /\ running'[b].try > 0
      BY <1>0, <3>1
    <3>3. \A p \in timeline : p.batch = b => p.try > 0 /\ p.try <= tries'[b][p.task]
      <4>1. SUFFICES ASSUME NEW p \in timeline, p.batch = b
                     PROVE  p.try > 0 /\ p.try <= tries'[b][p.task]
        OBVIOUS
      <4>2. p.try > 0 /\ p.try <= tries[b][p.task]
        BY <4>1 DEF Attempted
      <4>3. tries[b][p.task] <= tries'[b][p.task] /\ tries'[b][p.task] \in Nat
        BY <1>0, <1>p, <3>1
      <4> QED
        BY <1>0, <1>p, <4>2, <4>3
    <3>4. ASSUME ~ aged, NEW t \in Task, NEW k \in Nat, 0 < k, k <= tries'[b][t],
                 ~ (running'[b].task = t /\ running'[b].try = k)
          PROVE  RecordedTry(b, t, k)
      <4>1. k <= tries[b][t]
        <5>1. CASE t = u
          BY <1>0, <3>1, <3>2, <3>4, <5>1
        <5>2. CASE t /= u
          BY <3>1, <3>4, <5>2
        <5> QED
          BY <5>1, <5>2
      <4>2. running[b].task /= t
        BY <1>t, <3>1
      <4> QED
        BY <3>4, <4>1, <4>2 DEF Attempted
    <3> QED
      BY <2>1, <3>2, <3>3, <3>4 DEF Attempted, RecordedTry
  <2> QED
    BY <2>2, <2>3
<1>3. ASSUME NEW c \in Batch, EndOfHour(c) \/ EndTask(c), NEW b \in Batch
      PROVE  Attempted(b)'
  <2>1. /\ running[c] /= Idle /\ timeline' = timeline \union {Period(c)}
        /\ Period(c).batch = c /\ Period(c).task = running[c].task
        /\ Period(c).try = running[c].try
        /\ \A d \in Batch : d /= c => running'[d] = running[d]
        /\ UNCHANGED <<tries, begun, aged>>
    BY <1>3, Recording
  <2>2. /\ running[c].task \in Task /\ running[c].try = tries[c][running[c].task]
        /\ running[c].try > 0
    BY <2>1 DEF Attempted
  <2>3. \A p \in timeline' : p.batch = b => p.try > 0 /\ p.try <= tries'[b][p.task]
    <3>1. SUFFICES ASSUME NEW p \in timeline', p.batch = b
                   PROVE  p.try > 0 /\ p.try <= tries[b][p.task]
      BY <2>1
    <3>2. CASE p \in timeline
      BY <3>1, <3>2 DEF Attempted
    <3>3. CASE p = Period(c)
      BY <1>0, <2>1, <2>2, <3>1, <3>3
    <3> QED
      BY <2>1, <3>2, <3>3
  <2>4. \A t, k : RecordedTry(b, t, k) => RecordedTry(b, t, k)'
    BY <2>1 DEF RecordedTry
  <2>5. CASE b /= c
    <3>1. running'[b] = running[b]
      BY <2>1, <2>5
    <3> QED
      BY <2>1, <2>3, <2>4, <3>1 DEF Attempted
  <2>6. CASE b = c /\ EndOfHour(c)
    <3>1. running'[b] = [running[b] EXCEPT !.from = clock]
      BY <2>6 DEF EndOfHour, TelemetryTyped
    <3>2. running[b] \in [task : Task \union {NoTask}, try : Nat, from : Nat]
      BY DEF TelemetryTyped
    <3>3. running'[b].task = running[b].task /\ running'[b].try = running[b].try
      BY <3>1, <3>2
    <3> QED
      BY <2>1, <2>2, <2>3, <2>4, <2>6, <3>3 DEF Attempted
  <2>7. CASE b = c /\ EndTask(c)
    <3>1. running'[b] = Idle
      BY <2>7 DEF EndTask, TelemetryTyped
    <3>2. \A t \in Task, k \in Nat :
            running[b].task = t /\ running[b].try = k => RecordedTry(b, t, k)'
      BY <2>1, <2>7 DEF RecordedTry
    <3>3. ASSUME ~ aged, NEW t \in Task, NEW k \in Nat, 0 < k, k <= tries[b][t]
          PROVE  RecordedTry(b, t, k)'
      <4>1. (running[b].task = t /\ running[b].try = k) \/ RecordedTry(b, t, k)
        BY <3>3 DEF Attempted
      <4> QED
        BY <2>4, <3>2, <4>1
    <3> QED
      BY <2>1, <2>3, <3>1, <3>3 DEF Attempted
  <2> QED
    BY <1>3, <2>5, <2>6, <2>7
<1>4. ASSUME AgeOut, NEW b \in Batch PROVE Attempted(b)'
  <2>1. /\ timeline' \subseteq timeline /\ aged' = TRUE /\ UNCHANGED <<running, tries>>
    BY <1>4 DEF AgeOut, jobs
  <2> QED
    BY <2>1 DEF Attempted
<1>5. \A b \in Batch : /\ StartCheck(b) => Starts(b, Check)
                       /\ StartFail(b) => Starts(b, Fail)
  BY DEF StartCheck, StartFail
<1> QED
  BY <1>t, <1>1, <1>2, <1>3, <1>4, <1>5, TheRecordChanges

\* The parts of Clocked that a step other than a beginning or a recording of b
\* leaves alone.
LEMMA ClockedAlone ==
  ASSUME NEW b \in Batch, Clocked(b), TelemetryTyped, \A c \in Batch : begun'[c] = begun[c],
         clock' \in Nat, clock <= clock', tries'[b][Check] = tries[b][Check],
         running'[b] = running[b] \/ running'[b].task /= Check,
         \A p \in timeline : p.batch = b => p \in timeline',
         \A p \in timeline' : p.batch = b => p \in timeline, aged' = aged
  PROVE  Clocked(b)'
<1>1. begun[b] \in Nat /\ clock \in Nat
  BY DEF TelemetryTyped
<1>2. begun'[b] < clock'
  BY <1>1 DEF Clocked
<1>3. tries'[b][Check] > 0 <=> begun'[b] > 0
  BY DEF Clocked
<1>4. \A c \in Batch \ {b} : begun'[b] > 0 => begun'[c] /= begun'[b]
  BY DEF Clocked
<1>5. running'[b].task = Check => begun'[b] <= running'[b].from
  BY DEF Clocked
<1>6. \A p \in timeline' : p.batch = b /\ p.task = Check => begun'[b] <= p.from
  BY DEF Clocked
<1>7. Recorded(b, Check)' <=> Recorded(b, Check)
  BY DEF Recorded
<1>8. ~ aged' /\ Recorded(b, Check)' =>
        \E p \in timeline' : p.batch = b /\ p.task = Check /\ p.from = begun'[b]
  BY <1>7 DEF Clocked
<1>9. ~ aged' /\ ~ Recorded(b, Check)' /\ running'[b].task = Check =>
        running'[b].from = begun'[b]
  BY <1>7 DEF Clocked
<1> QED
  BY <1>2, <1>3, <1>4, <1>5, <1>6, <1>8, <1>9 DEF Clocked

LEMMA ClockedKept ==
  ASSUME TelemetryTyped, \A b \in Batch : Attempted(b) /\ Clocked(b), TelemetryNext
  PROVE  \A b \in Batch : Clocked(b)'
<1>t. /\ Check \in Task /\ Fail \in Task /\ Check /= Fail /\ Check /= NoTask
      /\ Idle.task = NoTask
  BY DEF Task, Check, Fail, NoTask, Idle
<1>0. \A b \in Batch : /\ begun[b] \in Nat /\ begun[b] < clock
                       /\ \A t \in Task : tries[b][t] \in Nat
  BY DEF TelemetryTyped, Clocked
<1>c. clock \in Nat /\ clock > 0
  BY DEF TelemetryTyped
<1>p. \A p \in timeline : /\ p.batch \in Batch /\ p.task \in Task /\ p.try \in Nat
                          /\ p.from \in Nat
  BY DEF TelemetryTyped
<1>1. CASE UNCHANGED <<clock, running, tries, begun, timeline, aged>>
  BY <1>1 DEF Clocked, Recorded
<1>2. ASSUME NEW c \in Batch, StartCheck(c), NEW b \in Batch PROVE Clocked(b)'
  <2>1. /\ tries'[c][Check] = tries[c][Check] + 1 /\ running[c] = Idle
        /\ running'[c] = [task |-> Check, try |-> tries[c][Check] + 1, from |-> clock]
        /\ clock' = clock + 1 /\ timeline' = timeline /\ aged' = aged
        /\ \A d \in Batch : d /= c => tries'[d] = tries[d] /\ running'[d] = running[d]
    <3>1. Starts(c, Check)
      BY <1>2 DEF StartCheck
    <3> QED
      BY <1>t, <3>1, Counted DEF record
  <2>2. /\ begun'[c] = (IF begun[c] = 0 THEN clock ELSE begun[c])
        /\ \A d \in Batch : d /= c => begun'[d] = begun[d]
    BY <1>2 DEF StartCheck, TelemetryTyped
  <2>3. begun'[c] > 0 /\ begun'[c] <= clock /\ begun'[c] \in Nat
    BY <1>0, <1>c, <2>2
  <2>4. CASE b /= c
    <3>1. begun'[b] = begun[b] /\ tries'[b] = tries[b] /\ running'[b] = running[b]
      BY <2>1, <2>2, <2>4
    <3>2. begun'[b] < clock'
      BY <1>0, <1>c, <2>1, <3>1
    <3>3. ASSUME NEW d \in Batch \ {b}, begun[b] > 0 PROVE begun'[d] /= begun[b]
      BY <1>0, <1>c, <2>2, <3>3 DEF Clocked
    <3> QED
      BY <2>1, <3>1, <3>2, <3>3 DEF Clocked, Recorded
  <2>5. CASE b = c
    <3>1. begun'[b] < clock' /\ (tries'[b][Check] > 0 <=> begun'[b] > 0)
      BY <1>t, <1>0, <1>c, <2>1, <2>3, <2>5
    <3>2. ASSUME NEW d \in Batch \ {b} PROVE begun'[d] /= begun'[b]
      <4>1. begun'[d] = begun[d] /\ begun[d] < clock
        BY <1>0, <2>2, <2>5
      <4>2. CASE begun[b] = 0
        BY <1>0, <1>c, <2>2, <2>5, <4>1, <4>2
      <4>3. CASE begun[b] > 0
        BY <2>2, <2>5, <4>1, <4>3 DEF Clocked
      <4> QED
        BY <1>0, <4>2, <4>3
    <3>3. running'[b].task = Check => begun'[b] <= running'[b].from
      BY <2>1, <2>3, <2>5
    <3>4. Recorded(b, Check) => begun[b] > 0
      <4>1. SUFFICES ASSUME NEW p \in timeline, p.batch = b, p.task = Check
                     PROVE  begun[b] > 0
        BY DEF Recorded
      <4>2. p.try > 0 /\ p.try <= tries[b][Check]
        BY <4>1 DEF Attempted
      <4>3. tries[b][Check] > 0
        BY <1>t, <1>0, <1>p, <4>2
      <4> QED
        BY <4>3 DEF Clocked
    <3>5. begun[b] > 0 => begun'[b] = begun[b]
      BY <1>0, <2>2, <2>5
    <3>6. \A p \in timeline' : p.batch = b /\ p.task = Check => begun'[b] <= p.from
      BY <2>1, <3>4, <3>5 DEF Clocked, Recorded
    <3>7. ~ aged' /\ Recorded(b, Check)' =>
            \E p \in timeline' : p.batch = b /\ p.task = Check /\ p.from = begun'[b]
      BY <2>1, <3>4, <3>5 DEF Clocked, Recorded
    <3>8. ~ aged /\ begun[b] > 0 => Recorded(b, Check)
      <4>1. SUFFICES ASSUME ~ aged, begun[b] > 0 PROVE Recorded(b, Check)
        OBVIOUS
      <4>2. tries[b][Check] > 0 /\ tries[b][Check] \in Nat
        BY <1>t, <1>0, <4>1 DEF Clocked
      <4> DEFINE k == tries[b][Check]
      <4>3. 0 < k /\ k <= k /\ k \in Nat
        BY <4>2
      <4>4. running[b].task /= Check
        BY <1>t, <2>1, <2>5
      <4> HIDE DEF k
      <4>5. k <= tries[b][Check]
        BY <4>3 DEF k
      <4>6. RecordedTry(b, Check, k)
        BY <1>t, <4>1, <4>3, <4>4, <4>5 DEF Attempted
      <4> QED
        BY <4>6 DEF RecordedTry, Recorded
    <3>9. ~ aged' /\ ~ Recorded(b, Check)' => running'[b].from = begun'[b]
      <4>1. Recorded(b, Check)' <=> Recorded(b, Check)
        BY <2>1 DEF Recorded
      <4> QED
        BY <1>0, <2>1, <2>2, <2>5, <3>8, <4>1
    <3> QED
      BY <3>1, <3>2, <3>3, <3>6, <3>7, <3>9 DEF Clocked
  <2> QED
    BY <2>4, <2>5
<1>3. ASSUME NEW c \in Batch, StartFail(c), NEW b \in Batch PROVE Clocked(b)'
  <2>1. Starts(c, Fail) /\ begun' = begun
    BY <1>3 DEF StartFail
  <2>2. /\ tries'[c][Check] = tries[c][Check]
        /\ running'[c] = [task |-> Fail, try |-> tries[c][Fail] + 1, from |-> clock]
        /\ clock' = clock + 1 /\ timeline' = timeline /\ aged' = aged
        /\ \A d \in Batch : d /= c => tries'[d] = tries[d] /\ running'[d] = running[d]
    BY <1>t, <2>1, Counted DEF record
  <2>3. clock' \in Nat /\ clock <= clock'
    BY <1>c, <2>2
  <2>4. running'[b] = running[b] \/ running'[b].task /= Check
    BY <1>t, <2>2
  <2>5. tries'[b][Check] = tries[b][Check]
    BY <2>2
  <2> QED
    BY <2>1, <2>2, <2>3, <2>4, <2>5, ClockedAlone
<1>4. ASSUME NEW c \in Batch, EndOfHour(c) \/ EndTask(c), NEW b \in Batch PROVE Clocked(b)'
  <2>1. /\ timeline' = timeline \union {Period(c)}
        /\ Period(c).batch = c /\ Period(c).task = running[c].task
        /\ Period(c).from = running[c].from
        /\ \A d \in Batch : d /= c => running'[d] = running[d]
        /\ tries' = tries /\ begun' = begun /\ aged' = aged
    BY <1>4, Recording
  <2>2. clock' \in Nat /\ clock <= clock'
    BY <1>4, <1>c DEF EndOfHour, EndTask
  <2>3. CASE b /= c
    <3>1. running'[b] = running[b]
      BY <2>1, <2>3
    <3>2. \A p \in timeline' : p.batch = b => p \in timeline
      BY <2>1, <2>3
    <3>3. \A p \in timeline : p \in timeline'
      BY <2>1
    <3> QED
      BY <2>1, <2>2, <3>1, <3>2, <3>3, ClockedAlone
  <2>4. CASE b = c
    <3>1. begun'[b] < clock' /\ begun[b] <= clock /\ begun'[b] = begun[b]
      BY <1>0, <1>c, <2>1, <2>2
    <3>2. \A p \in timeline' : p.batch = b /\ p.task = Check => begun'[b] <= p.from
      BY <2>1, <2>4 DEF Clocked
    <3>3. \/ running'[b].task = running[b].task /\ running'[b].from = clock
          \/ running'[b].task /= Check
      <4>1. CASE EndOfHour(c)
        <5>1. /\ running'[b] = [running[b] EXCEPT !.from = clock]
              /\ running[b] \in [task : Task \union {NoTask}, try : Nat, from : Nat]
          BY <2>4, <4>1 DEF EndOfHour, TelemetryTyped
        <5> QED
          BY <5>1
      <4>2. CASE EndTask(c)
        <5>1. running'[b] = Idle
          BY <2>4, <4>2 DEF EndTask, TelemetryTyped
        <5> QED
          BY <1>t, <5>1
      <4> QED
        BY <1>4, <4>1, <4>2
    <3>4. running'[b].task = Check => begun'[b] <= running'[b].from
      BY <3>1, <3>3
    <3>5. ~ aged' /\ Recorded(b, Check)' =>
            \E p \in timeline' : p.batch = b /\ p.task = Check /\ p.from = begun'[b]
      <4>1. CASE Recorded(b, Check)
        BY <2>1, <4>1 DEF Clocked
      <4>2. CASE ~ Recorded(b, Check)
        BY <2>1, <2>4, <4>2 DEF Clocked, Recorded
      <4> QED
        BY <4>1, <4>2
    <3>6. running'[b].task = Check => Recorded(b, Check)'
      BY <2>1, <2>4, <3>3 DEF Recorded
    <3> QED
      BY <2>1, <3>1, <3>2, <3>4, <3>5, <3>6 DEF Clocked
  <2> QED
    BY <2>3, <2>4
<1>5. ASSUME AgeOut, NEW b \in Batch PROVE Clocked(b)'
  <2>1. /\ timeline' \subseteq timeline /\ aged' = TRUE
        /\ UNCHANGED <<running, tries, begun, clock>>
    BY <1>5 DEF AgeOut, jobs
  <2> QED
    BY <2>1 DEF Clocked
<1> QED
  BY <1>1, <1>2, <1>3, <1>4, <1>5, TheRecordChanges

\* A job is renamed once, after the hour of its first name.
LEMMA NamedKept ==
  ASSUME TelemetryInv, TelemetryNext
  PROVE  DOMAIN names' = Job /\ \A j \in Job : Named(j)'
<1>1. CASE UNCHANGED names
  BY <1>1 DEF TelemetryInv, Named
<1>2. ASSUME NEW i \in Job, Rename(i)
      PROVE  DOMAIN names' = Job /\ \A j \in Job : Named(j)'
  <2>1. DOMAIN names' = Job /\ \A j \in Job : j /= i => names'[j] = names[j]
    BY <1>2 DEF Rename, TelemetryInv
  <2>2. names'[i] = names[i] \union {[name |-> Renamed, at |-> clock]}
    BY <1>2 DEF Rename, TelemetryInv
  <2>3. names[i] = {First}
    BY <1>2 DEF Rename, TelemetryInv, Named
  <2>4. clock \in Nat \ {0}
    BY DEF TelemetryInv, TelemetryTyped
  <2>5. Named(i)'
    BY <2>2, <2>3, <2>4 DEF Named
  <2> QED
    BY <2>1, <2>5 DEF TelemetryInv, Named
<1> QED
  BY <1>1, <1>2 DEF TelemetryNext, Ingest, Append, Publish, StartCheck, StartFail, Starts,
     Promote, Repromote, EndOfHour, EndTask, DeleteRejects, Truncate, Recreate, AgeOut, jobs,
     tables, record

LEMMA TelemetryKept == ASSUME TelemetryInv, TelemetryNext PROVE TelemetryInv'
<1>1. TelemetryTyped /\ \A b \in Batch : Gated(b) /\ Attempted(b) /\ Clocked(b)
  BY DEF TelemetryInv
<1>2. TelemetryTyped'
  BY <1>1, TypedKept
<1>3. \A b \in Batch : Gated(b)'
  BY <1>1, GatedKept
<1>4. \A b \in Batch : Attempted(b)'
  BY <1>1, AttemptedKept
<1>5. \A b \in Batch : Clocked(b)'
  BY <1>1, ClockedKept
<1> QED
  BY <1>2, <1>3, <1>4, <1>5, NamedKept DEF TelemetryInv

-----------------------------------------------------------------------------
(* What the agent reads, and what it writes of it.                         *)

\* The record has a period of a task run only of a task that began.
LEMMA RecordedWasBegun ==
  ASSUME TelemetryInv, NEW p \in timeline
  PROVE  /\ p.batch \in Batch /\ p.task \in Task /\ tries[p.batch][p.task] > 0
         /\ p.try \in Nat /\ p.try > 0 /\ p.try <= tries[p.batch][p.task]
<1>1. p.batch \in Batch /\ p.task \in Task /\ p.try \in Nat
  BY DEF TelemetryInv, TelemetryTyped
<1>2. tries[p.batch][p.task] \in Nat
  BY <1>1 DEF TelemetryInv, TelemetryTyped
<1>3. p.try > 0 /\ p.try <= tries[p.batch][p.task]
  BY <1>1 DEF TelemetryInv, Attempted
<1> QED
  BY <1>1, <1>2, <1>3

\* A row of the view is one of the record.
LEMMA RowIsRecorded ==
  ASSUME NEW t \in TaskTelemetry
  PROVE  \E q \in timeline :
           /\ t.batch = q.batch /\ t.task = q.task /\ t.try = q.try /\ t.job = JobOf[q.batch]
           /\ t.name \in JobNames(JobOf[q.batch])
           /\ t.started = Min({p.from : p \in {o \in timeline : /\ o.batch = q.batch
                                                               /\ o.task = q.task
                                                               /\ o.try = q.try}})
BY DEF TaskTelemetry, TaskRuns

\* The feed is of batches that failed on rejected rows.
LEMMA FeedIsOfFailures ==
  ASSUME TelemetryInv, NEW i \in IncidentFeed
  PROVE  Failed(i.batch)
<1>1. PICK g \in GateRuns :
        i = [batch |-> g.batch, source |-> TableOfJob(g.name),
             attempts |-> Cardinality({t \in GateRuns : t.batch = g.batch /\ t.name = g.name})]
  BY Zenon DEF IncidentFeed
<1>2. g \in TaskTelemetry /\ g.task = Fail
  BY DEF GateRuns
<1>3. PICK q \in timeline : q.batch = g.batch /\ q.task = g.task
  BY <1>2, RowIsRecorded
<1>4. q.batch \in Batch /\ Fail \in Task /\ tries[q.batch][Fail] > 0
  BY <1>2, <1>3, RecordedWasBegun
<1>5. gate[q.batch] = "published" /\ Rows(rejects[q.batch]) > 0
  BY <1>4 DEF TelemetryInv, Gated
<1> QED
  BY <1>1, <1>3, <1>4, <1>5 DEF Failed

\* severity_sql of such a batch, whatever has happened to the tables.
LEMMA Grading ==
  ASSUME TelemetryInv, NEW b, Failed(b)
  PROVE  GradeTells(b, Graded(b))
<1>0. b \in Batch /\ TelemetryTyped
  BY DEF Failed, TelemetryInv
<1>1. Rows(quarantine[b]) \in Nat
  BY <1>0, RowsAreNat
<1>2. Rows(quarantine[b]) > 0 \/ Removed(b)
  BY <1>0 DEF Failed, TelemetryInv, Gated
<1>3. /\ Graded(b).rejected = Rows(quarantine[b])
      /\ Graded(b).evidence = Evidence(b)
  BY DEF Graded
<1>4. Rows(quarantine[b]) > 0 => Evidence(b) = "rows_present"
  <2>1. Rows(quarantine[b]) > 0 => ~ \A c \in Batch : Rows(quarantine[c]) = 0
    BY <1>0, <1>1
  <2> QED
    BY <2>1 DEF Evidence
<1>5. ~ (Rows(quarantine[b]) > 0) => Evidence(b) \in Absent
  BY DEF Evidence, Absent
<1>6. "rows_present" \notin Absent
  BY DEF Absent
<1> QED
  BY <1>1, <1>2, <1>3, <1>4, <1>5, <1>6 DEF GradeTells

LEMMA CensusIsCounts ==
  ASSUME TelemetryTyped, NEW b \in Batch
  PROVE  CensusOf(b) \in [Reason -> Nat]
BY DEF TelemetryTyped, CensusOf, NoRows

\* What was so of the removals, the gates and the rejects stays so.
LEMMA TellingStays ==
  ASSUME removed \subseteq removed', rejects' = rejects,
         \A b \in Batch : gate[b] = "published" => gate'[b] = "published"
  PROVE  /\ \A b : Failed(b) => Failed(b)'
         /\ \A b, grade : GradeTells(b, grade) => GradeTells(b, grade)'
         /\ \A p : PayloadTells(p) => PayloadTells(p)'
<1>1. \A b : Removed(b) => Removed(b)'
  BY DEF Removed
<1>2. \A b : Failed(b) => Failed(b)'
  BY DEF Failed
<1>3. \A b, grade : GradeTells(b, grade) => GradeTells(b, grade)'
  BY <1>1 DEF GradeTells
<1>4. \A p : PayloadTells(p) => PayloadTells(p)'
  BY <1>1 DEF PayloadTells
<1> QED
  BY <1>2, <1>3, <1>4

\* A step of the agent leaves the jobs, the tables and the record alone.
LEMMA AgentReads ==
  ASSUME EvidenceInv, UNCHANGED telemetryVars
  PROVE  /\ TelemetryInv'
         /\ \A b : Failed(b)' <=> Failed(b)
         /\ \A b, grade : GradeTells(b, grade)' <=> GradeTells(b, grade)
         /\ \A p : PayloadTells(p)' <=> PayloadTells(p)
<1> USE DEF telemetryVars, jobs, tables, record
<1>0. TelemetryInv
  BY DEF EvidenceInv
<1>2. \A b : Removed(b)' <=> Removed(b)
  BY DEF Removed
<1>1. TelemetryInv'
  <2>1. TelemetryTyped'
    BY <1>0 DEF TelemetryInv, TelemetryTyped
  <2>2. ASSUME NEW b \in Batch PROVE Gated(b)'
    BY <1>0, <1>2 DEF TelemetryInv, Gated
  <2>3. ASSUME NEW b \in Batch PROVE Attempted(b)'
    BY <1>0 DEF TelemetryInv, Attempted, RecordedTry
  <2>4. ASSUME NEW b \in Batch PROVE Clocked(b)'
    BY <1>0 DEF TelemetryInv, Clocked, Recorded
  <2>5. DOMAIN names' = Job /\ \A j \in Job : Named(j)'
    BY <1>0 DEF TelemetryInv, Named
  <2> QED
    BY <2>1, <2>2, <2>3, <2>4, <2>5 DEF TelemetryInv
<1>3. \A b : Failed(b)' <=> Failed(b)
  BY DEF Failed
<1>4. \A b, grade : GradeTells(b, grade)' <=> GradeTells(b, grade)
  BY <1>2 DEF GradeTells
<1>5. \A p : PayloadTells(p)' <=> PayloadTells(p)
  BY <1>2 DEF PayloadTells
<1> QED
  BY <1>1, <1>3, <1>4, <1>5

LEMMA InitEvidence == ASSUME TriageInit PROVE EvidenceInv
<1> USE DEF TriageInit
<1>1. TelemetryInv
  BY InitTelemetry
<1>2. RunTells
  BY DEF RunTells, NoRun
<1>3. Payloads = {}
  BY DEF Payloads, NoRun
<1> QED
  BY <1>1, <1>2, <1>3 DEF EvidenceInv

\* A step of the jobs, the platform or an operator on the tables.
LEMMA TelemetryTells ==
  ASSUME EvidenceInv, TelemetryNext, UNCHANGED agentVars
  PROVE  EvidenceInv'
<1>1. TelemetryInv /\ RunTells /\ \A p \in Payloads : PayloadTells(p)
  BY DEF EvidenceInv
<1>2. TelemetryInv'
  BY <1>1, TelemetryKept
<1>3. /\ removed \subseteq removed' /\ rejects' = rejects
      /\ \A b \in Batch : gate[b] = "published" => gate'[b] = "published"
  BY <1>1, PublishedStays, RejectsStay DEF TelemetryInv
<1>4. triage' = triage /\ Payloads' = Payloads
  BY DEF agentVars, Payloads
<1>5. RunTells'
  BY <1>1, <1>3, <1>4, TellingStays DEF RunTells
<1>6. \A p \in Payloads' : PayloadTells(p)'
  BY <1>1, <1>3, <1>4, TellingStays
<1> QED
  BY <1>2, <1>5, <1>6 DEF EvidenceInv

\* A step of the agent, or of the wheel it is built from.
LEMMA AgentTells ==
  ASSUME EvidenceInv, UNCHANGED telemetryVars,
         \/ ReadFeed \/ ReadSeverity \/ ReadCensus \/ Assemble \/ Emit \/ Refused
         \/ ReviseWheel \/ \E b \in Batch : Post(b)
  PROVE  EvidenceInv'
<1>1. TelemetryInv /\ RunTells /\ \A p \in Payloads : PayloadTells(p)
  BY DEF EvidenceInv
<1>2. /\ TelemetryInv'
      /\ \A b : Failed(b)' <=> Failed(b)
      /\ \A b, grade : GradeTells(b, grade)' <=> GradeTells(b, grade)
      /\ \A p : PayloadTells(p)' <=> PayloadTells(p)
  BY AgentReads
<1>r. triage = [step |-> triage.step, left |-> triage.left, incident |-> triage.incident,
                severity |-> triage.severity, census |-> triage.census,
                drafts |-> triage.drafts]
  BY <1>1 DEF RunTells
<1>3. SUFFICES /\ RunTells'
               /\ \A p \in Payloads' : p \in Payloads \/ PayloadTells(p)
  BY <1>1, <1>2 DEF EvidenceInv
<1>4. CASE ReadFeed
  <2>1. triage' = [step |-> "incident", left |-> IncidentFeed, incident |-> Null,
                   severity |-> Null, census |-> Null, drafts |-> {}]
        /\ UNCHANGED <<facts, posted>>
    BY <1>4 DEF ReadFeed, NoRun
  <2>2. \A i \in triage'.left : Failed(i.batch)'
    BY <1>1, <1>2, <2>1, FeedIsOfFailures
  <2>3. RunTells'
    BY <2>1, <2>2 DEF RunTells
  <2>4. Payloads' \subseteq Payloads
    BY <2>1 DEF Payloads
  <2> QED
    BY <2>3, <2>4
<1>5. CASE ReadSeverity
  <2>1. PICK i \in triage.left :
          triage' = IF i.source = Null
                    THEN [triage EXCEPT !.step = "refused", !.incident = i]
                    ELSE [triage EXCEPT !.step = "census", !.left = @ \ {i}, !.incident = i,
                                        !.severity = Graded(i.batch)]
    BY <1>5 DEF ReadSeverity
  <2>2. Failed(i.batch) /\ GradeTells(i.batch, Graded(i.batch)) /\ i.batch \in Batch
    BY <1>1, Grading DEF RunTells, Failed
  <2>3. CASE i.source = Null
    <3>1. triage' = [step |-> "refused", left |-> triage.left, incident |-> i,
                     severity |-> triage.severity, census |-> triage.census,
                     drafts |-> triage.drafts]
      BY <1>r, <2>1, <2>3
    <3>2. \A j \in triage.left : Failed(j.batch)'
      BY <1>1, <1>2 DEF RunTells
    <3>3. RunTells'
      BY <3>1, <3>2 DEF RunTells
    <3>4. Payloads' \subseteq Payloads
      BY <1>5, <3>1 DEF ReadSeverity, Payloads
    <3> QED
      BY <3>3, <3>4
  <2>4. CASE i.source /= Null
    <3> DEFINE graded == Graded(i.batch)
               left == triage.left \ {i}
    <3>1. triage' = [step |-> "census", left |-> left, incident |-> i,
                     severity |-> graded, census |-> triage.census,
                     drafts |-> triage.drafts]
      BY <1>r, <2>1, <2>4
    <3>2. \A j \in left : Failed(j.batch)'
      BY <1>1, <1>2 DEF RunTells
    <3> HIDE DEF graded, left
    <3>3. triage'.severity = graded /\ triage'.incident = i /\ triage'.left = left
      BY <3>1
    <3>4. GradeTells(i.batch, triage'.severity)
      BY <2>2, <3>3 DEF graded
    <3>5. GradeTells(triage.incident.batch, triage.severity)'
      BY <1>2, <3>3, <3>4
    <3>6. RunTells'
      BY <2>2, <3>1, <3>2, <3>3, <3>5 DEF RunTells
    <3>7. Payloads' \subseteq Payloads
      BY <1>5, <3>1 DEF ReadSeverity, Payloads
    <3> QED
      BY <3>6, <3>7
  <2> QED
    BY <2>3, <2>4
<1>6. CASE ReadCensus
  <2> DEFINE census == CensusOf(triage.incident.batch)
  <2>1. triage' = [step |-> "history", left |-> triage.left, incident |-> triage.incident,
                   severity |-> triage.severity, census |-> census, drafts |-> triage.drafts]
    BY <1>6, <1>r DEF ReadCensus
  <2>2. triage.incident.batch \in Batch /\ GradeTells(triage.incident.batch, triage.severity)
    BY <1>1, <1>6 DEF RunTells, ReadCensus
  <2>3. census \in [Reason -> Nat]
    BY <1>1, <2>2, CensusIsCounts DEF TelemetryInv
  <2> HIDE DEF census
  <2>4. GradeTells(triage.incident.batch, triage.severity)'
    <3>1. triage'.incident = triage.incident /\ triage'.severity = triage.severity
      BY <2>1
    <3> QED
      BY <1>2, <2>2, <3>1
  <2>5. \A j \in triage.left : Failed(j.batch)'
    BY <1>1, <1>2 DEF RunTells
  <2>6. RunTells'
    BY <2>1, <2>2, <2>3, <2>4, <2>5 DEF RunTells
  <2>7. Payloads' \subseteq Payloads
    BY <1>6, <2>1 DEF ReadCensus, Payloads
  <2> QED
    BY <2>6, <2>7
<1>7. CASE Assemble
  <2> DEFINE p == Payload(History(triage.incident.batch))
  <2>1. \/ triage' = [step |-> "refused", left |-> triage.left, incident |-> triage.incident,
                      severity |-> triage.severity, census |-> triage.census,
                      drafts |-> triage.drafts]
        \/ /\ BreakdownSums(triage.census, triage.severity.rejected)
           /\ triage' = [step |-> "incident", left |-> triage.left,
                         incident |-> triage.incident, severity |-> triage.severity,
                         census |-> triage.census, drafts |-> triage.drafts \union {p}]
    BY <1>7, <1>r DEF Assemble
  <2>2. p.incident = triage.incident /\ p.grade = triage.severity /\ p.groups = triage.census
    BY DEF Payload
  <2>3. /\ GradeTells(triage.incident.batch, triage.severity)
        /\ triage.census \in [Reason -> Nat]
    BY <1>1, <1>7 DEF RunTells, Assemble
  <2> HIDE DEF p
  <2>4. BreakdownSums(triage.census, triage.severity.rejected) => PayloadTells(p)
    <3>1. Rows(triage.census) > 0 <=> \E r \in Reason : triage.census[r] > 0
      BY <2>3, RowsCount
    <3> QED
      BY <2>2, <2>3, <3>1 DEF BreakdownSums, PayloadTells, GradeTells
  <2>5. \A j \in triage.left : Failed(j.batch)'
    BY <1>1, <1>2 DEF RunTells
  <2>6. RunTells'
    BY <2>1, <2>5 DEF RunTells
  <2>7. UNCHANGED <<facts, posted>>
    BY <1>7 DEF Assemble
  <2>8. \/ triage'.drafts = triage.drafts
        \/ /\ BreakdownSums(triage.census, triage.severity.rejected)
           /\ triage'.drafts = triage.drafts \union {p}
    BY <2>1
  <2>9. ASSUME NEW q \in Payloads' PROVE q \in Payloads \/ PayloadTells(q)
    <3>1. q \in triage'.drafts \/ q \in facts \/ \E x \in posted : q = x.issue
      BY <2>7 DEF Payloads
    <3>4. \/ q \in triage.drafts \/ q \in facts \/ \E x \in posted : q = x.issue
          \/ (q = p /\ BreakdownSums(triage.census, triage.severity.rejected))
      BY <2>8, <3>1
    <3>5. (q \in triage.drafts \/ q \in facts \/ \E x \in posted : q = x.issue) => q \in Payloads
      BY DEF Payloads
    <3>2. q \in Payloads \/ (q = p /\ PayloadTells(p))
      BY <2>4, <3>4, <3>5, Zenon
    <3>3. q = p /\ PayloadTells(p) => PayloadTells(q)
      BY Zenon
    <3> QED
      BY <3>2, <3>3
  <2> QED
    BY <2>6, <2>9
<1>8. CASE Emit \/ Refused
  <2>1. triage' = [step |-> "idle", left |-> {}, incident |-> Null, severity |-> Null,
                   census |-> Null, drafts |-> {}]
    BY <1>8 DEF Emit, Refused, NoRun
  <2>2. RunTells'
    BY <2>1 DEF RunTells
  <2>3. Payloads' \subseteq Payloads
    BY <1>8, <2>1 DEF Emit, Refused, Payloads
  <2> QED
    BY <2>2, <2>3
<1>9. CASE ReviseWheel \/ \E b \in Batch : Post(b)
  <2>1. triage' = triage /\ facts' = facts
    BY <1>9 DEF ReviseWheel, Post
  <2>2. RunTells'
    BY <1>1, <1>2, <2>1 DEF RunTells
  <2>3. \A x \in posted' : x \in posted \/ x.issue \in facts
    <3>1. CASE ReviseWheel
      BY <3>1 DEF ReviseWheel
    <3>2. ASSUME NEW b \in Batch, Post(b), NEW x \in posted' PROVE x.issue \in facts
      <4>1. PICK p \in Select(b) : x = [issue |-> p, body |-> Body(p), wheel |-> Wheel]
        BY <3>2, Zenon DEF Post
      <4> QED
        BY <4>1 DEF Select
    <3> QED
      BY <1>9, <3>1, <3>2
  <2>4. Payloads' \subseteq Payloads
    BY <2>1, <2>3 DEF Payloads
  <2> QED
    BY <2>2, <2>4
<1> QED
  BY <1>4, <1>5, <1>6, <1>7, <1>8, <1>9

LEMMA StutterTells ==
  ASSUME EvidenceInv, UNCHANGED triageVars
  PROVE  EvidenceInv'
<1>1. UNCHANGED telemetryVars /\ UNCHANGED <<triage, facts, posted>>
  BY DEF triageVars, agentVars
<1>2. /\ TelemetryInv'
      /\ \A b : Failed(b)' <=> Failed(b)
      /\ \A b, grade : GradeTells(b, grade)' <=> GradeTells(b, grade)
      /\ \A p : PayloadTells(p)' <=> PayloadTells(p)
  BY <1>1, AgentReads
<1>3. RunTells' /\ Payloads' = Payloads
  BY <1>1, <1>2 DEF EvidenceInv, RunTells, Payloads
<1> QED
  BY <1>2, <1>3 DEF EvidenceInv

LEMMA EvidenceAlways == TriageSpec => []EvidenceInv
<1>1. TriageInit => EvidenceInv
  BY InitEvidence
<1>2. EvidenceInv /\ [TriageNext]_triageVars => EvidenceInv'
  <2> SUFFICES ASSUME EvidenceInv, [TriageNext]_triageVars PROVE EvidenceInv'
    OBVIOUS
  <2>1. CASE TelemetryNext /\ UNCHANGED agentVars
    BY <2>1, TelemetryTells
  <2>2. CASE \/ ReadFeed \/ ReadSeverity \/ ReadCensus \/ Assemble \/ Emit \/ Refused
             \/ ReviseWheel \/ \E b \in Batch : Post(b)
    <3>1. UNCHANGED telemetryVars
      BY <2>2 DEF ReadFeed, ReadSeverity, ReadCensus, Assemble, Emit, Refused, ReviseWheel, Post
    <3> QED
      BY <2>2, <3>1, AgentTells
  <2>3. CASE UNCHANGED triageVars
    BY <2>3, StutterTells
  <2> QED
    BY <2>1, <2>2, <2>3 DEF TriageNext
<1> QED
  BY <1>1, <1>2, PTL DEF TriageSpec

\* The sections of an issue that tell of its evidence, of a payload that tells.
LEMMA InvTellsEvidence == EvidenceInv => EvidenceIsTold
<1> SUFFICES ASSUME EvidenceInv PROVE EvidenceIsTold
  OBVIOUS
<1>1. ASSUME NEW p \in Payloads
      PROVE  /\ p.grade.evidence \in Absent => \E r \in removed : r[1] = p.incident.batch
             /\ LET section == Body(p).rejected
                IN  (section.evidence = "rows_present") <=> (section.breakdown /= {})
  <2>1. PayloadTells(p)
    BY DEF EvidenceInv
  <2>2. /\ Body(p).rejected.evidence = p.grade.evidence
        /\ Body(p).rejected.breakdown = {r \in Reason : p.groups[r] > 0}
    BY DEF Body, RejectedSection, Breakdown
  <2> QED
    BY <2>1, <2>2 DEF PayloadTells, Removed
<1> QED
  BY <1>1 DEF EvidenceIsTold, EvidenceRemovedMeansRemoved, GradeMatchesBreakdown

\* What an issue says of its evidence is so, for every set of batches and of
\* reasons, however the quarantine is emptied and refilled between the four
\* statements of a triage: rows an issue calls removed were in the quarantine
\* and were removed, because the gate appends them before it publishes the
\* count fail_on_dq runs on; and its grade and its breakdown, read by two
\* statements, agree (databricks/src/triage_dq_incident.py, the guard
\* _assert_the_breakdown_sums_to_the_grade of src/opl/triage_agent/issue.py).
THEOREM TellsItsEvidence == TriageSpec => []EvidenceIsTold
BY EvidenceAlways, InvTellsEvidence, PTL

-----------------------------------------------------------------------------
(* What the record and the history say.                                    *)

\* The table of names yields one name of a job: the last.
LEMMA OneName ==
  ASSUME TelemetryInv, NEW j \in Job
  PROVE  \E n : JobNames(j) = {n}
<1> DEFINE last == {m \in names[j] : \A o \in names[j] : o.at <= m.at}
<1>0. ASSUME NEW x, last = {x} PROVE \E n : JobNames(j) = {n}
  <2>1. JobNames(j) = {m.name : m \in last}
    BY DEF JobNames
  <2> HIDE DEF last
  <2>2. JobNames(j) = {x.name}
    BY <1>0, <2>1
  <2> QED
    BY <2>2, Zenon
<1>1. CASE names[j] = {First}
  <2>1. last = {First}
    BY <1>1 DEF First
  <2> QED
    BY <1>0, <2>1
<1>2. ASSUME NEW c \in Nat \ {0}, names[j] = {First, [name |-> Renamed, at |-> c]}
      PROVE  \E n : JobNames(j) = {n}
  <2> DEFINE second == [name |-> Renamed, at |-> c]
  <2>1. First.at = 0 /\ second.at = c
    BY DEF First
  <2>2. second \in last
    BY <1>2, <2>1
  <2>3. First \notin last
    BY <1>2, <2>1
  <2>4. last = {second}
    BY <1>2, <2>2, <2>3, Zenon
  <2> QED
    BY <1>0, <2>4
<1> QED
  BY <1>1, <1>2 DEF TelemetryInv, Named

\* The periods of one task run, and when they say it started.
Slices(b, t, k) == {p \in timeline : p.batch = b /\ p.task = t /\ p.try = k}
StartOf(b, t, k) == Min({p.from : p \in Slices(b, t, k)})

RowOf(b, n, t, k) ==
  [batch |-> b, job |-> JobOf[b], name |-> n, task |-> t, try |-> k, started |-> StartOf(b, t, k)]

\* The view has one row for every task run of the record.
LEMMA OneRowPerRun ==
  ASSUME TelemetryInv, NEW b \in Batch, NEW n, JobNames(JobOf[b]) = {n}
  PROVE  \A t : t \in TaskTelemetry /\ t.batch = b <=>
                 \E q \in timeline : q.batch = b /\ t = RowOf(b, n, q.task, q.try)
<1>1. TaskRuns = {[batch |-> q.batch, task |-> q.task, try |-> q.try,
                   started |-> StartOf(q.batch, q.task, q.try)] : q \in timeline}
  BY DEF TaskRuns, StartOf, Slices
<1>2. ASSUME NEW t \in TaskTelemetry, t.batch = b
      PROVE  \E q \in timeline : q.batch = b /\ t = RowOf(b, n, q.task, q.try)
  <2>1. PICK r \in TaskRuns : \E m \in JobNames(JobOf[r.batch]) :
          t = [batch |-> r.batch, job |-> JobOf[r.batch], name |-> m, task |-> r.task,
               try |-> r.try, started |-> r.started]
    BY DEF TaskTelemetry
  <2>2. r.batch = b
    BY <1>2, <2>1
  <2>3. PICK q \in timeline :
          r = [batch |-> q.batch, task |-> q.task, try |-> q.try,
               started |-> StartOf(q.batch, q.task, q.try)]
    BY <1>1
  <2>4. q.batch = b /\ r.task = q.task /\ r.try = q.try
        /\ r.started = StartOf(b, q.task, q.try)
    BY <2>2, <2>3
  <2>5. t = RowOf(b, n, q.task, q.try)
    BY <2>1, <2>2, <2>4 DEF RowOf
  <2> QED
    BY <2>4, <2>5
<1>3. ASSUME NEW q \in timeline, q.batch = b
      PROVE  RowOf(b, n, q.task, q.try) \in TaskTelemetry
  <2> DEFINE r == [batch |-> q.batch, task |-> q.task, try |-> q.try,
                   started |-> StartOf(q.batch, q.task, q.try)]
  <2>1. r \in TaskRuns
    BY <1>1
  <2>2. /\ r.batch = b /\ r.task = q.task /\ r.try = q.try
        /\ r.started = StartOf(b, q.task, q.try)
    BY <1>3
  <2> HIDE DEF r
  <2>3. RowOf(b, n, q.task, q.try) =
          [batch |-> r.batch, job |-> JobOf[r.batch], name |-> n, task |-> r.task,
           try |-> r.try, started |-> r.started]
    BY <2>2 DEF RowOf
  <2>4. n \in JobNames(JobOf[r.batch])
    BY <2>2
  <2>5. RowOf(b, n, q.task, q.try) \in
          {[batch |-> r.batch, job |-> JobOf[r.batch], name |-> m, task |-> r.task,
            try |-> r.try, started |-> r.started] : m \in JobNames(JobOf[r.batch])}
    BY <2>3, <2>4, Zenon
  <2> QED
    BY <2>1, <2>5, Zenon DEF TaskTelemetry
<1>4. \A t, k : RowOf(b, n, t, k).batch = b
  BY DEF RowOf
<1> QED
  BY <1>2, <1>3, <1>4

\* Every job run has a job, and so a name.
LEMMA EveryBatchHasAName ==
  ASSUME TelemetryInv, NEW b \in Batch
  PROVE  \E n : JobNames(JobOf[b]) = {n}
<1>1. JobOf[b] \in Job
  BY TelemetryAssumption DEF Job
<1> QED
  BY <1>1, OneName

\* The tries of a task that the record has.
Tries(b, t) == {p.try : p \in {q \in timeline : q.batch = b /\ q.task = t}}

\* They are those that began, but for the one that is going on.
LEMMA TriesCounted ==
  ASSUME TelemetryInv, NEW b \in Batch, NEW t \in Task
  PROVE  /\ IsFiniteSet(Tries(b, t)) /\ Cardinality(Tries(b, t)) \in Nat
         /\ tries[b][t] \in Nat
         /\ Cardinality(Tries(b, t)) <= tries[b][t]
         /\ ~ aged /\ running[b].task /= t => Cardinality(Tries(b, t)) = tries[b][t]
         /\ ~ aged => tries[b][t] - 1 <= Cardinality(Tries(b, t))
<1> DEFINE n == tries[b][t]
<1>0. n \in Nat
  BY DEF TelemetryInv, TelemetryTyped
<1>1. Tries(b, t) \subseteq 1..n
  <2>1. SUFFICES ASSUME NEW p \in timeline, p.batch = b, p.task = t PROVE p.try \in 1..n
    BY DEF Tries
  <2>2. p.try \in Nat /\ p.try > 0 /\ p.try <= n
    BY <2>1, RecordedWasBegun
  <2> QED
    BY <1>0, <2>2
<1>2. \A m \in Nat : IsFiniteSet(1..m) /\ Cardinality(1..m) = m
  <2>1. SUFFICES ASSUME NEW m \in Nat PROVE IsFiniteSet(1..m) /\ Cardinality(1..m) = m
    OBVIOUS
  <2>2. IsFiniteSet(1..m) /\ Cardinality(1..m) = (IF 1 > m THEN 0 ELSE m - 1 + 1)
    BY FS_Interval
  <2> QED
    BY <2>2
<1>3. /\ IsFiniteSet(Tries(b, t)) /\ Cardinality(Tries(b, t)) \in Nat
      /\ Cardinality(Tries(b, t)) <= n
  <2>1. IsFiniteSet(1..n) /\ Cardinality(1..n) = n
    BY <1>0, <1>2
  <2>2. IsFiniteSet(Tries(b, t)) /\ Cardinality(Tries(b, t)) <= Cardinality(1..n)
    BY <1>1, <2>1, FS_Subset
  <2> QED
    BY <2>1, <2>2, FS_CardinalityType
<1>4. ASSUME NEW m \in Nat, m <= n, ~ aged,
             \A k \in 1..m : ~ (running[b].task = t /\ running[b].try = k)
      PROVE  m <= Cardinality(Tries(b, t))
  <2>1. 1..m \subseteq Tries(b, t)
    <3>1. SUFFICES ASSUME NEW k \in 1..m PROVE k \in Tries(b, t)
      OBVIOUS
    <3>2. k \in Nat /\ 0 < k /\ k <= n
      BY <1>0, <1>4
    <3>3. RecordedTry(b, t, k)
      BY <1>4, <3>2 DEF TelemetryInv, Attempted
    <3> QED
      BY <3>3 DEF RecordedTry, Tries
  <2> QED
    BY <1>2, <1>3, <2>1, FS_Subset
<1>5. ~ aged /\ running[b].task /= t => n <= Cardinality(Tries(b, t))
  BY <1>0, <1>4
<1>6. ~ aged /\ running[b].task = t => n - 1 <= Cardinality(Tries(b, t))
  <2>1. SUFFICES ASSUME ~ aged, running[b].task = t PROVE n - 1 <= Cardinality(Tries(b, t))
    OBVIOUS
  <2>2. running[b] /= Idle
    BY <2>1 DEF Idle, Task, NoTask, Check, Fail
  <2>3. running[b].try = n /\ n > 0
    BY <2>1, <2>2 DEF TelemetryInv, Attempted
  <2>4. n - 1 \in Nat /\ n - 1 <= n /\ \A k \in 1..(n - 1) : k /= n
    BY <1>0, <2>3
  <2> QED
    BY <1>4, <2>1, <2>3, <2>4
<1> QED
  BY <1>0, <1>3, <1>5, <1>6

\* The rows of fail_on_dq of one batch are as many as the tries recorded.
LEMMA AttemptsAreTries ==
  ASSUME TelemetryInv, NEW b \in Batch, NEW n, JobNames(JobOf[b]) = {n}
  PROVE  Cardinality({t \in GateRuns : t.batch = b /\ t.name = n}) = Cardinality(Tries(b, Fail))
<1> DEFINE group == {t \in GateRuns : t.batch = b /\ t.name = n}
           K == Tries(b, Fail)
           f == [k \in K |-> RowOf(b, n, Fail, k)]
<1>1. group = {RowOf(b, n, Fail, k) : k \in K}
  <2>1. ASSUME NEW t \in group PROVE \E k \in K : t = RowOf(b, n, Fail, k)
    <3>1. t \in TaskTelemetry /\ t.task = Fail /\ t.batch = b
      BY DEF GateRuns
    <3>2. PICK q \in timeline : q.batch = b /\ t = RowOf(b, n, q.task, q.try)
      BY <3>1, OneRowPerRun
    <3>3. q.task = Fail
      BY <3>1, <3>2 DEF RowOf
    <3> QED
      BY <3>2, <3>3 DEF Tries
  <2>2. ASSUME NEW k \in K PROVE RowOf(b, n, Fail, k) \in group
    <3>1. PICK q \in timeline : q.batch = b /\ q.task = Fail /\ q.try = k
      BY DEF Tries
    <3>2. RowOf(b, n, Fail, k) \in TaskTelemetry
      BY <3>1, OneRowPerRun
    <3>3. /\ RowOf(b, n, Fail, k).task = Fail /\ RowOf(b, n, Fail, k).batch = b
          /\ RowOf(b, n, Fail, k).name = n
      BY DEF RowOf
    <3> QED
      BY <3>2, <3>3 DEF GateRuns
  <2> HIDE DEF group, K
  <2> QED
    BY <2>1, <2>2
<1>2. \A k, l \in K : RowOf(b, n, Fail, k) = RowOf(b, n, Fail, l) => k = l
  <2>1. \A k : RowOf(b, n, Fail, k).try = k
    BY DEF RowOf
  <2> QED
    BY <2>1
<1>3. IsFiniteSet(K)
  <2>1. Fail \in Task
    BY DEF Task
  <2> QED
    BY <2>1, TriesCounted
<1> HIDE DEF group, K
<1>4. f \in Bijection(K, group)
  <2>1. f \in [K -> group]
    BY <1>1
  <2>2. f \in Injection(K, group)
    BY <1>2, <2>1, Fun_IsInj
  <2>3. f \in Surjection(K, group)
    BY <1>1, <2>1, Fun_IsSurj
  <2> QED
    BY <2>2, <2>3, Fun_IsBij
<1>5. Cardinality(K) = Cardinality(group)
  BY <1>3, <1>4, FS_Bijection DEF ExistsBijection
<1> QED
  BY <1>5 DEF group, K

\* The feed has at most one record of a batch: the one of its last name.
LEMMA RecordOfBatch ==
  ASSUME TelemetryInv, NEW b \in Batch, NEW n, JobNames(JobOf[b]) = {n},
         NEW i \in IncidentFeed, i.batch = b
  PROVE  i = [batch |-> b, source |-> TableOfJob(n), attempts |-> Cardinality(Tries(b, Fail))]
<1>1. PICK g \in GateRuns :
        i = [batch |-> g.batch, source |-> TableOfJob(g.name),
             attempts |-> Cardinality({t \in GateRuns : t.batch = g.batch /\ t.name = g.name})]
  BY Zenon DEF IncidentFeed
<1>2. g.batch = b
  BY <1>1
<1>3. g \in TaskTelemetry
  BY DEF GateRuns
<1>4. PICK q \in timeline : g = RowOf(b, n, q.task, q.try)
  BY <1>2, <1>3, OneRowPerRun
<1>5. g.name = n
  BY <1>4 DEF RowOf
<1>6. Cardinality({t \in GateRuns : t.batch = b /\ t.name = n}) = Cardinality(Tries(b, Fail))
  BY AttemptsAreTries
<1> QED
  BY <1>1, <1>2, <1>5, <1>6

LEMMA InvKeepsOneRecord == ASSUME TelemetryInv PROVE OneRecordPerIncident
<1>1. SUFFICES ASSUME NEW b \in Batch
               PROVE  LET records == {i \in IncidentFeed : i.batch = b}
                          open == running[b].task = Fail
                      IN  /\ Cardinality(records) <= 1
                          /\ ~aged /\ ~open /\ tries[b][Fail] > 0 => records /= {}
                          /\ ~aged => \A i \in records :
                               i.attempts \in (IF open THEN tries[b][Fail] - 1
                                               ELSE tries[b][Fail])..tries[b][Fail]
  BY DEF OneRecordPerIncident
<1> DEFINE records == {i \in IncidentFeed : i.batch = b}
           c == Cardinality(Tries(b, Fail))
<1>2. PICK n : JobNames(JobOf[b]) = {n}
  BY EveryBatchHasAName
<1> DEFINE one == [batch |-> b, source |-> TableOfJob(n), attempts |-> c]
<1>3. \A i \in records : i = one
  BY <1>2, RecordOfBatch
<1>4. Cardinality(records) <= 1
  <2> HIDE DEF records, one
  <2>1. records \subseteq {one}
    BY <1>3
  <2>2. IsFiniteSet({one}) /\ Cardinality({one}) = 1
    BY FS_Singleton
  <2> QED
    BY <2>1, <2>2, FS_Subset
<1>5. ASSUME ~ aged, running[b].task /= Fail, tries[b][Fail] > 0 PROVE records /= {}
  <2> DEFINE k == tries[b][Fail]
  <2>0. Fail \in Task
    BY DEF Task
  <2>1. k \in Nat /\ 0 < k /\ k <= k
    BY <1>5, <2>0 DEF TelemetryInv, TelemetryTyped
  <2> HIDE DEF k
  <2>2. k <= tries[b][Fail]
    BY <2>1 DEF k
  <2>3. RecordedTry(b, Fail, k)
    BY <1>5, <2>0, <2>1, <2>2 DEF TelemetryInv, Attempted
  <2>4. PICK q \in timeline : q.batch = b /\ q.task = Fail /\ q.try = k
    BY <2>3 DEF RecordedTry
  <2>5. RowOf(b, n, Fail, k) \in TaskTelemetry
    BY <1>2, <2>4, OneRowPerRun
  <2> DEFINE g == RowOf(b, n, Fail, k)
  <2>6. g \in GateRuns /\ g.batch = b
    BY <2>5 DEF GateRuns, RowOf
  <2> HIDE DEF g
  <2> DEFINE i == [batch |-> g.batch, source |-> TableOfJob(g.name),
                   attempts |-> Cardinality({t \in GateRuns : t.batch = g.batch /\ t.name = g.name})]
  <2>7. i \in IncidentFeed
    BY <2>6, Zenon DEF IncidentFeed
  <2>8. i.batch = b
    BY <2>6
  <2> QED
    BY <2>7, <2>8, Zenon
<1>6. ASSUME ~ aged, NEW i \in records
      PROVE  i.attempts \in (IF running[b].task = Fail THEN tries[b][Fail] - 1
                             ELSE tries[b][Fail])..tries[b][Fail]
  <2>0. Fail \in Task
    BY DEF Task
  <2>1. i.attempts = c
    BY <1>3
  <2>2. /\ c \in Nat /\ tries[b][Fail] \in Nat /\ c <= tries[b][Fail]
        /\ running[b].task /= Fail => c = tries[b][Fail]
        /\ tries[b][Fail] - 1 <= c
    BY <1>6, <2>0, TriesCounted
  <2> HIDE DEF c, records
  <2> QED
    BY <2>1, <2>2
<1> QED
  BY <1>4, <1>5, <1>6

\* A recorded check of a batch starts no earlier than its job run.
LEMMA CheckRow ==
  ASSUME TelemetryInv, NEW t \in CheckRuns
  PROVE  /\ t.batch \in Batch /\ t.job = JobOf[t.batch] /\ Recorded(t.batch, Check)
         /\ t.started \in Nat /\ begun[t.batch] <= t.started
         /\ begun[t.batch] \in Nat /\ begun[t.batch] > 0
<1>1. t \in TaskTelemetry /\ t.task = Check
  BY DEF CheckRuns
<1>2. PICK q \in timeline :
        /\ t.batch = q.batch /\ t.task = q.task /\ t.try = q.try /\ t.job = JobOf[q.batch]
        /\ t.started = Min({p.from : p \in {o \in timeline : /\ o.batch = q.batch
                                                            /\ o.task = q.task
                                                            /\ o.try = q.try}})
  BY <1>1, RowIsRecorded
<1> DEFINE froms == {p.from : p \in {o \in timeline : /\ o.batch = q.batch
                                                      /\ o.task = q.task /\ o.try = q.try}}
<1>3. q.batch \in Batch /\ q.task = Check /\ tries[q.batch][Check] > 0
  BY <1>1, <1>2, RecordedWasBegun
<1>4. q.from \in froms
  OBVIOUS
<1>5. froms \in SUBSET Nat
  BY DEF TelemetryInv, TelemetryTyped
<1>6. \A n \in froms : begun[q.batch] <= n
  BY <1>3 DEF TelemetryInv, Clocked
<1> HIDE DEF froms
<1>7. Min(froms) \in froms
  BY <1>4, <1>5, LeastOf DEF Min
<1>8. t.started \in Nat /\ begun[q.batch] <= t.started
  BY <1>2, <1>5, <1>6, <1>7 DEF froms
<1>9. begun[q.batch] \in Nat /\ begun[q.batch] > 0
  BY <1>3 DEF TelemetryInv, TelemetryTyped, Clocked
<1>10. Recorded(q.batch, Check)
  BY <1>3 DEF Recorded
<1> QED
  BY <1>2, <1>3, <1>8, <1>9, <1>10

\* The first check of a recorded job run has a row, which starts with it.
LEMMA FirstCheckRow ==
  ASSUME TelemetryInv, ~ aged, NEW b \in Batch, Recorded(b, Check)
  PROVE  \E t \in CheckRuns : t.batch = b /\ t.job = JobOf[b] /\ t.started = begun[b]
<1>1. PICK p \in timeline : p.batch = b /\ p.task = Check /\ p.from = begun[b]
  BY DEF TelemetryInv, Clocked
<1>2. PICK n : JobNames(JobOf[b]) = {n}
  BY EveryBatchHasAName
<1> DEFINE t == RowOf(b, n, Check, p.try)
           froms == {q.from : q \in Slices(b, Check, p.try)}
<1>3. t \in TaskTelemetry
  BY <1>1, <1>2, OneRowPerRun
<1>4. /\ t.batch = b /\ t.job = JobOf[b] /\ t.task = Check
      /\ t.started = Min(froms)
  BY DEF RowOf, StartOf
<1>5. t \in CheckRuns
  BY <1>3, <1>4 DEF CheckRuns
<1>6. begun[b] \in froms /\ froms \in SUBSET Nat
  BY <1>1 DEF Slices, TelemetryInv, TelemetryTyped
<1> HIDE DEF t, froms
<1>7. Min(froms) \in froms /\ \A m \in froms : Min(froms) <= m
  BY <1>6, LeastOf DEF Min
<1>8. t.started <= begun[b] /\ t.started \in Nat /\ begun[b] \in Nat
  BY <1>4, <1>6, <1>7
<1>9. begun[b] <= t.started
  BY <1>4, <1>5, CheckRow
<1>10. t.started = begun[b]
  BY <1>8, <1>9
<1> QED
  BY <1>4, <1>5, <1>10, Zenon

\* The gate run of an incident started when its job run's first check did.
LEMMA GateStart ==
  ASSUME TelemetryInv, ~ aged, NEW b \in Batch, Recorded(b, Check)
  PROVE  OwnGate(b) /= {} /\ GateStartedAt(b) = begun[b]
<1> DEFINE starts == {t.started : t \in OwnGate(b)}
<1>1. PICK u \in CheckRuns : u.batch = b /\ u.started = begun[b]
  BY FirstCheckRow
<1>2. u \in OwnGate(b)
  BY <1>1 DEF OwnGate
<1>3. begun[b] \in starts
  BY <1>1, <1>2
<1>4. \A m \in starts : m \in Nat /\ begun[b] <= m
  BY CheckRow DEF OwnGate
<1>5. GateStartedAt(b) = Min(starts)
  BY DEF GateStartedAt
<1> HIDE DEF starts
<1>6. Min(starts) \in starts /\ \A m \in starts : Min(starts) <= m
  BY <1>3, <1>4, LeastOf DEF Min
<1>7. Min(starts) = begun[b]
  BY <1>3, <1>4, <1>6
<1> QED
  BY <1>2, <1>5, <1>7

LEMMA InvCountsPriorRuns == ASSUME TelemetryInv PROVE PriorRunsCountedOnce
<1>1. SUFFICES ASSUME NEW b \in Batch, ~ aged, Recorded(b, Check)
               PROVE  LET before == {c \in Batch \ {b} : /\ JobOf[c] = JobOf[b]
                                                          /\ Recorded(c, Check)
                                                          /\ begun[c] < begun[b]}
                      IN  /\ History(b).executions = Cardinality(before)
                          /\ History(b).incidents =
                               Cardinality({c \in before : Recorded(c, Fail)})
  BY DEF PriorRunsCountedOnce
<1> DEFINE before == {c \in Batch \ {b} : /\ JobOf[c] = JobOf[b] /\ Recorded(c, Check)
                                          /\ begun[c] < begun[b]}
           failed == {t.batch : t \in GateRuns}
<1>2. OwnGate(b) /= {} /\ GateStartedAt(b) = begun[b] /\ begun[b] \in Nat
  BY <1>1, GateStart DEF TelemetryInv, TelemetryTyped
<1>3. ASSUME NEW u \in CheckRuns, u.job = JobOf[b], u.batch /= b, u.started <= GateStartedAt(b)
      PROVE  u.batch \in before
  <2>1. /\ u.batch \in Batch /\ u.job = JobOf[u.batch] /\ Recorded(u.batch, Check)
        /\ u.started \in Nat /\ begun[u.batch] <= u.started
        /\ begun[u.batch] \in Nat /\ begun[u.batch] > 0
    BY CheckRow
  <2>2. begun[b] /= begun[u.batch]
    BY <1>3, <2>1 DEF TelemetryInv, Clocked
  <2>3. begun[u.batch] < begun[b]
    BY <1>2, <1>3, <2>1, <2>2
  <2> QED
    BY <1>3, <2>1, <2>3
<1>4. ASSUME NEW c \in before PROVE c \in PriorRuns(b)
  <2>1. PICK u \in CheckRuns : u.batch = c /\ u.job = JobOf[c] /\ u.started = begun[c]
    BY <1>1, FirstCheckRow
  <2>2. u.started <= GateStartedAt(b)
    <3>1. begun[c] \in Nat /\ begun[c] < begun[b]
      BY DEF TelemetryInv, TelemetryTyped
    <3> QED
      BY <1>2, <2>1, <3>1
  <2> QED
    BY <2>1, <2>2 DEF PriorRuns
<1>5. PriorRuns(b) = before
  <2>1. ASSUME NEW x \in PriorRuns(b) PROVE x \in before
    <3>1. PICK u \in CheckRuns : /\ x = u.batch /\ u.job = JobOf[b] /\ u.batch /= b
                                 /\ u.started <= GateStartedAt(b)
      BY DEF PriorRuns
    <3> QED
      BY <1>3, <3>1
  <2> HIDE DEF before
  <2> QED
    BY <1>4, <2>1
<1>6. \A c \in Batch : c \in failed <=> Recorded(c, Fail)
  <2>1. SUFFICES ASSUME NEW c \in Batch PROVE c \in failed <=> Recorded(c, Fail)
    OBVIOUS
  <2>2. PICK n : JobNames(JobOf[c]) = {n}
    BY EveryBatchHasAName
  <2>3. ASSUME NEW t \in GateRuns, t.batch = c PROVE Recorded(c, Fail)
    <3>1. t \in TaskTelemetry /\ t.task = Fail
      BY DEF GateRuns
    <3>2. PICK q \in timeline : t.batch = q.batch /\ t.task = q.task
      BY <3>1, RowIsRecorded
    <3> QED
      BY <2>3, <3>1, <3>2 DEF Recorded
  <2>4. ASSUME NEW q \in timeline, q.batch = c, q.task = Fail PROVE c \in failed
    <3>1. RowOf(c, n, Fail, q.try) \in TaskTelemetry
      BY <2>2, <2>4, OneRowPerRun
    <3>2. RowOf(c, n, Fail, q.try).task = Fail /\ RowOf(c, n, Fail, q.try).batch = c
      BY DEF RowOf
    <3> QED
      BY <3>1, <3>2 DEF GateRuns
  <2> QED
    BY <2>3, <2>4 DEF Recorded
<1>7. before \intersect failed = {c \in before : Recorded(c, Fail)}
  <2>1. \A c \in before : c \in failed <=> Recorded(c, Fail)
    BY <1>6
  <2> HIDE DEF before, failed
  <2> QED
    BY <2>1
<1> HIDE DEF before, failed
<1>8. /\ History(b).executions = Cardinality(before)
      /\ History(b).incidents = Cardinality(before \intersect failed)
  BY <1>2, <1>5 DEF History, failed
<1> QED
  BY <1>7, <1>8 DEF before

\* The feed and the history count each job run once, for every number of job
\* runs, of repairs and of hourly slices: an incident is one record whatever
\* its job was renamed to, its attempts are the runs of fail_on_dq, and its
\* history counts the runs of the job that began before its own and no other,
\* however often any of them was repaired (src/opl/dataops/telemetry.py and
\* src/opl/dataops/history.py).
THEOREM CountsEachRunOnce == TriageSpec => []HistoryCountsOnce
<1>1. EvidenceInv => HistoryCountsOnce
  BY InvKeepsOneRecord, InvCountsPriorRuns DEF EvidenceInv, HistoryCountsOnce
<1> QED
  BY <1>1, EvidenceAlways, PTL

-----------------------------------------------------------------------------
(* The posted issue.                                                       *)

\* A posted issue quotes a hold, and names what is downstream, as the wheel
\* that posts it declares them, however often the wheel was built anew since
\* the facts were drafted: from_mapping compares each payload of the file with
\* its own wheel before one is rendered (src/opl/triage_agent/issue.py and
\* scripts/open_triage_issue.py).
THEOREM PostsItsOwnWheel == TriageSpec => []PostedIssueIsTheWheels
<1>1. TriageInit => PostedIssueIsTheWheels
  BY DEF TriageInit, PostedIssueIsTheWheels
<1>2. PostedIssueIsTheWheels /\ [TriageNext]_triageVars => PostedIssueIsTheWheels'
  <2> SUFFICES ASSUME PostedIssueIsTheWheels, [TriageNext]_triageVars
               PROVE  PostedIssueIsTheWheels'
    OBVIOUS
  <2>1. CASE UNCHANGED posted
    BY <2>1 DEF PostedIssueIsTheWheels
  <2>2. ASSUME NEW b \in Batch, Post(b), NEW x \in posted'
        PROVE  /\ x.body.decision = "a declared hold" =>
                    x.issue.incident.batch \in x.wheel.holds
               /\ x.body.radius = x.wheel.manifest
    <3>1. PICK p \in Select(b) : x = [issue |-> p, body |-> Body(p), wheel |-> Wheel]
      BY <2>2, Zenon DEF Post
    <3>2. NoteIsDeclared(p) /\ RadiusIsDerived(p)
      BY <2>2 DEF Post, Select, FromMapping
    <3>3. /\ x.issue = p /\ x.body.decision = Decision(p) /\ x.body.radius = p.radius
          /\ x.wheel.holds = holds /\ x.wheel.manifest = manifest
      BY <3>1 DEF Body, Wheel
    <3>4. Decision(p) = "a declared hold" => p.grade.held
      BY DEF Decision
    <3> QED
      BY <3>2, <3>3, <3>4 DEF NoteIsDeclared, RadiusIsDerived
  <2>3. UNCHANGED posted \/ \E b \in Batch : Post(b)
    BY DEF TriageNext, triageVars, agentVars, ReadFeed, ReadSeverity, ReadCensus, Assemble, Emit,
           Refused, ReviseWheel
  <2> QED
    BY <2>1, <2>2, <2>3 DEF PostedIssueIsTheWheels
<1> QED
  BY <1>1, <1>2, PTL DEF TriageSpec
=============================================================================
