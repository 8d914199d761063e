---------------------------- MODULE ExactlyOnce ----------------------------
(***************************************************************************)
(* opl.streaming.exactly_once: a foreachBatch sink in two arms -- naive    *)
(* appends, guarded appends under Delta's txnAppId/txnVersion -- and the   *)
(* experiment that kills each arm once inside a batch and restarts it.     *)
(*                                                                         *)
(* The engine is modelled from how the code uses it.  A run resolves the   *)
(* topic's end offset, then takes batch after batch: it logs the batch's   *)
(* end offset, calls the body, commits the batch.  A batch logged and not  *)
(* committed is run again, over the same offsets, by the next run on that  *)
(* checkpoint.  One partition: a record is its offset, from 1.  Batches    *)
(* are numbered from 1 here, from 0 by Spark.                              *)
(***************************************************************************)
EXTENDS Naturals, Sequences, Functions

CONSTANTS
  Offsets,      \* the most records the topic ever holds
  MaxOffsets,   \* maxOffsetsPerTrigger
  FaultBatch,   \* the batch the first run of a proof is killed inside
  MinimumRows,  \* the fewest rows the killed run must have processed
  MaxCalls      \* bound: calls of prove_arm

ASSUME SizeAssumption ==
  /\ Offsets \in Nat /\ MaxOffsets \in Nat \ {0} /\ MaxCalls \in Nat
  /\ FaultBatch \in Nat /\ MinimumRows \in Nat

Arm    == {"naive", "guarded"}
Record == 1..Offsets

VARIABLES
  topic,      \* how many records the topic holds
  ends,       \* ends[a]: the offset log, the end offset of each batch logged
  committed,  \* committed[a]: how many batches the commit log holds
  txn,        \* txn[a]: the highest txnVersion in the table's log, 0 if none
  copies,     \* copies[a][r]: how many rows of the arm's table are record r
  calls,      \* calls of prove_arm so far
  arm,        \* the arm now being run
  run,        \* "idle", or the run of the proof: "faulted", then "replay"
  at,         \* where in a batch the run is
  target,     \* the end offset the run resolved when it started
  ledger,     \* BatchLedger: the batches the body was handed by this run
  killed,     \* the invocation the fault struck
  evidence    \* evidence[a]: what the last completed proof of a returned

tables == <<ends, committed, txn, copies>>
call   == <<calls, arm, run, at, target, ledger, killed>>
vars   == <<topic, ends, committed, txn, copies, calls, arm, run, at, target,
            ledger, killed, evidence>>

Invocation == [batch : Nat, first : Nat, last : Nat]

NoEvidence == [duplicates |-> 0, killed |-> [batch |-> 0, first |-> 0, last |-> 0]]

SinkTypes ==
  /\ topic \in 0..Offsets
  /\ ends \in [Arm -> Seq(Nat)]
  /\ committed \in [Arm -> Nat] /\ txn \in [Arm -> Nat]
  /\ copies \in [Arm -> [Record -> Nat]]
  /\ calls \in 0..MaxCalls
  /\ arm \in Arm
  /\ run \in {"idle", "faulted", "replay"}
  /\ at \in {"between", "write", "strike", "commit", "struck"}
  /\ target \in 0..Offsets
  /\ ledger \in Seq(Invocation)

\* Types, among them that no count of duplicates is negative: prove_arm's
\* arithmetic stays meaningful while the topic grows under it.
TypeOK ==
  /\ SinkTypes
  /\ killed \in Invocation
  /\ evidence \in [Arm -> [duplicates : Nat, killed : Invocation]]

Init ==
  /\ topic = 0
  /\ ends = [a \in Arm |-> <<>>]
  /\ committed = [a \in Arm |-> 0] /\ txn = [a \in Arm |-> 0]
  /\ copies = [a \in Arm |-> [r \in Record |-> 0]]
  /\ calls = 0 /\ arm = "naive" /\ run = "idle" /\ at = "between" /\ target = 0
  /\ ledger = <<>> /\ killed = NoEvidence.killed
  /\ evidence = [a \in Arm |-> NoEvidence]

-----------------------------------------------------------------------------
(* The engine's logs and the counts taken over a table.                    *)

EndOf(a, k) == IF k = 0 THEN 0 ELSE ends[a][k]

Logged(a) == Len(ends[a])

Pending(a) == committed[a] < Logged(a)

Drained(a) == ~Pending(a) /\ EndOf(a, Logged(a)) >= target

\* The records of the batch logged last, the one being run.
Batch(a) == (EndOf(a, Logged(a) - 1) + 1)..EndOf(a, Logged(a))

InvocationOf(a, k, end) == [batch |-> k, first |-> EndOf(a, k - 1) + 1, last |-> end]

RowsOf(invocation) == invocation.last + 1 - invocation.first

RowCount(invocations) == FoldFunction(+, 0, [i \in DOMAIN invocations |-> RowsOf(invocations[i])])

\* processing_duplicates: rows less distinct coordinates.
DuplicateRows(a) ==
  FoldFunction(+, 0, [r \in Record |-> IF copies[a][r] = 0 THEN 0 ELSE copies[a][r] - 1])

-----------------------------------------------------------------------------
(* The topic, and the calls of prove_arm.                                  *)

Produce ==
  /\ topic < Offsets
  /\ topic' = topic + 1
  /\ UNCHANGED <<tables, call, evidence>>

\* run_arm: a fresh ledger, the checkpoint and the table as they are.
StartRun(r) ==
  /\ run' = r /\ at' = "between" /\ target' = topic /\ ledger' = <<>>

ProveArm(a) ==
  /\ run = "idle" /\ calls < MaxCalls
  /\ calls' = calls + 1
  /\ arm' = a
  /\ StartRun("faulted")
  /\ UNCHANGED <<topic, tables, killed, evidence>>

\* The proof raises: no evidence, and the tables stay as they are.
Raise == run' = "idle" /\ at' = "between" /\ UNCHANGED <<calls, arm, target, ledger, killed>>

-----------------------------------------------------------------------------
(* One batch: log it, record and write it, strike, commit.                 *)

\* mutant: the fault strikes before the rows are written
StrikesBeforeTheWrite(step) ==
  CASE step = "record" -> "strike" [] step = "strike" -> "write" [] step = "write" -> "commit"

\* _batch_body: ledger, write, then fault.
StepAfter(step) ==
  CASE step = "record" -> "write" [] step = "write" -> "strike" [] step = "strike" -> "commit"

\* A batch left uncommitted is run again as it was logged; otherwise the next
\* one is logged.
RecordBatch ==
  /\ run # "idle" /\ at = "between" /\ ~Drained(arm)
  /\ ends' = IF Pending(arm) THEN ends
             ELSE LET last == EndOf(arm, Logged(arm))
                      end  == IF last + MaxOffsets < target THEN last + MaxOffsets ELSE target
                  IN [ends EXCEPT ![arm] = Append(@, end)]
  /\ ledger' = Append(ledger, InvocationOf(arm, Len(ends'[arm]), ends'[arm][Len(ends'[arm])]))
  /\ at' = StepAfter("record")
  /\ UNCHANGED <<topic, committed, txn, copies, calls, arm, run, target, killed, evidence>>

\* mutant: the guarded arm's writer carries no version
NeverSkips == FALSE
\* mutant: the version compared with is the next one
SkipsOneTooMany == arm = "guarded" /\ Logged(arm) <= txn[arm] + 1

\* Delta ignores an append whose version it has seen for this app id.
Skips == arm = "guarded" /\ Logged(arm) <= txn[arm]

WriteBatch ==
  /\ run # "idle" /\ at = "write"
  /\ \/ Skips /\ UNCHANGED <<copies, txn>>
     \/ /\ ~Skips
        /\ copies' = [copies EXCEPT ![arm] =
                        [r \in Record |-> IF r \in Batch(arm) THEN @[r] + 1 ELSE @[r]]]
        /\ txn' = IF arm = "guarded" THEN [txn EXCEPT ![arm] = Logged(arm)] ELSE txn
  /\ at' = StepAfter("write")
  /\ UNCHANGED <<topic, ends, committed, calls, arm, run, target, ledger, killed, evidence>>

Armed == run = "faulted" /\ Logged(arm) = FaultBatch

Strike ==
  /\ run # "idle" /\ at = "strike"
  /\ at' = IF Armed THEN "struck" ELSE StepAfter("strike")
  /\ UNCHANGED <<topic, tables, calls, arm, run, target, ledger, killed, evidence>>

Commit ==
  /\ run # "idle" /\ at = "commit"
  /\ committed' = [committed EXCEPT ![arm] = @ + 1]
  /\ at' = "between"
  /\ UNCHANGED <<topic, ends, txn, copies, calls, arm, run, target, ledger, killed, evidence>>

-----------------------------------------------------------------------------
(* How a run ends.                                                         *)

\* The faulted run died of its own fault: restart on the same checkpoint.
Restart ==
  /\ at = "struck" /\ RowCount(ledger) >= MinimumRows
  /\ killed' = ledger[Len(ledger)]
  /\ StartRun("replay")
  /\ UNCHANGED <<topic, tables, calls, arm, evidence>>

RefuseAShortRun ==
  /\ at = "struck" /\ RowCount(ledger) < MinimumRows
  /\ Raise
  /\ UNCHANGED <<topic, tables, evidence>>

\* The armed fault never fired.
RefuseAFaultThatNeverStruck ==
  /\ run = "faulted" /\ at = "between" /\ Drained(arm)
  /\ Raise
  /\ UNCHANGED <<topic, tables, evidence>>

Repeats == {i \in DOMAIN ledger : ledger[i].batch = killed.batch}

ReplayedTheKilledBatch == \E i \in DOMAIN ledger : Repeats = {i} /\ ledger[i] = killed

ReturnEvidence ==
  /\ evidence' = [evidence EXCEPT ![arm] = [duplicates |-> DuplicateRows(arm), killed |-> killed]]
  /\ Raise
  /\ UNCHANGED <<topic, tables>>

ReplayEnds ==
  /\ run = "replay" /\ at = "between" /\ Drained(arm)
  /\ IF RowCount(ledger) >= 1 /\ ReplayedTheKilledBatch
       THEN ReturnEvidence
       ELSE Raise /\ UNCHANGED <<topic, tables, evidence>>

\* mutant: a restart that dies is taken for one that completed
DeathReadsAsCompletion ==
  /\ run # "idle" /\ at # "struck"
  /\ IF run = "replay" /\ ReplayedTheKilledBatch
       THEN ReturnEvidence
       ELSE Raise /\ UNCHANGED <<topic, tables, evidence>>

\* The process is killed, the broker goes away, the disk is full: not the
\* injected fault, so it is raised.
Fails ==
  /\ run # "idle" /\ at # "struck"
  /\ Raise
  /\ UNCHANGED <<topic, tables, evidence>>

Next ==
  \/ Produce
  \/ \E a \in Arm : ProveArm(a)
  \/ RecordBatch \/ WriteBatch \/ Strike \/ Commit
  \/ Restart \/ RefuseAShortRun \/ RefuseAFaultThatNeverStruck \/ ReplayEnds \/ Fails

Spec == Init /\ [][Next]_vars

-----------------------------------------------------------------------------

Landed(a, k) == \A r \in Record : r <= EndOf(a, k) => copies[a][r] > 0

\* The logs and the tables agree at every step of every run: a checkpoint has
\* at most one batch in doubt, the version Delta holds is that batch or the one
\* before it, and the guarded table is the offsets up to that version, once.
LogsAndTablesAgree ==
  /\ \A a \in Arm :
       /\ \A i \in 1..Logged(a) : EndOf(a, i) \in EndOf(a, i - 1) + 1..Offsets
       /\ committed[a] <= Logged(a) /\ Logged(a) <= committed[a] + 1
       /\ Landed(a, committed[a])
  /\ committed["guarded"] <= txn["guarded"] /\ txn["guarded"] <= Logged("guarded")
  /\ \A r \in Record : copies["guarded"][r] =
                        IF r <= EndOf("guarded", txn["guarded"]) THEN 1 ELSE 0
  /\ at # "between" => Pending(arm)
  /\ at \in {"strike", "commit", "struck"} =>
       /\ Landed(arm, Logged(arm))
       /\ arm = "guarded" => txn[arm] = Logged(arm)
  /\ \A i \in DOMAIN ledger : ledger[i].batch <= Logged(arm)

\* The guarded arm implements the exactly-once sink, whatever is killed where
\* and however often its proof is started over on the same checkpoint.
Guarded == INSTANCE DeliverOnce WITH Record <- Record, rows <- copies["guarded"]

GuardedDeliversOnce == Guarded!Spec

\* Neither arm loses a record: what the checkpoint has passed is in the table,
\* so a skipped append is always of rows that are there.
CommittedIsLanded ==
  \A a \in Arm : Landed(a, committed[a])

\* The negative control: evidence of the naive arm shows at least the killed
\* batch twice, evidence of the guarded arm shows nothing twice.
TwoArmsTellApart ==
  \A a \in Arm : evidence[a] # NoEvidence =>
    IF a = "naive" THEN evidence[a].duplicates >= RowsOf(evidence[a].killed) /\ RowsOf(evidence[a].killed) > 0
                   ELSE evidence[a].duplicates = 0

\* Evidence is returned of a restart that finished the stream: the killed
\* batch is committed and every record up to the end it resolved has landed.
EvidenceOfAFinishedStream ==
  [][\A a \in Arm : evidence'[a] # evidence[a] =>
       /\ evidence'[a].killed.batch <= committed[a]
       /\ \A r \in 1..target : copies[a][r] > 0]_vars

\* At every moment, whatever died: neither arm lacks a record its checkpoint has
\* passed, and the guarded table is the offsets up to its Delta version, once.
TablesFollowTheLogs == CommittedIsLanded /\ LogsAndTablesAgree

\* The sink as a whole: the guarded arm is the exactly-once sink, and evidence is
\* returned only once all it was to deliver has been delivered.
DeliversOnceToTheEnd == GuardedDeliversOnce /\ EvidenceOfAFinishedStream
=============================================================================
