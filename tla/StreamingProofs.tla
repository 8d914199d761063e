------------------------- MODULE StreamingProofs -------------------------
(***************************************************************************)
(* Proofs about the stream: ExactlyOnce, for every topic, rate limit,      *)
(* armed batch and number of proofs started over on the same checkpoints;  *)
(* Producer, for every corpus, queue and pattern of rejected, lost and     *)
(* late-reported records; and EventTime, for every accepted corpus, split  *)
(* into batches, either comparison of the late filter and any records of   *)
(* another process on the topic; and Delivery and Generator, for every     *)
(* declaration of a stream profile: the file is what was declared, and the *)
(* corpora EventTime takes for granted are what is delivered.              *)
(***************************************************************************)
EXTENDS MCStreaming, Generator, FiniteSetTheorems, FunctionTheorems, SequenceTheorems, WellFoundedInduction, TLAPS

\* The inductive invariant.
SinkInv == SinkTypes /\ DOMAIN evidence = Arm /\ LogsAndTablesAgree

-----------------------------------------------------------------------------
(* Types.                                                                  *)

LEMMA EndOfType ==
  ASSUME SinkTypes, NEW a \in Arm, NEW k \in 0..Logged(a)
  PROVE  EndOf(a, k) \in Nat
BY DEF SinkTypes, EndOf, Logged

LEMMA InitTypes == Init => SinkTypes /\ DOMAIN evidence = Arm
BY SizeAssumption DEF Init, SinkTypes, Arm, Record

LEMMA RecordTypes ==
  ASSUME SinkInv, RecordBatch
  PROVE  SinkTypes'
<1> USE DEF SinkInv, SinkTypes
<1>1. EndOf(arm, Logged(arm)) \in Nat
  BY EndOfType DEF Logged
<1> DEFINE end == IF EndOf(arm, Logged(arm)) + MaxOffsets < target
                    THEN EndOf(arm, Logged(arm)) + MaxOffsets ELSE target
<1>2. end \in Nat
  BY <1>1, SizeAssumption
<1>3. /\ ends' \in [Arm -> Seq(Nat)]
      /\ Len(ends'[arm]) > 0
  <2>1. CASE Pending(arm)
    BY <2>1 DEF RecordBatch, Pending, Logged
  <2>2. CASE ~Pending(arm)
    <3>1. ends' = [ends EXCEPT ![arm] = Append(@, end)]
      BY <2>2 DEF RecordBatch
    <3> HIDE DEF end
    <3> QED
      BY <3>1, <1>2
  <2> QED
    BY <2>1, <2>2
<1> DEFINE k == Len(ends'[arm])
<1>4. InvocationOf(arm, k, ends'[arm][k]) \in Invocation
  <2>1. k \in Nat \ {0} /\ ends'[arm][k] \in Nat
    BY <1>3
  <2>2. EndOf(arm, k - 1) \in Nat
    <3>1. k - 1 \in 0..Logged(arm)
      BY <2>1 DEF RecordBatch, Pending, Logged
    <3> QED
      BY <3>1, EndOfType
  <2> HIDE DEF k
  <2> QED
    BY <2>1, <2>2 DEF InvocationOf, Invocation
<1>5. ledger' \in Seq(Invocation)
  BY <1>4 DEF RecordBatch
<1> QED
  BY <1>3, <1>5 DEF RecordBatch, StepAfter

LEMMA StepTypes ==
  ASSUME SinkInv, [Next]_vars
  PROVE  SinkTypes' /\ (DOMAIN evidence = Arm)'
<1> USE DEF SinkInv, SinkTypes, tables, call, Raise
<1>1. CASE RecordBatch
  BY <1>1, RecordTypes DEF RecordBatch
<1>2. CASE Produce
  BY <1>2, SizeAssumption DEF Produce
<1>3. ASSUME NEW a \in Arm, ProveArm(a) PROVE SinkTypes' /\ (DOMAIN evidence = Arm)'
  BY <1>3, SizeAssumption DEF ProveArm, StartRun
<1>4. CASE WriteBatch
  <2>1. copies' \in [Arm -> [Record -> Nat]]
    <3>1. CASE UNCHANGED copies
      BY <3>1
    <3>2. CASE copies' = [copies EXCEPT ![arm] =
                        [r \in Record |-> IF r \in Batch(arm) THEN @[r] + 1 ELSE @[r]]]
      <4> DEFINE more == [r \in Record |-> IF r \in Batch(arm) THEN copies[arm][r] + 1
                                                              ELSE copies[arm][r]]
      <4>1. more \in [Record -> Nat]
        OBVIOUS
      <4> HIDE DEF more
      <4>2. copies' = [copies EXCEPT ![arm] = more]
        BY <3>2 DEF more
      <4> QED
        BY <4>1, <4>2
    <3> QED
      BY <1>4, <3>1, <3>2 DEF WriteBatch
  <2>2. txn' \in [Arm -> Nat]
    <3>1. txn' = txn \/ txn' = [txn EXCEPT ![arm] = Logged(arm)]
      BY <1>4 DEF WriteBatch
    <3>2. Logged(arm) \in Nat
      BY DEF Logged
    <3> QED
      BY <3>1, <3>2
  <2> QED
    BY <1>4, <2>1, <2>2 DEF WriteBatch, StepAfter
<1>5. CASE Strike
  BY <1>5 DEF Strike, StepAfter
<1>6. CASE Commit
  BY <1>6 DEF Commit
<1>7. CASE Restart
  BY <1>7 DEF Restart, StartRun
<1>8. CASE RefuseAShortRun \/ RefuseAFaultThatNeverStruck \/ Fails
  BY <1>8 DEF RefuseAShortRun, RefuseAFaultThatNeverStruck, Fails
<1>9. CASE ReplayEnds
  BY <1>9 DEF ReplayEnds, ReturnEvidence
<1>10. CASE UNCHANGED vars
  BY <1>10 DEF vars
<1> QED
  BY <1>1, <1>2, <1>3, <1>4, <1>5, <1>6, <1>7, <1>8, <1>9, <1>10 DEF Next

-----------------------------------------------------------------------------
(* The logs and the tables.                                                *)

LEMMA InitAgrees == Init => LogsAndTablesAgree
BY DEF Init, LogsAndTablesAgree, EndOf, Logged, Landed, Pending, Arm, Record

\* The logs of one arm, in numbers.
LEMMA LogFacts ==
  ASSUME SinkInv, NEW a \in Arm
  PROVE  /\ Logged(a) \in Nat /\ committed[a] \in Nat /\ txn[a] \in Nat
         /\ committed[a] <= Logged(a) /\ Logged(a) <= committed[a] + 1
         /\ Pending(a) => committed[a] = Logged(a) - 1
         /\ \A k \in 0..Logged(a) : EndOf(a, k) \in Nat
         /\ \A i \in 1..Logged(a) : /\ EndOf(a, i - 1) < EndOf(a, i)
                                   /\ EndOf(a, i) <= Offsets
<1> USE DEF SinkInv
<1>1. Logged(a) \in Nat /\ committed[a] \in Nat /\ txn[a] \in Nat
  BY DEF SinkTypes, Logged
<1>2. committed[a] <= Logged(a) /\ Logged(a) <= committed[a] + 1
  BY DEF LogsAndTablesAgree
<1>3. Pending(a) => committed[a] = Logged(a) - 1
  BY <1>1, <1>2 DEF Pending
<1>4. \A k \in 0..Logged(a) : EndOf(a, k) \in Nat
  BY EndOfType
<1>5. ASSUME NEW i \in 1..Logged(a)
      PROVE  EndOf(a, i - 1) < EndOf(a, i) /\ EndOf(a, i) <= Offsets
  <2>1. i - 1 \in 0..Logged(a) /\ i \in 0..Logged(a)
    BY <1>1
  <2>2. EndOf(a, i) \in EndOf(a, i - 1) + 1..Offsets
    BY DEF LogsAndTablesAgree
  <2> QED
    BY <1>4, <2>1, <2>2, SizeAssumption
<1> QED
  BY <1>1, <1>2, <1>3, <1>4, <1>5

\* What appending one end offset to one arm's log does to both logs.
LEMMA LogGrows ==
  ASSUME SinkTypes, NEW b \in Arm, NEW n, n = Logged(b), NEW end \in Nat,
         ends' = [ends EXCEPT ![b] = Append(@, end)]
  PROVE  /\ n \in Nat
         /\ Logged(b)' = n + 1 /\ EndOf(b, n + 1)' = end
         /\ \A k \in 0..n : EndOf(b, k)' = EndOf(b, k)
         /\ \A a \in Arm \ {b} : /\ Logged(a)' = Logged(a)
                                /\ \A k \in Nat : EndOf(a, k)' = EndOf(a, k)
<1>1. /\ ends[b] \in Seq(Nat)
      /\ ends'[b] = Append(ends[b], end)
      /\ \A a \in Arm \ {b} : ends'[a] = ends[a]
  BY DEF SinkTypes
<1>2. n \in Nat /\ Logged(b)' = n + 1
  BY <1>1 DEF Logged
<1>3. EndOf(b, n + 1)' = end
  BY <1>1, <1>2 DEF EndOf, Logged
<1>4. ASSUME NEW k \in 0..n PROVE EndOf(b, k)' = EndOf(b, k)
  BY <1>1, <1>2 DEF EndOf, Logged
<1>5. ASSUME NEW a \in Arm \ {b}
      PROVE  Logged(a)' = Logged(a) /\ \A k \in Nat : EndOf(a, k)' = EndOf(a, k)
  BY <1>1 DEF EndOf, Logged
<1> QED
  BY <1>2, <1>3, <1>4, <1>5

\* Logging a batch: only when none is in doubt, and it moves the end on.
LEMMA RecordAgrees ==
  ASSUME SinkInv, RecordBatch
  PROVE  LogsAndTablesAgree'
<1> USE DEF SinkInv
<1> PICK b \in Arm : b = arm
  BY DEF SinkTypes
<1> PICK n \in Nat : n = Logged(b)
  BY DEF SinkTypes, Logged
<1>1. /\ at = "between" /\ at' = "write" /\ arm' = b
      /\ UNCHANGED <<committed, txn, copies>>
  BY DEF RecordBatch, StepAfter
<1>2. /\ committed[b] \in Nat /\ committed[b] <= n /\ n <= committed[b] + 1
      /\ \A i \in DOMAIN ledger : ledger[i].batch \in Nat /\ ledger[i].batch <= n
  <2>1. \A i \in DOMAIN ledger : ledger[i] \in Invocation
    BY DEF SinkTypes
  <2>2. \A i \in DOMAIN ledger : ledger[i].batch \in Nat
    BY <2>1 DEF Invocation
  <2> QED
    BY <2>2, LogFacts DEF LogsAndTablesAgree
<1>3. ASSUME NEW m \in Nat, n <= m, Len(ends'[b]) = m
      PROVE  \A i \in DOMAIN ledger' : ledger'[i].batch <= m
  <2> DEFINE inv == InvocationOf(arm, Len(ends'[arm]), ends'[arm][Len(ends'[arm])])
  <2>1. inv.batch = m
    BY <1>3 DEF InvocationOf
  <2>2. ledger' = Append(ledger, inv) /\ ledger \in Seq(Invocation)
    BY DEF RecordBatch, SinkTypes
  <2> HIDE DEF inv
  <2> TAKE i \in DOMAIN ledger'
  <2>3. CASE i = Len(ledger) + 1
    BY <2>1, <2>2, <2>3
  <2>4. CASE i # Len(ledger) + 1
    <3>1. i \in DOMAIN ledger /\ ledger'[i] = ledger[i]
      BY <2>2, <2>4
    <3> QED
      BY <1>2, <1>3, <3>1
  <2> QED
    BY <2>3, <2>4
<1>4. CASE Pending(arm)
  <2>1. UNCHANGED ends
    BY <1>4 DEF RecordBatch
  <2>2. \A i \in DOMAIN ledger' : ledger'[i].batch <= Logged(arm)'
    BY <1>1, <1>3, <2>1 DEF Logged
  <2> QED
    BY <1>1, <1>4, <2>1, <2>2 DEF LogsAndTablesAgree, Landed, Pending, EndOf, Logged
<1>5. CASE ~Pending(arm)
  <2> DEFINE last == EndOf(arm, Logged(arm))
             end  == IF last + MaxOffsets < target THEN last + MaxOffsets ELSE target
  <2>1. last \in Nat
    BY EndOfType DEF SinkTypes, Logged
  <2>2. end \in last + 1..Offsets
    BY <1>5, <2>1, SizeAssumption DEF RecordBatch, Drained, SinkTypes
  <2>3. ends' = [ends EXCEPT ![b] = Append(@, end)]
    BY <1>5 DEF RecordBatch
  <2> HIDE DEF end
  <2>4. PICK e \in Nat : e = end
    BY <2>1, <2>2, SizeAssumption
  <2>5. /\ Logged(b)' = n + 1 /\ EndOf(b, n + 1)' = e
        /\ \A k \in 0..n : EndOf(b, k)' = EndOf(b, k)
        /\ \A a \in Arm \ {b} : /\ Logged(a)' = Logged(a)
                               /\ \A k \in Nat : EndOf(a, k)' = EndOf(a, k)
    BY <2>3, <2>4, LogGrows
  <2>6. committed[b] = n
    BY <1>2, <1>5 DEF Pending
  <2>7. \A i \in 1..n + 1 : EndOf(b, i)' \in EndOf(b, i - 1)' + 1..Offsets
    <3> TAKE i \in 1..n + 1
    <3>1. CASE i = n + 1
      BY <2>2, <2>4, <2>5, <3>1
    <3>2. CASE i # n + 1
      <4>1. i \in 1..n /\ i - 1 \in 0..n /\ i \in 0..n
        BY <3>2
      <4>2. EndOf(b, i) \in EndOf(b, i - 1) + 1..Offsets
        BY <4>1 DEF LogsAndTablesAgree
      <4> QED
        BY <2>5, <4>1, <4>2
    <3> QED
      BY <3>1, <3>2
  <2>8. \A r \in Record : r <= EndOf(b, n)' => copies'[b][r] > 0
    BY <1>1, <2>5, <2>6 DEF LogsAndTablesAgree, Landed
  <2>9. ASSUME NEW a \in Arm
        PROVE  /\ \A i \in 1..Logged(a)' : EndOf(a, i)' \in EndOf(a, i - 1)' + 1..Offsets
               /\ committed'[a] <= Logged(a)' /\ Logged(a)' <= committed'[a] + 1
               /\ Landed(a, committed[a])'
    <3> PICK c \in Nat : c = committed[a]
      BY DEF SinkTypes
    <3>1. committed'[a] = c
      BY <1>1
    <3>2. CASE a = b
      BY <2>5, <2>6, <2>7, <2>8, <3>1, <3>2 DEF Landed
    <3>3. CASE a # b
      <4>1. /\ Logged(a)' = Logged(a) /\ Logged(a) \in Nat
            /\ \A k \in Nat : EndOf(a, k)' = EndOf(a, k)
        BY <2>5, <3>3 DEF Logged, SinkTypes
      <4>2. \A i \in 1..Logged(a) : i \in Nat /\ i - 1 \in Nat
        BY <4>1
      <4>3. \A r \in Record : r <= EndOf(a, c)' => copies'[a][r] > 0
        BY <1>1, <4>1 DEF LogsAndTablesAgree, Landed
      <4> QED
        BY <3>1, <4>1, <4>2, <4>3 DEF LogsAndTablesAgree, Landed
    <3> QED
      BY <3>2, <3>3
  <2>10. /\ committed'["guarded"] <= txn'["guarded"] /\ txn'["guarded"] <= Logged("guarded")'
         /\ \A r \in Record : copies'["guarded"][r] =
                               IF r <= EndOf("guarded", txn["guarded"])' THEN 1 ELSE 0
    <3> PICK t \in Nat : t = txn["guarded"]
      BY DEF SinkTypes, Arm
    <3>1. /\ t \in 0..Logged("guarded") /\ Logged("guarded") \in Nat
          /\ committed["guarded"] <= t
          /\ \A r \in Record : copies["guarded"][r] = IF r <= EndOf("guarded", t) THEN 1 ELSE 0
      BY DEF LogsAndTablesAgree, Logged, SinkTypes, Arm
    <3>2. "guarded" \in Arm
      BY DEF Arm
    <3>3. EndOf("guarded", t)' = EndOf("guarded", t) /\ t <= Logged("guarded")'
      BY <2>5, <3>1, <3>2
    <3> QED
      BY <1>1, <3>1, <3>3
  <2>11. \A i \in DOMAIN ledger' : ledger'[i].batch <= Logged(arm)'
    BY <1>1, <1>3, <2>5 DEF Logged
  <2>12. Pending(arm)'
    BY <1>1, <2>5, <2>6 DEF Pending
  <2> QED
    BY <1>1, <2>9, <2>10, <2>11, <2>12 DEF LogsAndTablesAgree
<1> QED
  BY <1>4, <1>5

\* The write: what the version in Delta's log says of the guarded table decides
\* whether the block is new to it.
LEMMA WriteFacts ==
  ASSUME SinkInv, WriteBatch
  PROVE  /\ Logged(arm) \in Nat \ {0} /\ committed[arm] = Logged(arm) - 1
         /\ Batch(arm) \subseteq Record
         /\ (arm = "guarded" /\ ~Skips) =>
               /\ txn[arm] = Logged(arm) - 1
               /\ \A r \in Batch(arm) : copies[arm][r] = 0
         /\ Skips => (arm = "guarded" /\ txn[arm] = Logged(arm))
<1> USE DEF SinkInv
<1>1. /\ Logged(arm) \in Nat /\ committed[arm] \in Nat /\ txn[arm] \in Nat
      /\ committed[arm] = Logged(arm) - 1
  <2>1. arm \in Arm /\ Pending(arm)
    BY DEF WriteBatch, LogsAndTablesAgree, SinkTypes
  <2> QED
    BY <2>1, LogFacts
<1> PICK n \in Nat \ {0} : n = Logged(arm)
  BY <1>1
<1>2. /\ EndOf(arm, n - 1) \in Nat /\ EndOf(arm, n) \in Nat
      /\ EndOf(arm, n - 1) < EndOf(arm, n) /\ EndOf(arm, n) <= Offsets
  BY LogFacts DEF SinkTypes
<1>3. Batch(arm) \subseteq Record
  BY <1>2, SizeAssumption DEF Batch, Record
<1>4. Skips => (arm = "guarded" /\ txn[arm] = n)
  BY <1>1 DEF Skips, LogsAndTablesAgree
<1>5. ASSUME arm = "guarded", ~Skips
      PROVE  txn[arm] = n - 1 /\ \A r \in Batch(arm) : copies[arm][r] = 0
  <2>1. txn[arm] = n - 1
    BY <1>1, <1>5 DEF Skips, LogsAndTablesAgree
  <2>2. \A r \in Batch(arm) : ~(r <= EndOf(arm, n - 1))
    BY <1>2 DEF Batch
  <2> QED
    BY <1>3, <1>5, <2>1, <2>2 DEF LogsAndTablesAgree
<1> QED
  BY <1>1, <1>3, <1>4, <1>5

LEMMA WriteAgrees ==
  ASSUME SinkInv, WriteBatch
  PROVE  LogsAndTablesAgree'
<1> USE DEF SinkInv
<1> PICK b \in Arm : b = arm
  BY DEF SinkTypes
<1> PICK n \in Nat \ {0} : n = Logged(b)
  BY WriteFacts
<1>1. /\ at' = "strike" /\ arm' = b
      /\ UNCHANGED <<ends, committed, ledger>>
  BY DEF WriteBatch, StepAfter
<1>2. /\ \A a \in Arm : Logged(a)' = Logged(a)
      /\ \A a \in Arm : \A k \in Nat : EndOf(a, k)' = EndOf(a, k)
      /\ Pending(b)'
  BY <1>1 DEF WriteBatch, LogsAndTablesAgree, Logged, EndOf, Pending
<1>3. /\ committed[b] = n - 1
      /\ \A r \in Record : r <= EndOf(b, n - 1) => copies[b][r] > 0
      /\ EndOf(b, n - 1) \in Nat /\ EndOf(b, n) \in Nat
      /\ copies[b] \in [Record -> Nat] /\ txn[b] \in Nat
  BY WriteFacts, EndOfType DEF LogsAndTablesAgree, Landed, SinkTypes
<1>4. /\ \A r \in Record : copies'[b][r] >= copies[b][r]
      /\ \A r \in Record : r <= EndOf(b, n) => copies'[b][r] > 0
      /\ b = "guarded" =>
           /\ txn'[b] = n
           /\ \A r \in Record : copies'[b][r] = IF r <= EndOf(b, n) THEN 1 ELSE 0
      /\ \A a \in Arm \ {b} : copies'[a] = copies[a] /\ txn'[a] = txn[a]
  <2>1. CASE Skips
    <3>1. UNCHANGED <<copies, txn>>
      BY <2>1 DEF WriteBatch
    <3>2. b = "guarded" /\ txn[b] = n
      BY <2>1, WriteFacts
    <3>3. \A r \in Record : copies[b][r] = IF r <= EndOf(b, n) THEN 1 ELSE 0
      BY <3>2 DEF LogsAndTablesAgree
    <3>4. \A r \in Record : copies[b][r] \in Nat /\ EndOf(b, n) \in Nat /\ r \in Nat
      BY <1>3, SizeAssumption DEF Record
    <3>5. \A r \in Record : copies[b][r] >= copies[b][r] /\ (r <= EndOf(b, n) => copies[b][r] > 0)
      BY <3>3, <3>4
    <3> QED
      BY <3>1, <3>2, <3>3, <3>5
  <2>2. CASE ~Skips
    <3> DEFINE more == [r \in Record |-> IF r \in Batch(arm) THEN copies[arm][r] + 1
                                                            ELSE copies[arm][r]]
    <3>1. more \in [Record -> Nat]
      BY DEF SinkTypes
    <3>2. copies' = [copies EXCEPT ![b] = more]
      BY <2>2 DEF WriteBatch
    <3>3. \A r \in Record : more[r] = IF EndOf(b, n - 1) < r /\ r <= EndOf(b, n)
                                        THEN copies[b][r] + 1 ELSE copies[b][r]
      BY <1>3 DEF Batch, Record
    <3> HIDE DEF more
    <3>4. copies'[b] = more /\ \A a \in Arm \ {b} : copies'[a] = copies[a]
      BY <3>2 DEF SinkTypes
    <3>5. /\ b = "guarded" => txn' = [txn EXCEPT ![b] = n]
          /\ b # "guarded" => txn' = txn
      BY <2>2 DEF WriteBatch
    <3>6. /\ b = "guarded" => txn'[b] = n
          /\ \A a \in Arm \ {b} : txn'[a] = txn[a]
      BY <3>5 DEF SinkTypes
    <3>7. b = "guarded" => \A r \in Record : copies[b][r] = IF r <= EndOf(b, n - 1) THEN 1 ELSE 0
      BY <2>2, WriteFacts DEF LogsAndTablesAgree
    <3>8. EndOf(b, n - 1) <= EndOf(b, n)
      BY LogFacts
    <3>9. \A r \in Record : /\ r \in Nat /\ copies[b][r] \in Nat
                            /\ (r <= EndOf(b, n - 1) => copies[b][r] > 0)
      <4>1. \A r \in Record : r \in Nat /\ copies[b][r] \in Nat
        BY <1>3, SizeAssumption DEF Record
      <4> QED
        BY <1>3, <4>1
    <3>10. ASSUME NEW r \in Record
           PROVE  /\ more[r] >= copies[b][r]
                  /\ r <= EndOf(b, n) => more[r] > 0
                  /\ b = "guarded" => more[r] = IF r <= EndOf(b, n) THEN 1 ELSE 0
      <4>1. more[r] = IF EndOf(b, n - 1) < r /\ r <= EndOf(b, n)
                        THEN copies[b][r] + 1 ELSE copies[b][r]
        BY <3>3
      <4>2. /\ r \in Nat /\ copies[b][r] \in Nat
            /\ r <= EndOf(b, n - 1) => copies[b][r] > 0
        BY <3>9
      <4>5. b = "guarded" => copies[b][r] = IF r <= EndOf(b, n - 1) THEN 1 ELSE 0
        BY <3>7
      <4> DEFINE low == EndOf(b, n - 1)
                 high == EndOf(b, n)
      <4>3. low \in Nat /\ high \in Nat /\ low <= high
        BY <1>3, <3>8
      <4> HIDE DEF low, high
      <4> QED
        BY <4>1, <4>2, <4>3, <4>5 DEF low, high
    <3> QED
      BY <3>4, <3>5, <3>6, <3>10
  <2> QED
    BY <2>1, <2>2
<1>5. ASSUME NEW a \in Arm
      PROVE  /\ \A i \in 1..Logged(a)' : EndOf(a, i)' \in EndOf(a, i - 1)' + 1..Offsets
             /\ committed'[a] <= Logged(a)' /\ Logged(a)' <= committed'[a] + 1
             /\ Landed(a, committed[a])'
  <2>1. Landed(a, committed[a])'
    <3> PICK c \in Nat : c = committed[a]
      BY LogFacts
    <3>1. committed'[a] = c /\ EndOf(a, c)' = EndOf(a, c)
      BY <1>1, <1>2
    <3>2. \A r \in Record : r <= EndOf(a, c) => copies[a][r] > 0
      BY DEF LogsAndTablesAgree, Landed
    <3>3. \A r \in Record : copies[a][r] \in Nat /\ (copies[a][r] > 0 => copies'[a][r] > 0)
      <4>1. \A r \in Record : copies[a][r] \in Nat
        BY DEF SinkTypes
      <4>2. CASE a = b
        <5>1. \A r \in Record : copies'[b][r] >= copies[b][r]
          BY <1>4
        <5>2. \A r \in Record : copies'[b][r] \in Nat
          BY StepTypes DEF SinkTypes, Next
        <5> QED
          BY <4>1, <4>2, <5>1, <5>2
      <4>3. CASE a # b
        BY <1>4, <4>1, <4>3
      <4> QED
        BY <4>2, <4>3
    <3> QED
      BY <3>1, <3>2, <3>3 DEF Landed
  <2>2. \A i \in 1..Logged(a) : i \in Nat /\ i - 1 \in Nat
    BY DEF Logged, SinkTypes
  <2> QED
    BY <1>1, <1>2, <2>1, <2>2 DEF LogsAndTablesAgree
<1>6. /\ committed'["guarded"] <= txn'["guarded"] /\ txn'["guarded"] <= Logged("guarded")'
      /\ \A r \in Record : copies'["guarded"][r] =
                            IF r <= EndOf("guarded", txn["guarded"])' THEN 1 ELSE 0
  <2>1. CASE b = "guarded"
    BY <1>1, <1>2, <1>3, <1>4, <2>1 DEF EndOf
  <2>2. CASE b # "guarded"
    BY <1>1, <1>2, <1>4, <2>2 DEF EndOf, LogsAndTablesAgree, Arm
  <2> QED
    BY <2>1, <2>2
<1>7. /\ Landed(arm, Logged(arm))'
      /\ (arm = "guarded" => txn[arm] = Logged(arm))'
  BY <1>1, <1>2, <1>4 DEF Landed, EndOf, Logged
<1>8. \A i \in DOMAIN ledger' : ledger'[i].batch <= Logged(arm)'
  BY <1>1, <1>2 DEF LogsAndTablesAgree, Logged
<1> QED
  BY <1>1, <1>2, <1>5, <1>6, <1>7, <1>8 DEF LogsAndTablesAgree, Pending, Logged

LEMMA StepAgrees ==
  ASSUME SinkInv, [Next]_vars
  PROVE  LogsAndTablesAgree'
<1> USE DEF SinkInv, tables, call, Raise, LogsAndTablesAgree, Landed, Pending, EndOf, Logged
<1>1. CASE RecordBatch
  BY <1>1, RecordAgrees
<1>2. CASE WriteBatch
  BY <1>2, WriteAgrees
<1>3. CASE Produce
  BY <1>3 DEF Produce
<1>4. ASSUME NEW a \in Arm, ProveArm(a) PROVE LogsAndTablesAgree'
  BY <1>4 DEF ProveArm, StartRun
<1>5. CASE Strike
  BY <1>5 DEF Strike, StepAfter
<1>6. CASE Commit
  <2>1. /\ committed[arm] \in Nat /\ Len(ends[arm]) \in Nat
        /\ committed[arm] + 1 = Len(ends[arm])
    BY <1>6 DEF Commit, SinkTypes
  <2>2. /\ committed'[arm] = Len(ends[arm])
        /\ \A a \in Arm \ {arm} : committed'[a] = committed[a]
    BY <1>6, <2>1 DEF Commit, SinkTypes
  <2>3. /\ at = "commit" /\ at' = "between"
        /\ UNCHANGED <<ends, txn, copies, arm, ledger>>
    BY <1>6 DEF Commit
  <2>4. ASSUME NEW a \in Arm
        PROVE  /\ committed'[a] <= Len(ends[a]) /\ Len(ends[a]) <= committed'[a] + 1
               /\ Landed(a, committed'[a])
    BY <2>1, <2>2, <2>3 DEF Arm
  <2>5. committed'["guarded"] <= txn["guarded"]
    BY <2>1, <2>2, <2>3 DEF Arm
  <2> QED
    BY <2>3, <2>4, <2>5
<1>7. CASE Restart
  BY <1>7 DEF Restart, StartRun
<1>8. CASE RefuseAShortRun \/ RefuseAFaultThatNeverStruck \/ Fails
  BY <1>8 DEF RefuseAShortRun, RefuseAFaultThatNeverStruck, Fails
<1>9. CASE ReplayEnds
  BY <1>9 DEF ReplayEnds, ReturnEvidence
<1>10. CASE UNCHANGED vars
  BY <1>10 DEF vars
<1> QED
  BY <1>1, <1>2, <1>3, <1>4, <1>5, <1>6, <1>7, <1>8, <1>9, <1>10 DEF Next

-----------------------------------------------------------------------------
(* The theorems.                                                           *)

\* The invariant holds of every run.
LEMMA SinkInvariant == Spec => []SinkInv
<1>1. Init => SinkInv
  BY InitTypes, InitAgrees DEF SinkInv
<1>2. SinkInv /\ [Next]_vars => SinkInv'
  BY StepTypes, StepAgrees DEF SinkInv
<1> QED
  BY <1>1, <1>2, PTL DEF Spec

\* Whatever is killed where, one batch at most is in doubt, the version Delta
\* holds is that batch or the one before it, and the guarded table is the
\* offsets up to that version, once.
THEOREM LogsAgree == Spec => []LogsAndTablesAgree
<1>1. SinkInv => LogsAndTablesAgree
  BY DEF SinkInv
<1> QED
  BY <1>1, SinkInvariant, PTL

\* Neither arm loses a record its checkpoint has passed.
THEOREM NothingLost == Spec => []CommittedIsLanded
<1>1. SinkInv => CommittedIsLanded
  BY DEF SinkInv, LogsAndTablesAgree, CommittedIsLanded
<1> QED
  BY <1>1, SinkInvariant, PTL

\* The guarded arm implements the exactly-once sink: a block lands when none
\* of it is there, in one append, and nothing else touches the table.
THEOREM GuardedImplementsDeliverOnce == Spec => GuardedDeliversOnce
<1> USE DEF Guarded!Init, Guarded!Next, Guarded!Deliver
<1>1. Init => Guarded!Init
  BY DEF Init, Arm
<1>2. SinkInv /\ [Next]_vars => [Guarded!Next]_(copies["guarded"])
  <2> SUFFICES ASSUME SinkInv, [Next]_vars, copies' # copies
               PROVE  \/ \E block \in SUBSET Record : Guarded!Deliver(block)
                      \/ UNCHANGED copies["guarded"]
    OBVIOUS
  <2>1. WriteBatch /\ ~Skips
    BY DEF Next, vars, tables, Produce, ProveArm, RecordBatch, WriteBatch, Strike, Commit,
           Restart, RefuseAShortRun, RefuseAFaultThatNeverStruck, ReplayEnds,
           ReturnEvidence, Fails
  <2> DEFINE more == [r \in Record |-> IF r \in Batch(arm) THEN copies[arm][r] + 1
                                                          ELSE copies[arm][r]]
  <2>2. /\ copies' = [copies EXCEPT ![arm] = more]
        /\ copies \in [Arm -> [Record -> Nat]] /\ arm \in Arm
    BY <2>1 DEF WriteBatch, SinkInv, SinkTypes
  <2>3. CASE arm # "guarded"
    BY <2>2, <2>3
  <2>4. CASE arm = "guarded"
    <3>1. Batch(arm) \subseteq Record /\ \A r \in Batch(arm) : copies["guarded"][r] = 0
      BY <2>1, <2>4, WriteFacts
    <3>2. more = [r \in Record |-> IF r \in Batch(arm) THEN 1 ELSE copies["guarded"][r]]
      BY <2>4, <3>1
    <3> HIDE DEF more
    <3>3. copies'["guarded"] = more
      BY <2>2, <2>4
    <3>4. Guarded!Deliver(Batch(arm))
      BY <3>1, <3>2, <3>3
    <3> QED
      BY <3>1, <3>4
  <2> QED
    BY <2>3, <2>4
<1> QED
  BY <1>1, <1>2, SinkInvariant, PTL DEF Spec, GuardedDeliversOnce, Guarded!Spec

\* Evidence is returned only of a restart that finished the stream.
THEOREM FinishedStream == Spec => EvidenceOfAFinishedStream
<1>1. SinkInv /\ [Next]_vars =>
        [\A a \in Arm : evidence'[a] # evidence[a] =>
           /\ evidence'[a].killed.batch <= committed[a]
           /\ \A r \in 1..target : copies[a][r] > 0]_vars
  <2> SUFFICES ASSUME SinkInv, Next, NEW a \in Arm, evidence'[a] # evidence[a]
               PROVE  /\ evidence'[a].killed.batch <= committed[a]
                      /\ \A r \in 1..target : copies[a][r] > 0
    OBVIOUS
  <2> USE DEF SinkInv
  <2>1. ReplayEnds /\ ReturnEvidence /\ ReplayedTheKilledBatch
    BY DEF Next, Produce, ProveArm, RecordBatch, WriteBatch, Strike, Commit,
           Restart, RefuseAShortRun, RefuseAFaultThatNeverStruck, ReplayEnds, Fails
  <2>2. a = arm /\ evidence'[a].killed = killed
    BY <2>1 DEF ReturnEvidence
  <2>3. Drained(a)
    BY <2>1, <2>2 DEF ReplayEnds
  <2>4. committed[a] = Logged(a) /\ Logged(a) \in Nat
    BY <2>3, LogFacts DEF Drained, Pending
  <2>5. killed.batch <= Logged(a)
    BY <2>1, <2>2 DEF ReplayedTheKilledBatch, LogsAndTablesAgree
  <2>6. ASSUME NEW r \in 1..target PROVE copies[a][r] > 0
    <3>1. r \in Record /\ r \in Nat /\ target \in Nat
      BY SizeAssumption, SMTT(30) DEF SinkTypes, Record
    <3>2. EndOf(a, Logged(a)) \in Nat /\ EndOf(a, Logged(a)) >= target
      <4>1. Logged(a) \in 0..Logged(a)
        BY <2>4
      <4>2. EndOf(a, Logged(a)) \in Nat
        BY <4>1, LogFacts
      <4> QED
        BY <2>3, <4>2 DEF Drained
    <3>3. r <= EndOf(a, Logged(a))
      BY <3>1, <3>2
    <3> QED
      BY <2>4, <3>1, <3>3 DEF LogsAndTablesAgree, Landed
  <2> QED
    BY <2>2, <2>4, <2>5, <2>6
<1> QED
  BY <1>1, SinkInvariant, PTL DEF Spec, EvidenceOfAFinishedStream

\* Both for every topic, rate limit, fault and number of calls: at every step the
\* tables are what the logs say, and nothing a checkpoint has passed is missing.
THEOREM TablesAndLogs == Spec => []TablesFollowTheLogs
<1>1. CommittedIsLanded /\ LogsAndTablesAgree => TablesFollowTheLogs
  BY DEF TablesFollowTheLogs
<1> QED
  BY <1>1, LogsAgree, NothingLost, PTL

\* The guarded arm is the exactly-once sink and returns evidence of a finished
\* stream only.
THEOREM OnceToTheEnd == Spec => DeliversOnceToTheEnd
BY GuardedImplementsDeliverOnce, FinishedStream DEF DeliversOnceToTheEnd

-----------------------------------------------------------------------------
(* Least elements, and the sum of a function on a finite set.              *)

\* A nonempty set of naturals has a least element.
LEMMA LeastOf ==
  ASSUME NEW S \in SUBSET Nat, S /= {}
  PROVE  \E x \in S : \A y \in S : x <= y
<1> DEFINE Less == {ss \in Nat \X Nat : ss[1] < ss[2]}
<1>1. IsWellFoundedOn(Less, Nat)
  BY NatLessThanWellFounded, Zenon DEF OpToRel
<1>2. PICK x \in S : \A y \in S : ~ (<<y, x>> \in Less)
  BY <1>1, WFMin
<1>3. ASSUME NEW y \in S PROVE x <= y
  <2>1. x \in Nat /\ y \in Nat
    OBVIOUS
  <2>2. y < x => <<y, x>> \in Less
    BY <2>1
  <2> QED
    BY <1>2, <2>1, <2>2
<1> QED
  BY <1>3

\* One unfolding of the sum of f over s, with the values g of the smaller sets.
Unfolding(f, g, s) ==
  IF s = {} THEN 0 ELSE f[CHOOSE x \in s : TRUE] + g[s \ {CHOOSE x \in s : TRUE}]

\* g is the sum of f over each of the subsets of D.
SumsOver(D, f, g) == g = [s \in SUBSET D |-> Unfolding(f, g, s)]

\* The subsets of D of at most n elements.
Small(D, n) == {s \in SUBSET D : Cardinality(s) <= n}

\* g is the sum of f over each of those.
SumsUpTo(D, f, n, g) ==
  /\ g = [s \in Small(D, n) |-> g[s]]
  /\ \A s \in Small(D, n) : g[s] = Unfolding(f, g, s)

\* The element an unfolding takes leaves a smaller set.
LEMMA Shrinks ==
  ASSUME NEW D, IsFiniteSet(D), NEW s \in SUBSET D, s /= {}
  PROVE  LET x == CHOOSE y \in s : TRUE
         IN  /\ x \in s /\ s \ {x} \in SUBSET D
             /\ Cardinality(s) \in Nat
             /\ Cardinality(s \ {x}) \in Nat /\ Cardinality(s \ {x}) = Cardinality(s) - 1
             /\ Cardinality(s) > 0
<1> DEFINE x == CHOOSE y \in s : TRUE
<1>1. x \in s
  BY Zenon
<1> HIDE DEF x
<1>2. IsFiniteSet(s)
  BY FS_Subset
<1>3. Cardinality(s \ {x}) = Cardinality(s) - 1
  BY <1>1, <1>2, FS_RemoveElement
<1>4. Cardinality(s) \in Nat /\ Cardinality(s \ {x}) \in Nat
  BY <1>2, FS_CardinalityType, FS_Subset, s \ {x} \subseteq s
<1>5. Cardinality(s) > 0
  BY <1>3, <1>4
<1> QED
  BY <1>1, <1>3, <1>4, <1>5 DEF x

\* The sums over the sets of at most n elements exist, for every n.
LEMMA SmallSums ==
  ASSUME NEW D, IsFiniteSet(D), NEW f, NEW n \in Nat
  PROVE  \E g : SumsUpTo(D, f, n, g)
<1> DEFINE without == {k \in Nat : ~ \E g : SumsUpTo(D, f, k, g)}
<1>1. SUFFICES ASSUME without /= {} PROVE FALSE
  BY Zenon
<1>2. without \in SUBSET Nat
  OBVIOUS
<1>3. PICK m \in without : \A k \in without : m <= k
  BY <1>1, <1>2, LeastOf, Zenon
<1>4. m \in Nat /\ ~ \E g : SumsUpTo(D, f, m, g)
  BY Zenon
<1>5. m = 0 \/ m - 1 \in Nat
  BY <1>4
<1>6. \A s \in SUBSET D : IsFiniteSet(s) /\ Cardinality(s) \in Nat
  BY FS_Subset, FS_CardinalityType
<1>7. CASE m = 0
  <2> DEFINE g == [s \in Small(D, m) |-> 0]
  <2>1. \A s \in Small(D, m) : s = {}
    BY <1>6, <1>7, FS_EmptySet DEF Small
  <2>2. \A s \in Small(D, m) : g[s] = 0
    OBVIOUS
  <2>3. g = [s \in Small(D, m) |-> g[s]]
    BY <2>2
  <2>4. \A s \in Small(D, m) : g[s] = Unfolding(f, g, s)
    BY <2>1, <2>2 DEF Unfolding
  <2>5. SumsUpTo(D, f, m, g)
    BY <2>3, <2>4, Zenon DEF SumsUpTo
  <2> QED
    BY <1>4, <2>5
<1>8. CASE m - 1 \in Nat
  <2>1. m - 1 \notin without
    BY <1>3, <1>4, <1>8
  <2>2. PICK g : SumsUpTo(D, f, m - 1, g)
    BY <1>8, <2>1
  <2> DEFINE h == [s \in Small(D, m) |-> Unfolding(f, g, s)]
  <2>3. \A s \in Small(D, m - 1) : s \in Small(D, m) /\ g[s] = Unfolding(f, g, s)
    BY <1>4, <1>6, <1>8, <2>2 DEF Small, SumsUpTo
  <2>4. \A s \in Small(D, m) : h[s] = Unfolding(f, g, s)
    OBVIOUS
  <2>5. h = [s \in Small(D, m) |-> h[s]]
    BY <2>4, Zenon
  <2> HIDE DEF h
  <2>6. ASSUME NEW s \in Small(D, m) PROVE h[s] = Unfolding(f, h, s)
    <3>1. CASE s = {}
      BY <2>4, <3>1 DEF Unfolding
    <3>2. CASE s /= {}
      <4> DEFINE x == CHOOSE y \in s : TRUE
      <4>1. s \in SUBSET D /\ Cardinality(s) <= m
        BY DEF Small
      <4>2. s \ {x} \in Small(D, m - 1)
        BY <1>4, <1>8, <3>2, <4>1, Shrinks DEF Small
      <4>3. h[s \ {x}] = g[s \ {x}]
        BY <2>3, <2>4, <4>2, Zenon
      <4>4. h[s] = f[x] + g[s \ {x}]
        BY <2>4, <3>2 DEF Unfolding
      <4> QED
        BY <3>2, <4>3, <4>4 DEF Unfolding
    <3> QED
      BY <3>1, <3>2
  <2>7. SumsUpTo(D, f, m, h)
    BY <2>5, <2>6, Zenon DEF SumsUpTo
  <2> QED
    BY <1>4, <2>7
<1> QED
  BY <1>5, <1>7, <1>8

\* The sums over all the subsets exist.
LEMMA SumsExist ==
  ASSUME NEW D, IsFiniteSet(D), NEW f
  PROVE  \E g : SumsOver(D, f, g)
<1>1. Cardinality(D) \in Nat
  BY FS_CardinalityType
<1>2. Small(D, Cardinality(D)) = SUBSET D
  BY FS_Subset DEF Small
<1> DEFINE c == Cardinality(D)
<1>c. c \in Nat
  BY <1>1
<1> HIDE DEF c
<1>3. PICK g : SumsUpTo(D, f, c, g)
  BY <1>c, SmallSums, Zenon
<1>4. [s \in Small(D, c) |-> g[s]] = [s \in Small(D, c) |-> Unfolding(f, g, s)]
  BY <1>3, Zenon DEF SumsUpTo
<1> QED
  BY <1>2, <1>3, <1>4, Zenon DEF SumsOver, SumsUpTo, c

\* A sum of naturals is a natural, and is 0 exactly if all of them are.
LEMMA SumsAreNat ==
  ASSUME NEW D, IsFiniteSet(D), NEW f \in [D -> Nat], NEW g, SumsOver(D, f, g),
         NEW t \in SUBSET D
  PROVE  g[t] \in Nat /\ (g[t] = 0 <=> \A x \in t : f[x] = 0)
<1> DEFINE Fine(s) == g[s] \in Nat /\ (g[s] = 0 <=> \A x \in s : f[x] = 0)
           sizes == {k \in Nat : \E s \in SUBSET D : Cardinality(s) = k /\ ~ Fine(s)}
<1>1. \A s \in SUBSET D : Cardinality(s) \in Nat
  BY FS_Subset, FS_CardinalityType
<1>2. \A s \in SUBSET D : g[s] = Unfolding(f, g, s)
  BY DEF SumsOver
<1>3. SUFFICES ASSUME ~ Fine(t) PROVE FALSE
  BY Zenon
<1>4. sizes \in SUBSET Nat /\ sizes /= {}
  BY <1>1, <1>3
<1>5. PICK m \in sizes : \A k \in sizes : m <= k
  BY <1>4, LeastOf, Zenon
<1>6. PICK s \in SUBSET D : Cardinality(s) = m /\ ~ Fine(s)
  BY Zenon
<1>7. s /= {}
  <2>1. g[{}] = 0
    BY <1>2 DEF Unfolding
  <2> QED
    BY <1>6, <2>1
<1> DEFINE x == CHOOSE y \in s : TRUE
<1>8. /\ x \in s /\ s \ {x} \in SUBSET D /\ Cardinality(s \ {x}) \in Nat
      /\ Cardinality(s \ {x}) = m - 1
  BY <1>6, <1>7, Shrinks
<1>9. g[s] = f[x] + g[s \ {x}]
  BY <1>2, <1>7 DEF Unfolding
<1> HIDE DEF x
<1>10. Cardinality(s \ {x}) \notin sizes
  <2>1. m \in Nat
    BY <1>4
  <2>2. ~ (m <= Cardinality(s \ {x}))
    BY <1>8, <2>1
  <2> QED
    BY <1>5, <2>2, Zenon
<1>11. Fine(s \ {x})
  BY <1>8, <1>10
<1>12. f[x] \in Nat
  BY <1>8
<1>13. g[s] \in Nat
  BY <1>9, <1>11, <1>12
<1>14. g[s] = 0 <=> f[x] = 0 /\ g[s \ {x}] = 0
  BY <1>9, <1>11, <1>12
<1>15. (\A y \in s : f[y] = 0) <=> f[x] = 0 /\ \A y \in s \ {x} : f[y] = 0
  BY <1>8
<1> QED
  BY <1>6, <1>11, <1>13, <1>14, <1>15

\* A sum is at least the number of elements it takes a positive value on.
LEMMA SumAtLeast ==
  ASSUME NEW D, IsFiniteSet(D), NEW f \in [D -> Nat], NEW g, SumsOver(D, f, g),
         NEW T \in SUBSET D, \A x \in T : f[x] > 0, NEW t \in SUBSET D
  PROVE  g[t] >= Cardinality(t \cap T)
<1> DEFINE Fine(s) == g[s] >= Cardinality(s \cap T)
           sizes == {k \in Nat : \E s \in SUBSET D : Cardinality(s) = k /\ ~ Fine(s)}
<1>1. \A s \in SUBSET D : /\ Cardinality(s) \in Nat
                          /\ IsFiniteSet(s \cap T) /\ Cardinality(s \cap T) \in Nat
                          /\ g[s] \in Nat
  <2> TAKE s \in SUBSET D
  <2>1. s \cap T \in SUBSET D
    OBVIOUS
  <2>2. IsFiniteSet(s) /\ IsFiniteSet(s \cap T)
    BY <2>1, FS_Subset
  <2>3. g[s] \in Nat
    BY SumsAreNat
  <2> QED
    BY <2>2, <2>3, FS_CardinalityType
<1>2. \A s \in SUBSET D : g[s] = Unfolding(f, g, s)
  BY DEF SumsOver
<1>3. SUFFICES ASSUME ~ Fine(t) PROVE FALSE
  BY Zenon
<1>4. sizes \in SUBSET Nat /\ sizes /= {}
  BY <1>1, <1>3
<1>5. PICK m \in sizes : \A k \in sizes : m <= k
  BY <1>4, LeastOf, Zenon
<1>6. PICK s \in SUBSET D : Cardinality(s) = m /\ ~ Fine(s)
  BY Zenon
<1>7. s /= {}
  <2>1. g[{}] = 0 /\ {} \cap T = {} /\ Cardinality({}) = 0
    BY <1>2, FS_EmptySet DEF Unfolding
  <2>2. Fine({})
    BY <2>1
  <2> QED
    BY <1>6, <2>2
<1> DEFINE x == CHOOSE y \in s : TRUE
<1>8. /\ x \in s /\ s \ {x} \in SUBSET D /\ Cardinality(s \ {x}) \in Nat
      /\ Cardinality(s \ {x}) = m - 1
  BY <1>6, <1>7, Shrinks
<1>9. g[s] = f[x] + g[s \ {x}]
  BY <1>2, <1>7 DEF Unfolding
<1> HIDE DEF x
<1>10. Cardinality(s \ {x}) \notin sizes
  <2>1. m \in Nat
    BY <1>4
  <2>2. ~ (m <= Cardinality(s \ {x}))
    BY <1>8, <2>1
  <2> QED
    BY <1>5, <2>2, Zenon
<1>11. Fine(s \ {x})
  BY <1>8, <1>10
<1> DEFINE rest == (s \ {x}) \cap T
<1>12. /\ IsFiniteSet(rest) /\ Cardinality(rest) \in Nat
       /\ g[s \ {x}] \in Nat /\ g[s \ {x}] >= Cardinality(rest) /\ f[x] \in Nat
  BY <1>1, <1>8, <1>11
<1>13. CASE x \in T
  <2>1. s \cap T = rest \cup {x} /\ x \notin rest
    BY <1>8, <1>13
  <2> HIDE DEF rest
  <2>2. Cardinality(s \cap T) = Cardinality(rest) + 1
    BY <1>12, <2>1, FS_AddElement
  <2>3. f[x] > 0
    BY <1>13
  <2>4. g[s] >= Cardinality(s \cap T)
    BY <1>9, <1>12, <2>2, <2>3
  <2> QED
    BY <1>6, <2>4
<1>14. CASE x \notin T
  <2>1. s \cap T = rest
    BY <1>8, <1>14
  <2> HIDE DEF rest
  <2>2. Cardinality(s \cap T) = Cardinality(rest)
    BY <2>1
  <2>3. g[s] >= Cardinality(rest)
    BY <1>9, <1>12
  <2> QED
    BY <1>6, <2>2, <2>3
<1> QED
  BY <1>13, <1>14

\* What DuplicateRows counts: nothing where every record is there once at most,
\* and at least the records of an interval all of which are there twice.
LEMMA Duplicates ==
  ASSUME NEW a \in Arm, copies[a] \in [Record -> Nat]
  PROVE  /\ DuplicateRows(a) \in Nat
         /\ (\A r \in Record : copies[a][r] <= 1) => DuplicateRows(a) = 0
         /\ \A m \in Nat, n \in Nat :
              m <= n /\ m..n \subseteq Record /\ (\A r \in m..n : copies[a][r] > 1)
              => DuplicateRows(a) >= n + 1 - m
<1> DEFINE extra == [r \in Record |-> IF copies[a][r] = 0 THEN 0 ELSE copies[a][r] - 1]
           iter == CHOOSE g : SumsOver(Record, extra, g)
<1>1. IsFiniteSet(Record)
  BY SizeAssumption, FS_Interval DEF Record
<1>2. SumsOver(Record, extra, iter)
  BY <1>1, SumsExist, Zenon
<1>3. DuplicateRows(a) = iter[Record]
  <2>1. DOMAIN extra = Record
    OBVIOUS
  <2> QED
    BY <2>1, Zenon DEF DuplicateRows, FoldFunction, FoldFunctionOnSet, MapThenFoldSet,
                       SumsOver, Unfolding
<1>4. extra \in [Record -> Nat]
  OBVIOUS
<1>5. \A r \in Record : extra[r] = IF copies[a][r] = 0 THEN 0 ELSE copies[a][r] - 1
  OBVIOUS
<1>6. \A r \in Record : copies[a][r] \in Nat
  OBVIOUS
<1> HIDE DEF iter, extra
<1>7. iter[Record] \in Nat /\ (iter[Record] = 0 <=> \A r \in Record : extra[r] = 0)
  BY <1>1, <1>2, <1>4, SumsAreNat
<1>8. (\A r \in Record : copies[a][r] <= 1) => DuplicateRows(a) = 0
  <2>1. (\A r \in Record : copies[a][r] <= 1) => \A r \in Record : extra[r] = 0
    BY <1>5, <1>6
  <2> QED
    BY <1>3, <1>7, <2>1
<1>9. ASSUME NEW m \in Nat, NEW n \in Nat, m <= n, m..n \subseteq Record,
             \A r \in m..n : copies[a][r] > 1
      PROVE  DuplicateRows(a) >= n + 1 - m
  <2>1. \A r \in m..n : extra[r] > 0
    BY <1>5, <1>6, <1>9
  <2>2. iter[Record] >= Cardinality(Record \cap (m..n))
    BY <1>1, <1>2, <1>4, <1>9, <2>1, SumAtLeast
  <2>3. Record \cap (m..n) = m..n
    BY <1>9, Zenon
  <2>4. Cardinality(m..n) = n - m + 1
    <3>1. m \in Int /\ n \in Int /\ ~ (m > n)
      BY <1>9
    <3>2. Cardinality(m..n) = IF m > n THEN 0 ELSE n - m + 1
      BY <3>1, FS_Interval
    <3> QED
      BY <3>1, <3>2
  <2>5. iter[Record] >= n - m + 1
    BY <2>2, <2>3, <2>4
  <2> QED
    BY <1>3, <1>7, <2>5
<1> QED
  BY <1>3, <1>7, <1>8, <1>9

-----------------------------------------------------------------------------
(* The negative control: what a restart repeats, and what that leaves.      *)

\* Inside a batch the ledger's last entry is the batch logged last.
LastHanded ==
  run # "idle" /\ at # "between" =>
    /\ Len(ledger) > 0
    /\ ledger[Len(ledger)] = InvocationOf(arm, Logged(arm), EndOf(arm, Logged(arm)))

\* The restart has been handed this batch, and has written it.
Handed(batch) ==
  \E i \in DOMAIN ledger : ledger[i].batch = batch /\ (i = Len(ledger) => at # "write")

\* The batch the fault struck is in the log, its records have landed, and in the
\* naive arm they have landed again once the restart has written it.
KilledTold ==
  run = "replay" =>
    /\ killed.batch \in 1..Logged(arm)
    /\ killed = InvocationOf(arm, killed.batch, EndOf(arm, killed.batch))
    /\ \A r \in killed.first..killed.last :
         /\ copies[arm][r] >= 1
         /\ Handed(killed.batch) /\ arm = "naive" => copies[arm][r] >= 2

EvidenceInv ==
  /\ SinkInv /\ LastHanded /\ KilledTold /\ TwoArmsTellApart
  /\ (run = "idle" => at = "between") /\ (at = "struck" => run = "faulted")

LEMMA InitEvidence == Init => EvidenceInv
<1> SUFFICES ASSUME Init PROVE EvidenceInv
  OBVIOUS
<1>1. SinkInv
  BY InitTypes, InitAgrees DEF SinkInv
<1>2. LastHanded /\ KilledTold /\ at = "between" /\ run = "idle"
  BY DEF Init, LastHanded, KilledTold
<1>3. TwoArmsTellApart
  BY DEF Init, TwoArmsTellApart
<1> QED
  BY <1>1, <1>2, <1>3 DEF EvidenceInv

\* What a step that writes no table and logs nothing keeps.
LEMMA HandedStays ==
  ASSUME EvidenceInv, UNCHANGED <<ends, copies, arm, run, ledger, killed>>,
         run = "replay" => (at' = "write" <=> at = "write")
  PROVE  KilledTold'
<1>1. (Handed(killed.batch)' <=> Handed(killed.batch)) \/ run # "replay"
  BY DEF Handed
<1> QED
  BY <1>1 DEF KilledTold, EvidenceInv, InvocationOf, EndOf, Logged

LEMMA RecordEvidence ==
  ASSUME EvidenceInv, RecordBatch
  PROVE  LastHanded' /\ KilledTold'
<1> USE DEF EvidenceInv
<1>1. /\ at = "between" /\ at' = "write" /\ run # "idle"
      /\ UNCHANGED <<copies, arm, run, killed>>
  BY DEF RecordBatch, StepAfter
<1> PICK b \in Arm : b = arm
  BY DEF SinkInv, SinkTypes
<1>2. /\ Logged(b) \in Nat /\ Logged(b)' \in Nat \ {0} /\ Logged(b) <= Logged(b)'
      /\ Logged(b)' - 1 <= Logged(b)
      /\ \A k \in 0..Logged(b) : EndOf(b, k)' = EndOf(b, k)
  <2>1. Logged(b) \in Nat
    BY DEF SinkInv, SinkTypes, Logged
  <2>2. CASE Pending(b)
    <3>1. UNCHANGED ends /\ Logged(b) > 0
      BY <2>2, LogFacts DEF RecordBatch, Pending
    <3> QED
      BY <2>1, <3>1 DEF EndOf, Logged
  <2>3. CASE ~Pending(b)
    <3> DEFINE last == EndOf(b, Logged(b))
               end  == IF last + MaxOffsets < target THEN last + MaxOffsets ELSE target
    <3>1. last \in Nat /\ target \in Nat
      BY LogFacts, <2>1, SizeAssumption DEF SinkInv, SinkTypes
    <3>2. end \in Nat
      BY <3>1, SizeAssumption
    <3>3. ends' = [ends EXCEPT ![b] = Append(@, end)]
      BY <2>3 DEF RecordBatch
    <3> HIDE DEF end
    <3>4. PICK n \in Nat : n = Logged(b)
      BY <2>1
    <3>5. Logged(b)' = n + 1 /\ \A k \in 0..n : EndOf(b, k)' = EndOf(b, k)
      BY <3>2, <3>3, <3>4, LogGrows DEF SinkInv
    <3> QED
      BY <3>4, <3>5
  <2> QED
    BY <2>2, <2>3
<1> PICK n \in Nat : n = Logged(b)
  BY <1>2
<1> PICK k \in Nat \ {0} : k = Logged(b)'
  BY <1>2
<1> DEFINE handed == InvocationOf(b, k, EndOf(b, k)')
<1>3. ledger' = Append(ledger, handed) /\ ledger \in Seq(Invocation)
  BY DEF RecordBatch, SinkInv, SinkTypes, EndOf, Logged
<1>4. EndOf(b, k - 1)' = EndOf(b, k - 1)
  BY <1>2
<1>5. handed = [batch |-> k, first |-> EndOf(b, k - 1)' + 1, last |-> EndOf(b, k)']
  BY <1>4 DEF InvocationOf
<1> HIDE DEF handed
<1>6. Len(ledger') = Len(ledger) + 1 /\ ledger'[Len(ledger')] = handed /\ Len(ledger) \in Nat
  BY <1>3
<1>7. LastHanded'
  BY <1>1, <1>5, <1>6 DEF LastHanded, InvocationOf
<1>8. ASSUME run = "replay" PROVE KilledTold'
  <2> PICK kb \in 1..n : kb = killed.batch
    BY <1>8 DEF KilledTold
  <2>1. /\ kb \in 1..k /\ kb - 1 \in 0..n /\ kb \in 0..n
    BY <1>2
  <2>2. EndOf(b, kb)' = EndOf(b, kb) /\ EndOf(b, kb - 1)' = EndOf(b, kb - 1)
    BY <1>2, <2>1
  <2>3. killed = [batch |-> kb, first |-> EndOf(b, kb - 1)' + 1, last |-> EndOf(b, kb)']
    BY <1>8, <2>2 DEF KilledTold, InvocationOf
  <2>4. Handed(killed.batch)' => Handed(killed.batch)
    <3> SUFFICES ASSUME NEW i \in DOMAIN ledger', ledger'[i].batch = killed.batch,
                        i # Len(ledger')
                 PROVE  Handed(killed.batch)
      BY <1>1 DEF Handed
    <3>1. i \in DOMAIN ledger /\ ledger'[i] = ledger[i]
      BY <1>3, <1>6
    <3> QED
      BY <1>1, <3>1 DEF Handed
  <2>5. \A r \in killed.first..killed.last :
          /\ copies[b][r] >= 1
          /\ Handed(killed.batch) /\ b = "naive" => copies[b][r] >= 2
    BY <1>8 DEF KilledTold
  <2> QED
    BY <1>1, <2>1, <2>3, <2>4, <2>5 DEF KilledTold, InvocationOf
<1>9. run # "replay" => KilledTold'
  BY <1>1 DEF KilledTold
<1> QED
  BY <1>7, <1>8, <1>9

\* What a write does to the counts of its arm.
LEMMA WriteCopies ==
  ASSUME SinkInv, WriteBatch, NEW r \in Record
  PROVE  /\ copies[arm][r] \in Nat /\ copies'[arm][r] \in Nat
         /\ copies'[arm][r] >= copies[arm][r]
         /\ arm = "naive" /\ r \in Batch(arm) => copies'[arm][r] = copies[arm][r] + 1
<1> PICK b \in Arm : b = arm
  BY DEF SinkInv, SinkTypes
<1> PICK c \in Nat : c = copies[b][r]
  BY DEF SinkInv, SinkTypes
<1>1. CASE Skips
  BY <1>1 DEF WriteBatch, Skips
<1>2. CASE ~ Skips
  <2> DEFINE more == [x \in Record |-> IF x \in Batch(arm) THEN copies[arm][x] + 1
                                                          ELSE copies[arm][x]]
  <2>1. copies' = [copies EXCEPT ![b] = more]
    BY <1>2 DEF WriteBatch
  <2>2. more[r] = IF r \in Batch(arm) THEN c + 1 ELSE c
    OBVIOUS
  <2> HIDE DEF more
  <2>3. copies'[b] = more
    BY <2>1 DEF SinkInv, SinkTypes
  <2> QED
    BY <2>2, <2>3
<1> QED
  BY <1>1, <1>2

LEMMA WriteEvidence ==
  ASSUME EvidenceInv, WriteBatch
  PROVE  LastHanded' /\ KilledTold'
<1> USE DEF EvidenceInv
<1>1. /\ at = "write" /\ at' = "strike" /\ run # "idle"
      /\ UNCHANGED <<ends, arm, run, ledger, killed>>
  BY DEF WriteBatch, StepAfter
<1>2. LastHanded'
  BY <1>1 DEF LastHanded, InvocationOf, EndOf, Logged
<1>3. ASSUME run = "replay" PROVE KilledTold'
  <2> DEFINE kb == killed.batch
  <2>1. kb \in 1..Logged(arm) /\ killed = InvocationOf(arm, kb, EndOf(arm, kb))
    BY <1>3 DEF KilledTold
  <2>2. (kb \in 1..Logged(arm) /\ killed = InvocationOf(arm, kb, EndOf(arm, kb)))'
    BY <1>1, <2>1 DEF InvocationOf, EndOf, Logged
  <2>3. killed.first = EndOf(arm, kb - 1) + 1 /\ killed.last = EndOf(arm, kb)
    BY <2>1 DEF InvocationOf
  <2>4. ASSUME NEW r \in killed.first..killed.last
        PROVE  /\ copies'[arm][r] >= 1
               /\ Handed(kb)' /\ arm = "naive" => copies'[arm][r] >= 2
    <3>1. r \in Record
      <4>1. arm \in Arm /\ Logged(arm) \in Nat
        BY DEF SinkInv, SinkTypes, Logged
      <4>2. EndOf(arm, kb - 1) \in Nat /\ EndOf(arm, kb) <= Offsets
        <5>1. kb - 1 \in 0..Logged(arm)
          BY <2>1, <4>1
        <5> QED
          BY <2>1, <4>1, <5>1, LogFacts
      <4>3. EndOf(arm, kb) \in Nat
        BY <2>1, <4>1, LogFacts
      <4> QED
        BY <2>3, <4>2, <4>3, SizeAssumption DEF Record
    <3>2. /\ copies[arm][r] >= 1
          /\ Handed(kb) /\ arm = "naive" => copies[arm][r] >= 2
      BY <1>3 DEF KilledTold
    <3>3. /\ copies[arm][r] \in Nat /\ copies'[arm][r] \in Nat
          /\ copies'[arm][r] >= copies[arm][r]
          /\ arm = "naive" /\ r \in Batch(arm) => copies'[arm][r] = copies[arm][r] + 1
      BY <3>1, WriteCopies
    <3>4. ASSUME Handed(kb)', arm = "naive" PROVE copies'[arm][r] >= 2
      <4>1. PICK i \in DOMAIN ledger : ledger[i].batch = kb
        BY <1>1, <3>4 DEF Handed
      <4>2. CASE i = Len(ledger)
        <5>1. kb = Logged(arm)
          BY <1>1, <4>1, <4>2 DEF LastHanded, InvocationOf
        <5>2. r \in Batch(arm)
          BY <2>3, <5>1 DEF Batch
        <5> QED
          BY <3>2, <3>3, <3>4, <5>2
      <4>3. CASE i # Len(ledger)
        <5>1. Handed(kb)
          BY <4>1, <4>3 DEF Handed
        <5> QED
          BY <3>2, <3>3, <3>4, <5>1
      <4> QED
        BY <4>2, <4>3
    <3> QED
      BY <3>2, <3>3, <3>4
  <2> QED
    BY <1>1, <2>2, <2>4 DEF KilledTold
<1>4. run # "replay" => KilledTold'
  BY <1>1 DEF KilledTold
<1> QED
  BY <1>2, <1>3, <1>4

\* The restart takes the fault's own record of itself, all of which has landed.
LEMMA RestartEvidence ==
  ASSUME EvidenceInv, Restart
  PROVE  KilledTold'
<1> USE DEF EvidenceInv
<1>1. /\ at = "struck" /\ run # "idle" /\ ledger' = <<>> /\ killed' = ledger[Len(ledger)]
      /\ UNCHANGED <<ends, copies, arm>>
  BY DEF Restart, StartRun, tables
<1> PICK b \in Arm : b = arm
  BY DEF SinkInv, SinkTypes
<1>2. Pending(b) /\ Landed(b, Logged(b))
  BY <1>1 DEF SinkInv, LogsAndTablesAgree
<1> PICK k \in Nat \ {0} : k = Logged(b)
  BY <1>2, LogFacts DEF Pending
<1>3. killed' = [batch |-> k, first |-> EndOf(b, k - 1) + 1, last |-> EndOf(b, k)]
  BY <1>1 DEF LastHanded, InvocationOf
<1>4. \A r \in EndOf(b, k - 1) + 1..EndOf(b, k) : copies[b][r] >= 1
  <2> TAKE r \in EndOf(b, k - 1) + 1..EndOf(b, k)
  <2>1. EndOf(b, k - 1) \in Nat /\ EndOf(b, k) \in Nat /\ EndOf(b, k) <= Offsets
    BY LogFacts
  <2>2. r \in Record /\ r <= EndOf(b, k)
    BY <2>1, SizeAssumption DEF Record
  <2>3. copies[b][r] > 0 /\ copies[b][r] \in Nat
    BY <1>2, <2>2 DEF Landed, SinkInv, SinkTypes
  <2> QED
    BY <2>3
<1>5. ~ Handed(killed.batch)'
  BY <1>1 DEF Handed
<1>6. Logged(b)' = k /\ EndOf(b, k)' = EndOf(b, k) /\ EndOf(b, k - 1)' = EndOf(b, k - 1)
  BY <1>1 DEF Logged, EndOf
<1> QED
  BY <1>1, <1>3, <1>4, <1>5, <1>6 DEF KilledTold, InvocationOf

\* The evidence a completed proof returns.
LEMMA ReturnTells ==
  ASSUME EvidenceInv, ReplayEnds, ReturnEvidence, ReplayedTheKilledBatch
  PROVE  TwoArmsTellApart'
<1> USE DEF EvidenceInv
<1> PICK b \in Arm : b = arm
  BY DEF SinkInv, SinkTypes
<1>1. run = "replay" /\ at = "between"
  BY DEF ReplayEnds
<1> DEFINE fresh == [duplicates |-> DuplicateRows(b), killed |-> killed]
<1>2. evidence' = [evidence EXCEPT ![b] = fresh]
  BY DEF ReturnEvidence
<1>3. copies[b] \in [Record -> Nat]
  BY DEF SinkInv, SinkTypes
<1>4. fresh.duplicates = DuplicateRows(b) /\ fresh.killed = killed
  OBVIOUS
<1> HIDE DEF fresh
<1>5. evidence'[b] = fresh /\ \A a \in Arm \ {b} : evidence'[a] = evidence[a]
  BY <1>2 DEF SinkInv
<1>6. CASE b = "guarded"
  <2>1. \A r \in Record : copies[b][r] <= 1
    BY <1>3, <1>6 DEF SinkInv, LogsAndTablesAgree
  <2>2. DuplicateRows(b) = 0
    BY <1>3, <2>1, Duplicates
  <2> QED
    BY <1>4, <1>5, <1>6, <2>2 DEF TwoArmsTellApart
<1>7. CASE b = "naive"
  <2> PICK k \in 1..Logged(b) : k = killed.batch
    BY <1>1 DEF KilledTold
  <2>1. killed = [batch |-> k, first |-> EndOf(b, k - 1) + 1, last |-> EndOf(b, k)]
    BY <1>1 DEF KilledTold, InvocationOf
  <2> DEFINE m == EndOf(b, k - 1) + 1
             n == EndOf(b, k)
  <2>2. /\ EndOf(b, k - 1) \in Nat /\ n \in Nat
        /\ EndOf(b, k - 1) < n /\ n <= Offsets
    <3>1. Logged(b) \in Nat
      BY LogFacts
    <3>2. k - 1 \in 0..Logged(b) /\ k \in 0..Logged(b)
      BY <3>1
    <3> QED
      BY <3>2, LogFacts
  <2>3. m \in Nat /\ m <= n /\ m..n \subseteq Record
    BY <2>2, SizeAssumption DEF Record
  <2>4. Handed(killed.batch)
    BY <1>1 DEF Handed, ReplayedTheKilledBatch
  <2>5. \A r \in m..n : copies[b][r] >= 2
    BY <1>1, <1>7, <2>1, <2>4 DEF KilledTold
  <2>6. \A r \in m..n : copies[b][r] > 1
    <3> TAKE r \in m..n
    <3>1. copies[b][r] \in Nat
      BY <1>3, <2>3
    <3> QED
      BY <2>5, <3>1
  <2>7. RowsOf(killed) = n + 1 - m
    BY <2>1 DEF RowsOf
  <2>10. n \in Nat
    BY <2>2
  <2> HIDE DEF m, n
  <2>8. DuplicateRows(b) >= n + 1 - m
    BY <1>3, <2>3, <2>6, <2>10, Duplicates
  <2>9. n + 1 - m > 0
    BY <2>3, <2>10
  <2> QED
    BY <1>4, <1>5, <1>7, <2>7, <2>8, <2>9 DEF TwoArmsTellApart
<1> QED
  BY <1>6, <1>7 DEF Arm

LEMMA StepEvidence ==
  ASSUME EvidenceInv, [Next]_vars
  PROVE  EvidenceInv'
<1>1. SinkInv'
  BY StepTypes, StepAgrees DEF SinkInv, EvidenceInv
<1> DEFINE Rest == /\ LastHanded /\ KilledTold
                   /\ (run = "idle" => at = "between") /\ (at = "struck" => run = "faulted")
<1>2. TwoArmsTellApart'
  <2>1. CASE evidence' = evidence
    BY <2>1 DEF TwoArmsTellApart, EvidenceInv
  <2>2. CASE evidence' # evidence
    <3>1. ReplayEnds /\ ReturnEvidence /\ ReplayedTheKilledBatch
      BY <2>2 DEF Next, vars, Produce, ProveArm, RecordBatch, WriteBatch, Strike, Commit,
             Restart, RefuseAShortRun, RefuseAFaultThatNeverStruck, ReplayEnds, Fails
    <3> QED
      BY <3>1, ReturnTells
  <2> QED
    BY <2>1, <2>2
<1>3. CASE RecordBatch
  <2>1. Rest'
    BY <1>3, RecordEvidence DEF RecordBatch, StepAfter
  <2> QED
    BY <1>1, <1>2, <2>1 DEF EvidenceInv
<1>4. CASE WriteBatch
  <2>1. Rest'
    BY <1>4, WriteEvidence DEF WriteBatch, StepAfter
  <2> QED
    BY <1>1, <1>2, <2>1 DEF EvidenceInv
<1>5. CASE Strike \/ Commit \/ Produce \/ UNCHANGED vars
  <2>2. UNCHANGED <<ends, copies, arm, run, ledger, killed>>
    BY <1>5 DEF Strike, Commit, Produce, vars, call, tables
  <2>3. at' = "write" <=> at = "write"
    BY <1>5 DEF Strike, Commit, Produce, vars, call, StepAfter
  <2>4. KilledTold'
    BY <2>2, <2>3, HandedStays
  <2>5. LastHanded'
    BY <1>5, <2>2 DEF EvidenceInv, LastHanded, Strike, Commit, Produce, vars, call,
                      StepAfter, InvocationOf, EndOf, Logged
  <2>6. (run = "idle" => at = "between")' /\ (at = "struck" => run = "faulted")'
    BY <1>5, <2>2 DEF EvidenceInv, Strike, Commit, Produce, vars, call, StepAfter, Armed
  <2> QED
    BY <1>1, <1>2, <2>4, <2>5, <2>6 DEF EvidenceInv
<1>6. CASE Restart
  <2>1. run' = "replay" /\ at' = "between"
    BY <1>6 DEF Restart, StartRun
  <2>2. KilledTold'
    BY <1>6, RestartEvidence
  <2> QED
    BY <1>1, <1>2, <2>1, <2>2 DEF EvidenceInv, LastHanded
<1>7. CASE \/ \E a \in Arm : ProveArm(a)
           \/ RefuseAShortRun \/ RefuseAFaultThatNeverStruck \/ ReplayEnds \/ Fails
  <2>1. run' # "replay" /\ at' = "between"
    BY <1>7 DEF ProveArm, StartRun, RefuseAShortRun, RefuseAFaultThatNeverStruck, ReplayEnds,
                ReturnEvidence, Fails, Raise
  <2> QED
    BY <1>1, <1>2, <2>1 DEF EvidenceInv, LastHanded, KilledTold
<1> QED
  BY <1>3, <1>4, <1>5, <1>6, <1>7 DEF Next

\* The negative control works, whatever the topic, the rate limit and the fault:
\* evidence of the naive arm shows at least the killed batch twice, evidence of
\* the guarded arm nothing twice.
THEOREM ArmsTellApart == Spec => []TwoArmsTellApart
<1>1. EvidenceInv => TwoArmsTellApart
  BY DEF EvidenceInv
<1> QED
  BY <1>1, InitEvidence, StepEvidence, PTL DEF Spec

-----------------------------------------------------------------------------
(* The producer: what has been delivered, what is queued, what is reported. *)

\* Nothing has been given up so far.
Intact == failures = 0 /\ \A i \in DOMAIN reports : reports[i] = TRUE

\* What has been offered of the corpus is on the topic, after what was there
\* before, or in the queue behind it; each delivery is counted or reported.
OnItsWay ==
  /\ Len(feed) + Len(queue) = base + offered
  /\ \A i \in 1..offered :
       IF base + i <= Len(feed) THEN feed[base + i] = corpus[i]
                                ELSE queue[base + i - Len(feed)] = corpus[i]
  /\ Len(feed) = base + delivered + Len(reports)

\* The whole corpus follows what was there before.
OnTheTopic ==
  /\ published = Len(corpus) /\ base + published <= Len(feed)
  /\ \A i \in 1..published : feed[base + i] = corpus[i]

PublishTypes ==
  /\ corpus \in Corpora /\ corpus \in Seq(Records)
  /\ feed \in Seq(Records) /\ queue \in Seq(Records) /\ reports \in Seq(BOOLEAN)
  /\ offered \in Nat /\ delivered \in Nat /\ failures \in Nat
  /\ base \in Nat /\ published \in Nat
  /\ publishing \in {"idle", "offer", "flush"}

PublishInv ==
  /\ PublishTypes
  /\ stage # "idle" => publishing = "idle" /\ published > 0
  /\ publishing = "idle" => queue = <<>> /\ reports = <<>>
  /\ publishing # "idle" => published = 0
  /\ base <= Len(feed) /\ offered <= Len(corpus)
  /\ publishing = "flush" => offered = Len(corpus)
  /\ publishing # "idle" /\ Intact => OnItsWay
  /\ published > 0 => OnTheTopic

LEMMA InitPublish == ProducerInit /\ EventInit => PublishInv
BY ProducerAssumption DEF ProducerInit, EventInit, PublishInv, PublishTypes, Intact, OnItsWay

\* What reaches the topic afterwards leaves what was published where it is.
LEMMA TopicGrows ==
  ASSUME PublishTypes, OnTheTopic, UNCHANGED <<corpus, base, published>>,
         NEW more \in Seq(Records), feed' = feed \o more
  PROVE  OnTheTopic'
<1> USE DEF PublishTypes, OnTheTopic
<1>1. Len(feed') = Len(feed) + Len(more) /\ Len(feed) \in Nat /\ Len(more) \in Nat
  OBVIOUS
<1>2. ASSUME NEW i \in 1..published PROVE feed'[base + i] = corpus[i]
  <2>1. base + i \in 1..Len(feed) /\ feed[base + i] = corpus[i]
    BY <1>1
  <2> QED
    BY <2>1
<1> QED
  BY <1>1, <1>2

\* One more report, and one report less.
LEMMA MoreReports ==
  ASSUME NEW S, NEW s \in Seq(S), NEW e \in S
  PROVE  LET t == Append(s, e)
         IN  /\ t \in Seq(S) /\ Len(t) = Len(s) + 1 /\ Len(s) \in Nat
             /\ \A i \in DOMAIN s : i \in DOMAIN t /\ t[i] = s[i]
             /\ Len(s) + 1 \in DOMAIN t /\ t[Len(s) + 1] = e
OBVIOUS

LEMMA FewerReports ==
  ASSUME NEW S, NEW s \in Seq(S), s # <<>>
  PROVE  LET t == Tail(s)
         IN  /\ t \in Seq(S) /\ Len(t) = Len(s) - 1 /\ Len(s) \in Nat
             /\ \A i \in DOMAIN s : i # 1 => i - 1 \in DOMAIN t /\ t[i - 1] = s[i]
             /\ Head(s) = s[1] /\ Head(s) \in S
OBVIOUS

LEMMA DeliverPublish == ASSUME PublishInv, Deliver, UNCHANGED stage PROVE PublishInv'
<1> USE DEF PublishInv, PublishTypes
<1>1. /\ publishing # "idle" /\ published = 0 /\ queue # <<>>
      /\ feed' = Append(feed, Head(queue)) /\ queue' = Tail(queue)
      /\ reports' = Append(reports, TRUE)
      /\ UNCHANGED <<corpus, offered, delivered, failures, publishing, base, published>>
  BY DEF Deliver
<1>2. /\ Len(feed) \in Nat /\ Len(queue) \in Nat \ {0} /\ Len(reports) \in Nat
      /\ Len(feed') = Len(feed) + 1 /\ Len(queue') = Len(queue) - 1
      /\ Len(reports') = Len(reports) + 1
  BY <1>1
<1>3. PublishTypes'
  BY <1>1
<1>4. Intact' => Intact
  <2>1. \A i \in DOMAIN reports : i \in DOMAIN reports' /\ reports'[i] = reports[i]
    <3> DEFINE e == TRUE
               S == BOOLEAN
    <3>1. reports \in Seq(S) /\ e \in S /\ reports' = Append(reports, e)
      BY <1>1
    <3> HIDE DEF PublishInv, PublishTypes, e, S
    <3> QED
      BY <3>1, MoreReports
  <2>2. failures' = failures
    BY <1>1
  <2> QED
    BY <2>1, <2>2, Zenon DEF Intact
<1>p. /\ base \in Nat /\ offered \in Nat /\ delivered \in Nat
      /\ feed \in Seq(Records) /\ queue \in Seq(Records)
      /\ publishing # "idle" /\ Intact => OnItsWay
      /\ base <= Len(feed) /\ offered <= Len(corpus)
      /\ publishing = "flush" => offered = Len(corpus)
      /\ stage # "idle" => publishing = "idle" /\ published > 0
  OBVIOUS
<1> HIDE DEF PublishInv, PublishTypes
<1>5. ASSUME OnItsWay PROVE OnItsWay'
  <2>1. /\ Len(feed) + Len(queue) = base + offered
        /\ Len(feed) = base + delivered + Len(reports)
    BY <1>5 DEF OnItsWay
  <2>2. ASSUME NEW i \in 1..offered
        PROVE  IF base + i <= Len(feed') THEN feed'[base + i] = corpus[i]
                                         ELSE queue'[base + i - Len(feed')] = corpus[i]
    <3>1. IF base + i <= Len(feed) THEN feed[base + i] = corpus[i]
                                   ELSE queue[base + i - Len(feed)] = corpus[i]
      BY <1>5 DEF OnItsWay
    <3>2. CASE base + i <= Len(feed)
      <4>1. base + i \in 1..Len(feed) /\ feed[base + i] = corpus[i]
        BY <1>p, <3>1, <3>2
      <4>2. feed'[base + i] = feed[base + i]
        BY <1>1, <1>p, <4>1
      <4> QED
        BY <1>1, <1>2, <1>p, <3>2, <4>1, <4>2
    <3>3. CASE base + i = Len(feed) + 1
      <4>1. base + i - Len(feed) = 1 /\ queue[1] = corpus[i]
        BY <1>2, <1>p, <3>1, <3>3
      <4>2. feed'[Len(feed) + 1] = queue[1]
        BY <1>1, <1>2, <1>p
      <4> QED
        BY <1>2, <3>3, <4>1, <4>2
    <3>4. CASE base + i > Len(feed) + 1
      <4> DEFINE j == base + i - Len(feed)
      <4>1. j \in 2..Len(queue) /\ base + i - Len(feed') = j - 1
        BY <1>2, <1>p, <2>1, <3>4
      <4>2. queue[j] = corpus[i]
        BY <1>2, <1>p, <3>1, <3>4
      <4> HIDE DEF j
      <4>3. queue'[j - 1] = queue[j]
        BY <1>1, <1>2, <1>p, <4>1
      <4>4. ~ (base + i <= Len(feed'))
        BY <1>2, <1>p, <3>4
      <4> QED
        BY <4>1, <4>2, <4>3, <4>4
    <3> QED
      BY <1>2, <1>p, <3>2, <3>3, <3>4
  <2>3. /\ Len(feed') + Len(queue') = base + offered
        /\ Len(feed') = base + delivered + Len(reports')
    BY <1>2, <1>p, <2>1
  <2> QED
    BY <1>1, <2>2, <2>3 DEF OnItsWay
<1>6. base <= Len(feed')
  BY <1>2, <1>p
<1>7. publishing' # "idle" /\ Intact' => OnItsWay'
  BY <1>1, <1>4, <1>5, <1>p
<1>8. published' = 0 /\ ~ (published' > 0)
  BY <1>1
<1>9. /\ stage' # "idle" => publishing' = "idle" /\ published' > 0
      /\ publishing' # "idle"
      /\ offered' <= Len(corpus')
      /\ publishing' = "flush" => offered' = Len(corpus')
  BY <1>1, <1>p
<1> QED
  BY <1>1, <1>3, <1>6, <1>7, <1>8, <1>9 DEF PublishInv

LEMMA GiveUpPublish == ASSUME PublishInv, GiveUp, UNCHANGED stage PROVE PublishInv'
<1> USE DEF PublishInv, PublishTypes
<1>1. /\ publishing # "idle" /\ published = 0 /\ queue # <<>>
      /\ queue' = Tail(queue) /\ reports' = Append(reports, FALSE)
      /\ UNCHANGED <<corpus, feed, offered, delivered, failures, publishing, base, published>>
  BY DEF GiveUp
<1>2. PublishTypes'
  BY <1>1
<1>3. ~ Intact'
  <2>1. Len(reports) + 1 \in DOMAIN reports' /\ reports'[Len(reports) + 1] = FALSE
    <3>1. reports \in Seq(BOOLEAN) /\ FALSE \in BOOLEAN /\ reports' = Append(reports, FALSE)
      BY <1>1
    <3> HIDE DEF PublishInv, PublishTypes
    <3> QED
      BY <3>1, MoreReports
  <2> QED
    BY <2>1, Zenon DEF Intact
<1>4. /\ stage' # "idle" => publishing' = "idle" /\ published' > 0
      /\ publishing' # "idle" /\ ~ (published' > 0) /\ published' = 0
      /\ base' <= Len(feed') /\ offered' <= Len(corpus')
      /\ publishing' = "flush" => offered' = Len(corpus')
  BY <1>1
<1> HIDE DEF PublishTypes
<1> QED
  BY <1>2, <1>3, <1>4

LEMMA ServePublish == ASSUME PublishInv, ServeReport, UNCHANGED stage PROVE PublishInv'
<1> USE DEF PublishInv, PublishTypes
<1>1. /\ publishing # "idle" /\ published = 0 /\ reports # <<>>
      /\ reports' = Tail(reports)
      /\ UNCHANGED <<corpus, feed, queue, offered, publishing, base, published>>
  BY DEF ServeReport
<1>2. \/ Head(reports) = TRUE /\ delivered' = delivered + 1 /\ failures' = failures
      \/ Head(reports) = FALSE /\ failures' = failures + 1 /\ delivered' = delivered
  <2>1. Head(reports) \in BOOLEAN
    BY <1>1
  <2> QED
    BY <2>1 DEF ServeReport
<1>3. PublishTypes'
  <2>1. reports' \in Seq(BOOLEAN)
    BY <1>1, FewerReports, Zenon
  <2>2. delivered' \in Nat /\ failures' \in Nat
    <3>1. delivered' \in {delivered, delivered + 1} /\ failures' \in {failures, failures + 1}
      BY <1>2, Zenon
    <3>2. delivered \in Nat /\ failures \in Nat
      OBVIOUS
    <3> QED
      BY <3>1, <3>2
  <2> QED
    BY <1>1, <2>1, <2>2
<1>4. ASSUME Intact' PROVE Intact /\ delivered' = delivered + 1
  <2>1. failures' = 0
    BY <1>4 DEF Intact
  <2>0. failures \in Nat
    OBVIOUS
  <2>2. Head(reports) = TRUE /\ delivered' = delivered + 1 /\ failures = 0
    <3>1. failures' # failures + 1
      BY <2>0, <2>1
    <3> QED
      BY <1>2, <2>1, <3>1, Zenon
  <2>3. ASSUME NEW i \in DOMAIN reports PROVE reports[i] = TRUE
    <3>1. CASE i = 1
      <4>1. Head(reports) = reports[1]
        BY <1>1, FewerReports, Zenon
      <4> QED
        BY <2>2, <3>1, <4>1, Zenon
    <3>2. CASE i # 1
      <4>1. i - 1 \in DOMAIN reports' /\ reports'[i - 1] = reports[i]
        BY <1>1, <3>2, FewerReports, Zenon
      <4> QED
        BY <1>4, <4>1, Zenon DEF Intact
    <3> QED
      BY <3>1, <3>2
  <2> QED
    BY <2>2, <2>3, Zenon DEF Intact
<1>5. Len(reports') = Len(reports) - 1 /\ Len(reports) \in Nat
  BY <1>1
<1>6. ASSUME Intact' PROVE OnItsWay'
  <2>1. OnItsWay
    BY <1>1, <1>4, <1>6
  <2>2. Len(feed) = base + delivered + Len(reports) /\ Len(feed) \in Nat
    BY <2>1 DEF OnItsWay
  <2>3. Len(feed') = base' + delivered' + Len(reports')
    BY <1>1, <1>4, <1>5, <1>6, <2>2
  <2> QED
    BY <1>1, <2>1, <2>3 DEF OnItsWay
<1> QED
  BY <1>1, <1>3, <1>6

LEMMA OfferPublish == ASSUME PublishInv, Offer, UNCHANGED stage PROVE PublishInv'
<1> USE DEF PublishInv, PublishTypes
<1>1. /\ publishing = "offer" /\ published = 0 /\ offered < Len(corpus)
      /\ offered' = offered + 1 /\ queue' = Append(queue, corpus[offered + 1])
      /\ UNCHANGED <<corpus, feed, reports, delivered, failures, publishing, base, published>>
  BY DEF Offer
<1>2. corpus[offered + 1] \in Records
  BY <1>1
<1>3. PublishTypes'
  BY <1>1, <1>2
<1>4. /\ Len(feed) \in Nat /\ Len(queue) \in Nat /\ Len(queue') = Len(queue) + 1
  BY <1>1
<1>5. Intact' <=> Intact
  BY <1>1 DEF Intact
<1>6. ASSUME OnItsWay PROVE OnItsWay'
  <2>1. Len(feed) + Len(queue) = base + offered /\ Len(feed) = base + delivered + Len(reports)
    BY <1>6 DEF OnItsWay
  <2>2. ASSUME NEW i \in 1..offered + 1
        PROVE  IF base + i <= Len(feed) THEN feed[base + i] = corpus[i]
                                        ELSE queue'[base + i - Len(feed)] = corpus[i]
    <3>1. CASE i = offered + 1
      <4>1. base + i - Len(feed) = Len(queue) + 1 /\ ~ (base + i <= Len(feed))
        <5>1. base \in Nat /\ offered \in Nat
          OBVIOUS
        <5> HIDE DEF PublishInv, PublishTypes
        <5> QED
          BY <1>4, <2>1, <3>1, <5>1
      <4>2. queue'[Len(queue) + 1] = corpus[offered + 1]
        BY <1>1, <1>4
      <4> QED
        BY <3>1, <4>1, <4>2
    <3>2. CASE i # offered + 1
      <4>1. i \in 1..offered
        BY <3>2
      <4>2. IF base + i <= Len(feed) THEN feed[base + i] = corpus[i]
                                     ELSE queue[base + i - Len(feed)] = corpus[i]
        BY <1>6, <4>1 DEF OnItsWay
      <4>3. ASSUME ~ (base + i <= Len(feed))
            PROVE  queue'[base + i - Len(feed)] = queue[base + i - Len(feed)]
        <5>1. base + i - Len(feed) \in 1..Len(queue)
          BY <1>4, <2>1, <4>1, <4>3
        <5> HIDE DEF PublishInv
        <5> QED
          BY <1>1, <1>4, <5>1
      <4> QED
        BY <4>2, <4>3
    <3> QED
      BY <3>1, <3>2
  <2>3. base \in Nat /\ offered \in Nat
    OBVIOUS
  <2> HIDE DEF PublishInv, PublishTypes
  <2>4. Len(feed) + Len(queue') = base + (offered + 1)
    BY <1>4, <2>1, <2>3
  <2> QED
    BY <1>1, <2>1, <2>2, <2>4 DEF OnItsWay
<1> QED
  BY <1>1, <1>3, <1>5, <1>6

\* The client goes: the topic may have got some of what was queued.
LEMMA CloseGrows ==
  ASSUME PublishTypes, CloseClient
  PROVE  \E more \in Seq(Records) : /\ feed' = feed \o more
                                    /\ queue = <<>> => more = <<>>
<1> PICK n \in 0..Len(queue) : feed' = feed \o SubSeq(queue, 1, n)
  BY DEF CloseClient
<1>1. SubSeq(queue, 1, n) \in Seq(Records)
  BY DEF PublishTypes
<1>2. queue = <<>> => SubSeq(queue, 1, n) = <<>>
  BY DEF PublishTypes
<1> QED
  BY <1>1, <1>2

LEMMA PollPublish == ASSUME PublishInv, Poll, UNCHANGED stage PROVE PublishInv'
<1> USE DEF PublishInv
<1>1. /\ publishing = "offer" /\ published = 0
      /\ UNCHANGED <<corpus, offered, delivered, failures, base, published>>
  BY DEF Poll
<1>2. CASE UNCHANGED <<publishing, feed, queue, reports>>
  BY <1>1, <1>2 DEF PublishTypes, Intact, OnItsWay
<1>3. CASE CloseClient
  <2>1. publishing' = "idle" /\ queue' = <<>> /\ reports' = <<>>
    BY <1>3 DEF CloseClient
  <2> PICK more \in Seq(Records) : feed' = feed \o more
    BY <1>3, CloseGrows
  <2>2. feed' \in Seq(Records) /\ base <= Len(feed')
    BY DEF PublishTypes
  <2> QED
    BY <1>1, <2>1, <2>2 DEF PublishTypes
<1> QED
  BY <1>2, <1>3 DEF Poll

LEMMA FlushReturnsPublish == ASSUME PublishInv, FlushReturns, UNCHANGED stage PROVE PublishInv'
<1> USE DEF PublishInv
<1>1. /\ publishing = "flush" /\ offered = Len(corpus) /\ CloseClient
      /\ UNCHANGED <<corpus, offered, delivered, failures, base>>
      /\ published' = IF Complete(Len(queue) + Len(reports)) THEN delivered ELSE 0
  BY DEF FlushReturns
<1>2. publishing' = "idle" /\ queue' = <<>> /\ reports' = <<>>
  BY <1>1 DEF CloseClient
<1> PICK more \in Seq(Records) : feed' = feed \o more /\ (queue = <<>> => more = <<>>)
  BY <1>1, CloseGrows
<1>3. feed' \in Seq(Records) /\ base <= Len(feed')
  BY DEF PublishTypes
<1>4. published' \in Nat
  BY <1>1 DEF PublishTypes
<1>5. ASSUME published' > 0 PROVE OnTheTopic'
  <2>1. Complete(Len(queue) + Len(reports)) /\ published' = delivered
    BY <1>1, <1>5
  <2>2. queue = <<>> /\ reports = <<>> /\ failures = 0 /\ delivered = offered
    BY <2>1 DEF Complete, PublishTypes
  <2>3. feed' = feed
    BY <2>2 DEF PublishTypes
  <2>4. OnItsWay
    BY <1>1, <2>2 DEF Intact
  <2>5. Len(feed) = base + offered /\ \A i \in 1..offered : feed[base + i] = corpus[i]
    <3>1. Len(queue) = 0 /\ Len(feed) \in Nat /\ base \in Nat /\ offered \in Nat
      BY <2>2 DEF PublishTypes
    <3>2. Len(feed) = base + offered
      BY <2>4, <3>1 DEF OnItsWay
    <3>3. \A i \in 1..offered : base + i <= Len(feed)
      BY <3>1, <3>2
    <3> QED
      BY <2>4, <3>2, <3>3 DEF OnItsWay
  <2>6. Len(feed) \in Nat /\ base \in Nat /\ offered \in Nat
    BY DEF PublishTypes
  <2> QED
    BY <1>1, <2>1, <2>2, <2>3, <2>5, <2>6 DEF OnTheTopic
<1> QED
  BY <1>1, <1>2, <1>3, <1>4, <1>5 DEF PublishTypes

LEMMA StepPublish == PublishInv /\ [EventNext]_<<producerVars, eventVars>> => PublishInv'
<1> SUFFICES ASSUME PublishInv, [EventNext]_<<producerVars, eventVars>> PROVE PublishInv'
  OBVIOUS
<1>1. CASE stage = "idle" /\ ProducerNext /\ UNCHANGED eventVars
  <2>0. UNCHANGED stage
    BY <1>1 DEF eventVars
  <2>1. CASE Deliver
    BY <2>0, <2>1, DeliverPublish
  <2>2. CASE GiveUp
    BY <2>0, <2>2, GiveUpPublish
  <2>3. CASE ServeReport
    BY <2>0, <2>3, ServePublish
  <2>4. CASE Publish
    <3>1. Len(feed) \in Nat
      BY DEF PublishInv, PublishTypes
    <3> QED
      BY <1>1, <2>0, <2>4, <3>1
         DEF Publish, PublishInv, PublishTypes, Intact, OnItsWay
  <2>5. CASE Offer
    BY <2>0, <2>5, OfferPublish
  <2>6. CASE Poll
    BY <2>0, <2>6, PollPublish
  <2>7. CASE Flush
    BY <1>1, <2>0, <2>7 DEF Flush, PublishInv, PublishTypes, Intact, OnItsWay
  <2>8. CASE FlushReturns
    BY <2>0, <2>8, FlushReturnsPublish
  <2> QED
    BY <1>1, <2>1, <2>2, <2>3, <2>4, <2>5, <2>6, <2>7, <2>8 DEF ProducerNext
<1>2. CASE Intrude
  <2>1. /\ publishing = "idle" /\ published > 0 /\ Len(feed) = Len(corpus)
        /\ feed' = Append(feed, Head(corpus))
        /\ UNCHANGED <<corpus, queue, reports, offered, delivered, failures, publishing,
                       base, published, stage>>
    BY <1>2 DEF Intrude, PublishInv, Arms, eventVars
  <2>2. published > 0 => OnTheTopic'
    <3> SUFFICES ASSUME published > 0 PROVE OnTheTopic'
      OBVIOUS
    <3>1. OnTheTopic /\ PublishTypes
      BY DEF PublishInv
    <3>2. Len(corpus) > 0
      BY <3>1 DEF OnTheTopic
    <3>3. Head(corpus) \in Records
      BY <3>1, <3>2 DEF PublishTypes
    <3>4. <<Head(corpus)>> \in Seq(Records) /\ feed' = feed \o <<Head(corpus)>>
      BY <2>1, <3>1, <3>3 DEF PublishTypes
    <3> QED
      BY <2>1, <3>1, <3>4, TopicGrows
  <2>3. feed' \in Seq(Records) /\ base <= Len(feed')
    <3>1. feed \in Seq(Records) /\ corpus \in Seq(Records) /\ base \in Nat /\ base <= Len(feed)
      BY DEF PublishInv, PublishTypes
    <3>2. Head(corpus) \in Records
      BY <2>1, <3>1 DEF PublishInv, OnTheTopic
    <3> QED
      BY <2>1, <3>1, <3>2
  <2> QED
    BY <2>1, <2>2, <2>3 DEF PublishInv, PublishTypes
<1>3. CASE ProveBoundary
  BY <1>3 DEF ProveBoundary, producerVars, PublishInv, PublishTypes, Intact, OnItsWay, OnTheTopic
<1>4. CASE Judge \/ ArmFails \/ \E a \in Arms : RunBatch(a) \/ EndArm(a)
  <2>1. UNCHANGED producerVars /\ publishing = "idle" /\ published > 0
    BY <1>4 DEF Judge, ArmFails, RunBatch, EndArm, Arms, PublishInv
  <2> QED
    BY <2>1 DEF producerVars, PublishInv, PublishTypes, Intact, OnItsWay, OnTheTopic
<1>5. CASE UNCHANGED <<producerVars, eventVars>>
  BY <1>5 DEF producerVars, eventVars, PublishInv, PublishTypes, Intact, OnItsWay, OnTheTopic
<1> QED
  BY <1>1, <1>2, <1>3, <1>4, <1>5 DEF EventNext

\* What publish_records returns is on the topic, whole, once and in order, for
\* every corpus, size of the queue, number of polls and loss in any place, and
\* whatever earlier calls left there and other processes add to it.
THEOREM CountsWhatIsThere == EventSpec => []PublishedIsOnTheTopic
<1>1. PublishInv => PublishedIsOnTheTopic
  <2> SUFFICES ASSUME PublishInv, published > 0
               PROVE  published = Len(corpus) /\ SubSeq(feed, base + 1, base + published) = corpus
    BY DEF PublishedIsOnTheTopic
  <2>1. /\ published = Len(corpus) /\ base + published <= Len(feed)
        /\ \A i \in 1..published : feed[base + i] = corpus[i]
        /\ feed \in Seq(Records) /\ corpus \in Seq(Records) /\ base \in Nat /\ published \in Nat
    BY DEF PublishInv, PublishTypes, OnTheTopic
  <2> DEFINE part == SubSeq(feed, base + 1, base + published)
  <2>2. part \in Seq(Records) /\ Len(part) = published
    BY <2>1
  <2>3. \A i \in 1..published : part[i] = feed[base + i]
    BY <2>1
  <2> HIDE DEF part
  <2>4. part = corpus
    BY <2>1, <2>2, <2>3, SeqEqual
  <2> QED
    BY <2>1, <2>4 DEF part
<1> QED
  BY <1>1, InitPublish, StepPublish, PTL DEF EventSpec

-----------------------------------------------------------------------------
(* What the late-arrival proof measures.                                     *)

\* A finite set of integers has a greatest and a least element.
LEMMA Extremes ==
  ASSUME NEW S \in SUBSET Int, IsFiniteSet(S), S # {}
  PROVE  /\ Max(S) \in S /\ \A y \in S : y <= Max(S)
         /\ Min(S) \in S /\ \A y \in S : Min(S) <= y
<1> DEFINE Above(x) == {y \in S : y > x}
           Below(x) == {y \in S : y < x}
<1>1. ASSUME NEW x \in S
      PROVE  /\ IsFiniteSet(Above(x)) /\ Cardinality(Above(x)) \in Nat
             /\ IsFiniteSet(Below(x)) /\ Cardinality(Below(x)) \in Nat
  BY FS_Subset, FS_CardinalityType
<1>2. \E x \in S : \A y \in S : y <= x
  <2> DEFINE counts == {Cardinality(Above(x)) : x \in S}
  <2>1. counts \in SUBSET Nat /\ counts # {}
    BY <1>1
  <2>2. \E n \in counts : \A m \in counts : n <= m
    <3> HIDE DEF counts
    <3> QED
      BY <2>1, LeastOf
  <2>3. PICK x \in S : \A y \in S : Cardinality(Above(x)) <= Cardinality(Above(y))
    BY <2>2
  <2>4. ASSUME NEW y \in S, y > x PROVE FALSE
    <3> DEFINE A == Above(x)
               B == Above(y)
    <3>0. x \in Int /\ y \in Int /\ \A z \in S : z \in Int
      OBVIOUS
    <3>1. y \in A /\ y \notin B /\ \A z \in B : z \in A
      BY <2>4, <3>0
    <3>2. /\ IsFiniteSet(A) /\ Cardinality(A) \in Nat /\ Cardinality(B) \in Nat
          /\ Cardinality(A) <= Cardinality(B)
      BY <1>1, <2>3
    <3> HIDE DEF A, B
    <3>3. B \in SUBSET A
      BY <3>1
    <3>4. Cardinality(B) <= Cardinality(A) /\ (Cardinality(A) = Cardinality(B) => A = B)
      BY <3>2, <3>3, FS_Subset
    <3> QED
      BY <3>1, <3>2, <3>4
  <2> QED
    BY <2>4
<1>3. \E x \in S : \A y \in S : x <= y
  <2> DEFINE counts == {Cardinality(Below(x)) : x \in S}
  <2>1. counts \in SUBSET Nat /\ counts # {}
    BY <1>1
  <2>2. \E n \in counts : \A m \in counts : n <= m
    <3> HIDE DEF counts
    <3> QED
      BY <2>1, LeastOf
  <2>3. PICK x \in S : \A y \in S : Cardinality(Below(x)) <= Cardinality(Below(y))
    BY <2>2
  <2>4. ASSUME NEW y \in S, y < x PROVE FALSE
    <3> DEFINE A == Below(x)
               B == Below(y)
    <3>0. x \in Int /\ y \in Int /\ \A z \in S : z \in Int
      OBVIOUS
    <3>1. y \in A /\ y \notin B /\ \A z \in B : z \in A
      BY <2>4, <3>0
    <3>2. /\ IsFiniteSet(A) /\ Cardinality(A) \in Nat /\ Cardinality(B) \in Nat
          /\ Cardinality(A) <= Cardinality(B)
      BY <1>1, <2>3
    <3> HIDE DEF A, B
    <3>3. B \in SUBSET A
      BY <3>1
    <3>4. Cardinality(B) <= Cardinality(A) /\ (Cardinality(A) = Cardinality(B) => A = B)
      BY <3>2, <3>3, FS_Subset
    <3> QED
      BY <3>1, <3>2, <3>4
  <2> QED
    BY <2>4
<1>4. Max(S) \in S /\ \A y \in S : Max(S) >= y
  <2>1. \E x \in S : \A y \in S : x >= y
    BY <1>2
  <2> QED
    BY <2>1 DEF Max
<1>5. Min(S) \in S /\ \A y \in S : Min(S) <= y
  BY <1>3 DEF Min
<1> QED
  BY <1>4, <1>5

\* The place of p among the elements of S, and the element at a place.
Rank(S, p) == Cardinality({q \in S : q <= p})
AtRank(S, i) == CHOOSE p \in S : Cardinality({q \in S : q <= p}) = i

\* Every place of a finite set of naturals has one element.
LEMMA Ranked ==
  ASSUME NEW S \in SUBSET Nat, IsFiniteSet(S)
  PROVE  /\ Cardinality(S) \in Nat
         /\ \A i \in 1..Cardinality(S) : AtRank(S, i) \in S /\ Rank(S, AtRank(S, i)) = i
         /\ \A p \in S : Rank(S, p) \in 1..Cardinality(S) /\ AtRank(S, Rank(S, p)) = p
<1> DEFINE upTo(p) == {q \in S : q <= p}
           ranks == {Rank(S, p) : p \in S}
           n == Cardinality(S)
<1>1. n \in Nat /\ IsFiniteSet(1..n) /\ Cardinality(1..n) = n
  BY FS_CardinalityType, FS_Interval
<1>2. ASSUME NEW p \in S PROVE Rank(S, p) \in 1..n
  <2>1. upTo(p) \in SUBSET S /\ p \in upTo(p)
    OBVIOUS
  <2>2. IsFiniteSet(upTo(p)) /\ Cardinality(upTo(p)) <= n
    BY <2>1, FS_Subset
  <2>3. Cardinality(upTo(p)) \in Nat /\ Cardinality(upTo(p)) # 0
    BY <2>1, <2>2, FS_CardinalityType, FS_EmptySet
  <2> QED
    BY <1>1, <2>2, <2>3 DEF Rank
<1>3. ASSUME NEW p \in S, NEW q \in S, p < q PROVE Rank(S, p) # Rank(S, q)
  <2>0. p \in Nat /\ q \in Nat /\ \A r \in S : r \in Nat
    OBVIOUS
  <2>1. upTo(p) \in SUBSET upTo(q) /\ q \in upTo(q) /\ q \notin upTo(p)
    <3>1. \A r \in S : r <= p => r <= q
      BY <1>3, <2>0
    <3>2. q <= q /\ ~ q <= p
      BY <1>3, <2>0
    <3> QED
      BY <3>1, <3>2
  <2>2. IsFiniteSet(upTo(q))
    BY FS_Subset
  <2> HIDE DEF upTo
  <2>3. Cardinality(upTo(p)) # Cardinality(upTo(q))
    BY <2>1, <2>2, FS_Subset
  <2> QED
    BY <2>3 DEF Rank, upTo
<1>4. \A p, q \in S : Rank(S, p) = Rank(S, q) => p = q
  BY <1>3
<1>5. ranks = 1..n
  <2> DEFINE f == [p \in S |-> Rank(S, p)]
  <2>1. ranks \in SUBSET (1..n) /\ IsFiniteSet(ranks)
    BY <1>1, <1>2, FS_Subset
  <2>2. f \in Bijection(S, ranks)
    BY <1>4 DEF Bijection, Injection, Surjection, IsInjective
  <2>3. ExistsBijection(S, ranks)
    <3> HIDE DEF f
    <3> QED
      BY <2>2 DEF ExistsBijection
  <2>4. Cardinality(ranks) = n
    BY <2>3, FS_Bijection
  <2> QED
    BY <1>1, <2>1, <2>4, FS_Subset
<1>6. ASSUME NEW i \in 1..n PROVE AtRank(S, i) \in S /\ Rank(S, AtRank(S, i)) = i
  <2>1. \E p \in S : Cardinality({q \in S : q <= p}) = i
    BY <1>5 DEF Rank
  <2> QED
    BY <2>1 DEF AtRank, Rank
<1> QED
  BY <1>1, <1>2, <1>4, <1>6

-----------------------------------------------------------------------------
(* An arm, over the feed F it read in batches that end at C, with delay d,  *)
(* e telling if a row exactly on the watermark is behind it.                *)

EndIn(C) == IF C = <<>> THEN 0 ELSE C[Len(C)]

StartIn(C, b) == IF b = 1 THEN 0 ELSE C[b - 1]

NewestIn(F, C, n) == Max({Unreachable} \cup {F[p].at : p \in 1..C[n]})

BehindIn(F, C, d, e, ts, n) ==
  /\ n > 0 /\ NewestIn(F, C, n) # Unreachable
  /\ \/ ts < NewestIn(F, C, n) - d
     \/ e /\ ts = NewestIn(F, C, n) - d

\* What passed the filter of the batch it was read in.
PassingIn(F, C, d, e) ==
  {p \in 1..EndIn(C) : \E b \in DOMAIN C :
     StartIn(C, b) < p /\ p <= C[b] /\ ~ BehindIn(F, C, d, e, F[p].at, b - 2)}

\* A feed of payments, equal where their identities are.
Feed(F) ==
  /\ F \in Seq(Records)
  /\ \A p \in DOMAIN F : F[p].at \in Nat
  /\ \A p, q \in DOMAIN F : F[p].id = F[q].id => F[p] = F[q]

\* Batches of k records, the last one perhaps shorter.
Cut(F, C, k) ==
  /\ C \in Seq(Nat)
  /\ \A n \in DOMAIN C : /\ 0 < C[n] /\ C[n] <= n * k
                         /\ n < Len(C) => C[n] = n * k
  /\ \A n, m \in DOMAIN C : n < m => C[n] < C[m]
  /\ EndIn(C) <= Len(F)

\* The rows L landed and the identities S held: one row of each identity that
\* passed; and what is no longer held is behind the watermark of the next batch.
Lands(F, C, L, S, d, e) ==
  /\ L \in Seq(Records)
  /\ IdsOf(L) = {F[p].id : p \in PassingIn(F, C, d, e)}
  /\ \A i \in DOMAIN L : \E p \in 1..EndIn(C) : L[i] = F[p]
  /\ \A i, j \in DOMAIN L : L[i].id = L[j].id => i = j
  /\ \A r \in S : \E i \in DOMAIN L : r = L[i]
  /\ \A i \in DOMAIN L : L[i] \in S \/ BehindIn(F, C, d, e, L[i].at, Len(C) - 1)

\* The batches end within the feed, each after the one before.
LEMMA CutEnds ==
  ASSUME NEW F, Feed(F), NEW k, NEW C, Cut(F, C, k)
  PROVE  /\ Len(F) \in Nat /\ Len(C) \in Nat /\ DOMAIN C = 1..Len(C) /\ DOMAIN F = 1..Len(F)
         /\ EndIn(C) \in 0..Len(F) /\ (Len(C) = 0 <=> EndIn(C) = 0)
         /\ \A n \in 1..Len(C) : C[n] \in 1..EndIn(C) /\ StartIn(C, n) \in 0..EndIn(C)
         /\ \A n, m \in 1..Len(C) : n <= m => C[n] <= C[m]
<1>1. Len(F) \in Nat /\ Len(C) \in Nat /\ DOMAIN C = 1..Len(C) /\ DOMAIN F = 1..Len(F)
      /\ \A n \in 1..Len(C) : C[n] \in Nat
  BY DEF Feed, Cut
<1>2. Len(C) = 0 <=> C = <<>>
  BY DEF Cut
<1>3. \A n, m \in 1..Len(C) : n <= m => C[n] <= C[m]
  <2> SUFFICES ASSUME NEW n \in 1..Len(C), NEW m \in 1..Len(C), n <= m PROVE C[n] <= C[m]
    OBVIOUS
  <2>1. n < m => C[n] < C[m]
    BY <1>1 DEF Cut
  <2> QED
    BY <1>1, <2>1
<1>4. \A n \in 1..Len(C) : 0 < C[n]
  BY <1>1 DEF Cut
<1>5. Len(C) > 0 => EndIn(C) = C[Len(C)] /\ Len(C) \in 1..Len(C)
  BY <1>1, <1>2 DEF EndIn
<1>6. Len(C) = 0 => EndIn(C) = 0
  BY <1>2 DEF EndIn
<1>7. EndIn(C) <= Len(F)
  BY DEF Cut
<1>8. \A n \in 1..Len(C) : C[n] \in 1..EndIn(C)
  BY <1>1, <1>3, <1>4, <1>5
<1>9. \A n \in 1..Len(C) : StartIn(C, n) \in 0..EndIn(C)
  <2> SUFFICES ASSUME NEW n \in 1..Len(C) PROVE StartIn(C, n) \in 0..EndIn(C)
    OBVIOUS
  <2>1. CASE n = 1
    BY <1>1, <1>5, <1>8, <2>1 DEF StartIn
  <2>2. CASE n # 1
    <3>1. n - 1 \in 1..Len(C)
      BY <1>1, <2>2
    <3> QED
      BY <1>8, <2>2, <3>1 DEF StartIn
  <2> QED
    BY <2>1, <2>2
<1> QED
  BY <1>1, <1>3, <1>4, <1>5, <1>6, <1>7, <1>8, <1>9

\* The newest event of the first batches is the greatest of theirs.
LEMMA NewestIs ==
  ASSUME NEW F, Feed(F), NEW C, NEW n, C[n] \in 0..Len(F)
  PROVE  /\ NewestIn(F, C, n) \in Nat \cup {Unreachable}
         /\ \A p \in 1..C[n] : F[p].at <= NewestIn(F, C, n)
         /\ \/ NewestIn(F, C, n) = Unreachable
            \/ \E p \in 1..C[n] : NewestIn(F, C, n) = F[p].at
<1> DEFINE ats == {F[p].at : p \in 1..C[n]}
           S == {Unreachable} \cup ats
<1>1. C[n] \in Nat /\ \A p \in 1..C[n] : F[p].at \in Nat
  BY DEF Feed
<1>2. IsFiniteSet(ats)
  <2> DEFINE f == [p \in 1..C[n] |-> F[p].at]
  <2>1. f \in Surjection(1..C[n], ats)
    BY DEF Surjection
  <2>2. IsFiniteSet(1..C[n])
    BY <1>1, FS_Interval
  <2> HIDE DEF f, ats
  <2> QED
    BY <2>1, <2>2, FS_Surjection
<1>3. ats \in SUBSET Nat
  BY <1>1
<1>4. S \in SUBSET Int /\ IsFiniteSet(S) /\ S # {}
  <2>1. IsFiniteSet({Unreachable})
    BY FS_Singleton
  <2> HIDE DEF ats
  <2>2. IsFiniteSet(S)
    BY <1>2, <2>1, FS_Union
  <2> QED
    BY <1>3, <2>2 DEF Unreachable
<1>5. Max(S) \in S /\ \A y \in S : y <= Max(S)
  <2> HIDE DEF S
  <2> QED
    BY <1>4, Extremes
<1>6. NewestIn(F, C, n) = Max(S)
  BY DEF NewestIn
<1> QED
  BY <1>3, <1>5, <1>6

\* What is behind after some batches is behind after more.
LEMMA BehindRises ==
  ASSUME NEW F, Feed(F), NEW k, NEW C, Cut(F, C, k), NEW d \in Int, NEW e, NEW ts \in Nat,
         NEW n \in Int, NEW m \in 0..Len(C), n <= m, BehindIn(F, C, d, e, ts, n)
  PROVE  BehindIn(F, C, d, e, ts, m)
<1>1. n \in 1..Len(C) /\ m \in 1..Len(C)
  BY CutEnds DEF BehindIn
<1>2. /\ C[n] \in 0..Len(F) /\ C[m] \in 0..Len(F) /\ C[n] <= C[m]
  BY <1>1, CutEnds
<1>3. NewestIn(F, C, n) \in Nat
  BY <1>2, NewestIs DEF BehindIn
<1>4. PICK p \in 1..C[n] : NewestIn(F, C, n) = F[p].at
  BY <1>2, <1>3, NewestIs DEF BehindIn
<1>5. p \in 1..C[m]
  BY <1>2
<1>6. NewestIn(F, C, m) \in Nat \cup {Unreachable} /\ NewestIn(F, C, n) <= NewestIn(F, C, m)
  BY <1>2, <1>4, <1>5, NewestIs
<1>7. NewestIn(F, C, m) \in Nat /\ NewestIn(F, C, m) # Unreachable
  BY <1>3, <1>6 DEF Unreachable
<1>8. \/ ts < NewestIn(F, C, n) - d
      \/ e /\ ts = NewestIn(F, C, n) - d
  BY DEF BehindIn
<1>9. ts <= NewestIn(F, C, n) - d => \/ ts < NewestIn(F, C, m) - d
                                     \/ ts = NewestIn(F, C, m) - d /\ NewestIn(F, C, m) = NewestIn(F, C, n)
  BY <1>3, <1>6, <1>7
<1>10. CASE ts < NewestIn(F, C, n) - d
  <2>1. ts < NewestIn(F, C, m) - d
    BY <1>3, <1>6, <1>7, <1>10
  <2> QED
    BY <1>1, <1>7, <2>1 DEF BehindIn
<1>11. CASE e /\ ts = NewestIn(F, C, n) - d
  <2>1. ts <= NewestIn(F, C, n) - d
    BY <1>3, <1>11
  <2> QED
    BY <1>1, <1>7, <1>9, <1>11, <2>1 DEF BehindIn
<1> QED
  BY <1>8, <1>10, <1>11

\* Only the batches read so far decide what is behind.
LEMMA SameBehind ==
  ASSUME NEW F, NEW G, NEW C, NEW D, NEW d, NEW e, NEW ts, NEW n \in Int,
         n > 0 => C[n] = D[n] /\ \A p \in 1..C[n] : F[p].at = G[p].at
  PROVE  BehindIn(F, C, d, e, ts, n) <=> BehindIn(G, D, d, e, ts, n)
<1>1. CASE n > 0
  <2>1. {F[p].at : p \in 1..C[n]} = {G[p].at : p \in 1..D[n]}
    BY <1>1
  <2>2. NewestIn(F, C, n) = NewestIn(G, D, n)
    BY <2>1 DEF NewestIn
  <2> QED
    BY <2>2 DEF BehindIn
<1>2. CASE ~ n > 0
  BY <1>2 DEF BehindIn
<1> QED
  BY <1>1, <1>2

\* What arrives on the topic leaves the arm where it is.
LEMMA ArmGrows ==
  ASSUME NEW F, Feed(F), NEW G, Feed(G), Len(F) <= Len(G), \A p \in 1..Len(F) : G[p] = F[p],
         NEW C, NEW L, NEW S, NEW d \in Int, NEW e, NEW k, Cut(F, C, k), Lands(F, C, L, S, d, e)
  PROVE  Cut(G, C, k) /\ Lands(G, C, L, S, d, e)
<1>1. /\ Len(F) \in Nat /\ Len(G) \in Nat /\ Len(C) \in Nat /\ EndIn(C) \in 0..Len(F)
      /\ \A n \in 1..Len(C) : C[n] \in 1..EndIn(C)
      /\ DOMAIN C = 1..Len(C)
  <2>1. Len(G) \in Nat
    BY DEF Feed
  <2> QED
    BY <2>1, CutEnds
<1>2. \A p \in 1..EndIn(C) : G[p] = F[p]
  BY <1>1
<1>3. Cut(G, C, k)
  BY <1>1 DEF Cut
<1>4. ASSUME NEW n \in Int, n <= Len(C), NEW ts
      PROVE  BehindIn(F, C, d, e, ts, n) <=> BehindIn(G, C, d, e, ts, n)
  <2>1. n > 0 => C[n] \in 1..EndIn(C)
    BY <1>1, <1>4
  <2>2. n > 0 => C[n] = C[n] /\ \A p \in 1..C[n] : F[p].at = G[p].at
    BY <1>1, <1>2, <2>1
  <2> QED
    BY <2>2, SameBehind
<1>5. PassingIn(F, C, d, e) = PassingIn(G, C, d, e)
  <2>1. ASSUME NEW p \in 1..EndIn(C), NEW b \in DOMAIN C
        PROVE  BehindIn(F, C, d, e, F[p].at, b - 2) <=> BehindIn(G, C, d, e, G[p].at, b - 2)
    <3>1. b - 2 \in Int /\ b - 2 <= Len(C) /\ F[p] = G[p]
      BY <1>1, <1>2
    <3> QED
      BY <1>4, <3>1
  <2> QED
    BY <2>1, <1>2 DEF PassingIn
<1>6. {F[p].id : p \in PassingIn(F, C, d, e)} = {G[p].id : p \in PassingIn(G, C, d, e)}
  <2>1. \A p \in PassingIn(F, C, d, e) : p \in 1..EndIn(C)
    BY DEF PassingIn
  <2> QED
    BY <1>2, <1>5, <2>1
<1>7. \A i \in DOMAIN L : L[i] \in S \/ BehindIn(G, C, d, e, L[i].at, Len(C) - 1)
  <2>1. Len(C) - 1 \in Int /\ Len(C) - 1 <= Len(C)
    BY <1>1
  <2> QED
    BY <1>4, <2>1 DEF Lands
<1>8. \A i \in DOMAIN L : \E p \in 1..EndIn(C) : L[i] = G[p]
  BY <1>2 DEF Lands
<1> QED
  BY <1>3, <1>6, <1>7, <1>8 DEF Lands

\* A list, and one list after another.
LEMMA Listed ==
  ASSUME NEW R, NEW c \in Nat, NEW f \in [1..c -> R]
  PROVE  f \in Seq(R) /\ Len(f) = c
OBVIOUS

LEMMA Joined ==
  ASSUME NEW R, NEW s \in Seq(R), NEW t \in Seq(R)
  PROVE  /\ s \o t \in Seq(R) /\ Len(s) \in Nat /\ Len(t) \in Nat /\ DOMAIN s = 1..Len(s)
         /\ DOMAIN (s \o t) = 1..Len(s) + Len(t)
         /\ \A i \in 1..Len(s) : i \in DOMAIN (s \o t) /\ (s \o t)[i] = s[i]
         /\ \A i \in 1..Len(t) : /\ Len(s) + i \in DOMAIN (s \o t)
                                /\ (s \o t)[Len(s) + i] = t[i]
         /\ \A i \in DOMAIN (s \o t) : i \in 1..Len(s) \/ i - Len(s) \in 1..Len(t)
         /\ \A i \in DOMAIN (s \o t) : Len(s) + (i - Len(s)) = i
OBVIOUS

\* The next batch of an arm, to position end: of what passes its filter the first of
\* each identity not held lands, and what is behind the batches before is let go.
PassesOf(F, C, d, e, end) ==
  {p \in EndIn(C) + 1..end : ~ BehindIn(F, C, d, e, F[p].at, Len(C) - 1)}

FirstOf(F, S, passes) ==
  {p \in passes : /\ \A r \in S : r.id # F[p].id
                  /\ \A q \in passes : q < p => F[q].id # F[p].id}

InOrder(F, positions) == [i \in 1..Cardinality(positions) |-> F[AtRank(positions, i)]]

HeldOf(F, C, S, d, e, first) ==
  {r \in S \cup {F[p] : p \in first} : ~ BehindIn(F, C, d, e, r.at, Len(C))}

LEMMA ArmRuns ==
  ASSUME NEW F, Feed(F), NEW C, NEW L, NEW S, NEW d \in Int, NEW e \in BOOLEAN,
         NEW k \in Nat \ {0}, Cut(F, C, k), Lands(F, C, L, S, d, e),
         EndIn(C) = Len(C) * k, NEW end \in 1..Len(F), EndIn(C) < end, end <= EndIn(C) + k
  PROVE  LET first == FirstOf(F, S, PassesOf(F, C, d, e, end))
         IN  /\ Cut(F, Append(C, end), k)
             /\ Lands(F, Append(C, end), L \o InOrder(F, first), HeldOf(F, C, S, d, e, first), d, e)
<1> DEFINE passes == PassesOf(F, C, d, e, end)
           first == FirstOf(F, S, passes)
<1>a. passes = {p \in EndIn(C) + 1..end : ~ BehindIn(F, C, d, e, F[p].at, Len(C) - 1)}
  BY DEF PassesOf
<1>b. first = {p \in passes : /\ \A r \in S : r.id # F[p].id
                              /\ \A q \in passes : q < p => F[q].id # F[p].id}
  BY DEF FirstOf
<1> HIDE DEF passes, first
<1> USE <1>a, <1>b
<1> DEFINE D == Append(C, end)
           added == [i \in 1..Cardinality(first) |-> F[AtRank(first, i)]]
           M == L \o added
           T == {r \in S \cup {F[p] : p \in first} : ~ BehindIn(F, C, d, e, r.at, Len(C))}
           n == Len(C)
<1>1. /\ Len(F) \in Nat /\ n \in Nat /\ DOMAIN C = 1..n /\ DOMAIN F = 1..Len(F)
      /\ EndIn(C) \in 0..Len(F) /\ (n = 0 <=> EndIn(C) = 0)
      /\ \A b \in 1..n : C[b] \in 1..EndIn(C) /\ StartIn(C, b) \in 0..EndIn(C)
  BY CutEnds
<1>2. /\ D \in Seq(Nat) /\ Len(D) = n + 1 /\ DOMAIN D = 1..n + 1
      /\ D[n + 1] = end /\ \A b \in 1..n : D[b] = C[b]
      /\ EndIn(D) = end
  <2>1. C \in Seq(Nat) /\ end \in Nat
    BY DEF Cut
  <2>2. D \in Seq(Nat) /\ Len(D) = n + 1 /\ D[n + 1] = end /\ D # <<>>
        /\ \A b \in 1..n : D[b] = C[b]
    <3>1. LET t == Append(C, end)
          IN  /\ t \in Seq(Nat) /\ Len(t) = Len(C) + 1 /\ Len(C) \in Nat
              /\ \A i \in DOMAIN C : i \in DOMAIN t /\ t[i] = C[i]
              /\ Len(C) + 1 \in DOMAIN t /\ t[Len(C) + 1] = end
      BY <2>1, MoreReports
    <3>2. Append(C, end) # <<>>
      <4>1. Len(Append(C, end)) # 0
        BY <3>1
      <4> QED
        BY <4>1
    <3> QED
      BY <1>1, <3>1, <3>2
  <2> QED
    BY <2>2, <1>1 DEF EndIn
<1>3. /\ StartIn(D, n + 1) = EndIn(C)
      /\ \A b \in 1..n : StartIn(D, b) = StartIn(C, b)
  <2>1. StartIn(D, n + 1) = EndIn(C)
    <3>1. CASE n = 0
      BY <1>1, <3>1 DEF StartIn
    <3>2. CASE n # 0
      <4>1. n + 1 # 1 /\ n + 1 - 1 = n /\ n \in 1..n /\ C # <<>>
        BY <1>1, <3>2
      <4> HIDE DEF D
      <4> QED
        BY <1>2, <4>1 DEF StartIn, EndIn
    <3> QED
      BY <3>1, <3>2
  <2>2. ASSUME NEW b \in 1..n PROVE StartIn(D, b) = StartIn(C, b)
    <3>1. b # 1 => b - 1 \in 1..n
      BY <1>1
    <3> HIDE DEF D
    <3> QED
      BY <1>2, <3>1 DEF StartIn
  <2> QED
    BY <2>1, <2>2
<1> HIDE DEF D
<1>4. Cut(F, D, k)
  <2>1. end <= (n + 1) * k
    <3>1. (n + 1) * k = n * k + k
      BY <1>1
    <3> QED
      BY <3>1
  <2>2. n > 0 => C[n] = n * k
    <3>1. n > 0 => C[n] = EndIn(C)
      BY <1>1 DEF EndIn
    <3> QED
      BY <3>1
  <2>3. \A b \in 1..n : /\ 0 < C[b] /\ C[b] <= b * k
                        /\ b < n => C[b] = b * k
    BY <1>1 DEF Cut
  <2>4. ASSUME NEW b \in DOMAIN D
        PROVE  0 < D[b] /\ D[b] <= b * k /\ (b < Len(D) => D[b] = b * k)
    <3>1. CASE b = n + 1
      BY <1>1, <1>2, <2>1, <3>1
    <3>2. CASE b \in 1..n
      <4>1. D[b] = C[b] /\ 0 < C[b] /\ C[b] <= b * k
        BY <1>2, <2>3, <3>2
      <4>2. CASE b = n
        BY <1>1, <2>2, <3>2, <4>1, <4>2
      <4>3. CASE b # n
        <5>1. b < n
          BY <1>1, <3>2, <4>3
        <5> QED
          BY <2>3, <3>2, <4>1, <5>1
      <4> QED
        BY <4>2, <4>3
    <3> QED
      BY <1>1, <1>2, <3>1, <3>2
  <2>5. ASSUME NEW b \in DOMAIN D, NEW c \in DOMAIN D, b < c PROVE D[b] < D[c]
    <3>1. b \in 1..n
      BY <1>1, <1>2, <2>5
    <3>2. CASE c = n + 1
      <4>1. C[b] \in 1..EndIn(C)
        BY <1>1, <3>1
      <4> QED
        BY <1>1, <1>2, <3>1, <3>2, <4>1
    <3>3. CASE c \in 1..n
      <4>1. C[b] < C[c]
        BY <1>1, <2>5, <3>1, <3>3 DEF Cut
      <4> QED
        BY <1>2, <3>1, <3>3, <4>1
    <3> QED
      BY <1>1, <1>2, <3>2, <3>3
  <2> QED
    BY <1>1, <1>2, <2>4, <2>5 DEF Cut
<1>5. ASSUME NEW m \in Int, m <= n, NEW ts
      PROVE  BehindIn(F, C, d, e, ts, m) <=> BehindIn(F, D, d, e, ts, m)
  <2>1. m > 0 => m \in 1..n
    BY <1>1, <1>5
  <2>2. m > 0 => C[m] = D[m] /\ \A p \in 1..C[m] : F[p].at = F[p].at
    BY <1>2, <2>1
  <2> QED
    BY <2>2, SameBehind
\* What passes: what did, and what passes the filter of this batch.
<1>6. PassingIn(F, D, d, e) = PassingIn(F, C, d, e) \cup passes
  <2>1. ASSUME NEW p \in 1..EndIn(C), NEW b \in 1..n
        PROVE  /\ StartIn(D, b) = StartIn(C, b) /\ D[b] = C[b]
               /\ BehindIn(F, C, d, e, F[p].at, b - 2) <=> BehindIn(F, D, d, e, F[p].at, b - 2)
    <3>1. b - 2 \in Int /\ b - 2 <= n
      BY <1>1
    <3> QED
      BY <1>2, <1>3, <1>5, <3>1
  <2>2. ASSUME NEW p \in 1..EndIn(C)
        PROVE  p \in PassingIn(F, D, d, e) <=> p \in PassingIn(F, C, d, e)
    <3>1. p \in 1..EndIn(D) /\ ~ StartIn(D, n + 1) < p
      BY <1>1, <1>2, <1>3
    <3>2. p \in PassingIn(F, D, d, e) <=>
            \E b \in 1..n : StartIn(D, b) < p /\ p <= D[b] /\ ~ BehindIn(F, D, d, e, F[p].at, b - 2)
      <4>1. DOMAIN D = (1..n) \cup {n + 1}
        BY <1>1, <1>2
      <4> QED
        BY <3>1, <4>1 DEF PassingIn
    <3>3. p \in PassingIn(F, C, d, e) <=>
            \E b \in 1..n : StartIn(C, b) < p /\ p <= C[b] /\ ~ BehindIn(F, C, d, e, F[p].at, b - 2)
      BY <1>1 DEF PassingIn
    <3> QED
      BY <2>1, <3>2, <3>3
  <2>3. ASSUME NEW p \in EndIn(C) + 1..end
        PROVE  p \in PassingIn(F, D, d, e) <=> p \in passes
    <3>1. p \in 1..EndIn(D) /\ p <= D[n + 1] /\ StartIn(D, n + 1) < p
          /\ n + 1 \in DOMAIN D
      BY <1>1, <1>2, <1>3
    <3>2. \A b \in 1..n : ~ p <= D[b]
      <4>1. \A b \in 1..n : D[b] \in 1..EndIn(C)
        BY <1>1, <1>2
      <4> QED
        BY <1>1, <4>1
    <3>3. DOMAIN D = (1..n) \cup {n + 1}
      BY <1>1, <1>2
    <3>4. p \in PassingIn(F, D, d, e) <=> ~ BehindIn(F, D, d, e, F[p].at, n + 1 - 2)
      BY <3>1, <3>2, <3>3 DEF PassingIn
    <3>5. n + 1 - 2 = n - 1 /\ n - 1 \in Int /\ n - 1 <= n
      BY <1>1
    <3>6. BehindIn(F, C, d, e, F[p].at, n - 1) <=> BehindIn(F, D, d, e, F[p].at, n - 1)
      BY <1>5, <3>5
    <3> QED
      BY <3>4, <3>5, <3>6
  <2>4. \A p \in PassingIn(F, D, d, e) : p \in 1..EndIn(C) \/ p \in EndIn(C) + 1..end
    BY <1>1, <1>2 DEF PassingIn
  <2>5. \A p \in PassingIn(F, C, d, e) : p \in 1..EndIn(C)
    BY DEF PassingIn
  <2>6. \A p \in passes : p \in EndIn(C) + 1..end
    OBVIOUS
  <2> HIDE DEF n
  <2> QED
    BY <2>2, <2>3, <2>4, <2>5, <2>6
\* The rows that land.
<1>7. /\ first \in SUBSET (1..end) /\ first \subseteq passes /\ first \in SUBSET Nat
      /\ IsFiniteSet(first)
      /\ \A p \in first : p \in 1..Len(F)
  <2>1. passes \in SUBSET (1..end)
    BY <1>1
  <2>2. first \in SUBSET (1..end) /\ IsFiniteSet(1..end)
    BY <2>1, FS_Interval
  <2>3. IsFiniteSet(first)
    BY <2>2, FS_Subset
  <2>4. first \subseteq passes
    OBVIOUS
  <2>5. \A p \in 1..end : p \in Nat /\ p \in 1..Len(F)
    BY <1>1
  <2> HIDE DEF first, passes
  <2> QED
    BY <2>2, <2>3, <2>4, <2>5
<1>8. /\ Cardinality(first) \in Nat
      /\ \A i \in 1..Cardinality(first) : AtRank(first, i) \in first /\ Rank(first, AtRank(first, i)) = i
      /\ \A p \in first : Rank(first, p) \in 1..Cardinality(first) /\ AtRank(first, Rank(first, p)) = p
  <2> HIDE DEF n
  <2> QED
    BY <1>7, Ranked
<1> DEFINE c == Cardinality(first)
<1>9. /\ added \in Seq(Records) /\ Len(added) = c
      /\ \A i \in 1..c : added[i] = F[AtRank(first, i)]
  <2>1. \A p \in first : F[p] \in Records
    BY <1>1, <1>7 DEF Feed
  <2>2. added \in [1..c -> Records] /\ c \in Nat
    BY <1>8, <2>1
  <2>3. \A i \in 1..c : added[i] = F[AtRank(first, i)]
    OBVIOUS
  <2> HIDE DEF added, c
  <2> QED
    BY <2>2, <2>3, Listed
<1> HIDE DEF added
<1>10. /\ M \in Seq(Records) /\ Len(L) \in Nat /\ DOMAIN L = 1..Len(L)
       /\ \A i \in 1..Len(L) : i \in DOMAIN M /\ M[i] = L[i]
       /\ \A i \in 1..c : Len(L) + i \in DOMAIN M /\ M[Len(L) + i] = F[AtRank(first, i)]
       /\ \A i \in DOMAIN M : i \in 1..Len(L) \/ i - Len(L) \in 1..c
       /\ \A i \in DOMAIN M : Len(L) + (i - Len(L)) = i
  <2>1. L \in Seq(Records)
    BY DEF Lands
  <2>2. /\ L \o added \in Seq(Records) /\ Len(L) \in Nat /\ DOMAIN L = 1..Len(L)
        /\ \A i \in 1..Len(L) : i \in DOMAIN (L \o added) /\ (L \o added)[i] = L[i]
        /\ \A i \in 1..Len(added) : /\ Len(L) + i \in DOMAIN (L \o added)
                                   /\ (L \o added)[Len(L) + i] = added[i]
        /\ \A i \in DOMAIN (L \o added) : i \in 1..Len(L) \/ i - Len(L) \in 1..Len(added)
        /\ \A i \in DOMAIN (L \o added) : Len(L) + (i - Len(L)) = i
    <3>1. added \in Seq(Records)
      BY <1>9
    <3> HIDE DEF n
    <3> QED
      BY <2>1, <3>1, Joined
  <2> HIDE DEF c
  <2>3. /\ \A i \in 1..c : Len(L) + i \in DOMAIN M /\ M[Len(L) + i] = F[AtRank(first, i)]
        /\ \A i \in DOMAIN M : i \in 1..Len(L) \/ i - Len(L) \in 1..c
    BY <1>9, <2>2
  <2> QED
    BY <2>2, <2>3
<1> HIDE DEF M
\* A row that landed was landed, or is one of the first.
<1>11. \A i \in DOMAIN M : \/ i \in 1..Len(L) /\ M[i] = L[i]
                           \/ /\ i - Len(L) \in 1..c
                              /\ AtRank(first, i - Len(L)) \in first
                              /\ M[i] = F[AtRank(first, i - Len(L))]
  <2> SUFFICES ASSUME NEW i \in DOMAIN M, i \notin 1..Len(L)
               PROVE  /\ i - Len(L) \in 1..c
                      /\ AtRank(first, i - Len(L)) \in first
                      /\ M[i] = F[AtRank(first, i - Len(L))]
    BY <1>10
  <2>1. i - Len(L) \in 1..c /\ Len(L) + (i - Len(L)) = i
    BY <1>10
  <2>2. M[Len(L) + (i - Len(L))] = F[AtRank(first, i - Len(L))]
    BY <1>10, <2>1
  <2> QED
    BY <1>8, <2>1, <2>2
<1>12. \A p \in first : \E i \in DOMAIN M : M[i] = F[p]
  <2> SUFFICES ASSUME NEW p \in first PROVE \E i \in DOMAIN M : M[i] = F[p]
    OBVIOUS
  <2>1. Rank(first, p) \in 1..c /\ AtRank(first, Rank(first, p)) = p
    BY <1>8
  <2>2. Len(L) + Rank(first, p) \in DOMAIN M /\ M[Len(L) + Rank(first, p)] = F[p]
    BY <1>10, <2>1
  <2> QED
    BY <2>2
<1>13. \A i \in 1..Len(L) : i \in DOMAIN M /\ M[i] = L[i]
  BY <1>10
\* The identities.
<1>14. IdsOf(M) = IdsOf(L) \cup {F[p].id : p \in first}
  <2>1. \A i \in DOMAIN M : M[i].id \in IdsOf(L) \cup {F[p].id : p \in first}
    <3> SUFFICES ASSUME NEW i \in DOMAIN M
                 PROVE  M[i].id \in IdsOf(L) \/ \E p \in first : M[i].id = F[p].id
      OBVIOUS
    <3>1. CASE i \in 1..Len(L) /\ M[i] = L[i]
      BY <1>10, <3>1 DEF IdsOf
    <3>2. CASE \E p \in first : M[i] = F[p]
      BY <3>2
    <3> QED
      BY <1>11, <3>1, <3>2
  <2>2. \A i \in DOMAIN L : L[i].id \in IdsOf(M)
    BY <1>10, <1>13 DEF IdsOf
  <2>3. \A p \in first : F[p].id \in IdsOf(M)
    BY <1>12 DEF IdsOf
  <2>4. \A x \in IdsOf(L) : \E i \in DOMAIN L : x = L[i].id
    BY DEF IdsOf
  <2>5. \A x \in IdsOf(M) : \E i \in DOMAIN M : x = M[i].id
    BY DEF IdsOf
  <2> HIDE DEF first, M
  <2>6. IdsOf(L) \cup {F[p].id : p \in first} \subseteq IdsOf(M)
    BY <2>2, <2>3, <2>4
  <2>7. IdsOf(M) \subseteq IdsOf(L) \cup {F[p].id : p \in first}
    BY <2>1, <2>5
  <2> QED
    BY <2>6, <2>7
<1>15. ASSUME NEW p \in passes PROVE F[p].id \in IdsOf(L) \cup {F[q].id : q \in first}
  <2>1. CASE \E r \in S : r.id = F[p].id
    BY <2>1 DEF Lands, IdsOf
  <2>2. CASE \A r \in S : r.id # F[p].id
    <3> DEFINE same == {q \in passes : F[q].id = F[p].id}
    <3>1. same \in SUBSET Nat /\ same # {}
      <4>1. \A q \in passes : q \in Nat
        BY <1>1
      <4> QED
        BY <4>1
    <3>2. PICK q \in same : \A x \in same : q <= x
      <4> HIDE DEF same
      <4> QED
        BY <3>1, LeastOf
    <3>3. q \in first
      <4>1. \A x \in passes : x < q => F[x].id # F[q].id
        BY <3>1, <3>2
      <4> QED
        BY <2>2, <3>2, <4>1
    <3> QED
      BY <3>2, <3>3
  <2> QED
    BY <2>1, <2>2
<1>16. IdsOf(M) = {F[p].id : p \in PassingIn(F, D, d, e)}
  <2>1. IdsOf(L) = {F[p].id : p \in PassingIn(F, C, d, e)}
    BY DEF Lands
  <2> DEFINE old == PassingIn(F, C, d, e)
             ids(P) == {F[p].id : p \in P}
  <2>2. ids(old \cup passes) = ids(old) \cup ids(passes) /\ ids(first) \subseteq ids(passes)
    BY <1>7
  <2>3. ids(passes) \subseteq ids(old) \cup ids(first)
    <3>1. \A p \in passes : F[p].id \in ids(old) \cup ids(first)
      BY <1>15, <2>1
    <3> SUFFICES ASSUME NEW x \in ids(passes) PROVE x \in ids(old) \cup ids(first)
      BY Zenon
    <3>2. PICK p \in passes : x = F[p].id
      OBVIOUS
    <3> HIDE DEF ids
    <3> QED
      BY <3>1, <3>2
  <2>4. IdsOf(M) = ids(old) \cup ids(first)
    BY <1>14, <2>1
  <2>5. IdsOf(M) = ids(old \cup passes)
    <3> HIDE DEF old, ids
    <3> QED
      BY <2>2, <2>3, <2>4
  <2> QED
    BY <1>6, <2>5
<1>17. \A i \in DOMAIN M : \E p \in 1..EndIn(D) : M[i] = F[p]
  <2> SUFFICES ASSUME NEW i \in DOMAIN M PROVE \E p \in 1..EndIn(D) : M[i] = F[p]
    OBVIOUS
  <2>1. CASE i \in 1..Len(L) /\ M[i] = L[i]
    <3>1. PICK p \in 1..EndIn(C) : L[i] = F[p]
      BY <1>10, <2>1 DEF Lands
    <3>2. p \in 1..EndIn(D)
      BY <1>1, <1>2
    <3> QED
      BY <2>1, <3>1, <3>2
  <2>2. CASE \E p \in first : M[i] = F[p]
    BY <1>2, <1>7, <2>2
  <2> QED
    BY <1>11, <2>1, <2>2
\* No identity that landed lands again: held it is refused, and once let go it is behind.
<1>18. ASSUME NEW p \in first, NEW i \in DOMAIN L PROVE L[i].id # F[p].id
  <2>1. SUFFICES ASSUME L[i].id = F[p].id PROVE FALSE
    OBVIOUS
  <2>2. L[i] \notin S
    BY <2>1
  <2>3. BehindIn(F, C, d, e, L[i].at, n - 1)
    BY <2>2 DEF Lands
  <2>4. PICK q \in 1..EndIn(C) : L[i] = F[q]
    BY DEF Lands
  <2>5. L[i] = F[p]
    <3>1. p \in DOMAIN F /\ q \in DOMAIN F /\ F[q].id = F[p].id
      BY <1>1, <1>7, <2>1, <2>4
    <3> HIDE <1>a, <1>b
    <3> HIDE DEF n
    <3>2. F[q] = F[p]
      BY <3>1 DEF Feed
    <3> QED
      BY <2>4, <3>2
  <2>6. ~ BehindIn(F, C, d, e, F[p].at, n - 1)
    BY <1>7
  <2> QED
    BY <2>3, <2>5, <2>6
<1>19. ASSUME NEW i \in DOMAIN M, NEW j \in DOMAIN M, M[i].id = M[j].id PROVE i = j
  <2>1. CASE i \in 1..Len(L) /\ j \in 1..Len(L)
    BY <1>10, <1>19, <2>1 DEF Lands
  <2>2. CASE i \notin 1..Len(L) /\ j \notin 1..Len(L)
    <3> DEFINE p == AtRank(first, i - Len(L))
               q == AtRank(first, j - Len(L))
    <3>1. p \in first /\ q \in first /\ F[p].id = F[q].id
      BY <1>11, <1>19, <2>2
    <3>2. Rank(first, p) = i - Len(L) /\ Rank(first, q) = j - Len(L)
      BY <1>8, <1>11, <2>2
    <3> HIDE DEF p, q
    <3>3. ~ p < q /\ ~ q < p
      BY <3>1
    <3>4. p = q
      BY <1>7, <3>1, <3>3
    <3> QED
      BY <1>10, <3>2, <3>4
  <2>3. CASE i \in 1..Len(L) /\ j \notin 1..Len(L)
    <3>1. PICK p \in first : M[j] = F[p]
      BY <1>11, <2>3
    <3>2. i \in DOMAIN L /\ M[i] = L[i]
      BY <1>10, <2>3
    <3> QED
      BY <1>18, <1>19, <3>1, <3>2
  <2>4. CASE i \notin 1..Len(L) /\ j \in 1..Len(L)
    <3>1. PICK p \in first : M[i] = F[p]
      BY <1>11, <2>4
    <3>2. j \in DOMAIN L /\ M[j] = L[j]
      BY <1>10, <2>4
    <3> QED
      BY <1>18, <1>19, <3>1, <3>2
  <2> QED
    BY <2>1, <2>2, <2>3, <2>4
<1>20. \A r \in T : \E i \in DOMAIN M : r = M[i]
  <2> SUFFICES ASSUME NEW r \in T PROVE \E i \in DOMAIN M : r = M[i]
    OBVIOUS
  <2>1. CASE r \in S
    <3>1. PICK i \in DOMAIN L : r = L[i]
      BY <2>1 DEF Lands
    <3> QED
      BY <1>10, <1>13, <3>1
  <2>2. CASE \E p \in first : r = F[p]
    BY <1>12, <2>2
  <2> QED
    BY <2>1, <2>2
<1>21. ASSUME NEW i \in DOMAIN M
       PROVE  M[i] \in T \/ BehindIn(F, D, d, e, M[i].at, Len(D) - 1)
  <2>1. BehindIn(F, C, d, e, M[i].at, n) <=> BehindIn(F, D, d, e, M[i].at, n)
    BY <1>1, <1>5
  <2>2. Len(D) - 1 = n
    BY <1>1, <1>2
  <2>3. CASE i \in 1..Len(L) /\ M[i] = L[i]
    <3>1. CASE L[i] \in S
      BY <2>1, <2>2, <2>3, <3>1
    <3>2. CASE BehindIn(F, C, d, e, L[i].at, n - 1)
      <4>1. L[i].at \in Nat
        <5>1. PICK q \in 1..EndIn(C) : L[i] = F[q]
          BY <1>10, <2>3 DEF Lands
        <5>2. q \in DOMAIN F
          BY <1>1
        <5> QED
          BY <5>1, <5>2 DEF Feed
      <4>2. n - 1 \in Int /\ n \in 0..Len(C) /\ n - 1 <= n
        BY <1>1
      <4>3. BehindIn(F, C, d, e, L[i].at, n)
        BY <3>2, <4>1, <4>2, BehindRises
      <4> QED
        BY <2>1, <2>2, <2>3, <4>3
    <3> QED
      BY <1>10, <2>3, <3>1, <3>2 DEF Lands
  <2>4. CASE \E p \in first : M[i] = F[p]
    BY <2>1, <2>2, <2>4
  <2> QED
    BY <1>11, <2>3, <2>4
<1> HIDE DEF T, n
<1>22. Lands(F, D, M, T, d, e)
  BY <1>10, <1>16, <1>17, <1>19, <1>20, <1>21 DEF Lands
<1> QED
  <2>1. M = L \o InOrder(F, first) /\ T = HeldOf(F, C, S, d, e, first)
    BY DEF M, added, T, n, InOrder, HeldOf
  <2>2. Cut(F, Append(C, end), k) /\ Lands(F, Append(C, end), M, T, d, e)
    BY <1>4, <1>22 DEF D
  <2> QED
    BY <2>1, <2>2 DEF passes, first

-----------------------------------------------------------------------------
(* The corpus.                                                             *)

LEMMA CorpusFeeds ==
  ASSUME NEW c \in Corpora
  PROVE  Feed(c)
<1>1. c \in Seq(Records)
  BY ProducerAssumption
<1>2. \A i, j \in DOMAIN c : c[i].at \in Nat /\ (c[i].id = c[j].id => c[i] = c[j])
  BY CorpusAssumption DEF IsCorpus
<1> QED
  BY <1>1, <1>2 DEF Feed

\* A payment passes when nothing before it is further ahead of it than the delay.
LEMMA PassesIfNear ==
  ASSUME NEW F, Feed(F), NEW k, NEW C, Cut(F, C, k), NEW d \in Int, NEW e,
         NEW p \in 1..EndIn(C), \A q \in 1..p - 1 : F[q].at < F[p].at + d
  PROVE  p \in PassingIn(F, C, d, e)
<1> DEFINE n == Len(C)
           reach == {b \in 1..n : p <= C[b]}
<1>1. /\ n \in Nat /\ DOMAIN C = 1..n /\ EndIn(C) \in 0..Len(F) /\ Len(F) \in Nat
      /\ DOMAIN F = 1..Len(F)
      /\ \A b \in 1..n : C[b] \in 1..EndIn(C)
      /\ \A b, a \in 1..n : b <= a => C[b] <= C[a]
      /\ n = 0 <=> EndIn(C) = 0
  BY CutEnds
<1>2. reach \in SUBSET Nat /\ reach # {}
  <2>1. n # 0
    BY <1>1
  <2>2. n \in 1..n /\ C # <<>>
    BY <1>1, <2>1
  <2>3. EndIn(C) = C[n]
    BY <2>2 DEF EndIn
  <2>4. n \in reach
    BY <2>2, <2>3
  <2> QED
    BY <2>4, <1>1
<1>3. PICK b \in reach : \A a \in reach : b <= a
  <2> HIDE DEF reach
  <2> QED
    BY <1>2, LeastOf
<1>4. b \in 1..n /\ p <= C[b]
  OBVIOUS
<1>5. b # 1 => C[b - 1] < p
  <2> SUFFICES ASSUME b # 1 PROVE C[b - 1] < p
    OBVIOUS
  <2>1. b - 1 \in 1..n /\ ~ b <= b - 1
    BY <1>1, <1>4
  <2>2. b - 1 \notin reach
    BY <1>3, <2>1
  <2>3. C[b - 1] \in 1..EndIn(C)
    BY <1>1, <2>1
  <2> QED
    BY <1>1, <2>1, <2>2, <2>3
<1>6. StartIn(C, b) < p
  BY <1>1, <1>5 DEF StartIn
<1>7. ASSUME BehindIn(F, C, d, e, F[p].at, b - 2) PROVE FALSE
  <2>1. b - 2 > 0
    BY <1>7 DEF BehindIn
  <2>2. b - 2 \in 1..n /\ b - 1 \in 1..n /\ b # 1 /\ b - 2 <= b - 1
    BY <1>1, <1>4, <2>1
  <2>3. C[b - 2] \in 1..EndIn(C) /\ C[b - 1] \in 1..EndIn(C) /\ C[b - 2] <= C[b - 1]
    BY <1>1, <2>2
  <2>4. C[b - 2] \in 0..Len(F) /\ C[b - 2] < p
    BY <1>1, <1>5, <2>2, <2>3
  <2>5. PICK q \in 1..C[b - 2] : NewestIn(F, C, b - 2) = F[q].at
    BY <1>7, <2>4, NewestIs DEF BehindIn
  <2>6. q \in 1..p - 1 /\ q \in 1..Len(F) /\ p \in 1..Len(F)
    BY <1>1, <2>4
  <2>7. F[q].at \in Nat /\ F[p].at \in Nat /\ F[q].at < F[p].at + d
    BY <1>1, <2>6 DEF Feed
  <2>8. \/ F[p].at < F[q].at - d
        \/ F[p].at = F[q].at - d
    BY <1>7, <2>5 DEF BehindIn
  <2> QED
    BY <2>7, <2>8
<1> QED
  BY <1>1, <1>4, <1>6, <1>7 DEF PassingIn

\* Nothing before a punctual payment is newer, and nothing before any payment is
\* newer by the lateness that is injected.
LEMMA Leads ==
  ASSUME NEW c \in Corpora, NEW p \in DOMAIN c, NEW q \in 1..p - 1
  PROVE  /\ p \notin LateArrivals(c) => c[q].at <= c[p].at
         /\ LateBy > 0 => c[q].at < c[p].at + LateBy
<1>1. c \in Seq(Records)
  BY ProducerAssumption
<1>2. q \in DOMAIN c /\ q < p
  BY <1>1
<1>3. /\ c[q].at \in Nat /\ c[q].emitted \in {c[q].at, c[q].at + LateBy}
      /\ c[p].at \in Nat /\ c[p].emitted \in {c[p].at, c[p].at + LateBy}
  BY <1>2, CorpusAssumption DEF IsCorpus
<1>4. \/ c[q].emitted < c[p].emitted
      \/ c[q].emitted = c[p].emitted /\ c[q].at <= c[p].at
  BY <1>2, CorpusAssumption DEF IsCorpus
<1>5. LateBy \in Nat
  BY DeliveryAssumption
<1>6. p \notin LateArrivals(c) => ~ (c[q].emitted < c[p].emitted /\ c[q].at > c[p].at)
  BY <1>2 DEF LateArrivals
<1> QED
  BY <1>3, <1>4, <1>5, <1>6

\* A payment delivered twice is late both times or neither.
LEMMA LateTwice ==
  ASSUME NEW c \in Corpora, NEW p \in LateArrivals(c), NEW q \in DOMAIN c, c[q].id = c[p].id
  PROVE  q \in LateArrivals(c)
<1>1. p \in DOMAIN c
  BY DEF LateArrivals
<1>2. c[p] = c[q]
  BY <1>1, CorpusAssumption DEF IsCorpus
<1> QED
  BY <1>2 DEF LateArrivals

\* The identities of a feed that are not late are those of its punctual positions.
LEMMA PunctualIds ==
  ASSUME NEW c \in Corpora
  PROVE  /\ Identities(c, LateArrivals(c)) \subseteq IdsOf(c)
         /\ IdsOf(c) \ Identities(c, LateArrivals(c))
              = {c[p].id : p \in DOMAIN c \ LateArrivals(c)}
<1>1. LateArrivals(c) \subseteq DOMAIN c
  BY DEF LateArrivals
<1>2. \A p \in DOMAIN c \ LateArrivals(c) : \A q \in LateArrivals(c) : c[p].id # c[q].id
  BY LateTwice
<1> QED
  BY <1>1, <1>2 DEF Identities, IdsOf

LEMMA LeastOfTwo ==
  ASSUME NEW a \in Nat, NEW b \in Nat
  PROVE  Min({a, b}) = IF a <= b THEN a ELSE b
<1> DEFINE m == IF a <= b THEN a ELSE b
<1>1. m \in {a, b} /\ \A y \in {a, b} : m <= y
  OBVIOUS
<1>2. \A x \in {a, b} : (\A y \in {a, b} : x <= y) => x = m
  OBVIOUS
<1> QED
  BY <1>1, <1>2 DEF Min

\* The frontier of a batch is the newest event of the batches that count.
LEMMA FrontierIs ==
  ASSUME NEW F, Feed(F), Len(F) > 0, NEW k \in Nat \ {0}, NEW b \in Nat, b > LagBatches
  PROVE  LET m == IF (b - 2) * k <= Len(F) THEN (b - 2) * k ELSE Len(F)
         IN  /\ m \in 1..Len(F)
             /\ Frontier(F, k, b) \in Nat
             /\ \E p \in 1..m : Frontier(F, k, b) = F[p].at
             /\ \A p \in 1..m : F[p].at <= Frontier(F, k, b)
<1> DEFINE m == IF (b - 2) * k <= Len(F) THEN (b - 2) * k ELSE Len(F)
           ats == {F[p].at : p \in 1..m}
<1>1. Len(F) \in Nat /\ DOMAIN F = 1..Len(F) /\ \A p \in 1..Len(F) : F[p].at \in Nat
  BY DEF Feed
<1>2. b - 2 \in Nat \ {0}
  BY DEF LagBatches
<1>3. (b - 2) * k \in Nat \ {0}
  BY <1>2
<1>4. m \in 1..Len(F)
  BY <1>1, <1>3
<1>5. Min({(b - 2) * k, Len(F)}) = m
  BY <1>1, <1>3, LeastOfTwo
<1>6. Frontier(F, k, b) = Max(ats)
  <2>1. ~ b <= LagBatches
    BY DEF LagBatches
  <2>2. Min({(b - LagBatches) * k, Len(F)}) = m
    BY <1>5 DEF LagBatches
  <2> HIDE DEF m
  <2>3. {F[p].at : p \in 1..Min({(b - LagBatches) * k, Len(F)})} = ats
    BY <2>2
  <2> QED
    BY <2>1, <2>3 DEF Frontier
<1> HIDE DEF m
<1>7. ats \in SUBSET Nat /\ ats # {} /\ IsFiniteSet(ats)
  <2> DEFINE f == [p \in 1..m |-> F[p].at]
  <2>1. f \in Surjection(1..m, ats)
    BY DEF Surjection
  <2>2. IsFiniteSet(1..m)
    BY <1>1, <1>4, FS_Interval
  <2>3. ats \in SUBSET Nat /\ ats # {}
    BY <1>1, <1>4
  <2> HIDE DEF f, ats
  <2> QED
    BY <2>1, <2>2, <2>3, FS_Surjection
<1>8. Max(ats) \in ats /\ \A y \in ats : y <= Max(ats)
  <2> HIDE DEF ats
  <2>1. ats \in SUBSET Int
    BY <1>7
  <2> QED
    BY <1>7, <2>1, Extremes
<1>9. Frontier(F, k, b) \in ats /\ \A y \in ats : y <= Frontier(F, k, b)
  BY <1>6, <1>8
<1>10. Frontier(F, k, b) \in Nat
  BY <1>7, <1>9
<1> QED
  BY <1>4, <1>9, <1>10 DEF m

LEMMA FiniteIds ==
  ASSUME NEW c \in Corpora
  PROVE  /\ IsFiniteSet(IdsOf(c)) /\ IsFiniteSet(LateArrivals(c))
         /\ IsFiniteSet(DOMAIN c) /\ DOMAIN c = 1..Len(c) /\ Len(c) \in Nat
<1>1. c \in Seq(Records)
  BY ProducerAssumption
<1>2. DOMAIN c = 1..Len(c) /\ Len(c) \in Nat
  BY <1>1
<1>3. IsFiniteSet(DOMAIN c)
  BY <1>2, FS_Interval
<1>4. IsFiniteSet(LateArrivals(c))
  <2>1. LateArrivals(c) \in SUBSET DOMAIN c
    BY DEF LateArrivals
  <2> QED
    BY <1>3, <2>1, FS_Subset
<1>5. IsFiniteSet(IdsOf(c))
  <2> DEFINE f == [i \in DOMAIN c |-> c[i].id]
  <2>1. f \in Surjection(DOMAIN c, IdsOf(c))
    BY DEF Surjection, IdsOf
  <2> HIDE DEF f
  <2> QED
    BY <1>3, <2>1, FS_Surjection
<1> QED
  BY <1>2, <1>3, <1>4, <1>5

\* The delays of a boundary that was not refused: the dropping arm's is positive
\* and below the margin of every late arrival; the keeping arm's is positive.
LEMMA DelaysAre ==
  ASSUME NEW c \in Corpora, NEW k \in Nat \ {0}, Accepted(c, k)
  PROVE  /\ DroppingDelay(c, k) \in Nat /\ DroppingDelay(c, k) > 0
         /\ LateBy \in Nat /\ LateBy > 0
         /\ \A p \in LateArrivals(c) :
              /\ MarginOf(c, k, p) \in Int /\ MarginOf(c, k, p) # Unreachable
              /\ DroppingDelay(c, k) < MarginOf(c, k, p)
<1> DEFINE late == LateArrivals(c)
           margins == {MarginOf(c, k, p) : p \in late}
           all == {Unreachable} \cup margins
           lows == margins \cup {Max(all)}
<1>1. Feed(c) /\ IsFiniteSet(late) /\ DOMAIN c = 1..Len(c) /\ Len(c) \in Nat
  BY CorpusFeeds, FiniteIds
<1>2. late \subseteq DOMAIN c
  BY DEF LateArrivals
<1>3. ASSUME NEW p \in DOMAIN c PROVE MarginOf(c, k, p) \in Int
  <2> DEFINE b == (p - 1) \div k + 1
  <2>1. b \in Nat /\ Len(c) > 0
    BY <1>1
  <2>2. c[p].at \in Nat
    BY <1>1 DEF Feed
  <2>3. Frontier(c, k, b) \in Int
    <3> HIDE DEF b
    <3>1. CASE b <= LagBatches
      BY <3>1 DEF Frontier, Unreachable
    <3>2. CASE b > LagBatches
      BY <1>1, <2>1, <3>2, FrontierIs
    <3> QED
      BY <2>1, <3>1, <3>2 DEF LagBatches
  <2> HIDE DEF b
  <2>4. MarginOf(c, k, p) = IF Frontier(c, k, b) = Unreachable THEN Unreachable
                            ELSE Frontier(c, k, b) - c[p].at
    BY DEF MarginOf, b
  <2> QED
    BY <2>2, <2>3, <2>4 DEF Unreachable
<1>4. margins \in SUBSET Int /\ IsFiniteSet(margins)
  <2> DEFINE f == [p \in late |-> MarginOf(c, k, p)]
  <2>1. f \in Surjection(late, margins)
    BY DEF Surjection
  <2>2. IsFiniteSet(margins)
    <3> HIDE DEF f, margins, late
    <3> QED
      BY <1>1, <2>1, FS_Surjection
  <2> QED
    BY <1>2, <1>3, <2>2
<1>5. all \in SUBSET Int /\ IsFiniteSet(all) /\ all # {}
  <2>1. IsFiniteSet({Unreachable})
    BY FS_Singleton
  <2> HIDE DEF margins
  <2>2. IsFiniteSet(all)
    BY <1>4, <2>1, FS_Union
  <2> QED
    BY <1>4, <2>2 DEF Unreachable
<1>6. Max(all) \in all /\ \A y \in all : y <= Max(all)
  <2> HIDE DEF all
  <2> QED
    BY <1>5, Extremes
<1>7. lows \in SUBSET Int /\ IsFiniteSet(lows) /\ lows # {}
  <2>1. IsFiniteSet({Max(all)})
    BY FS_Singleton
  <2> HIDE DEF margins, all
  <2>2. IsFiniteSet(lows)
    BY <1>4, <2>1, FS_Union
  <2> QED
    BY <1>4, <1>5, <1>6, <2>2
<1>8. Min(lows) \in lows /\ \A y \in lows : Min(lows) <= y
  <2> HIDE DEF lows
  <2> QED
    BY <1>7, Extremes
<1>9. NarrowestLate(c, k) = Min(lows) /\ WidestLate(c, k) = Max(all)
  BY DEF NarrowestLate, WidestLate, MarginsOf
<1>10. Min(lows) \in Int /\ Min(lows) >= 2 /\ LateBy > Max(all) /\ Max(all) \in Int
       /\ LateBy \in Nat
  BY <1>5, <1>6, <1>7, <1>8, <1>9, DeliveryAssumption DEF Accepted
<1>11. DroppingDelay(c, k) = Min(lows) \div 2
  BY <1>9 DEF DroppingDelay
<1>12. DroppingDelay(c, k) \in Nat /\ DroppingDelay(c, k) > 0 /\ DroppingDelay(c, k) < Min(lows)
  <2> DEFINE x == Min(lows)
  <2>1. x \in Int /\ x >= 2
    BY <1>10
  <2> HIDE DEF x
  <2>2. x \div 2 \in Nat /\ x \div 2 > 0 /\ x \div 2 < x
    BY <2>1
  <2> QED
    BY <1>11, <2>2 DEF x
<1>13. ASSUME NEW p \in late
       PROVE  /\ MarginOf(c, k, p) \in Int /\ MarginOf(c, k, p) # Unreachable
              /\ DroppingDelay(c, k) < MarginOf(c, k, p) /\ MarginOf(c, k, p) <= Max(all)
  <2>1. MarginOf(c, k, p) \in margins
    OBVIOUS
  <2>2. MarginOf(c, k, p) \in Int /\ Min(lows) <= MarginOf(c, k, p) /\ MarginOf(c, k, p) <= Max(all)
    <3> HIDE DEF margins
    <3> QED
      BY <1>4, <1>6, <1>8, <2>1
  <2> HIDE DEF lows, all
  <2> QED
    BY <1>10, <1>12, <2>2 DEF Unreachable
<1>14. \E p \in late : TRUE
  <2> SUFFICES ASSUME late = {} PROVE FALSE
    BY Zenon
  <2>1. Identities(c, LateArrivals(c)) = {}
    BY DEF Identities
  <2>2. LateCount = 0
    BY <2>1, FS_EmptySet DEF Accepted
  <2>3. LateCount > 0
    BY DEF Accepted
  <2> QED
    BY <2>2, <2>3
<1>15. LateBy > 0
  <2>1. PICK p \in late : TRUE
    BY <1>14
  <2>2. DroppingDelay(c, k) < MarginOf(c, k, p) /\ MarginOf(c, k, p) <= Max(all)
        /\ MarginOf(c, k, p) \in Int
    BY <1>13, <2>1
  <2> HIDE DEF lows, all
  <2> QED
    BY <1>10, <1>12, <2>2
<1> QED
  BY <1>10, <1>12, <1>13, <1>15

\* The batch of a position.
LEMMA BatchOf ==
  ASSUME NEW k \in Nat \ {0}, NEW b \in Nat \ {0}, NEW p \in Nat, (b - 1) * k < p, p <= b * k
  PROVE  (p - 1) \div k + 1 = b
<1> DEFINE a == b - 1
           m == p - 1
<1>1. a \in Nat /\ m \in Nat /\ b * k = a * k + k
  <2>1. a \in Nat /\ b = a + 1
    OBVIOUS
  <2>2. (a + 1) * k = a * k + k
    BY <2>1
  <2>3. a * k \in Nat
    BY <2>1
  <2> QED
    BY <2>1, <2>2, <2>3
<1>2. a * k <= m /\ m < a * k + k
  <2>1. a * k \in Nat /\ (b - 1) * k = a * k
    BY <1>1
  <2> QED
    BY <1>1, <2>1
<1> HIDE DEF a, m
<1>3. m - k * a \in 0..k - 1 /\ m = k * a + (m - k * a) /\ k * a = a * k
  <2>1. a * k \in Nat /\ k * a = a * k
    BY <1>1
  <2> QED
    BY <1>1, <1>2, <2>1
<1> DEFINE r == m - k * a
<1>4. r \in 0..k - 1 /\ m = k * a + r
  BY <1>3
<1> HIDE DEF r
<1>5. m \div k = a
  BY <1>1, <1>4
<1> QED
  BY <1>1, <1>5 DEF m, a

\* An arm that read a corpus from its start drops no punctual payment, whatever its
\* positive delay; and the keeping arm drops none.
LEMMA ArmKeeps ==
  ASSUME NEW c \in Corpora, NEW F, Feed(F), Len(c) <= Len(F), \A p \in 1..Len(c) : F[p] = c[p],
         NEW k, NEW C, Cut(F, C, k), Len(c) <= EndIn(C), NEW e
  PROVE  /\ \A d \in Int : d > 0 => DOMAIN c \ LateArrivals(c) \subseteq PassingIn(F, C, d, e)
         /\ LateBy > 0 => DOMAIN c \subseteq PassingIn(F, C, LateBy, e)
<1>1. /\ DOMAIN c = 1..Len(c) /\ Len(c) \in Nat /\ Feed(c) /\ EndIn(C) \in Nat
      /\ \A p \in 1..Len(c) : c[p].at \in Nat
  <2>1. Feed(c)
    BY CorpusFeeds
  <2> QED
    BY <2>1, FiniteIds, CutEnds DEF Feed
<1>2. ASSUME NEW p \in DOMAIN c
      PROVE  p \in 1..EndIn(C) /\ \A q \in 1..p - 1 : q \in 1..Len(c) /\ F[q] = c[q]
  BY <1>1
<1>3. ASSUME NEW d \in Int, d > 0, NEW p \in DOMAIN c \ LateArrivals(c)
      PROVE  p \in PassingIn(F, C, d, e)
  <2>1. ASSUME NEW q \in 1..p - 1 PROVE F[q].at < F[p].at + d
    <3>1. c[q].at <= c[p].at
      BY Leads
    <3>2. F[q] = c[q] /\ F[p] = c[p] /\ c[q].at \in Nat /\ c[p].at \in Nat
      BY <1>1, <1>2
    <3> QED
      BY <1>3, <3>1, <3>2
  <2>2. p \in 1..EndIn(C)
    BY <1>2
  <2> QED
    BY <2>1, <2>2, PassesIfNear
<1>4. ASSUME LateBy > 0, NEW p \in DOMAIN c PROVE p \in PassingIn(F, C, LateBy, e)
  <2>1. ASSUME NEW q \in 1..p - 1 PROVE F[q].at < F[p].at + LateBy
    <3>1. c[q].at < c[p].at + LateBy
      BY <1>4, Leads
    <3>2. F[q] = c[q] /\ F[p] = c[p]
      BY <1>1, <1>2
    <3> QED
      BY <3>1, <3>2
  <2>2. p \in 1..EndIn(C) /\ LateBy \in Int
    BY <1>2, DeliveryAssumption
  <2> QED
    BY <2>1, <2>2, PassesIfNear
<1> QED
  BY <1>3, <1>4

\* The dropping arm drops every late arrival where it splits the corpus as derived.
LEMMA ArmDrops ==
  ASSUME NEW c \in Corpora, NEW k \in Nat \ {0}, Accepted(c, k),
         NEW C, Cut(c, C, k), EndIn(C) = Len(c), NEW e
  PROVE  PassingIn(c, C, DroppingDelay(c, k), e) = DOMAIN c \ LateArrivals(c)
<1> DEFINE d == DroppingDelay(c, k)
           n == Len(C)
<1>1. Feed(c) /\ DOMAIN c = 1..Len(c) /\ Len(c) \in Nat /\ d \in Nat /\ d > 0
  BY CorpusFeeds, FiniteIds, DelaysAre
<1>2. /\ n \in Nat /\ DOMAIN C = 1..n
      /\ \A b \in 1..n : C[b] \in 1..EndIn(C)
      /\ \A b, a \in 1..n : b <= a => C[b] <= C[a]
  BY <1>1, CutEnds
<1>3. DOMAIN c \ LateArrivals(c) \subseteq PassingIn(c, C, d, e)
  <2>1. /\ \A p \in 1..Len(c) : c[p] = c[p]
        /\ Len(c) <= Len(c) /\ Len(c) <= EndIn(C) /\ d \in Int
    BY <1>1
  <2> HIDE DEF d
  <2>2. \A x \in Int : x > 0 => DOMAIN c \ LateArrivals(c) \subseteq PassingIn(c, C, x, e)
    BY <1>1, <2>1, ArmKeeps
  <2> QED
    BY <1>1, <2>1, <2>2
<1>4. ASSUME NEW p \in LateArrivals(c) PROVE p \notin PassingIn(c, C, d, e)
  <2>1. p \in 1..Len(c) /\ c[p].at \in Nat
    BY <1>1 DEF LateArrivals, Feed
  <2>2. MarginOf(c, k, p) \in Int /\ MarginOf(c, k, p) # Unreachable /\ d < MarginOf(c, k, p)
    BY DelaysAre
  <2> SUFFICES ASSUME NEW b \in 1..n, StartIn(C, b) < p, p <= C[b]
               PROVE  BehindIn(c, C, d, e, c[p].at, b - 2)
    BY <1>2 DEF PassingIn
  <2>3. (b - 1) * k < p /\ p <= b * k
    <3>1. C[b] <= b * k
      BY <1>2 DEF Cut
    <3>2. StartIn(C, b) = (b - 1) * k
      <4>1. CASE b = 1
        <5>1. 0 * k = 0
          OBVIOUS
        <5> QED
          BY <4>1, <5>1 DEF StartIn
      <4>2. CASE b # 1
        <5>1. b - 1 \in 1..n /\ b - 1 < n
          BY <1>2, <4>2
        <5> QED
          BY <1>2, <4>2, <5>1 DEF StartIn, Cut
      <4> QED
        BY <4>1, <4>2
    <3>3. C[b] \in Nat /\ b * k \in Nat
      BY <1>1, <1>2
    <3> QED
      BY <2>1, <3>1, <3>2, <3>3
  <2>4. (p - 1) \div k + 1 = b
    BY <1>2, <2>1, <2>3, BatchOf
  <2>5. Frontier(c, k, b) # Unreachable /\ MarginOf(c, k, p) = Frontier(c, k, b) - c[p].at
    BY <2>2, <2>4 DEF MarginOf
  <2>6. b > LagBatches /\ b - 2 \in 1..n /\ b - 2 < n
    <3>1. ~ b <= LagBatches
      BY <2>5 DEF Frontier
    <3> QED
      BY <1>2, <3>1 DEF LagBatches
  <2>7. C[b - 2] = (b - 2) * k /\ C[b - 2] \in 1..Len(c)
    BY <1>2, <2>6 DEF Cut
  <2>8. /\ Frontier(c, k, b) \in Nat
        /\ \E q \in 1..C[b - 2] : Frontier(c, k, b) = c[q].at
        /\ \A q \in 1..C[b - 2] : c[q].at <= Frontier(c, k, b)
    <3>1. Len(c) > 0 /\ (b - 2) * k <= Len(c) /\ b \in Nat
      BY <1>1, <1>2, <2>1, <2>7
    <3> QED
      BY <1>1, <2>6, <2>7, <3>1, FrontierIs
  <2>9. NewestIn(c, C, b - 2) = Frontier(c, k, b)
    <3>1. C[b - 2] \in 0..Len(c)
      BY <1>1, <2>7
    <3>2. /\ NewestIn(c, C, b - 2) \in Nat \cup {Unreachable}
          /\ \A q \in 1..C[b - 2] : c[q].at <= NewestIn(c, C, b - 2)
          /\ \/ NewestIn(c, C, b - 2) = Unreachable
             \/ \E q \in 1..C[b - 2] : NewestIn(c, C, b - 2) = c[q].at
      BY <1>1, <3>1, NewestIs
    <3>3. Frontier(c, k, b) <= NewestIn(c, C, b - 2)
      BY <2>8, <3>2
    <3>4. NewestIn(c, C, b - 2) # Unreachable
      BY <2>8, <3>2, <3>3 DEF Unreachable
    <3>5. NewestIn(c, C, b - 2) <= Frontier(c, k, b)
      BY <2>8, <3>2, <3>4
    <3>6. NewestIn(c, C, b - 2) \in Nat
      BY <3>2, <3>4
    <3> QED
      BY <2>8, <3>3, <3>5, <3>6
  <2>10. c[p].at < Frontier(c, k, b) - d
    <3> DEFINE x == Frontier(c, k, b)
               y == c[p].at
    <3>1. x \in Int /\ y \in Int /\ d < x - y
      BY <2>1, <2>2, <2>5, <2>8
    <3>2. d \in Int
      BY <1>1
    <3> HIDE DEF x, y, d
    <3>3. y < x - d
      BY <3>1, <3>2
    <3> QED
      BY <3>3 DEF x, y
  <2> HIDE DEF d
  <2> QED
    BY <1>2, <2>5, <2>6, <2>9, <2>10 DEF BehindIn
<1>5. PassingIn(c, C, d, e) \subseteq DOMAIN c
  BY <1>1 DEF PassingIn
<1> QED
  BY <1>3, <1>4, <1>5

\* As many rows as identities, where no two rows share one.
LEMMA CountRows ==
  ASSUME NEW L \in Seq(Records), \A i, j \in DOMAIN L : L[i].id = L[j].id => i = j
  PROVE  IsFiniteSet(IdsOf(L)) /\ Len(L) = Cardinality(IdsOf(L))
<1> DEFINE f == [i \in DOMAIN L |-> L[i].id]
<1>1. f \in Bijection(DOMAIN L, IdsOf(L))
  BY DEF Bijection, Injection, Surjection, IsInjective, IdsOf
<1>2. DOMAIN L = 1..Len(L) /\ Len(L) \in Nat
  OBVIOUS
<1>3. IsFiniteSet(DOMAIN L) /\ Cardinality(DOMAIN L) = Len(L)
  BY <1>2, FS_Interval
<1>4. ExistsBijection(DOMAIN L, IdsOf(L))
  <2> HIDE DEF f
  <2> QED
    BY <1>1 DEF ExistsBijection
<1> QED
  BY <1>3, <1>4, FS_Bijection

\* If the arms differ by as many rows as there are late identities, they differ by
\* the late identities.
LEMMA ExactlyTheLate ==
  ASSUME NEW K, NEW D, NEW late, IsFiniteSet(K), D \subseteq K, late \subseteq K, K \ late \subseteq D,
         Cardinality(K) - Cardinality(D) = Cardinality(late)
  PROVE  K \ D = late
<1>1. K \ D \subseteq late
  OBVIOUS
<1>2. IsFiniteSet(late) /\ K \cap D = D
  BY FS_Subset
<1>3. Cardinality(K \ D) = Cardinality(K) - Cardinality(D)
  <2>1. Cardinality(K \ D) = Cardinality(K) - Cardinality(K \cap D)
    BY FS_Difference
  <2> QED
    BY <1>2, <2>1
<1> QED
  BY <1>1, <1>2, <1>3, FS_Subset

-----------------------------------------------------------------------------
(* The two arms.                                                           *)

\* Every record of s is one of the corpus c.
Within(c, s) == \A i \in DOMAIN s : \E j \in DOMAIN c : s[i] = c[j]

MeasureTypes ==
  /\ limit \in Nat \ {0} /\ inclusive \in BOOLEAN /\ readable \in Nat
  /\ stage \in {"idle", "dropping", "keeping", "judge"}
  /\ boundary.dropping \in Int /\ boundary.keeping \in Int
  /\ landed \in [Arms -> Seq(Records)] /\ state \in [Arms -> SUBSET Records]
  /\ cuts \in [Arms -> Seq(Nat)] /\ DOMAIN reading = Arms

ArmsRead ==
  \A a \in Arms : /\ Cut(feed, cuts[a], limit)
                  /\ Lands(feed, cuts[a], landed[a], state[a], DelayOf(a), inclusive)

Derived ==
  stage # "idle" => \E k \in Limits : Accepted(corpus, k) /\ boundary = BoundaryFor(corpus, k)

\* The running arm has read whole batches, or all it is going to.
Going ==
  stage \in Arms =>
    /\ EndIn(cuts[stage]) <= readable /\ readable <= Len(feed)
    /\ EndIn(cuts[stage]) < readable => EndIn(cuts[stage]) = Len(cuts[stage]) * limit

\* What is not run yet is not read yet.
Unread ==
  /\ stage = "dropping" => cuts["keeping"] = <<>> /\ \A a \in Arms : reading[a] = NoReading
  /\ stage = "keeping" => reading["keeping"] = NoReading

\* An arm that ended read the whole corpus.
ReadWhole ==
  /\ stage # "idle" => Len(corpus) <= readable
  /\ stage \in {"keeping", "judge"} => Len(corpus) <= EndIn(cuts["dropping"])
  /\ stage = "judge" => Len(corpus) <= EndIn(cuts["keeping"])

Told ==
  proven # NoProof =>
    /\ feed # <<>>
    /\ base = 0 => IdsOf(proven["keeping"]) \ IdsOf(proven["dropping"]) = LateIds

MeasureInv ==
  /\ PublishInv
  /\ MeasureTypes /\ Within(corpus, feed) /\ Within(corpus, queue)
  /\ ArmsRead /\ Derived /\ Going /\ Unread /\ ReadWhole /\ Told /\ ReadingIsTheRun

LEMMA FeedIs ==
  ASSUME NEW c \in Corpora, NEW F \in Seq(Records), Within(c, F)
  PROVE  Feed(F)
<1>1. ASSUME NEW p \in DOMAIN F PROVE \E j \in DOMAIN c : F[p] = c[j]
  BY DEF Within
<1>2. \A i, j \in DOMAIN c : c[i].at \in Nat /\ (c[i].id = c[j].id => c[i] = c[j])
  BY CorpusAssumption DEF IsCorpus
<1>3. \A p \in DOMAIN F : F[p].at \in Nat
  BY <1>1, <1>2
<1>4. ASSUME NEW p \in DOMAIN F, NEW q \in DOMAIN F, F[p].id = F[q].id PROVE F[p] = F[q]
  <2>1. PICK i \in DOMAIN c : F[p] = c[i]
    BY <1>1
  <2>2. PICK j \in DOMAIN c : F[q] = c[j]
    BY <1>1
  <2> QED
    BY <1>2, <1>4, <2>1, <2>2
<1> QED
  BY <1>3, <1>4 DEF Feed

\* More of the corpus on the topic.
LEMMA Longer ==
  ASSUME NEW c, NEW F \in Seq(Records), NEW more \in Seq(Records), Within(c, F), Within(c, more)
  PROVE  /\ F \o more \in Seq(Records) /\ Within(c, F \o more)
         /\ Len(F) <= Len(F \o more) /\ \A p \in 1..Len(F) : (F \o more)[p] = F[p]
<1>1. /\ F \o more \in Seq(Records) /\ Len(F) \in Nat /\ Len(more) \in Nat
      /\ DOMAIN F = 1..Len(F) /\ DOMAIN more = 1..Len(more)
      /\ Len(F \o more) = Len(F) + Len(more)
      /\ \A i \in 1..Len(F) : (F \o more)[i] = F[i]
      /\ \A i \in 1..Len(more) : (F \o more)[Len(F) + i] = more[i]
      /\ \A i \in DOMAIN (F \o more) : i \in 1..Len(F) \/ i - Len(F) \in 1..Len(more)
      /\ \A i \in DOMAIN (F \o more) : Len(F) + (i - Len(F)) = i
  OBVIOUS
<1>2. ASSUME NEW i \in DOMAIN (F \o more) PROVE \E j \in DOMAIN c : (F \o more)[i] = c[j]
  <2>1. CASE i \in 1..Len(F)
    BY <1>1, <2>1 DEF Within
  <2>2. CASE i - Len(F) \in 1..Len(more)
    <3>1. (F \o more)[i] = more[i - Len(F)]
      BY <1>1, <2>2
    <3> QED
      BY <1>1, <2>2, <3>1 DEF Within
  <2> QED
    BY <1>1, <2>1, <2>2
<1> QED
  BY <1>1, <1>2 DEF Within

LEMMA OneMore ==
  ASSUME NEW c, NEW F \in Seq(Records), NEW r \in Records, Within(c, F),
         \E j \in DOMAIN c : r = c[j]
  PROVE  /\ Append(F, r) \in Seq(Records) /\ Within(c, Append(F, r))
         /\ Len(F) <= Len(Append(F, r)) /\ \A p \in 1..Len(F) : Append(F, r)[p] = F[p]
<1>1. <<r>> \in Seq(Records) /\ Within(c, <<r>>)
  BY DEF Within
<1>2. Append(F, r) = F \o <<r>>
  OBVIOUS
<1>3. /\ F \o <<r>> \in Seq(Records) /\ Within(c, F \o <<r>>)
      /\ Len(F) <= Len(F \o <<r>>) /\ \A p \in 1..Len(F) : (F \o <<r>>)[p] = F[p]
  BY <1>1, Longer
<1> QED
  BY <1>2, <1>3, Zenon

\* A step leaves the corpus, and adds to the topic what is the corpus's.
LEMMA TopicStep ==
  ASSUME MeasureInv, [EventNext]_<<producerVars, eventVars>>
  PROVE  /\ corpus' = corpus /\ Within(corpus, feed') /\ Within(corpus, queue')
         /\ Len(feed) <= Len(feed') /\ \A p \in 1..Len(feed) : feed'[p] = feed[p]
<1>1. /\ feed \in Seq(Records) /\ queue \in Seq(Records) /\ corpus \in Seq(Records)
      /\ Within(corpus, feed) /\ Within(corpus, queue) /\ offered \in Nat
      /\ Len(feed) \in Nat
  BY DEF MeasureInv, PublishInv, PublishTypes
<1>2. CASE UNCHANGED <<corpus, feed, queue>>
  BY <1>1, <1>2
<1>3. ASSUME queue # <<>>
      PROVE  /\ Head(queue) \in Records /\ \E j \in DOMAIN corpus : Head(queue) = corpus[j]
             /\ Within(corpus, Tail(queue))
  <2>1. /\ Head(queue) = queue[1] /\ Head(queue) \in Records /\ 1 \in DOMAIN queue
        /\ \A i \in DOMAIN Tail(queue) : i + 1 \in DOMAIN queue /\ Tail(queue)[i] = queue[i + 1]
    BY <1>1, <1>3
  <2> QED
    BY <1>1, <2>1 DEF Within
<1>4. CASE Deliver
  <2>1. queue # <<>> /\ feed' = Append(feed, Head(queue)) /\ queue' = Tail(queue) /\ corpus' = corpus
    BY <1>4 DEF Deliver
  <2>2. /\ Within(corpus, Append(feed, Head(queue))) /\ Len(feed) <= Len(Append(feed, Head(queue)))
        /\ \A p \in 1..Len(feed) : Append(feed, Head(queue))[p] = feed[p]
    BY <1>1, <1>3, <2>1, OneMore
  <2> QED
    BY <1>3, <2>1, <2>2
<1>5. CASE GiveUp
  BY <1>1, <1>3, <1>5 DEF GiveUp
<1>6. CASE Offer
  <2>1. /\ queue' = Append(queue, corpus[offered + 1]) /\ UNCHANGED <<corpus, feed>>
        /\ offered + 1 \in DOMAIN corpus /\ corpus[offered + 1] \in Records
    BY <1>1, <1>6 DEF Offer
  <2>2. Within(corpus, Append(queue, corpus[offered + 1]))
    BY <1>1, <2>1, OneMore
  <2> QED
    BY <1>1, <2>1, <2>2
<1>7. ASSUME CloseClient, corpus' = corpus
      PROVE  /\ Within(corpus, feed') /\ Within(corpus, queue')
             /\ Len(feed) <= Len(feed') /\ \A p \in 1..Len(feed) : feed'[p] = feed[p]
  <2>1. PICK n \in 0..Len(queue) : feed' = feed \o SubSeq(queue, 1, n)
    BY <1>7 DEF CloseClient
  <2> DEFINE more == SubSeq(queue, 1, n)
  <2>2. more \in Seq(Records) /\ Within(corpus, more)
    <3>1. /\ more \in Seq(Records)
          /\ \A i \in DOMAIN more : i \in DOMAIN queue /\ more[i] = queue[i]
      BY <1>1
    <3> HIDE DEF more
    <3> QED
      BY <1>1, <3>1 DEF Within
  <2>3. Within(corpus, queue')
    BY <1>7 DEF CloseClient, Within
  <2> HIDE DEF more
  <2>4. /\ Within(corpus, feed \o more) /\ Len(feed) <= Len(feed \o more)
        /\ \A p \in 1..Len(feed) : (feed \o more)[p] = feed[p]
    BY <1>1, <2>2, Longer
  <2> QED
    BY <2>1, <2>3, <2>4 DEF more
<1>8. CASE Poll
  <2>1. corpus' = corpus /\ (UNCHANGED <<feed, queue>> \/ CloseClient)
    BY <1>8 DEF Poll
  <2> QED
    BY <1>1, <1>7, <2>1
<1>9. CASE FlushReturns
  <2>1. corpus' = corpus /\ CloseClient
    BY <1>9 DEF FlushReturns
  <2> QED
    BY <1>7, <2>1
<1>10. CASE Intrude
  <2>1. feed' = Append(feed, Head(corpus)) /\ UNCHANGED <<corpus, queue>> /\ published > 0
    BY <1>10 DEF Intrude, Arms, MeasureInv, PublishInv
  <2>2. Len(corpus) > 0
    BY <2>1 DEF MeasureInv, PublishInv, OnTheTopic
  <2>3. Head(corpus) \in Records /\ Head(corpus) = corpus[1] /\ 1 \in DOMAIN corpus
    BY <1>1, <2>2
  <2>4. /\ Within(corpus, Append(feed, Head(corpus))) /\ Len(feed) <= Len(Append(feed, Head(corpus)))
        /\ \A p \in 1..Len(feed) : Append(feed, Head(corpus))[p] = feed[p]
    BY <1>1, <2>3, OneMore
  <2> QED
    BY <1>1, <2>1, <2>4
<1>11. CASE \/ ServeReport \/ Publish \/ Flush \/ ProveBoundary \/ Judge \/ ArmFails
            \/ \E a \in Arms : RunBatch(a) \/ EndArm(a)
  <2>1. UNCHANGED <<corpus, feed, queue>>
    BY <1>11 DEF ServeReport, Publish, Flush, ProveBoundary, Judge, ArmFails, RunBatch, EndArm,
       producerVars
  <2> QED
    BY <1>2, <2>1
<1> QED
  BY <1>2, <1>4, <1>5, <1>6, <1>8, <1>9, <1>10, <1>11 DEF EventNext, ProducerNext, producerVars

LEMMA InitMeasure == ProducerInit /\ EventInit => MeasureInv
<1> SUFFICES ASSUME ProducerInit, EventInit PROVE MeasureInv
  OBVIOUS
<1>1. PublishInv
  BY InitPublish
<1>2. /\ feed = <<>> /\ queue = <<>> /\ stage = "idle" /\ limit = 1 /\ proven = NoProof
      /\ cuts = [a \in Arms |-> <<>>] /\ landed = [a \in Arms |-> <<>>]
      /\ state = [a \in Arms |-> {}] /\ reading = [a \in Arms |-> NoReading]
      /\ readable = 0 /\ inclusive = TRUE /\ boundary = NoBoundary
  BY DEF ProducerInit, EventInit
<1>3. MeasureTypes
  BY <1>2 DEF MeasureTypes, NoBoundary
<1>4. Within(corpus, feed) /\ Within(corpus, queue)
  BY <1>2 DEF Within
<1>5. ASSUME NEW k, NEW d, NEW e
      PROVE  Cut(<<>>, <<>>, k) /\ Lands(<<>>, <<>>, <<>>, {}, d, e)
  BY DEF Cut, Lands, EndIn, IdsOf, PassingIn
<1>6. ArmsRead
  BY <1>2, <1>5 DEF ArmsRead
<1>7. Derived /\ Going /\ Unread /\ ReadWhole /\ Told
  BY <1>2 DEF Derived, Going, Unread, ReadWhole, Told, Arms
<1>8. ReadingIsTheRun
  BY <1>2 DEF ReadingIsTheRun
<1> QED
  BY <1>1, <1>3, <1>4, <1>6, <1>7, <1>8 DEF MeasureInv

\* Steps that run no batch leave the arms as they are, whatever the topic gains.
LEMMA ArmsStay ==
  ASSUME MeasureInv, [EventNext]_<<producerVars, eventVars>>, PublishInv',
         UNCHANGED <<cuts, landed, state, limit, inclusive, boundary>>
  PROVE  ArmsRead'
<1>1. /\ corpus \in Corpora /\ feed \in Seq(Records) /\ feed' \in Seq(Records)
      /\ Within(corpus, feed) /\ Within(corpus, feed')
      /\ Len(feed) <= Len(feed') /\ \A p \in 1..Len(feed) : feed'[p] = feed[p]
  BY TopicStep DEF MeasureInv, PublishInv, PublishTypes
<1>2. Feed(feed) /\ Feed(feed')
  BY <1>1, FeedIs
<1>3. ASSUME NEW a \in Arms
      PROVE  /\ Cut(feed', cuts[a], limit)
             /\ Lands(feed', cuts[a], landed[a], state[a], DelayOf(a), inclusive)
  <2>1. DelayOf(a) \in Int
    BY DEF DelayOf, MeasureInv, MeasureTypes
  <2>2. /\ Cut(feed, cuts[a], limit)
        /\ Lands(feed, cuts[a], landed[a], state[a], DelayOf(a), inclusive)
    BY DEF MeasureInv, ArmsRead
  <2> QED
    BY <1>1, <1>2, <2>1, <2>2, ArmGrows
<1>4. \A a : DelayOf(a)' = DelayOf(a)
  BY DEF DelayOf
<1> QED
  BY <1>3, <1>4 DEF ArmsRead

\* What the code computes of an arm, from its feed and its batches.
LEMMA BehindIs ==
  ASSUME NEW a, NEW ts, NEW n \in Int
  PROVE  Behind(a, ts, n) <=> BehindIn(feed, cuts[a], DelayOf(a), inclusive, ts, n)
<1>1. CASE n <= 0
  BY <1>1 DEF Behind, BehindIn
<1>2. CASE n > 0
  <2>1. Newest(a, n) = NewestIn(feed, cuts[a], n)
    <3>1. (IF n = 0 THEN 0 ELSE cuts[a][n]) = cuts[a][n]
      BY <1>2
    <3> QED
      BY <3>1 DEF Newest, NewestIn
  <2>2. ~ n <= 0
    BY <1>2
  <2> HIDE DEF Unreachable
  <2> QED
    BY <1>2, <2>1, <2>2 DEF Behind, BehindIn
<1> QED
  BY <1>1, <1>2

LEMMA ConsumedIs == \A a : Consumed(a) = EndIn(cuts[a])
BY DEF Consumed, EndIn

\* A batch of the code is a batch of the arm.
LEMMA RunStep ==
  ASSUME MeasureInv, NEW a \in Arms, RunBatch(a)
  PROVE  /\ ArmsRead' /\ Going'
         /\ EndIn(cuts[a]) <= EndIn(cuts'[a])
         /\ landed' \in [Arms -> Seq(Records)] /\ state' \in [Arms -> SUBSET Records]
         /\ cuts' \in [Arms -> Seq(Nat)]
         /\ \A b \in Arms : b # a => cuts'[b] = cuts[b]
<1> DEFINE C == cuts[a]
           S == state[a]
           d == DelayOf(a)
           end == Min({EndIn(C) + limit, readable})
           passes == PassesOf(feed, C, d, inclusive, end)
           first == FirstOf(feed, S, passes)
           added == InOrder(feed, first)
           held == HeldOf(feed, C, S, d, inclusive, first)
<1>1. /\ corpus \in Corpora /\ feed \in Seq(Records) /\ Within(corpus, feed)
      /\ limit \in Nat \ {0} /\ inclusive \in BOOLEAN /\ readable \in Nat /\ d \in Int
      /\ C \in Seq(Nat) /\ Len(C) \in Nat
  BY DEF MeasureInv, MeasureTypes, PublishInv, PublishTypes, DelayOf
<1>2. Feed(feed)
  BY <1>1, FeedIs
<1>3. /\ stage = a /\ EndIn(C) < readable
      /\ UNCHANGED <<boundary, limit, inclusive, stage, readable, feed>>
  BY ConsumedIs DEF RunBatch, producerVars
<1>4. /\ Cut(feed, C, limit) /\ Lands(feed, C, landed[a], S, d, inclusive)
      /\ EndIn(C) = Len(C) * limit /\ readable <= Len(feed)
  BY <1>3 DEF MeasureInv, ArmsRead, Going
<1>5. EndIn(C) \in Nat /\ Len(feed) \in Nat
  BY <1>1, <1>2, <1>4, CutEnds
<1>6. /\ end = IF EndIn(C) + limit <= readable THEN EndIn(C) + limit ELSE readable
      /\ end \in 1..Len(feed) /\ EndIn(C) < end /\ end <= EndIn(C) + limit /\ end <= readable
      /\ end < readable => end = EndIn(C) + limit
  <2>1. end = IF EndIn(C) + limit <= readable THEN EndIn(C) + limit ELSE readable
    BY <1>1, <1>5, LeastOfTwo
  <2>2. /\ limit \in Nat \ {0} /\ readable \in Nat /\ EndIn(C) \in Nat /\ Len(feed) \in Nat
        /\ EndIn(C) < readable /\ readable <= Len(feed)
    BY <1>1, <1>3, <1>4, <1>5
  <2> HIDE DEF end
  <2> QED
    BY <2>1, <2>2
\* The sets of the code.
<1>7. /\ {p \in Consumed(a) + 1..Min({Consumed(a) + limit, readable}) :
            ~ Behind(a, feed[p].at, Len(cuts[a]) - 1)} = passes
      /\ {r \in S \cup {feed[p] : p \in first} : ~ Behind(a, r.at, Len(cuts[a]))} = held
  <2>1. Consumed(a) = EndIn(C)
    BY ConsumedIs
  <2>2. \A ts : Behind(a, ts, Len(C) - 1) <=> BehindIn(feed, C, d, inclusive, ts, Len(C) - 1)
    BY <1>1, BehindIs
  <2>3. \A ts : Behind(a, ts, Len(C)) <=> BehindIn(feed, C, d, inclusive, ts, Len(C))
    BY <1>1, BehindIs
  <2> HIDE DEF end
  <2>4. {p \in Consumed(a) + 1..end : ~ Behind(a, feed[p].at, Len(cuts[a]) - 1)} = passes
    BY <2>1, <2>2 DEF PassesOf
  <2> HIDE DEF first
  <2>5. {r \in S \cup {feed[p] : p \in first} : ~ Behind(a, r.at, Len(cuts[a]))} = held
    BY <2>3 DEF HeldOf
  <2> QED
    BY <2>1, <2>4, <2>5 DEF end
<1>8. /\ landed' = [landed EXCEPT ![a] = @ \o added]
      /\ state' = [state EXCEPT ![a] = held]
      /\ cuts' = [cuts EXCEPT ![a] = Append(@, end)]
  <2> DEFINE P == {p \in Consumed(a) + 1..Min({Consumed(a) + limit, readable}) :
                     ~ Behind(a, feed[p].at, Len(cuts[a]) - 1)}
             Q == {p \in P : /\ \A r \in state[a] : r.id # feed[p].id
                             /\ \A q \in P : q < p => feed[q].id # feed[p].id}
  <2>1. /\ landed' = [landed EXCEPT ![a] = @ \o [i \in 1..Cardinality(Q) |->
                        feed[CHOOSE p \in Q : Cardinality({q \in Q : q <= p}) = i]]]
        /\ state' = [state EXCEPT ![a] =
                        {r \in @ \cup {feed[p] : p \in Q} : ~Behind(a, r.at, Len(cuts[a]))}]
        /\ cuts' = [cuts EXCEPT ![a] = Append(@, Min({Consumed(a) + limit, readable}))]
    BY DEF RunBatch
  <2>2. Q = first
    <3>1. P = passes
      BY <1>7
    <3> HIDE DEF P, passes
    <3> QED
      BY <3>1 DEF FirstOf
  <2>3. Min({Consumed(a) + limit, readable}) = end
    BY ConsumedIs
  <2> HIDE DEF Q, first, end
  <2>4. [i \in 1..Cardinality(Q) |-> feed[CHOOSE p \in Q : Cardinality({q \in Q : q <= p}) = i]] = added
    BY <2>2 DEF InOrder, AtRank
  <2>5. {r \in state[a] \cup {feed[p] : p \in Q} : ~Behind(a, r.at, Len(cuts[a]))} = held
    BY <1>7, <2>2
  <2> HIDE DEF added, held
  <2> QED
    BY <2>1, <2>3, <2>4, <2>5
<1>9. /\ Cut(feed, Append(C, end), limit)
      /\ Lands(feed, Append(C, end), landed[a] \o added, held, d, inclusive)
  <2> HIDE DEF end, d, C, S
  <2> QED
    BY <1>1, <1>2, <1>4, <1>6, ArmRuns
<1> HIDE DEF added, held, end, first, passes
<1>10. /\ cuts'[a] = Append(C, end) /\ landed'[a] = landed[a] \o added /\ state'[a] = held
       /\ \A b \in Arms : b # a => cuts'[b] = cuts[b] /\ landed'[b] = landed[b] /\ state'[b] = state[b]
  BY <1>8 DEF MeasureInv, MeasureTypes
<1>11. /\ landed[a] \o added \in Seq(Records) /\ held \subseteq Records /\ Append(C, end) \in Seq(Nat)
  <2>1. landed[a] \o added \in Seq(Records)
    BY <1>9 DEF Lands
  <2>2. \A r \in held : \E i \in DOMAIN (landed[a] \o added) : r = (landed[a] \o added)[i]
    BY <1>9 DEF Lands
  <2>3. \A i \in DOMAIN (landed[a] \o added) : (landed[a] \o added)[i] \in Records
    <3> DEFINE M == landed[a] \o added
    <3> HIDE DEF M
    <3>1. M \in Seq(Records) => \A i \in DOMAIN M : M[i] \in Records
      OBVIOUS
    <3> QED
      BY <2>1, <3>1 DEF M
  <2> QED
    BY <1>9, <2>1, <2>2, <2>3 DEF Cut
<1>12. \A b : DelayOf(b)' = DelayOf(b)
  BY <1>3 DEF DelayOf
<1>13. ArmsRead'
  <2> SUFFICES ASSUME NEW b \in Arms
               PROVE  /\ Cut(feed, cuts'[b], limit)
                      /\ Lands(feed, cuts'[b], landed'[b], state'[b], DelayOf(b), inclusive)
    BY <1>3, <1>12 DEF ArmsRead
  <2>1. CASE b = a
    BY <1>9, <1>10, <2>1
  <2>2. CASE b # a
    BY <1>10, <2>2 DEF MeasureInv, ArmsRead
  <2> QED
    BY <2>1, <2>2
<1>14. Len(Append(C, end)) = Len(C) + 1 /\ EndIn(Append(C, end)) = end
  <2>1. end \in Nat
    BY <1>5, <1>6
  <2> QED
    BY <1>1, <2>1 DEF EndIn
<1>15. Going'
  <2>1. (Len(C) + 1) * limit = Len(C) * limit + limit
    BY <1>1
  <2>2. stage' = a /\ EndIn(cuts'[a]) = end /\ Len(cuts'[a]) = Len(C) + 1
    BY <1>3, <1>10, <1>14
  <2> HIDE DEF C
  <2> QED
    BY <1>3, <1>4, <1>6, <2>1, <2>2 DEF Going
<1>16. EndIn(cuts[a]) <= EndIn(cuts'[a])
  BY <1>5, <1>6, <1>10, <1>14
<1> QED
  BY <1>8, <1>10, <1>11, <1>13, <1>15, <1>16 DEF MeasureInv, MeasureTypes

\* A proof starts: nothing is read, and the whole corpus is on the topic.
LEMMA ProveStep ==
  ASSUME MeasureInv, ProveBoundary
  PROVE  /\ MeasureTypes' /\ ArmsRead' /\ Derived' /\ Going' /\ Unread' /\ ReadWhole' /\ Told'
         /\ ReadingIsTheRun'
<1>1. /\ stage' = "dropping" /\ readable' = Len(feed) /\ limit' \in Limits /\ inclusive' \in BOOLEAN
      /\ landed' = [a \in Arms |-> <<>>] /\ state' = [a \in Arms |-> {}]
      /\ cuts' = [a \in Arms |-> <<>>] /\ reading' = [a \in Arms |-> NoReading]
      /\ proven' = NoProof /\ UNCHANGED <<corpus, feed, base>>
      /\ \E k \in Limits : Accepted(corpus, k) /\ boundary' = BoundaryFor(corpus, k)
      /\ published > 0
  BY DEF ProveBoundary, producerVars
<1>2. Limits \subseteq Nat \ {0} /\ corpus \in Corpora /\ feed \in Seq(Records)
  BY EventTimeAssumption DEF MeasureInv, PublishInv, PublishTypes
<1>3. boundary'.dropping \in Int /\ boundary'.keeping \in Int
  <2>1. PICK k \in Limits : Accepted(corpus, k) /\ boundary' = BoundaryFor(corpus, k)
    BY <1>1
  <2>2. boundary'.dropping = DroppingDelay(corpus, k) /\ boundary'.keeping = LateBy
    BY <2>1 DEF BoundaryFor
  <2>3. DroppingDelay(corpus, k) \in Nat /\ LateBy \in Nat
    BY <1>2, <2>1, DelaysAre
  <2> QED
    BY <2>2, <2>3
<1>4. Len(corpus) <= Len(feed) /\ Len(feed) \in Nat
  <2>1. published = Len(corpus) /\ base + published <= Len(feed) /\ base \in Nat /\ published \in Nat
    BY <1>1 DEF MeasureInv, PublishInv, PublishTypes, OnTheTopic
  <2> QED
    BY <1>2, <2>1
<1>5. MeasureTypes'
  BY <1>1, <1>2, <1>3, <1>4 DEF MeasureTypes
<1>6. ASSUME NEW k, NEW d, NEW e
      PROVE  Cut(feed, <<>>, k) /\ Lands(feed, <<>>, <<>>, {}, d, e)
  BY <1>4 DEF Cut, Lands, EndIn, IdsOf, PassingIn
<1>7. ArmsRead'
  <2> SUFFICES ASSUME NEW a \in Arms
               PROVE  /\ Cut(feed, cuts'[a], limit')
                      /\ Lands(feed, cuts'[a], landed'[a], state'[a], DelayOf(a)', inclusive')
    BY <1>1 DEF ArmsRead
  <2> QED
    BY <1>1, <1>6
<1>8. Derived'
  BY <1>1 DEF Derived
<1>9. EndIn(<<>>) = 0 /\ Len(<<>>) = 0 /\ 0 * limit' = 0
  <2>1. limit' \in Nat
    BY <1>5 DEF MeasureTypes
  <2>2. \A x \in Nat : 0 * x = 0
    OBVIOUS
  <2>3. EndIn(<<>>) = 0 /\ Len(<<>>) = 0
    BY DEF EndIn
  <2> QED
    BY <2>1, <2>2, <2>3
<1>10. Going' /\ Unread' /\ ReadWhole' /\ Told'
  <2>1. cuts'["dropping"] = <<>> /\ cuts'["keeping"] = <<>>
    BY <1>1 DEF Arms
  <2> QED
    BY <1>1, <1>4, <1>9, <2>1 DEF Going, Unread, ReadWhole, Told
<1>11. ReadingIsTheRun'
  BY <1>1 DEF ReadingIsTheRun
<1> QED
  BY <1>5, <1>7, <1>8, <1>10, <1>11

\* An arm ends: it read what was readable, and what it reports is the whole run
\* unless updates were lost unseen.
LEMMA EndStep ==
  ASSUME MeasureInv, NEW a \in Arms, EndArm(a), ArmsRead'
  PROVE  /\ MeasureTypes' /\ Derived' /\ Going' /\ Unread' /\ ReadWhole' /\ Told'
         /\ ReadingIsTheRun'
<1>1. /\ stage = a /\ EndIn(cuts[a]) = readable
      /\ UNCHANGED <<boundary, limit, inclusive, capRead, landed, state, cuts, proven, corpus, feed,
                     base>>
  BY ConsumedIs DEF EndArm, producerVars
<1>2. /\ corpus \in Corpora /\ feed \in Seq(Records) /\ Len(feed) \in Nat /\ Len(corpus) \in Nat
      /\ Len(corpus) <= Len(feed) /\ Len(corpus) <= readable
  <2>1. published > 0 /\ stage # "idle"
    BY <1>1 DEF MeasureInv, PublishInv, Arms
  <2>2. published = Len(corpus) /\ base + published <= Len(feed) /\ base \in Nat /\ published \in Nat
    BY <2>1 DEF MeasureInv, PublishInv, PublishTypes, OnTheTopic
  <2> QED
    BY <2>1, <2>2 DEF MeasureInv, PublishInv, PublishTypes, ReadWhole
<1>3. Told'
  BY <1>1 DEF MeasureInv, Told, LateIds
<1>4. CASE Refuse
  <2>1. stage' = "idle" /\ UNCHANGED <<readable, reading>>
    BY <1>4 DEF Refuse
  <2>2. MeasureTypes' /\ Derived' /\ Going' /\ Unread' /\ ReadWhole'
    BY <1>1, <2>1 DEF MeasureInv, MeasureTypes, Derived, Going, Unread, ReadWhole, Arms
  <2>3. ReadingIsTheRun'
    BY <1>1, <2>1 DEF MeasureInv, ReadingIsTheRun, TruncationRuledOut, Consumed
  <2> QED
    BY <1>3, <2>2, <2>3
<1>5. CASE /\ ~ RingIsFull(a) /\ Reported(a).rows > 0
           /\ reading' = [reading EXCEPT ![a] = Reported(a)]
           /\ stage' = IF a = "dropping" THEN "keeping" ELSE "judge"
           /\ readable' = Len(feed)
  <2>1. stage' \in {"keeping", "judge"} /\ (stage' = "keeping" <=> a = "dropping")
        /\ (stage' = "judge" <=> a = "keeping")
    BY <1>5 DEF Arms
  <2>2. DOMAIN reading' = Arms
    BY <1>5 DEF MeasureInv, MeasureTypes
  <2>3. MeasureTypes'
    BY <1>1, <1>2, <1>5, <2>1, <2>2 DEF MeasureInv, MeasureTypes
  <2>4. Derived'
    BY <1>1 DEF MeasureInv, Derived, Arms
  <2>5. a = "dropping" => cuts["keeping"] = <<>> /\ reading["keeping"] = NoReading
    BY <1>1 DEF MeasureInv, Unread, Arms
  <2>6. Going'
    <3>1. CASE a = "dropping"
      <4>1. stage' = "keeping" /\ EndIn(cuts'["keeping"]) = 0 /\ Len(cuts'["keeping"]) = 0
        BY <1>1, <2>1, <2>5, <3>1 DEF EndIn
      <4>2. 0 * limit' = 0
        <5>1. limit' \in Nat
          BY <2>3 DEF MeasureTypes
        <5>2. \A x \in Nat : 0 * x = 0
          OBVIOUS
        <5> QED
          BY <5>1, <5>2
      <4> QED
        BY <1>1, <1>2, <1>5, <4>1, <4>2 DEF Going
    <3>2. CASE a = "keeping"
      BY <2>1, <3>2 DEF Going, Arms
    <3> QED
      BY <3>1, <3>2 DEF Arms
  <2>7. Unread'
    BY <1>5, <2>1, <2>5 DEF Unread, Arms, MeasureInv, MeasureTypes
  <2>8. ReadWhole'
    <3>1. stage' = "judge" => Len(corpus) <= EndIn(cuts["dropping"])
      BY <1>1, <2>1 DEF MeasureInv, ReadWhole
    <3> QED
      BY <1>1, <1>2, <1>5, <2>1, <3>1 DEF ReadWhole
  <2>9. ReadingIsTheRun'
    <3> SUFFICES ASSUME NEW b \in Arms, reading'[b] # NoReading, capRead \/ reading'[b].oldest = 1
                 PROVE  reading'[b].rows = EndIn(cuts[b])
      BY <1>1, ConsumedIs DEF ReadingIsTheRun, TruncationRuledOut, Consumed, EndIn
    <3>1. CASE b # a
      <4>1. reading'[b] = reading[b]
        BY <1>5, <3>1 DEF MeasureInv, MeasureTypes
      <4> QED
        BY <4>1, ConsumedIs DEF MeasureInv, ReadingIsTheRun, TruncationRuledOut
    <3>2. CASE b = a
      <4> DEFINE updates == Len(cuts[a]) + Eviction(a)
                 evicted == IF updates > Cap THEN Min({updates - Cap, Len(cuts[a])}) ELSE 0
      <4>1. reading'[a] = Reported(a)
        BY <1>5 DEF MeasureInv, MeasureTypes
      <4>2. /\ Reported(a).rows = EndIn(cuts[a]) - (IF evicted = 0 THEN 0 ELSE cuts[a][evicted])
            /\ Reported(a).oldest = evicted + 1
        BY ConsumedIs DEF Reported
      <4>3. Len(cuts[a]) \in Nat /\ Eviction(a) \in Nat /\ Cap \in Nat
        BY EventTimeAssumption DEF Eviction, MeasureInv, MeasureTypes
      <4>4. evicted \in Nat
        <5>1. updates > Cap => updates - Cap \in Nat
          BY <4>3
        <5>2. updates > Cap => Min({updates - Cap, Len(cuts[a])}) \in Nat
          BY <4>3, <5>1, LeastOfTwo
        <5> HIDE DEF updates
        <5> QED
          BY <5>2
      <4>5. evicted = 0
        <5>1. capRead => ~ updates >= Cap
          BY <1>5 DEF RingIsFull
        <5>2. CASE capRead
          BY <4>3, <5>1, <5>2
        <5>3. CASE Reported(a).oldest = 1
          <6> HIDE DEF evicted
          <6> QED
            BY <4>2, <4>4, <5>3
        <5> QED
          BY <3>2, <4>1, <5>2, <5>3
      <4>6. EndIn(cuts[a]) \in Nat
        BY <1>1 DEF MeasureInv, MeasureTypes
      <4> HIDE DEF evicted
      <4> QED
        BY <3>2, <4>1, <4>2, <4>5, <4>6
    <3> QED
      BY <3>1, <3>2
  <2> QED
    BY <1>3, <2>3, <2>4, <2>6, <2>7, <2>8, <2>9
<1> QED
  BY <1>4, <1>5 DEF EndArm

\* Each arm that read the corpus from the start of the topic landed its payments once:
\* the keeping arm all, the dropping arm all but late ones.
LEMMA ArmsLanded ==
  ASSUME MeasureInv, stage = "judge", Len(corpus) <= Len(feed),
         \A p \in 1..Len(corpus) : feed[p] = corpus[p]
  PROVE  /\ IdsOf(landed["keeping"]) = IdsOf(corpus)
         /\ IdsOf(landed["dropping"]) \subseteq IdsOf(corpus)
         /\ IdsOf(corpus) \ LateIds \subseteq IdsOf(landed["dropping"])
         /\ \A a \in Arms : Len(landed[a]) = Cardinality(IdsOf(landed[a]))
<1>1. /\ corpus \in Corpora /\ feed \in Seq(Records) /\ Within(corpus, feed)
      /\ DOMAIN feed = 1..Len(feed) /\ Len(feed) \in Nat
  BY DEF MeasureInv, PublishInv, PublishTypes
<1>2. Feed(feed) /\ DOMAIN corpus = 1..Len(corpus)
  BY <1>1, FeedIs, FiniteIds
<1>3. PICK k \in Limits : Accepted(corpus, k) /\ boundary = BoundaryFor(corpus, k)
  BY DEF MeasureInv, Derived
<1>4. k \in Nat \ {0}
  BY EventTimeAssumption
<1>5. /\ boundary.dropping = DroppingDelay(corpus, k) /\ boundary.keeping = LateBy
      /\ DroppingDelay(corpus, k) \in Nat /\ DroppingDelay(corpus, k) > 0
      /\ LateBy > 0
  BY <1>1, <1>3, <1>4, DelaysAre DEF BoundaryFor
<1>6. DelayOf("keeping") = LateBy /\ DelayOf("dropping") = DroppingDelay(corpus, k)
  BY <1>5 DEF DelayOf
<1>7. ASSUME NEW a \in Arms
      PROVE  /\ Cut(feed, cuts[a], limit) /\ Len(corpus) <= EndIn(cuts[a]) /\ EndIn(cuts[a]) \in 0..Len(feed)
             /\ landed[a] \in Seq(Records)
             /\ \A i, j \in DOMAIN landed[a] : landed[a][i].id = landed[a][j].id => i = j
             /\ IdsOf(landed[a]) =
                  {feed[p].id : p \in PassingIn(feed, cuts[a], DelayOf(a), inclusive)}
  <2>1. Cut(feed, cuts[a], limit) /\ Lands(feed, cuts[a], landed[a], state[a], DelayOf(a), inclusive)
    BY DEF MeasureInv, ArmsRead
  <2>2. EndIn(cuts[a]) \in 0..Len(feed)
    BY <1>2, <2>1, CutEnds
  <2>3. Len(corpus) <= EndIn(cuts[a])
    BY DEF MeasureInv, ReadWhole, Arms
  <2> QED
    BY <2>1, <2>2, <2>3 DEF Lands
<1>8. \A a \in Arms : Len(landed[a]) = Cardinality(IdsOf(landed[a]))
  BY <1>7, CountRows
<1>9. ASSUME NEW a \in Arms PROVE IdsOf(landed[a]) \subseteq IdsOf(corpus)
  <2>1. ASSUME NEW p \in PassingIn(feed, cuts[a], DelayOf(a), inclusive)
        PROVE  feed[p].id \in IdsOf(corpus)
    <3>1. p \in DOMAIN feed
      BY <1>1, <1>7 DEF PassingIn
    <3> QED
      BY <1>1, <3>1 DEF Within, IdsOf
  <2> QED
    BY <1>7, <2>1
<1>10. IdsOf(corpus) \subseteq IdsOf(landed["keeping"])
  <2>1. "keeping" \in Arms
    BY DEF Arms
  <2>2. DOMAIN corpus \subseteq PassingIn(feed, cuts["keeping"], LateBy, inclusive)
    BY <1>1, <1>2, <1>5, <1>7, <2>1, ArmKeeps
  <2>3. \A p \in DOMAIN corpus : corpus[p].id \in IdsOf(landed["keeping"])
    <3> TAKE p \in DOMAIN corpus
    <3>1. p \in PassingIn(feed, cuts["keeping"], DelayOf("keeping"), inclusive)
      BY <1>6, <2>2
    <3>2. feed[p] = corpus[p]
      BY <1>2
    <3>3. IdsOf(landed["keeping"])
            = {feed[q].id : q \in PassingIn(feed, cuts["keeping"], DelayOf("keeping"), inclusive)}
      BY <1>7, <2>1
    <3>4. feed[p].id \in {feed[q].id : q \in PassingIn(feed, cuts["keeping"], DelayOf("keeping"), inclusive)}
      BY <3>1
    <3>5. feed[p].id \in IdsOf(landed["keeping"])
      BY <3>3, <3>4
    <3> QED
      BY <3>2, <3>5
  <2> QED
    BY <2>3 DEF IdsOf
<1>11. IdsOf(corpus) \ LateIds \subseteq IdsOf(landed["dropping"])
  <2> DEFINE d == DroppingDelay(corpus, k)
  <2>1. "dropping" \in Arms /\ d \in Int /\ d > 0
    BY <1>5 DEF Arms
  <2> HIDE DEF d
  <2>2. DOMAIN corpus \ LateArrivals(corpus) \subseteq PassingIn(feed, cuts["dropping"], d, inclusive)
    <3>1. \A x \in Int : x > 0 => DOMAIN corpus \ LateArrivals(corpus)
                                    \subseteq PassingIn(feed, cuts["dropping"], x, inclusive)
      BY <1>1, <1>2, <1>7, <2>1, ArmKeeps
    <3> QED
      BY <2>1, <3>1
  <2>3. \A p \in DOMAIN corpus \ LateArrivals(corpus) : corpus[p].id \in IdsOf(landed["dropping"])
    <3> TAKE p \in DOMAIN corpus \ LateArrivals(corpus)
    <3>1. p \in PassingIn(feed, cuts["dropping"], DelayOf("dropping"), inclusive)
      BY <1>6, <2>2 DEF d
    <3>2. feed[p] = corpus[p]
      BY <1>2
    <3>3. IdsOf(landed["dropping"])
            = {feed[q].id : q \in PassingIn(feed, cuts["dropping"], DelayOf("dropping"), inclusive)}
      BY <1>7, <2>1
    <3>4. feed[p].id \in {feed[q].id : q \in PassingIn(feed, cuts["dropping"], DelayOf("dropping"), inclusive)}
      BY <3>1
    <3>5. feed[p].id \in IdsOf(landed["dropping"])
      BY <3>3, <3>4
    <3> QED
      BY <3>2, <3>5
  <2>4. IdsOf(corpus) \ LateIds = {corpus[p].id : p \in DOMAIN corpus \ LateArrivals(corpus)}
    BY <1>1, PunctualIds DEF LateIds
  <2> QED
    BY <2>3, <2>4
<1> QED
  BY <1>8, <1>9, <1>10, <1>11 DEF Arms

\* A pair that passes the refusals differs by the late arrivals.
LEMMA JudgeStep ==
  ASSUME MeasureInv, Judge
  PROVE  Told'
<1>1. /\ stage = "judge" /\ proven' = IF Consistent THEN landed ELSE NoProof
      /\ UNCHANGED <<corpus, feed, base>>
  BY DEF Judge, producerVars
<1>2. LateIds' = LateIds
  BY <1>1 DEF LateIds
<1>3. /\ published > 0 /\ published = Len(corpus) /\ base + published <= Len(feed)
      /\ \A i \in 1..published : feed[base + i] = corpus[i]
      /\ base \in Nat /\ published \in Nat /\ feed \in Seq(Records) /\ corpus \in Corpora
  BY <1>1 DEF MeasureInv, PublishInv, PublishTypes, OnTheTopic
<1>4. feed # <<>>
  BY <1>3
<1>5. ASSUME Consistent, base = 0
      PROVE  IdsOf(landed["keeping"]) \ IdsOf(landed["dropping"]) = LateIds
  <2>1. /\ Len(corpus) <= Len(feed) /\ \A p \in 1..Len(corpus) : feed[p] = corpus[p]
    BY <1>3, <1>5
  <2>2. /\ IdsOf(landed["keeping"]) = IdsOf(corpus)
        /\ IdsOf(landed["dropping"]) \subseteq IdsOf(corpus)
        /\ IdsOf(corpus) \ LateIds \subseteq IdsOf(landed["dropping"])
        /\ Len(landed["keeping"]) = Cardinality(IdsOf(landed["keeping"]))
        /\ Len(landed["dropping"]) = Cardinality(IdsOf(landed["dropping"]))
    BY <1>1, <2>1, ArmsLanded DEF Arms
  <2>3. Cardinality(LateIds) = boundary.late
    <3>1. PICK k \in Limits : Accepted(corpus, k) /\ boundary = BoundaryFor(corpus, k)
      BY <1>1 DEF MeasureInv, Derived
    <3> QED
      BY <3>1 DEF Accepted, BoundaryFor, LateIds
  <2>4. Len(landed["keeping"]) - Len(landed["dropping"]) = boundary.late
    BY <1>5 DEF Consistent, Dropped
  <2>5. IsFiniteSet(IdsOf(corpus)) /\ LateIds \subseteq IdsOf(corpus)
    BY <1>3, FiniteIds, PunctualIds DEF LateIds
  <2>6. Cardinality(IdsOf(corpus)) - Cardinality(IdsOf(landed["dropping"])) = Cardinality(LateIds)
    BY <2>2, <2>3, <2>4
  <2>7. IdsOf(corpus) \ IdsOf(landed["dropping"]) = LateIds
    BY <2>2, <2>5, <2>6, ExactlyTheLate
  <2> QED
    BY <2>2, <2>7
<1> QED
  BY <1>1, <1>2, <1>4, <1>5 DEF Told

LEMMA StepMeasure == MeasureInv /\ [EventNext]_<<producerVars, eventVars>> => MeasureInv'
<1> SUFFICES ASSUME MeasureInv, [EventNext]_<<producerVars, eventVars>> PROVE MeasureInv'
  OBVIOUS
<1>1. PublishInv'
  BY StepPublish DEF MeasureInv
<1>2. /\ corpus' = corpus /\ Within(corpus, feed)' /\ Within(corpus, queue)'
      /\ Len(feed) <= Len(feed') /\ Len(feed) \in Nat
  <2>1. /\ corpus' = corpus /\ Within(corpus, feed') /\ Within(corpus, queue')
        /\ Len(feed) <= Len(feed')
    BY TopicStep
  <2> QED
    BY <2>1 DEF MeasureInv, PublishInv, PublishTypes
<1>3. Len(feed') \in Nat /\ feed' \in Seq(Records) /\ feed \in Seq(Records)
  BY <1>1 DEF MeasureInv, PublishInv, PublishTypes
<1>4. LateIds' = LateIds
  BY <1>2 DEF LateIds
\* Steps that leave the proof as it is.
<1>5. ASSUME UNCHANGED eventVars, base' = base \/ base' = Len(feed) PROVE MeasureInv'
  <2>1. ArmsRead'
    BY <1>1, <1>5, ArmsStay DEF eventVars
  <2>2. MeasureTypes' /\ Derived' /\ Unread' /\ ReadWhole'
    BY <1>2, <1>5 DEF eventVars, MeasureInv, MeasureTypes, Derived, Unread, ReadWhole
  <2>3. Going'
    <3>1. Going /\ readable \in Nat
      BY DEF MeasureInv, MeasureTypes
    <3> QED
      BY <1>2, <1>3, <1>5, <3>1 DEF eventVars, Going
  <2>4. Told'
    <3> SUFFICES ASSUME proven' # NoProof
                 PROVE  /\ feed' # <<>>
                        /\ base' = 0 => IdsOf(proven["keeping"]) \ IdsOf(proven["dropping"]) = LateIds
      BY <1>4, <1>5 DEF Told, eventVars
    <3>1. feed # <<>> /\ (base = 0 => IdsOf(proven["keeping"]) \ IdsOf(proven["dropping"]) = LateIds)
      BY <1>5 DEF eventVars, MeasureInv, Told
    <3>2. Len(feed) > 0
      BY <1>3, <3>1
    <3>3. feed' # <<>>
      BY <1>2, <1>3, <3>2
    <3> QED
      BY <1>5, <3>1, <3>2, <3>3
  <2>5. ReadingIsTheRun'
    BY <1>5 DEF eventVars, MeasureInv, ReadingIsTheRun, TruncationRuledOut, Consumed
  <2> QED
    BY <1>1, <1>2, <2>1, <2>2, <2>3, <2>4, <2>5 DEF MeasureInv
<1>6. CASE ProducerNext /\ UNCHANGED eventVars
  <2>1. base' = base \/ base' = Len(feed)
    BY <1>6 DEF ProducerNext, Deliver, GiveUp, ServeReport, Publish, Offer, Poll, Flush, FlushReturns
  <2> QED
    BY <1>5, <1>6, <2>1
<1>7. CASE Intrude
  BY <1>5, <1>7 DEF Intrude
<1>8. CASE ProveBoundary
  BY <1>1, <1>2, <1>8, ProveStep DEF MeasureInv
<1>9. CASE Judge
  <2>1. stage' = "idle" /\ UNCHANGED <<boundary, limit, inclusive, capRead, readable, landed, state,
                                       cuts, reading>>
    BY <1>9 DEF Judge
  <2>2. ArmsRead'
    BY <1>1, <2>1, ArmsStay
  <2>3. MeasureTypes' /\ Derived' /\ Going' /\ Unread' /\ ReadWhole'
    BY <1>2, <2>1 DEF MeasureInv, MeasureTypes, Derived, Going, Unread, ReadWhole, Arms
  <2>4. ReadingIsTheRun'
    BY <2>1 DEF MeasureInv, ReadingIsTheRun, TruncationRuledOut, Consumed
  <2>5. Told'
    BY <1>9, JudgeStep
  <2> QED
    BY <1>1, <1>2, <2>2, <2>3, <2>4, <2>5 DEF MeasureInv
<1>10. CASE ArmFails
  <2>1. stage' = "idle" /\ UNCHANGED <<boundary, limit, inclusive, capRead, readable, landed, state,
                                       cuts, reading, proven, feed, base>>
    BY <1>10 DEF ArmFails, Refuse, producerVars
  <2>2. ArmsRead'
    BY <1>1, <2>1, ArmsStay
  <2>3. MeasureTypes' /\ Derived' /\ Going' /\ Unread' /\ ReadWhole' /\ Told'
    BY <1>2, <1>4, <2>1 DEF MeasureInv, MeasureTypes, Derived, Going, Unread, ReadWhole, Arms, Told
  <2>4. ReadingIsTheRun'
    BY <2>1 DEF MeasureInv, ReadingIsTheRun, TruncationRuledOut, Consumed
  <2> QED
    BY <1>1, <1>2, <2>2, <2>3, <2>4 DEF MeasureInv
<1>11. ASSUME NEW a \in Arms, EndArm(a) PROVE MeasureInv'
  <2>1. UNCHANGED <<cuts, landed, state, limit, inclusive, boundary>>
    BY <1>11 DEF EndArm
  <2>2. ArmsRead'
    BY <1>1, <2>1, ArmsStay
  <2> QED
    BY <1>1, <1>2, <1>11, <2>2, EndStep DEF MeasureInv
<1>12. ASSUME NEW a \in Arms, RunBatch(a) PROVE MeasureInv'
  <2>1. /\ stage = a
        /\ UNCHANGED <<boundary, limit, inclusive, capRead, stage, readable, reading, proven, feed, base>>
    BY <1>12 DEF RunBatch, producerVars
  <2>2. /\ ArmsRead' /\ Going'
        /\ EndIn(cuts[a]) <= EndIn(cuts'[a])
        /\ landed' \in [Arms -> Seq(Records)] /\ state' \in [Arms -> SUBSET Records]
        /\ cuts' \in [Arms -> Seq(Nat)]
        /\ \A b \in Arms : b # a => cuts'[b] = cuts[b]
    BY <1>12, RunStep
  <2>3. MeasureTypes' /\ Derived' /\ Told'
    BY <1>2, <1>4, <2>1, <2>2 DEF MeasureInv, MeasureTypes, Derived, Told
  <2>4. Unread'
    BY <2>1, <2>2 DEF MeasureInv, Unread, Arms
  <2>5. ReadWhole'
    BY <1>2, <2>1, <2>2 DEF MeasureInv, ReadWhole, Arms
  <2>6. ReadingIsTheRun'
    <3> SUFFICES ASSUME NEW b \in Arms, reading[b] # NoReading, capRead \/ reading[b].oldest = 1
                 PROVE  reading[b].rows = EndIn(cuts'[b])
      BY <2>1 DEF ReadingIsTheRun, TruncationRuledOut, Consumed, EndIn
    <3>1. b # a
      BY <2>1 DEF MeasureInv, Unread, Arms
    <3>2. cuts'[b] = cuts[b]
      BY <2>2, <3>1
    <3> QED
      BY <3>2, ConsumedIs DEF MeasureInv, ReadingIsTheRun, TruncationRuledOut
  <2> QED
    BY <1>1, <1>2, <2>2, <2>3, <2>4, <2>5, <2>6 DEF MeasureInv
<1>13. CASE UNCHANGED <<producerVars, eventVars>>
  BY <1>5, <1>13 DEF producerVars
<1> QED
  BY <1>6, <1>7, <1>8, <1>9, <1>10, <1>11, <1>12, <1>13 DEF EventNext

\* What a pair of arms measures is what was predicted: a reading is the whole run
\* where truncation is ruled out; over the corpus the boundary was derived from, split
\* as derived, the keeping arm lands every payment once and the dropping arm all but
\* the late; and evidence, whatever the split, the lost updates and what another
\* process added, separates exactly the late arrivals (streaming/lateness.py:
\* boundary_for, prove_boundary; streaming/watermarked_dedup.py).
THEOREM MeasuresThePrediction == EventSpec => []MeasuredIsPredicted
<1>1. MeasureInv => MeasuredIsPredicted
  <2> SUFFICES ASSUME MeasureInv PROVE MeasuredIsPredicted
    OBVIOUS
  <2>1. ReadingIsTheRun
    BY DEF MeasureInv
  <2>2. EvidenceIsTheLateArrivals
    BY DEF MeasureInv, Told, EvidenceIsTheLateArrivals
  <2>3. ASSUME stage = "judge", feed = corpus, limit = boundary.limit,
               \A a \in Arms : Consumed(a) = Len(corpus)
        PROVE  /\ IdsOf(landed["keeping"]) = IdsOf(corpus)
               /\ IdsOf(landed["dropping"]) = IdsOf(corpus) \ LateIds
               /\ \A a \in Arms : Len(landed[a]) = Cardinality(IdsOf(landed[a]))
    <3>1. corpus \in Corpora /\ Len(corpus) \in Nat /\ "dropping" \in Arms
      BY FiniteIds DEF MeasureInv, PublishInv, PublishTypes, Arms
    <3>2. /\ IdsOf(landed["keeping"]) = IdsOf(corpus)
          /\ \A a \in Arms : Len(landed[a]) = Cardinality(IdsOf(landed[a]))
      BY <2>3, <3>1, ArmsLanded
    <3>3. PICK k \in Limits : Accepted(corpus, k) /\ boundary = BoundaryFor(corpus, k)
      BY <2>3 DEF MeasureInv, Derived
    <3>4. k \in Nat \ {0} /\ limit = k /\ DelayOf("dropping") = DroppingDelay(corpus, k)
      BY <2>3, <3>3, EventTimeAssumption DEF BoundaryFor, DelayOf
    <3>5. /\ Cut(corpus, cuts["dropping"], k)
          /\ IdsOf(landed["dropping"])
               = {corpus[p].id : p \in PassingIn(corpus, cuts["dropping"], DroppingDelay(corpus, k), inclusive)}
      <4>1. /\ Cut(feed, cuts["dropping"], limit)
            /\ IdsOf(landed["dropping"])
                 = {feed[p].id : p \in PassingIn(feed, cuts["dropping"], DelayOf("dropping"), inclusive)}
        BY <3>1 DEF MeasureInv, ArmsRead, Lands
      <4>2. feed = corpus /\ limit = k /\ DelayOf("dropping") = DroppingDelay(corpus, k)
        BY <2>3, <3>4
      <4> QED
        BY <4>1, <4>2
    <3>6. EndIn(cuts["dropping"]) = Len(corpus)
      BY <2>3, <3>1, ConsumedIs
    <3>7. PassingIn(corpus, cuts["dropping"], DroppingDelay(corpus, k), inclusive)
            = DOMAIN corpus \ LateArrivals(corpus)
      BY <3>1, <3>3, <3>4, <3>5, <3>6, ArmDrops
    <3>8. IdsOf(corpus) \ LateIds = {corpus[p].id : p \in DOMAIN corpus \ LateArrivals(corpus)}
      BY <3>1, PunctualIds DEF LateIds
    <3> QED
      BY <3>2, <3>5, <3>7, <3>8
  <2> QED
    BY <2>1, <2>2, <2>3 DEF MeasuredIsPredicted, PredictionIsMet
<1> QED
  BY <1>1, InitMeasure, StepMeasure, PTL DEF EventSpec

-----------------------------------------------------------------------------
(* The file a payment stream is delivered as: an order read off its places, *)
(* and the records of it delivered once or twice.                           *)

\* A set of places that holds 1 and the next of each holds them all.
LEMMA StepByStep ==
  ASSUME NEW n \in Nat, NEW S \in SUBSET (1..n),
         n > 0 => 1 \in S, \A i \in S : i < n => i + 1 \in S
  PROVE  S = 1..n
<1> SUFFICES ASSUME (1..n) \ S # {} PROVE FALSE
  OBVIOUS
<1>1. (1..n) \ S \in SUBSET Nat
  OBVIOUS
<1>2. PICK x \in (1..n) \ S : \A y \in (1..n) \ S : x <= y
  BY <1>1, LeastOf
<1>3. x # 1
  BY <1>2
<1>4. x - 1 \in 1..n /\ ~ (x <= x - 1)
  BY <1>2, <1>3
<1>5. x - 1 \in S
  BY <1>2, <1>4
<1>6. x - 1 + 1 \in S /\ x - 1 + 1 = x
  BY <1>2, <1>4, <1>5
<1> QED
  BY <1>2, <1>6

\* flatten of FlattenSeq, up to its n-th.
Flattens(ss, n, f) == f = [i \in 1..n |-> IF i = 1 THEN ss[i] ELSE f[i - 1] \o ss[i]]

LEMMA FlattenAt ==
  ASSUME NEW ss, NEW n \in Nat, NEW f, Flattens(ss, n, f), NEW i \in 1..n
  PROVE  f[i] = IF i = 1 THEN ss[i] ELSE f[i - 1] \o ss[i]
BY DEF Flattens

LEMMA FlattenStep ==
  ASSUME NEW ss, NEW n \in Nat \ {0}, NEW f, Flattens(ss, n, f)
  PROVE  Flattens(ss, n + 1, [i \in 1..(n + 1) |-> IF i <= n THEN f[i] ELSE f[n] \o ss[n + 1]])
<1> DEFINE g == [i \in 1..(n + 1) |-> IF i <= n THEN f[i] ELSE f[n] \o ss[n + 1]]
<1>1. ASSUME NEW i \in 1..(n + 1) PROVE g[i] = IF i = 1 THEN ss[i] ELSE g[i - 1] \o ss[i]
  <2>1. CASE i <= n
    <3>1. g[i] = f[i] /\ i \in 1..n
      BY <2>1
    <3>2. f[i] = IF i = 1 THEN ss[i] ELSE f[i - 1] \o ss[i]
      BY <3>1 DEF Flattens
    <3>3. i # 1 => g[i - 1] = f[i - 1]
      BY <2>1
    <3> QED
      BY <3>1, <3>2, <3>3
  <2>2. CASE i = n + 1
    <3>1. i - 1 = n /\ ~ (i <= n) /\ i # 1 /\ n \in 1..(n + 1)
      BY <2>2
    <3>2. g[i] = f[n] \o ss[n + 1]
      BY <2>2, <3>1
    <3>3. g[n] = f[n]
      BY <3>1
    <3> QED
      BY <2>2, <3>1, <3>2, <3>3
  <2> QED
    BY <2>1, <2>2
<1> HIDE DEF g
<1>2. g = [i \in 1..(n + 1) |-> g[i]]
  BY DEF g
<1>3. g = [i \in 1..(n + 1) |-> IF i = 1 THEN ss[i] ELSE g[i - 1] \o ss[i]]
  BY <1>1, <1>2
<1> QED
  BY <1>3 DEF Flattens, g

LEMMA FlattenExists ==
  ASSUME NEW ss, NEW n \in Nat \ {0}
  PROVE  \E f : Flattens(ss, n, f)
<1> DEFINE S == {k \in 1..n : \E f : Flattens(ss, k, f)}
<1>1. 1 \in S
  <2>1. Flattens(ss, 1, [i \in 1..1 |-> ss[i]])
    BY DEF Flattens
  <2> QED
    BY <2>1
<1>2. ASSUME NEW k \in S, k < n PROVE k + 1 \in S
  <2>1. PICK f : Flattens(ss, k, f)
    OBVIOUS
  <2>2. k \in Nat \ {0} /\ k + 1 \in 1..n
    BY <1>2
  <2>3. Flattens(ss, k + 1, [i \in 1..(k + 1) |-> IF i <= k THEN f[i] ELSE f[k] \o ss[k + 1]])
    BY <2>1, <2>2, FlattenStep
  <2> QED
    BY <2>2, <2>3
<1> HIDE DEF S
<1>3. S \in SUBSET (1..n)
  BY DEF S
<1>4. S = 1..n
  BY <1>1, <1>2, <1>3, StepByStep
<1>5. n \in S
  BY <1>4
<1> QED
  BY <1>5 DEF S

\* The places of a sort: as many as come no later by a key, then by number.  Each
\* is a place, no two share one, none is empty, and an earlier key is at an earlier one.
NoLaterThan(e, n, i) == {j \in 1..n : e[j] < e[i] \/ (e[j] = e[i] /\ j <= i)}

Follows(e, i, j) == e[i] <= e[j] /\ (e[i] = e[j] => i < j)

Ranking(n, e, place) ==
  /\ \A i \in 1..n : e[i] \in Int
  /\ \A i \in 1..n : place[i] = Cardinality(NoLaterThan(e, n, i))

LEMMA PlacesAre ==
  ASSUME NEW n \in Nat, NEW e, NEW place, Ranking(n, e, place)
  PROVE  /\ \A i \in 1..n : place[i] \in 1..n
         /\ \A i, j \in 1..n : place[i] = place[j] => i = j
         /\ \A i, j \in 1..n : place[i] < place[j] => Follows(e, i, j)
         /\ \A p \in 1..n : \E i \in 1..n : place[i] = p
<1> DEFINE Sooner(j, i) == e[j] < e[i] \/ (e[j] = e[i] /\ j <= i)
           Before(i) == {j \in 1..n : Sooner(j, i)}
<1>1. /\ \A i \in 1..n : e[i] \in Int
      /\ \A i \in 1..n : place[i] = Cardinality(NoLaterThan(e, n, i))
  BY DEF Ranking
<1>2. IsFiniteSet(1..n) /\ Cardinality(1..n) = n
  BY FS_Interval
<1>3. ASSUME NEW i \in 1..n
      PROVE  i \in Before(i) /\ IsFiniteSet(Before(i)) /\ place[i] = Cardinality(Before(i)) /\ place[i] \in 1..n
  <2>1. i \in Before(i) /\ Before(i) \in SUBSET (1..n) /\ place[i] = Cardinality(Before(i))
    BY <1>1 DEF NoLaterThan
  <2>2. IsFiniteSet(Before(i)) /\ Cardinality(Before(i)) <= n
    BY <1>2, <2>1, FS_Subset
  <2> HIDE DEF Before
  <2>3. Cardinality(Before(i)) \in Nat /\ Cardinality(Before(i)) # 0
    BY <2>1, <2>2, FS_CardinalityType, FS_EmptySet
  <2> QED
    BY <2>1, <2>2, <2>3
<1> HIDE DEF Before
<1>4. \A i \in 1..n : place[i] \in 1..n
  BY <1>3, Zenon
<1>5. ASSUME NEW i \in 1..n, NEW j \in 1..n, Sooner(i, j), i # j
      PROVE  place[i] < place[j]
  <2> USE DEF Before
  <2>1. Before(i) \in SUBSET Before(j)
    <3> SUFFICES ASSUME NEW k \in 1..n, Sooner(k, i) PROVE Sooner(k, j)
      OBVIOUS
    <3>1. e[k] \in Int /\ e[i] \in Int /\ e[j] \in Int /\ k \in Int /\ i \in Int /\ j \in Int
      BY <1>1
    <3> QED
      BY <1>5, <3>1
  <2>2. j \notin Before(i) /\ j \in Before(j)
    <3>1. e[i] \in Int /\ e[j] \in Int /\ i \in Int /\ j \in Int
      BY <1>1
    <3> QED
      BY <1>5, <3>1
  <2>3. /\ IsFiniteSet(Before(j)) /\ place[i] = Cardinality(Before(i)) /\ place[j] = Cardinality(Before(j))
        /\ place[i] \in 1..n /\ place[j] \in 1..n
    BY <1>3
  <2> HIDE DEF Before
  <2>4. place[i] <= place[j] /\ place[i] # place[j]
    BY <2>1, <2>2, <2>3, FS_Subset
  <2> QED
    BY <2>3, <2>4
<1>6. ASSUME NEW i \in 1..n, NEW j \in 1..n PROVE Sooner(i, j) \/ Sooner(j, i)
  <2>1. e[i] \in Int /\ e[j] \in Int /\ i \in Int /\ j \in Int
    BY <1>1
  <2>2. CASE e[i] < e[j]
    BY <2>2
  <2>3. CASE e[j] < e[i]
    BY <2>3
  <2>4. CASE e[i] = e[j] /\ i <= j
    BY <2>4
  <2>5. CASE e[i] = e[j] /\ j <= i
    BY <2>5
  <2> QED
    BY <2>1, <2>2, <2>3, <2>4, <2>5
<1>7. ASSUME NEW i \in 1..n, NEW j \in 1..n, place[i] = place[j] PROVE i = j
  <2>1. place[i] \in Int /\ place[j] \in Int
    BY <1>4
  <2>2. ~ (place[i] < place[j]) /\ ~ (place[j] < place[i])
    BY <1>7, <2>1
  <2>3. CASE Sooner(i, j)
    BY <1>5, <2>2, <2>3
  <2>4. CASE Sooner(j, i)
    BY <1>5, <2>2, <2>4
  <2> HIDE DEF Sooner
  <2> QED
    BY <1>6, <2>3, <2>4
<1>8. ASSUME NEW i \in 1..n, NEW j \in 1..n, place[i] < place[j]
      PROVE  Follows(e, i, j)
  <2>1. place[i] \in Int /\ place[j] \in Int /\ e[i] \in Int /\ e[j] \in Int /\ i \in Int /\ j \in Int
    BY <1>1, <1>4
  <2>2. i # j /\ ~ (place[j] < place[i])
    BY <1>8, <2>1
  <2>3. ~ Sooner(j, i)
    BY <1>5, <2>2
  <2> QED
    BY <2>1, <2>3 DEF Follows
<1>9. \A p \in 1..n : \E i \in 1..n : place[i] = p
  <2> DEFINE f == [i \in 1..n |-> place[i]]
  <2>1. f \in [1..n -> 1..n]
    BY <1>4
  <2>2. f \in Injection(1..n, 1..n)
    BY <1>7, <2>1 DEF Injection, IsInjective
  <2>3. f \in Surjection(1..n, 1..n)
    BY <1>2, <2>2, FS_Injection
  <2>4. \A p \in 1..n : \E i \in 1..n : f[i] = p
    BY <2>3 DEF Surjection
  <2> QED
    BY <2>4
<1> QED
  BY <1>4, <1>7, <1>8, <1>9

\* Positions read off their places: each is read once, by key and then by number.
ReadOff(nth, n, place) == \A p \in 1..n : nth[p] = CHOOSE i \in 1..n : place[i] = p

LEMMA Placed ==
  ASSUME NEW n \in Nat, NEW e, NEW place, Ranking(n, e, place),
         NEW nth, ReadOff(nth, n, place)
  PROVE  /\ \A p \in 1..n : nth[p] \in 1..n
         /\ \A p, q \in 1..n : nth[p] = nth[q] => p = q
         /\ \A i \in 1..n : \E p \in 1..n : nth[p] = i
         /\ \A p, q \in 1..n : p < q => Follows(e, nth[p], nth[q])
<1>1. /\ \A i \in 1..n : place[i] \in 1..n
      /\ \A i, j \in 1..n : place[i] = place[j] => i = j
      /\ \A i, j \in 1..n : place[i] < place[j] => Follows(e, i, j)
      /\ \A p \in 1..n : \E i \in 1..n : place[i] = p
  BY PlacesAre
<1>2. ASSUME NEW p \in 1..n PROVE nth[p] \in 1..n /\ place[nth[p]] = p
  <2>1. \E i \in 1..n : place[i] = p
    BY <1>1
  <2> DEFINE c == CHOOSE i \in 1..n : place[i] = p
  <2>2. nth[p] = c
    BY DEF ReadOff
  <2>3. c \in 1..n /\ place[c] = p
    BY <2>1, Zenon
  <2> HIDE DEF c
  <2> QED
    BY <2>2, <2>3
<1>3. ASSUME NEW i \in 1..n PROVE place[i] \in 1..n /\ nth[place[i]] = i
  BY <1>1, <1>2
<1>4. ASSUME NEW p \in 1..n, NEW q \in 1..n, p < q
      PROVE  Follows(e, nth[p], nth[q])
  <2>1. nth[p] \in 1..n /\ nth[q] \in 1..n /\ place[nth[p]] = p /\ place[nth[q]] = q
    BY <1>2
  <2>2. place[nth[p]] < place[nth[q]]
    BY <1>4, <2>1
  <2> QED
    BY <1>1, <2>1, <2>2, Zenon
<1>5. \A p, q \in 1..n : nth[p] = nth[q] => p = q
  BY <1>2
<1>6. \A i \in 1..n : \E p \in 1..n : nth[p] = i
  BY <1>3, Zenon
<1>7. \A p \in 1..n : nth[p] \in 1..n
  BY <1>2, Zenon
<1> QED
  BY <1>4, <1>5, <1>6, <1>7, Zenon

\* The first m records, one or two of each, in their order.
Spread(s, order, twice, m, g) ==
  /\ g \in [1..Len(s) -> 1..m]
  /\ \A k \in 1..Len(s) : s[k] = order[g[k]]
  /\ \A p \in 1..m : \E k \in 1..Len(s) : g[k] = p
  /\ \A k, l \in 1..Len(s) : k < l => g[k] <= g[l]

SpreadOver(s, order, twice, m, V) ==
  /\ s \in Seq(V) /\ Len(s) = m + Cardinality(twice \cap (1..m))
  /\ \E g : Spread(s, order, twice, m, g)

Copies(r, again) == IF again THEN <<r, r>> ELSE <<r>>

LEMMA OneTo ==
  ASSUME NEW m \in Nat, NEW twice
  PROVE  /\ IsFiniteSet(twice \cap (1..m)) /\ Cardinality(twice \cap (1..m)) \in Nat
         /\ Cardinality(twice \cap (1..(m + 1))) =
              Cardinality(twice \cap (1..m)) + (IF m + 1 \in twice THEN 1 ELSE 0)
<1>1. IsFiniteSet(1..m)
  BY FS_Interval
<1>2. twice \cap (1..m) \in SUBSET (1..m)
  OBVIOUS
<1>3. IsFiniteSet(twice \cap (1..m))
  BY <1>1, <1>2, FS_Subset
<1>4. Cardinality(twice \cap (1..m)) \in Nat
  BY <1>3, FS_CardinalityType
<1>5. CASE m + 1 \in twice
  <2>1. twice \cap (1..(m + 1)) = (twice \cap (1..m)) \cup {m + 1}
    BY <1>5
  <2>2. m + 1 \notin twice \cap (1..m)
    OBVIOUS
  <2> QED
    BY <1>3, <1>4, <1>5, <2>1, <2>2, FS_AddElement
<1>6. CASE m + 1 \notin twice
  <2>1. twice \cap (1..(m + 1)) = twice \cap (1..m)
    BY <1>6
  <2> QED
    BY <1>3, <1>4, <1>6, <2>1
<1> QED
  BY <1>5, <1>6

LEMMA SpreadStep ==
  ASSUME NEW V, NEW n \in Nat, NEW order \in [1..n -> V], NEW twice, NEW m \in Nat, m < n,
         NEW s, SpreadOver(s, order, twice, m, V)
  PROVE  SpreadOver(s \o Copies(order[m + 1], m + 1 \in twice), order, twice, m + 1, V)
<1> DEFINE r == order[m + 1]
           t == Copies(r, m + 1 \in twice)
           d == IF m + 1 \in twice THEN 2 ELSE 1
<1>1. PICK g : Spread(s, order, twice, m, g)
  BY DEF SpreadOver
<1>2. s \in Seq(V) /\ Len(s) \in Nat /\ Len(s) = m + Cardinality(twice \cap (1..m))
  BY DEF SpreadOver
<1>3. m + 1 \in 1..n /\ r \in V
  OBVIOUS
<1>4. t \in Seq(V) /\ Len(t) = d /\ (\A k \in 1..d : t[k] = r)
  <2>1. CASE m + 1 \in twice
    BY <1>3, <2>1 DEF Copies
  <2>2. CASE m + 1 \notin twice
    BY <1>3, <2>2 DEF Copies
  <2> QED
    BY <2>1, <2>2
<1>5. d \in {1, 2}
  OBVIOUS
<1> HIDE DEF t, d
<1> DEFINE u == s \o t
<1>6. u \in Seq(V) /\ Len(u) = Len(s) + d
  BY <1>2, <1>4
<1>7. \A k \in 1..(Len(s) + d) : u[k] = IF k <= Len(s) THEN s[k] ELSE r
  <2> SUFFICES ASSUME NEW k \in 1..(Len(s) + d) PROVE u[k] = IF k <= Len(s) THEN s[k] ELSE r
    OBVIOUS
  <2>1. CASE k <= Len(s)
    BY <1>2, <1>4, <2>1
  <2>2. CASE ~ (k <= Len(s))
    <3>1. k > Len(s)
      BY <1>2, <1>5, <2>2
    <3>2. u[k] = t[k - Len(s)]
      BY <1>2, <1>4, <1>5, <3>1
    <3>3. k - Len(s) \in 1..d
      BY <1>2, <1>5, <3>1
    <3> QED
      BY <1>2, <1>4, <2>2, <3>2, <3>3
  <2> QED
    BY <2>1, <2>2
<1> HIDE DEF u, r
<1>8. Len(u) = m + 1 + Cardinality(twice \cap (1..(m + 1)))
  <2>1. /\ Cardinality(twice \cap (1..m)) \in Nat
        /\ Cardinality(twice \cap (1..(m + 1))) =
             Cardinality(twice \cap (1..m)) + (IF m + 1 \in twice THEN 1 ELSE 0)
    BY OneTo
  <2>2. CASE m + 1 \in twice
    BY <1>2, <1>6, <2>1, <2>2 DEF d
  <2>3. CASE m + 1 \notin twice
    BY <1>2, <1>6, <2>1, <2>3 DEF d
  <2> QED
    BY <2>2, <2>3
<1> DEFINE h == [k \in 1..(Len(s) + d) |-> IF k <= Len(s) THEN g[k] ELSE m + 1]
<1>9. /\ g \in [1..Len(s) -> 1..m]
      /\ \A k \in 1..Len(s) : s[k] = order[g[k]]
      /\ \A p \in 1..m : \E k \in 1..Len(s) : g[k] = p
      /\ \A k, l \in 1..Len(s) : k < l => g[k] <= g[l]
  BY <1>1 DEF Spread
<1>10. \A k \in 1..(Len(s) + d) : h[k] = IF k <= Len(s) THEN g[k] ELSE m + 1
  OBVIOUS
<1>11. h \in [1..(Len(s) + d) -> 1..(m + 1)]
  <2>1. ASSUME NEW k \in 1..(Len(s) + d) PROVE (IF k <= Len(s) THEN g[k] ELSE m + 1) \in 1..(m + 1)
    <3>1. CASE k <= Len(s)
      <4>1. k \in 1..Len(s)
        BY <1>2, <1>5, <3>1
      <4> QED
        BY <1>9, <3>1, <4>1
    <3>2. CASE ~ (k <= Len(s))
      BY <3>2
    <3> QED
      BY <3>1, <3>2
  <2> QED
    BY <2>1
<1> HIDE DEF h
<1>12. \A k \in 1..(Len(s) + d) : u[k] = order[h[k]]
  <2> SUFFICES ASSUME NEW k \in 1..(Len(s) + d) PROVE u[k] = order[h[k]]
    OBVIOUS
  <2>1. CASE k <= Len(s)
    <3>1. k \in 1..Len(s)
      BY <1>2, <1>5, <2>1
    <3> QED
      BY <1>7, <1>9, <1>10, <2>1, <3>1
  <2>2. CASE ~ (k <= Len(s))
    BY <1>7, <1>10, <2>2 DEF r
  <2> QED
    BY <2>1, <2>2
<1>13. \A p \in 1..(m + 1) : \E k \in 1..(Len(s) + d) : h[k] = p
  <2> SUFFICES ASSUME NEW p \in 1..(m + 1) PROVE \E k \in 1..(Len(s) + d) : h[k] = p
    OBVIOUS
  <2>1. CASE p = m + 1
    <3>1. Len(s) + 1 \in 1..(Len(s) + d) /\ ~ (Len(s) + 1 <= Len(s))
      BY <1>2, <1>5
    <3> QED
      BY <1>10, <2>1, <3>1
  <2>2. CASE p \in 1..m
    <3>1. PICK k \in 1..Len(s) : g[k] = p
      BY <1>9, <2>2
    <3>2. k \in 1..(Len(s) + d) /\ k <= Len(s)
      BY <1>2, <1>5
    <3> QED
      BY <1>10, <3>1, <3>2
  <2> QED
    BY <2>1, <2>2
<1>14. ASSUME NEW k \in 1..(Len(s) + d), NEW l \in 1..(Len(s) + d), k < l PROVE h[k] <= h[l]
  <2>1. CASE l <= Len(s)
    <3>1. k \in 1..Len(s) /\ l \in 1..Len(s) /\ k <= Len(s)
      BY <1>2, <1>5, <1>14, <2>1
    <3> QED
      BY <1>9, <1>10, <1>14, <2>1, <3>1
  <2>2. CASE ~ (l <= Len(s))
    <3>1. h[l] = m + 1 /\ h[k] \in 1..(m + 1)
      BY <1>10, <1>11, <2>2
    <3> QED
      BY <3>1
  <2> QED
    BY <2>1, <2>2
<1>15. Spread(u, order, twice, m + 1, h)
  BY <1>6, <1>11, <1>12, <1>13, <1>14 DEF Spread
<1> QED
  BY <1>6, <1>8, <1>15 DEF SpreadOver, u, t, r

LEMMA SpreadAll ==
  ASSUME NEW V, NEW n \in Nat \ {0}, NEW order \in [1..n -> V], NEW twice, NEW ss,
         \A p \in 1..n : ss[p] = Copies(order[p], p \in twice), NEW f, Flattens(ss, n, f)
  PROVE  SpreadOver(f[n], order, twice, n, V)
<1> DEFINE S == {m \in 1..n : SpreadOver(f[m], order, twice, m, V)}
<1>1. SpreadOver(<<>>, order, twice, 0, V)
  <2>1. Spread(<<>>, order, twice, 0, <<>>)
    BY DEF Spread
  <2>2. twice \cap (1..0) = {}
    OBVIOUS
  <2>3. Cardinality(twice \cap (1..0)) = 0
    BY <2>2, FS_EmptySet
  <2> QED
    BY <2>1, <2>3 DEF SpreadOver
<1>2. 1 \in S
  <2>1. SpreadOver(<<>> \o Copies(order[0 + 1], 0 + 1 \in twice), order, twice, 0 + 1, V)
    <3>1. 0 \in Nat /\ 0 < n
      OBVIOUS
    <3> QED
      BY <1>1, <3>1, SpreadStep
  <2>2. Copies(order[1], 1 \in twice) \in Seq(V)
    <3>1. order[1] \in V
      OBVIOUS
    <3> QED
      BY <3>1 DEF Copies
  <2>3. <<>> \o Copies(order[1], 1 \in twice) = Copies(order[1], 1 \in twice)
    BY <2>2
  <2>4. 0 + 1 = 1 /\ 1 \in 1..n
    OBVIOUS
  <2>5. f[1] = Copies(order[1], 1 \in twice)
    BY <2>4, FlattenAt
  <2> QED
    BY <2>1, <2>3, <2>4, <2>5
<1>3. ASSUME NEW m \in S, m < n PROVE m + 1 \in S
  <2>1. m \in Nat /\ m + 1 \in 1..n /\ m + 1 # 1 /\ m + 1 - 1 = m /\ SpreadOver(f[m], order, twice, m, V)
    BY <1>3
  <2>2. PICK q \in 1..n : q = m + 1 /\ q # 1 /\ q - 1 = m
    BY <2>1
  <2>3. f[q] = f[q - 1] \o ss[q]
    <3>1. f[q] = IF q = 1 THEN ss[q] ELSE f[q - 1] \o ss[q]
      BY FlattenAt
    <3> QED
      BY <2>2, <3>1
  <2>4. f[m + 1] = f[m] \o Copies(order[m + 1], m + 1 \in twice)
    BY <2>2, <2>3
  <2>5. SpreadOver(f[m] \o Copies(order[m + 1], m + 1 \in twice), order, twice, m + 1, V)
    BY <1>3, <2>1, SpreadStep
  <2> QED
    BY <2>1, <2>4, <2>5
<1> HIDE DEF S
<1>4. S \in SUBSET (1..n)
  BY DEF S
<1>5. S = 1..n
  BY <1>2, <1>3, <1>4, StepByStep
<1> QED
  BY <1>5 DEF S

OnceOrTwice(order, twice, n) == [p \in 1..n |-> Copies(order[p], p \in twice)]

\* What FlattenSeq makes of records delivered once or twice.
LEMMA Redelivered ==
  ASSUME NEW V, NEW n \in Nat \ {0}, NEW order \in [1..n -> V], NEW twice \in SUBSET (1..n)
  PROVE  /\ FlattenSeq(OnceOrTwice(order, twice, n)) \in Seq(V)
         /\ Len(FlattenSeq(OnceOrTwice(order, twice, n))) = n + Cardinality(twice)
         /\ \E g : Spread(FlattenSeq(OnceOrTwice(order, twice, n)), order, twice, n, g)
<1> DEFINE ss == OnceOrTwice(order, twice, n)
<1>1. ss \in Seq(Seq(V)) /\ Len(ss) = n
  <2>1. ASSUME NEW p \in 1..n PROVE Copies(order[p], p \in twice) \in Seq(V)
    <3>1. order[p] \in V
      OBVIOUS
    <3> QED
      BY <3>1 DEF Copies
  <2>2. ss \in [1..n -> Seq(V)]
    BY <2>1 DEF OnceOrTwice
  <2> QED
    BY <2>2
<1>2. Len(ss) # 0
  BY <1>1
<1>3. Flattens(ss, n, CHOOSE f : Flattens(ss, n, f))
  BY FlattenExists
<1>4. FlattenSeq(ss) = (CHOOSE f : Flattens(ss, Len(ss), f))[Len(ss)]
  BY <1>2, Zenon DEF FlattenSeq, Flattens
<1>5. PICK f : Flattens(ss, n, f) /\ FlattenSeq(ss) = f[n]
  BY <1>1, <1>3, <1>4
<1>6. \A p \in 1..n : ss[p] = Copies(order[p], p \in twice)
  BY DEF OnceOrTwice
<1> HIDE DEF ss
<1>7. SpreadOver(FlattenSeq(ss), order, twice, n, V)
  BY <1>5, <1>6, SpreadAll
<1>8. twice \cap (1..n) = twice
  OBVIOUS
<1> QED
  BY <1>7, <1>8 DEF SpreadOver, ss

\* Two sets of which each element has its partner are of one size.
LEMMA Paired ==
  ASSUME NEW S, NEW T, IsFiniteSet(S), NEW f \in [S -> T],
         \A x, y \in S : f[x] = f[y] => x = y, \A z \in T : \E x \in S : f[x] = z
  PROVE  IsFiniteSet(T) /\ Cardinality(T) = Cardinality(S)
<1>1. f \in Injection(S, T)
  BY DEF Injection, IsInjective
<1>2. f \in Surjection(S, T)
  BY DEF Surjection
<1>3. ExistsBijection(S, T)
  BY <1>1, <1>2 DEF ExistsBijection, Bijection
<1> QED
  BY <1>3, FS_Bijection

\* A corpus of n payments pay, each its number and the moment e it was emitted at, read
\* off their places, the ones in twice delivered twice.
Dispatch(n, e, pay, order, twice, file, V) ==
  \E place, nth :
    /\ Ranking(n, e, place) /\ ReadOff(nth, n, place)
    /\ pay \in [1..n -> V] /\ \A i \in 1..n : pay[i].id = i
    /\ twice \in SUBSET (1..n)
    /\ order = [p \in 1..n |-> pay[nth[p]]]
    /\ file = FlattenSeq([p \in 1..n |-> Copies(order[p], order[p].id \in twice)])

\* The payments of an order: each its payment, all of them, once, in order.
Ordered(n, e, pay, order, V) ==
  /\ order \in [1..n -> V]
  /\ \A p \in 1..n : order[p].id \in 1..n /\ order[p] = pay[order[p].id]
  /\ \A p, q \in 1..n : order[p].id = order[q].id => p = q
  /\ \A i \in 1..n : \E p \in 1..n : order[p].id = i
  /\ \A p, q \in 1..n : p < q => Follows(e, order[p].id, order[q].id)

LEMMA OrderHolds ==
  ASSUME NEW n \in Nat \ {0}, NEW e, NEW V, NEW pay, NEW order, NEW twice, NEW file,
         Dispatch(n, e, pay, order, twice, file, V)
  PROVE  Ordered(n, e, pay, order, V)
<1>1. PICK place, nth :
        /\ Ranking(n, e, place) /\ ReadOff(nth, n, place)
        /\ pay \in [1..n -> V] /\ \A i \in 1..n : pay[i].id = i
        /\ order = [p \in 1..n |-> pay[nth[p]]]
  BY DEF Dispatch
<1>2. /\ \A p \in 1..n : nth[p] \in 1..n
      /\ \A p, q \in 1..n : nth[p] = nth[q] => p = q
      /\ \A i \in 1..n : \E p \in 1..n : nth[p] = i
      /\ \A p, q \in 1..n : p < q => Follows(e, nth[p], nth[q])
  <2>1. n \in Nat
    OBVIOUS
  <2> QED
    BY <1>1, <2>1, Placed
<1>3. ASSUME NEW p \in 1..n PROVE order[p] = pay[nth[p]] /\ order[p].id = nth[p] /\ order[p] \in V
  BY <1>1, <1>2
<1>4. order \in [1..n -> V]
  BY <1>1, <1>3
<1>5. ASSUME NEW p \in 1..n, NEW q \in 1..n, p < q PROVE Follows(e, order[p].id, order[q].id)
  BY <1>2, <1>3, <1>5
<1>6. ASSUME NEW p \in 1..n, NEW q \in 1..n, order[p].id = order[q].id PROVE p = q
  BY <1>2, <1>3, <1>6
<1>7. ASSUME NEW i \in 1..n PROVE \E p \in 1..n : order[p].id = i
  BY <1>2, <1>3
<1>8. ASSUME NEW p \in 1..n PROVE order[p].id \in 1..n /\ order[p] = pay[order[p].id]
  BY <1>2, <1>3
<1> QED
  BY <1>4, <1>5, <1>6, <1>7, <1>8 DEF Ordered

LEMMA DispatchHolds ==
  ASSUME NEW n \in Nat \ {0}, NEW e, NEW V, NEW pay, NEW order, NEW twice, NEW file,
         Dispatch(n, e, pay, order, twice, file, V)
  PROVE  /\ file \in Seq(V) /\ Len(file) = n + Cardinality(twice)
         /\ \A k \in 1..Len(file) : file[k].id \in 1..n /\ file[k] = pay[file[k].id]
         /\ \A i \in 1..n : \E k \in 1..Len(file) : file[k].id = i
         /\ \A k, l \in 1..Len(file) : k < l =>
              file[k].id = file[l].id \/ Follows(e, file[k].id, file[l].id)
<1> DEFINE again == {p \in 1..n : order[p].id \in twice}
           ss == OnceOrTwice(order, again, n)
<1>1. /\ order \in [1..n -> V]
      /\ \A p \in 1..n : order[p].id \in 1..n /\ order[p] = pay[order[p].id]
      /\ \A p, q \in 1..n : order[p].id = order[q].id => p = q
      /\ \A i \in 1..n : \E p \in 1..n : order[p].id = i
      /\ \A p, q \in 1..n : p < q => Follows(e, order[p].id, order[q].id)
  BY OrderHolds DEF Ordered
<1>2. file = FlattenSeq([p \in 1..n |-> Copies(order[p], order[p].id \in twice)]) /\ twice \in SUBSET (1..n)
  BY DEF Dispatch
<1>3. [p \in 1..n |-> Copies(order[p], order[p].id \in twice)] = ss
  <2>1. \A p \in 1..n : (order[p].id \in twice) = (p \in again)
    OBVIOUS
  <2> QED
    BY <2>1 DEF OnceOrTwice
<1>4. again \in SUBSET (1..n)
  OBVIOUS
<1>5. Cardinality(again) = Cardinality(twice)
  <2> DEFINE number == [p \in again |-> order[p].id]
  <2>1. number \in [again -> twice]
    OBVIOUS
  <2>2. \A p, q \in again : number[p] = number[q] => p = q
    BY <1>1
  <2>3. \A i \in twice : \E p \in again : number[p] = i
    <3> SUFFICES ASSUME NEW i \in twice PROVE \E p \in again : number[p] = i
      OBVIOUS
    <3>1. i \in 1..n
      BY <1>2
    <3>2. PICK p \in 1..n : order[p].id = i
      BY <1>1, <3>1
    <3> QED
      BY <3>2
  <2> HIDE DEF number, again
  <2>4. IsFiniteSet(again)
    <3>1. IsFiniteSet(1..n)
      BY FS_Interval
    <3> QED
      BY <1>4, <3>1, FS_Subset
  <2> QED
    BY <2>1, <2>2, <2>3, <2>4, Paired
<1> HIDE DEF again
<1>6. FlattenSeq(ss) \in Seq(V) /\ Len(FlattenSeq(ss)) = n + Cardinality(again)
      /\ \E g : Spread(FlattenSeq(ss), order, again, n, g)
  <2>1. order \in [1..n -> V]
    BY <1>1
  <2> QED
    BY <1>4, <2>1, Redelivered, Zenon
<1> HIDE DEF ss
<1>7. file = FlattenSeq(ss)
  BY <1>2, <1>3
<1>8. PICK g : Spread(file, order, again, n, g)
  BY <1>6, <1>7
<1>9. /\ g \in [1..Len(file) -> 1..n]
      /\ \A k \in 1..Len(file) : file[k] = order[g[k]]
      /\ \A p \in 1..n : \E k \in 1..Len(file) : g[k] = p
      /\ \A k, l \in 1..Len(file) : k < l => g[k] <= g[l]
  BY <1>8 DEF Spread
<1>10. ASSUME NEW k \in 1..Len(file) PROVE file[k].id \in 1..n /\ file[k] = pay[file[k].id]
  <2>1. PICK p \in 1..n : file[k] = order[p]
    BY <1>9
  <2>2. order[p].id \in 1..n /\ order[p] = pay[order[p].id]
    BY <1>1
  <2> QED
    BY <2>1, <2>2
<1>11. ASSUME NEW i \in 1..n PROVE \E k \in 1..Len(file) : file[k].id = i
  <2>1. PICK p \in 1..n : order[p].id = i
    BY <1>1
  <2>2. PICK k \in 1..Len(file) : g[k] = p
    BY <1>9
  <2> QED
    BY <1>9, <2>1, <2>2
<1>12. ASSUME NEW k \in 1..Len(file), NEW l \in 1..Len(file), k < l
       PROVE  file[k].id = file[l].id \/ Follows(e, file[k].id, file[l].id)
  <2>1. g[k] \in 1..n /\ g[l] \in 1..n /\ g[k] <= g[l] /\ file[k] = order[g[k]] /\ file[l] = order[g[l]]
    BY <1>9, <1>12
  <2>2. CASE g[k] = g[l]
    BY <2>1, <2>2
  <2>3. CASE g[k] < g[l]
    <3>1. PICK p \in 1..n, q \in 1..n : p = g[k] /\ q = g[l] /\ p < q
      BY <2>1, <2>3
    <3>2. Follows(e, order[p].id, order[q].id)
      BY <1>1, <3>1
    <3>3. order[p] = file[k] /\ order[q] = file[l]
      BY <2>1, <3>1
    <3> QED
      BY <3>2, <3>3
  <2> QED
    BY <2>1, <2>2, <2>3
<1>13. file \in Seq(V) /\ Len(file) = n + Cardinality(twice)
  BY <1>5, <1>6, <1>7
<1> QED
  BY <1>10, <1>11, <1>12, <1>13

-----------------------------------------------------------------------------
(* What a profile delivers.                                                 *)

Stamped == [id : Nat, at : Int, emitted : Int]

\* When each payment of the profile is emitted, and the payments.
Emission(late) == [i \in 1..profile.count |-> Corpus!Payment(i, late).emitted]
Payments(late) == [i \in 1..profile.count |-> Corpus!Payment(i, late)]

\* The corpus's own cardinality and flattening are the ones known here.
LEMMA SameOperators ==
  /\ \A S : Corpus!Cardinality(S) = Cardinality(S)
  /\ \A s : Corpus!FlattenSeq(s) = FlattenSeq(s)
<1>1. ASSUME NEW S PROVE Corpus!Cardinality(S) = Cardinality(S)
  BY Zenon DEF Cardinality, Corpus!Cardinality
<1>2. ASSUME NEW s PROVE Corpus!FlattenSeq(s) = FlattenSeq(s)
  BY Zenon DEF FlattenSeq, Corpus!FlattenSeq
<1> QED
  BY <1>1, <1>2

LEMMA PaymentIs ==
  ASSUME profile \in Declaration, NEW late, NEW i \in Nat
  PROVE  /\ Corpus!Payment(i, late) \in Stamped
         /\ Corpus!Payment(i, late).id = i
         /\ Corpus!Payment(i, late).at = profile.interval * i
         /\ Corpus!Payment(i, late).emitted =
              profile.interval * i + (IF i \in late THEN profile.lateBy ELSE 0)
<1>1. profile.interval \in Nat /\ profile.lateBy \in Nat
  BY DEF Declaration
<1>2. profile.interval * i \in Int
  BY <1>1
<1>3. (IF i \in late THEN profile.lateBy ELSE 0) \in Int
  BY <1>1
<1>4. profile.interval * i + (IF i \in late THEN profile.lateBy ELSE 0) \in Int
  BY <1>2, <1>3
<1> QED
  BY <1>2, <1>4 DEF Corpus!Payment, Stamped

LEMMA ProfileDispatches ==
  ASSUME profile \in Declaration, profile.count \in Nat \ {0}, NEW late,
         NEW twice \in SUBSET (1..profile.count)
  PROVE  Dispatch(profile.count, Emission(late), Payments(late), Corpus!DeliveryOrder(late), twice,
                  Corpus!DeliveredRecords(late, twice), Stamped)
<1> DEFINE n == profile.count
           e == Emission(late)
           pay == Payments(late)
           order == Corpus!DeliveryOrder(late)
           place == [i \in 1..n |-> Corpus!Place(i, late)]
           nth == [p \in 1..n |-> CHOOSE i \in 1..n : place[i] = p]
<1>1. ASSUME NEW i \in 1..n
      PROVE  /\ pay[i] \in Stamped /\ pay[i].id = i /\ pay[i] = Corpus!Payment(i, late)
             /\ e[i] = Corpus!Payment(i, late).emitted /\ e[i] \in Int
  <2>1. i \in Nat
    OBVIOUS
  <2>2. Corpus!Payment(i, late) \in Stamped /\ Corpus!Payment(i, late).id = i
    BY <2>1, PaymentIs
  <2> QED
    BY <2>2 DEF Emission, Payments, Stamped
<1>2. ASSUME NEW i \in 1..n PROVE place[i] = Cardinality(NoLaterThan(e, n, i))
  <2>1. place[i] = Cardinality({j \in 1..n : Corpus!NoLater(Corpus!Payment(j, late), Corpus!Payment(i, late))})
    <3>1. place[i] = Corpus!Place(i, late)
      OBVIOUS
    <3> QED
      BY <3>1, SameOperators DEF Corpus!Place
  <2>2. ASSUME NEW j \in 1..n
        PROVE  Corpus!NoLater(Corpus!Payment(j, late), Corpus!Payment(i, late)) <=>
                 (e[j] < e[i] \/ (e[j] = e[i] /\ j <= i))
    <3>1. /\ Corpus!Payment(j, late).emitted = e[j] /\ Corpus!Payment(i, late).emitted = e[i]
          /\ Corpus!Payment(j, late).id = j /\ Corpus!Payment(i, late).id = i
      BY <1>1
    <3> QED
      BY <3>1 DEF Corpus!NoLater
  <2> QED
    BY <2>1, <2>2 DEF NoLaterThan
<1>3. Ranking(n, e, place)
  BY <1>1, <1>2 DEF Ranking
<1>4. ReadOff(nth, n, place)
  BY DEF ReadOff
<1>5. \A p \in 1..n : \A i \in 1..n : (place[i] = p) = (Corpus!Place(i, late) = p)
  OBVIOUS
<1>6. \A p \in 1..n : nth[p] = CHOOSE i \in 1..n : Corpus!Place(i, late) = p
  BY <1>5
<1>7. ASSUME NEW p \in 1..n PROVE nth[p] \in 1..n
  <2>1. n \in Nat
    OBVIOUS
  <2> HIDE DEF place, nth, n, e
  <2> QED
    BY <1>3, <1>4, <1>7, <2>1, Placed
<1> HIDE DEF place, nth, e, pay
<1>8. order = [p \in 1..n |-> pay[nth[p]]]
  <2>1. order = [p \in 1..n |-> Corpus!Payment(CHOOSE i \in 1..n : Corpus!Place(i, late) = p, late)]
    BY Zenon DEF Corpus!DeliveryOrder
  <2>2. ASSUME NEW p \in 1..n
        PROVE  Corpus!Payment(CHOOSE i \in 1..n : Corpus!Place(i, late) = p, late) = pay[nth[p]]
    <3>1. nth[p] = CHOOSE i \in 1..n : Corpus!Place(i, late) = p
      BY <1>6
    <3>2. pay[nth[p]] = Corpus!Payment(nth[p], late)
      BY <1>1, <1>7
    <3> QED
      BY <3>1, <3>2, Zenon
  <2> QED
    BY <2>1, <2>2, Zenon
<1>9. pay \in [1..n -> Stamped] /\ \A i \in 1..n : pay[i].id = i
  BY <1>1 DEF pay, Payments
<1>10. Corpus!DeliveredRecords(late, twice) =
         FlattenSeq([p \in 1..n |-> Copies(order[p], order[p].id \in twice)])
  <2>1. ASSUME NEW p \in 1..n
        PROVE  (IF order[p].id \in twice THEN <<order[p], order[p]>> ELSE <<order[p]>>) =
                 Copies(order[p], order[p].id \in twice)
    BY DEF Copies
  <2>2. [p \in 1..n |-> IF order[p].id \in twice THEN <<order[p], order[p]>> ELSE <<order[p]>>] =
          [p \in 1..n |-> Copies(order[p], order[p].id \in twice)]
    BY <2>1
  <2>3. Corpus!DeliveredRecords(late, twice) = FlattenSeq(
          [p \in 1..n |-> IF order[p].id \in twice THEN <<order[p], order[p]>> ELSE <<order[p]>>])
    BY SameOperators DEF Corpus!DeliveredRecords
  <2> QED
    BY <2>2, <2>3
<1> QED
  BY <1>3, <1>4, <1>8, <1>9, <1>10 DEF Dispatch, e, pay

\* A profile past its import is one import accepted.
ProfileFits ==
  /\ profile \in Declaration
  /\ phase \in {"declared", "refused", "imported", "generating", "abandoned", "delivered"}
  /\ phase \notin {"declared", "refused"} => Importable

\* What is picked is picked for as long as the profile generates.
PicksFit ==
  phase \in {"generating", "delivered"} =>
    /\ picked.repeats \in RepeatPositions
    /\ picked.twice \in DuplicatePositions
    /\ picked.late \in Corpus!LatePositions

\* The base events are apart, and the others are among them.
EventsFit ==
  /\ phase \in {"declared", "imported"} => events = <<>>
  /\ phase \in {"generating", "delivered"} =>
       /\ events \in Seq(Attributes) /\ Len(events) <= profile.count
       /\ \A i \in DOMAIN events : events[i] \in Bases
       /\ \A i, j \in (DOMAIN events) \ picked.repeats : events[i] = events[j] => i = j

\* The file is what the picks say, and there is one only if the picks measure as picked.
RowsFit ==
  /\ phase # "delivered" => rows = <<>>
  /\ phase = "delivered" =>
       Len(events) = profile.count /\ Corpus!Measurable(picked.late) /\ rows = DeliveredRows

ProfileInv == ProfileFits /\ PicksFit /\ EventsFit /\ RowsFit

LEMMA InitProfile == ProfileInit => ProfileInv
BY GeneratorAssumption DEF ProfileInit, ProfileInv, ProfileFits, PicksFit, EventsFit, RowsFit

\* What depends on a variable only stays as the variable does.
LEMMA ProfileStays ==
  ASSUME UNCHANGED profile
  PROVE  /\ Importable' = Importable
         /\ RepeatPositions' = RepeatPositions /\ DuplicatePositions' = DuplicatePositions
         /\ (Corpus!LatePositions)' = Corpus!LatePositions
<1>1. Importable' = Importable
  BY DEF Importable, StreamFits, DelayMatchesCount, DriftIsMidStream, DefectsFit, DriftStandsAlone,
         ObservedPlacement, LastEventTime, EventTime, Drifts
<1>2. RepeatPositions' = RepeatPositions /\ DuplicatePositions' = DuplicatePositions
  BY DEF RepeatPositions, DuplicatePositions, Selected
<1>3. (Corpus!LatePositions)' = Corpus!LatePositions
  BY DEF Corpus!LatePositions
<1> QED
  BY <1>1, <1>2, <1>3

LEMMA FileStays ==
  ASSUME UNCHANGED <<profile, picked, events>>
  PROVE  DeliveredRows' = DeliveredRows /\ Corpus!Measurable(picked.late)' = Corpus!Measurable(picked.late)
<1>1. \A l : Corpus!DeliveryOrder(l)' = Corpus!DeliveryOrder(l)
  BY DEF Corpus!DeliveryOrder, Corpus!Place, Corpus!NoLater, Corpus!Payment
<1>2. DeliveredRows' = DeliveredRows
  BY <1>1 DEF DeliveredRows, Corpus!DeliveredRecords, Row, EventTime, DriftPositions, Drifts
<1>3. Corpus!Measurable(picked.late)' = Corpus!Measurable(picked.late)
  BY <1>1 DEF Corpus!Measurable
<1> QED
  BY <1>2, <1>3

LEMMA ImportFits == ASSUME ProfileInv, Import PROVE ProfileInv'
<1> USE DEF Import
<1>1. Importable' = Importable
  BY ProfileStays
<1>2. ProfileFits'
  BY <1>1 DEF ProfileInv, ProfileFits
<1>3. PicksFit' /\ EventsFit' /\ RowsFit'
  BY DEF ProfileInv, PicksFit, EventsFit, RowsFit
<1> QED
  BY <1>2, <1>3 DEF ProfileInv

LEMMA SelectFits == ASSUME ProfileInv, Select PROVE ProfileInv'
<1> USE DEF Select
<1>1. /\ Importable' = Importable
      /\ RepeatPositions' = RepeatPositions /\ DuplicatePositions' = DuplicatePositions
      /\ (Corpus!LatePositions)' = Corpus!LatePositions
  BY ProfileStays
<1>2. ProfileFits'
  BY <1>1 DEF ProfileInv, ProfileFits
<1>3. PicksFit'
  BY <1>1 DEF PicksFit
<1>4. EventsFit'
  <2>1. events = <<>> /\ events' = <<>> /\ profile' = profile
    BY DEF ProfileInv, EventsFit
  <2>2. Len(events') = 0 /\ events' \in Seq(Attributes) /\ DOMAIN events' = {}
    BY <2>1
  <2>3. profile.count \in Nat
    BY DEF ProfileInv, ProfileFits, Declaration
  <2> QED
    BY <2>1, <2>2, <2>3 DEF EventsFit
<1>5. RowsFit'
  BY DEF ProfileInv, RowsFit
<1> QED
  BY <1>2, <1>3, <1>4, <1>5 DEF ProfileInv

LEMMA TooFewFits == ASSUME ProfileInv, TooFewEligible PROVE ProfileInv'
<1> USE DEF TooFewEligible
<1>1. Importable' = Importable
  BY ProfileStays
<1>2. ProfileFits'
  BY <1>1 DEF ProfileInv, ProfileFits
<1>3. PicksFit' /\ EventsFit' /\ RowsFit'
  BY DEF ProfileInv, PicksFit, EventsFit, RowsFit
<1> QED
  BY <1>2, <1>3 DEF ProfileInv

LEMMA ExhaustedFits == ASSUME ProfileInv, PoolExhausted PROVE ProfileInv'
<1> USE DEF PoolExhausted
<1>1. Importable' = Importable
  BY ProfileStays
<1>2. ProfileFits'
  BY <1>1 DEF ProfileInv, ProfileFits
<1>3. PicksFit' /\ EventsFit' /\ RowsFit'
  BY DEF ProfileInv, PicksFit, EventsFit, RowsFit
<1> QED
  BY <1>2, <1>3 DEF ProfileInv

\* An event more, apart from the bases exactly when it is one itself.
LEMMA OneMoreEvent ==
  ASSUME ProfileInv, phase = "generating", Len(events) < profile.count,
         UNCHANGED <<profile, phase, picked, rows>>, NEW event \in Attributes,
         events' = Append(events, event),
         event \in Bases <=> Len(events) + 1 \in picked.repeats
  PROVE  ProfileInv'
<1> DEFINE last == Len(events) + 1
           mine == (DOMAIN events) \ picked.repeats
<1>1. /\ Importable' = Importable
      /\ RepeatPositions' = RepeatPositions /\ DuplicatePositions' = DuplicatePositions
      /\ (Corpus!LatePositions)' = Corpus!LatePositions
  BY ProfileStays
<1>2. ProfileFits'
  BY <1>1 DEF ProfileInv, ProfileFits
<1>3. PicksFit'
  BY <1>1 DEF ProfileInv, PicksFit
<1>4. /\ events \in Seq(Attributes) /\ Len(events) \in Nat /\ profile.count \in Nat
      /\ \A i \in DOMAIN events : events[i] \in Bases
      /\ \A i, j \in mine : events[i] = events[j] => i = j
  BY DEF ProfileInv, ProfileFits, EventsFit, Declaration
<1>5. /\ events' \in Seq(Attributes) /\ Len(events') = last /\ DOMAIN events' = (DOMAIN events) \cup {last}
      /\ events'[last] = event /\ last \notin DOMAIN events
      /\ \A i \in DOMAIN events : events'[i] = events[i]
  BY <1>4
<1>6. Bases' = {events'[i] : i \in (DOMAIN events') \ picked.repeats}
  BY DEF Bases
<1>7. \A i \in mine : events[i] \in Bases /\ events[i] \in Bases'
  BY <1>5, <1>6 DEF Bases
<1>8. Bases \subseteq Bases'
  BY <1>7 DEF Bases
<1>9. event \in Bases'
  <2>1. CASE last \in picked.repeats
    BY <1>8, <2>1
  <2>2. CASE last \notin picked.repeats
    BY <1>5, <1>6, <2>2
  <2> QED
    BY <2>1, <2>2
<1>10. \A i \in DOMAIN events' : events'[i] \in Bases'
  BY <1>4, <1>5, <1>8, <1>9
<1>11. ASSUME NEW i \in (DOMAIN events') \ picked.repeats, NEW j \in (DOMAIN events') \ picked.repeats,
              events'[i] = events'[j]
       PROVE  i = j
  <2>1. CASE i \in mine /\ j \in mine
    BY <1>4, <1>5, <1>11, <2>1
  <2>2. CASE i = last /\ j \in mine
    BY <1>5, <1>7, <1>11, <2>2
  <2>3. CASE j = last /\ i \in mine
    BY <1>5, <1>7, <1>11, <2>3
  <2> QED
    BY <1>5, <2>1, <2>2, <2>3
<1>12. Len(events') <= profile.count
  BY <1>4, <1>5
<1>13. EventsFit'
  <2>1. phase' = "generating" /\ picked' = picked /\ profile' = profile
    OBVIOUS
  <2>2. Attributes' = Attributes
    BY DEF Attributes, Counterparties
  <2> QED
    BY <1>5, <1>10, <1>11, <1>12, <2>1, <2>2 DEF EventsFit
<1>14. RowsFit'
  BY DEF ProfileInv, RowsFit
<1> QED
  BY <1>2, <1>3, <1>13, <1>14 DEF ProfileInv

LEMMA RepeatFits == ASSUME ProfileInv, Repeat PROVE ProfileInv'
<1>1. PICK kept \in Bases : events' = Append(events, kept)
  BY DEF Repeat
<1>2. kept \in Attributes
  <2>1. events \in Seq(Attributes)
    BY DEF ProfileInv, EventsFit, Repeat
  <2> QED
    BY <1>1, <2>1 DEF Bases
<1>3. /\ phase = "generating" /\ Len(events) < profile.count /\ Len(events) + 1 \in picked.repeats
      /\ UNCHANGED <<profile, phase, picked, rows>>
  BY DEF Repeat
<1> QED
  BY <1>1, <1>2, <1>3, OneMoreEvent

LEMMA GenerateFits == ASSUME ProfileInv, Generate PROVE ProfileInv'
<1>1. PICK fresh \in Attributes \ Bases : events' = Append(events, fresh)
  BY DEF Generate
<1>2. /\ phase = "generating" /\ Len(events) < profile.count /\ Len(events) + 1 \notin picked.repeats
      /\ UNCHANGED <<profile, phase, picked, rows>>
  BY DEF Generate
<1> QED
  BY <1>1, <1>2, OneMoreEvent

LEMMA DeliverFits == ASSUME ProfileInv, DeliverFile PROVE ProfileInv'
<1>1. /\ phase = "generating" /\ Len(events) = profile.count
      /\ UNCHANGED <<profile, picked, events>>
      /\ \/ Corpus!Measurable(picked.late) /\ phase' = "delivered" /\ rows' = DeliveredRows
         \/ phase' = "abandoned" /\ rows' = rows
  BY DEF DeliverFile
<1>2. /\ Importable' = Importable
      /\ RepeatPositions' = RepeatPositions /\ DuplicatePositions' = DuplicatePositions
      /\ (Corpus!LatePositions)' = Corpus!LatePositions
  BY <1>1, ProfileStays
<1>3. DeliveredRows' = DeliveredRows /\ Corpus!Measurable(picked.late)' = Corpus!Measurable(picked.late)
  BY <1>1, FileStays
<1>4. ProfileFits'
  BY <1>1, <1>2 DEF ProfileInv, ProfileFits
<1>5. PicksFit'
  BY <1>1, <1>2 DEF ProfileInv, PicksFit
<1>6. EventsFit'
  <2>1. Attributes' = Attributes /\ Bases' = Bases
    BY <1>1 DEF Attributes, Counterparties, Bases
  <2> QED
    BY <1>1, <2>1 DEF ProfileInv, EventsFit
<1>7. RowsFit'
  BY <1>1, <1>3 DEF ProfileInv, RowsFit
<1> QED
  BY <1>4, <1>5, <1>6, <1>7 DEF ProfileInv

LEMMA StepProfile == ProfileInv /\ [ProfileNext]_profileVars => ProfileInv'
<1> SUFFICES ASSUME ProfileInv, [ProfileNext]_profileVars PROVE ProfileInv'
  OBVIOUS
<1>1. CASE UNCHANGED profileVars
  <2>1. UNCHANGED <<profile, phase, picked, events, rows>>
    BY <1>1 DEF profileVars
  <2>2. /\ Importable' = Importable
        /\ RepeatPositions' = RepeatPositions /\ DuplicatePositions' = DuplicatePositions
        /\ (Corpus!LatePositions)' = Corpus!LatePositions
    BY <2>1, ProfileStays
  <2>3. DeliveredRows' = DeliveredRows /\ Corpus!Measurable(picked.late)' = Corpus!Measurable(picked.late)
    BY <2>1, FileStays
  <2>4. Attributes' = Attributes /\ Bases' = Bases
    BY <2>1 DEF Attributes, Counterparties, Bases
  <2>5. ProfileFits' /\ PicksFit'
    BY <2>1, <2>2 DEF ProfileInv, ProfileFits, PicksFit
  <2>6. EventsFit'
    BY <2>1, <2>4 DEF ProfileInv, EventsFit
  <2>7. RowsFit'
    BY <2>1, <2>3 DEF ProfileInv, RowsFit
  <2> QED
    BY <2>5, <2>6, <2>7 DEF ProfileInv
<1>2. CASE ProfileNext
  BY <1>2, ImportFits, SelectFits, TooFewFits, RepeatFits, GenerateFits, ExhaustedFits, DeliverFits
     DEF ProfileNext
<1> QED
  BY <1>1, <1>2

\* The size of an interval.
LEMMA FromTo ==
  ASSUME NEW a \in Int, NEW b \in Int, a <= b + 1
  PROVE  IsFiniteSet(a..b) /\ Cardinality(a..b) = b - (a - 1)
<1>1. IsFiniteSet(a..b) /\ Cardinality(a..b) = IF a > b THEN 0 ELSE b - a + 1
  BY FS_Interval
<1> QED
  BY <1>1

\* Event i is one that something newer was emitted before.
Overtaken(n, A, E) == {i \in 1..n : \E j \in 1..n : E[j] < E[i] /\ A[j] > A[i]}

\* Each record of s is one of n events, at the moment A and emitted at E; all n are there.
Timed(s, n, A, E) ==
  /\ \A p \in DOMAIN s : s[p].id \in 1..n /\ s[p].at = A[s[p].id] /\ s[p].emitted = E[s[p].id]
  /\ \A i \in 1..n : \E p \in DOMAIN s : s[p].id = i

\* The late arrivals of a file are the events overtaken, however often each is delivered.
LEMMA LateArrivalsAre ==
  ASSUME NEW n \in Nat, NEW s, NEW A, NEW E, Timed(s, n, A, E)
  PROVE  Corpus!Identities(s, Corpus!LateArrivals(s)) = Overtaken(n, A, E)
<1> USE DEF Timed
<1>1. ASSUME NEW p \in DOMAIN s, NEW q \in DOMAIN s, s[q].emitted < s[p].emitted, s[q].at > s[p].at
      PROVE  s[p].id \in Overtaken(n, A, E)
  <2>1. PICK i \in 1..n, j \in 1..n : i = s[p].id /\ j = s[q].id
    OBVIOUS
  <2>2. E[j] < E[i] /\ A[j] > A[i]
    BY <1>1, <2>1
  <2> QED
    BY <2>1, <2>2 DEF Overtaken
<1>2. ASSUME NEW i \in Overtaken(n, A, E)
      PROVE  \E p \in DOMAIN s : s[p].id = i /\ \E q \in DOMAIN s : s[q].emitted < s[p].emitted /\ s[q].at > s[p].at
  <2>1. i \in 1..n
    BY DEF Overtaken
  <2>2. PICK j \in 1..n : E[j] < E[i] /\ A[j] > A[i]
    BY DEF Overtaken
  <2>3. PICK p \in DOMAIN s : s[p].id = i
    BY <2>1
  <2>4. PICK q \in DOMAIN s : s[q].id = j
    OBVIOUS
  <2>5. s[q].emitted < s[p].emitted /\ s[q].at > s[p].at
    BY <2>2, <2>3, <2>4
  <2> QED
    BY <2>3, <2>5
<1> QED
  BY <1>1, <1>2 DEF Corpus!Identities, Corpus!LateArrivals

\* What the profile and its picks are once the file is delivered.
LEMMA DeliveredFits ==
  ASSUME ProfileInv, phase = "delivered"
  PROVE  /\ profile \in Declaration /\ profile.count \in Nat \ {0} /\ profile.interval \in Nat \ {0}
         /\ profile.repeats \in Nat /\ profile.twice \in Nat /\ profile.late \in Nat
         /\ profile.lateBy \in Nat /\ profile.start \in Int
         /\ picked.late \in SUBSET (1..profile.count)
         /\ picked.twice \in SUBSET (1..profile.count) /\ Cardinality(picked.twice) = profile.twice
         /\ picked.repeats \in SUBSET (1..profile.count) /\ Cardinality(picked.repeats) = profile.repeats
<1>1. /\ profile \in Declaration /\ Importable
      /\ picked.repeats \in RepeatPositions /\ picked.twice \in DuplicatePositions
      /\ picked.late \in Corpus!LatePositions
  BY DEF ProfileInv, ProfileFits, PicksFit
<1>2. /\ profile.count \in Nat /\ profile.interval \in Nat /\ profile.repeats \in Nat /\ profile.twice \in Nat
      /\ profile.late \in Nat /\ profile.lateBy \in Nat /\ profile.start \in Int
  BY <1>1 DEF Declaration
<1>3. profile.count >= 1 /\ profile.interval >= 1
  BY <1>1 DEF Importable, StreamFits
<1>4. picked.late \in SUBSET (1..profile.count)
  <2>1. picked.late \in SUBSET (1..profile.count - 1)
    BY <1>1 DEF Corpus!LatePositions
  <2> QED
    BY <1>2, <2>1
<1>5. picked.twice \in SUBSET (1..profile.count) /\ Cardinality(picked.twice) = profile.twice
  BY <1>1 DEF DuplicatePositions, Selected
<1>6. picked.repeats \in SUBSET (2..profile.count) /\ Cardinality(picked.repeats) = profile.repeats
  BY <1>1 DEF RepeatPositions, Selected
<1> QED
  BY <1>1, <1>2, <1>3, <1>4, <1>5, <1>6

\* The rows of a delivered file, each its event's.
RowsHold ==
  /\ Len(rows) = profile.count + profile.twice /\ DOMAIN rows = 1..Len(rows)
  /\ \A p \in DOMAIN rows :
       /\ rows[p].id \in 1..profile.count
       /\ rows[p].at = EventTime(rows[p].id)
       /\ rows[p].emitted = EventTime(rows[p].id) + (IF rows[p].id \in picked.late THEN profile.lateBy ELSE 0)
       /\ rows[p].paid = events[rows[p].id]
       /\ rows[p].drifted = (rows[p].id \in DriftPositions)
  /\ \A i \in 1..profile.count : \E p \in DOMAIN rows : rows[p].id = i

LEMMA DeliveredHolds == ASSUME ProfileInv, phase = "delivered" PROVE RowsHold
<1> DEFINE n == profile.count
           file == Corpus!DeliveredRecords(picked.late, picked.twice)
           pay == Payments(picked.late)
<1>1. /\ profile \in Declaration /\ n \in Nat \ {0} /\ profile.interval \in Nat \ {0}
      /\ profile.lateBy \in Nat /\ profile.start \in Int
      /\ picked.twice \in SUBSET (1..n) /\ Cardinality(picked.twice) = profile.twice
  BY DeliveredFits
<1>2. Dispatch(n, Emission(picked.late), pay, Corpus!DeliveryOrder(picked.late), picked.twice, file, Stamped)
  BY <1>1, ProfileDispatches
<1>3. /\ file \in Seq(Stamped) /\ Len(file) = n + profile.twice
      /\ \A k \in 1..Len(file) : file[k].id \in 1..n /\ file[k] = pay[file[k].id]
      /\ \A i \in 1..n : \E k \in 1..Len(file) : file[k].id = i
  <2> HIDE DEF n, file, pay
  <2> QED
    BY <1>1, <1>2, DispatchHolds
<1>4. rows = [p \in DOMAIN file |-> Row(file[p])]
  BY DEF ProfileInv, RowsFit, DeliveredRows
<1> HIDE DEF file
<1>5. DOMAIN rows = 1..Len(file) /\ Len(rows) = Len(file) /\ \A p \in 1..Len(file) : rows[p] = Row(file[p])
  BY <1>3, <1>4
<1>6. ASSUME NEW p \in 1..Len(file)
      PROVE  /\ rows[p].id \in 1..n /\ rows[p].id = file[p].id
             /\ rows[p].at = EventTime(rows[p].id)
             /\ rows[p].emitted = EventTime(rows[p].id) + (IF rows[p].id \in picked.late THEN profile.lateBy ELSE 0)
             /\ rows[p].paid = events[rows[p].id]
             /\ rows[p].drifted = (rows[p].id \in DriftPositions)
  <2>1. PICK i \in 1..n : i = file[p].id /\ file[p] = pay[i]
    BY <1>3
  <2>2. i \in Nat /\ pay[i] = Corpus!Payment(i, picked.late)
    BY <1>1, <2>1 DEF Payments
  <2> DEFINE late == IF i \in picked.late THEN profile.lateBy ELSE 0
  <2>3. /\ file[p].id = i /\ file[p].at = profile.interval * i
        /\ file[p].emitted = profile.interval * i + late
    BY <1>1, <2>1, <2>2, PaymentIs, SMTT(30)
  <2>4. late \in Int /\ profile.interval * i \in Int
    BY <1>1, <2>2
  <2> HIDE DEF late
  <2>5. file[p].emitted - file[p].at = late
    BY <2>3, <2>4
  <2>6. /\ Row(file[p]).id = i /\ Row(file[p]).at = EventTime(i) /\ Row(file[p]).emitted = EventTime(i) + late
        /\ Row(file[p]).paid = events[i] /\ Row(file[p]).drifted = (i \in DriftPositions)
    BY <2>3, <2>5 DEF Row
  <2>7. rows[p] = Row(file[p])
    BY <1>5
  <2>8. /\ rows[p].id = i /\ rows[p].at = EventTime(i) /\ rows[p].emitted = EventTime(i) + late
        /\ rows[p].paid = events[i] /\ rows[p].drifted = (i \in DriftPositions)
    BY <2>6, <2>7
  <2>9. rows[p].id \in 1..n /\ rows[p].id = file[p].id
    BY <2>1, <2>8
  <2>10. rows[p].emitted =
           EventTime(rows[p].id) + (IF rows[p].id \in picked.late THEN profile.lateBy ELSE 0)
    BY <2>8 DEF late
  <2> QED
    BY <2>8, <2>9, <2>10
<1>7. ASSUME NEW i \in 1..n PROVE \E p \in 1..Len(file) : rows[p].id = i
  BY <1>3, <1>6
<1> QED
  BY <1>3, <1>5, <1>6, <1>7 DEF RowsHold

LEMMA FilePredicted == ASSUME ProfileInv, phase = "delivered" PROVE PredictionIsTheFile
<1> DEFINE n == profile.count
           number == [p \in DOMAIN rows |-> rows[p].id]
<1>1. /\ n \in Nat \ {0} /\ profile.repeats \in Nat /\ profile.twice \in Nat
      /\ picked.repeats \in SUBSET (1..n) /\ Cardinality(picked.repeats) = profile.repeats
  BY DeliveredFits
<1>2. RowsHold
  BY DeliveredHolds
<1>3. IsFiniteSet(1..n) /\ Cardinality(1..n) = n
  <2>1. n \in Int /\ 1 \in Int /\ 1 <= n + 1 /\ n - (1 - 1) = n
    BY <1>1
  <2> HIDE DEF n
  <2>2. IsFiniteSet(1..n) /\ Cardinality(1..n) = n - (1 - 1)
    BY <2>1, FromTo
  <2> QED
    BY <2>1, <2>2
<1>4. /\ number \in [DOMAIN rows -> 1..n] /\ \A i \in 1..n : \E p \in DOMAIN rows : number[p] = i
      /\ DOMAIN rows = 1..Len(rows) /\ Len(rows) = n + profile.twice
      /\ \A p \in DOMAIN rows : number[p] = rows[p].id
  BY <1>2 DEF RowsHold
<1>5. DistinctIdentities(rows) = n
  <2>1. Corpus!Identities(rows, DOMAIN rows) = 1..n
    BY <1>4 DEF Corpus!Identities
  <2> QED
    BY <1>3, <2>1 DEF DistinctIdentities
<1> HIDE DEF number
<1>6. Cardinality(DriftedRows(rows)) = DriftedRowCount
  <2>1. DriftedRows(rows) = {p \in DOMAIN rows : number[p] \in DriftPositions}
    BY <1>2, <1>4 DEF DriftedRows, RowsHold
  <2>2. CASE ~Drifts
    <3>1. DriftedRows(rows) = {}
      BY <2>1, <2>2 DEF DriftPositions
    <3> QED
      BY <2>2, <3>1, FS_EmptySet DEF DriftedRowCount
  <2>3. CASE Drifts
    <3>1. profile.drift \in Nat /\ profile.drift > 1 /\ profile.drift <= n /\ profile.twice = 0
      <4>1. profile \in Declaration /\ Importable
        BY DEF ProfileInv, ProfileFits
      <4> QED
        BY <1>1, <2>3, <4>1 DEF Declaration, Importable, DriftIsMidStream, DefectsFit, DriftStandsAlone, Drifts
    <3>2. DriftPositions = profile.drift..n
      BY <1>1, <2>3, <3>1 DEF DriftPositions
    <3>3. Cardinality(profile.drift..n) = n - (profile.drift - 1)
      <4>1. profile.drift \in Int /\ n \in Int /\ profile.drift <= n + 1
        BY <1>1, <3>1
      <4> HIDE DEF n
      <4> QED
        BY <4>1, FromTo
    <3>4. DOMAIN rows = 1..n
      BY <1>1, <1>4, <3>1
    <3>5. number \in Surjection(1..n, 1..n)
      BY <1>4, <3>4 DEF Surjection
    <3>6. number \in Injection(1..n, 1..n)
      BY <1>3, <3>5, FS_Surjection
    <3>7. \A p, q \in 1..n : number[p] = number[q] => p = q
      BY <3>6 DEF Injection, IsInjective
    <3> DEFINE D == DriftedRows(rows)
               kept == [p \in D |-> number[p]]
    <3>8. D = {p \in 1..n : number[p] \in profile.drift..n}
      BY <2>1, <3>2, <3>4
    <3> HIDE DEF D
    <3>9. kept \in [D -> profile.drift..n] /\ (\A p, q \in D : kept[p] = kept[q] => p = q)
      BY <3>7, <3>8
    <3>10. \A i \in profile.drift..n : \E p \in D : kept[p] = i
      <4> SUFFICES ASSUME NEW i \in profile.drift..n PROVE \E p \in D : kept[p] = i
        OBVIOUS
      <4>1. i \in 1..n
        BY <1>1, <3>1
      <4>2. PICK p \in 1..n : number[p] = i
        BY <1>4, <3>4, <4>1
      <4> QED
        BY <3>8, <4>2
    <3>11. IsFiniteSet(D)
      BY <1>3, <3>8, FS_Subset
    <3>12. Cardinality(profile.drift..n) = Cardinality(D)
      <4> HIDE DEF kept
      <4> QED
        BY <3>9, <3>10, <3>11, Paired
    <3> QED
      BY <2>3, <3>3, <3>12 DEF D, DriftedRowCount
  <2> QED
    BY <2>2, <2>3
<1>7. DistinctBusinessAttributes(rows) = BaseCount
  <2> DEFINE mine == (1..n) \ picked.repeats
             kept == [i \in mine |-> events[i]]
  <2>1. /\ DOMAIN events = 1..n
        /\ \A i \in 1..n : events[i] \in Bases
        /\ \A i, j \in (DOMAIN events) \ picked.repeats : events[i] = events[j] => i = j
    <3>1. events \in Seq(Attributes) /\ Len(events) = n
      BY DEF ProfileInv, EventsFit, RowsFit
    <3>2. DOMAIN events = 1..n
      BY <3>1
    <3> QED
      BY <3>2 DEF ProfileInv, EventsFit
  <2>2. {rows[p].paid : p \in DOMAIN rows} = {events[i] : i \in 1..n}
    BY <1>2 DEF RowsHold
  <2>3. {events[i] : i \in 1..n} = Bases
    BY <2>1 DEF Bases
  <2>4. Bases = {events[i] : i \in mine}
    BY <2>1 DEF Bases
  <2>5. kept \in [mine -> Bases] /\ (\A i, j \in mine : kept[i] = kept[j] => i = j)
        /\ (\A z \in Bases : \E i \in mine : kept[i] = z)
    BY <2>1, <2>4
  <2>6. IsFiniteSet(mine) /\ Cardinality(mine) = n - profile.repeats
    <3>1. (1..n) \cap picked.repeats = picked.repeats
      BY <1>1
    <3>2. Cardinality(mine) = n - Cardinality((1..n) \cap picked.repeats) /\ IsFiniteSet(mine)
      BY <1>3, FS_Difference
    <3> QED
      BY <1>1, <3>1, <3>2
  <2> HIDE DEF mine, kept
  <2>7. Cardinality(Bases) = Cardinality(mine)
    BY <2>5, <2>6, Paired
  <2> QED
    BY <2>2, <2>3, <2>6, <2>7 DEF DistinctBusinessAttributes, BaseCount
<1>8. Len(rows) = DeliveredRowCount
  BY <1>4 DEF DeliveredRowCount
<1> QED
  BY <1>5, <1>6, <1>7, <1>8 DEF PredictionIsTheFile

LEMMA LatenessHolds == ASSUME ProfileInv, phase = "delivered" PROVE LatenessIsReal
<1> DEFINE n == profile.count
           late == picked.late
           order == Corpus!DeliveryOrder(late)
           At == [i \in 1..n |-> profile.interval * i]
           Sent == [i \in 1..n |-> profile.interval * i + (IF i \in late THEN profile.lateBy ELSE 0)]
           RowAt == [i \in 1..n |-> EventTime(i)]
           RowSent == [i \in 1..n |-> EventTime(i) + (IF i \in late THEN profile.lateBy ELSE 0)]
<1>1. /\ profile \in Declaration /\ n \in Nat \ {0} /\ profile.interval \in Nat \ {0}
      /\ profile.lateBy \in Nat /\ profile.late \in Nat /\ profile.start \in Int
      /\ picked.twice \in SUBSET (1..n)
  BY DeliveredFits
<1>2. RowsHold
  BY DeliveredHolds
<1>3. Corpus!Identities(order, Corpus!LateArrivals(order)) = Overtaken(n, At, Sent)
  <2>1. Dispatch(n, Emission(late), Payments(late), order, picked.twice,
                 Corpus!DeliveredRecords(late, picked.twice), Stamped)
    BY <1>1, ProfileDispatches
  <2>2. /\ order \in [1..n -> Stamped]
        /\ \A p \in 1..n : order[p].id \in 1..n /\ order[p] = Payments(late)[order[p].id]
        /\ \A i \in 1..n : \E p \in 1..n : order[p].id = i
    <3> DEFINE e == Emission(late)
               pay == Payments(late)
               file == Corpus!DeliveredRecords(late, picked.twice)
               again == picked.twice
    <3>1. Dispatch(n, e, pay, order, again, file, Stamped) /\ n \in Nat \ {0}
      BY <1>1, <2>1
    <3> HIDE DEF order, n, e, pay, file, again, late
    <3>2. Ordered(n, e, pay, order, Stamped)
      BY <3>1, OrderHolds
    <3> QED
      BY <3>2 DEF pay, Ordered
  <2>3. ASSUME NEW p \in 1..n
        PROVE  order[p].id \in 1..n /\ order[p].at = At[order[p].id] /\ order[p].emitted = Sent[order[p].id]
    <3>1. PICK i \in 1..n : i = order[p].id /\ order[p] = Payments(late)[i]
      BY <2>2
    <3>2. i \in Nat /\ Payments(late)[i] = Corpus!Payment(i, late)
      BY <1>1 DEF Payments
    <3>3. /\ Corpus!Payment(i, late).at = profile.interval * i
          /\ Corpus!Payment(i, late).emitted = profile.interval * i + (IF i \in late THEN profile.lateBy ELSE 0)
      BY <1>1, <3>2, PaymentIs
    <3> QED
      BY <3>1, <3>2, <3>3
  <2>4. DOMAIN order = 1..n /\ n \in Nat
    BY <1>1, <2>2
  <2> HIDE DEF order, At, Sent, n
  <2>5. Timed(order, n, At, Sent)
    BY <2>2, <2>3, <2>4 DEF Timed
  <2> QED
    BY <2>4, <2>5, LateArrivalsAre
<1>4. Corpus!Identities(rows, Corpus!LateArrivals(rows)) = Overtaken(n, RowAt, RowSent)
  <2>1. \A p \in DOMAIN rows :
          rows[p].id \in 1..n /\ rows[p].at = RowAt[rows[p].id] /\ rows[p].emitted = RowSent[rows[p].id]
    BY <1>2 DEF RowsHold
  <2>2. \A i \in 1..n : \E p \in DOMAIN rows : rows[p].id = i
    BY <1>2 DEF RowsHold
  <2>3. n \in Nat
    BY <1>1
  <2> HIDE DEF RowAt, RowSent, n
  <2>4. Timed(rows, n, RowAt, RowSent)
    BY <2>1, <2>2 DEF Timed
  <2> QED
    BY <2>3, <2>4, LateArrivalsAre
<1>5. Overtaken(n, RowAt, RowSent) = Overtaken(n, At, Sent)
  <2> DEFINE lag == [i \in 1..n |-> IF i \in late THEN profile.lateBy ELSE 0]
             shift == profile.start - profile.interval
  <2>1. ASSUME NEW i \in 1..n
        PROVE  /\ At[i] \in Int /\ Sent[i] \in Int /\ shift \in Int
               /\ RowAt[i] = At[i] + shift /\ RowSent[i] = Sent[i] + shift
    <3>1. lag[i] \in Int /\ i \in Int /\ profile.interval * i \in Int /\ shift \in Int
      BY <1>1
    <3>2. profile.start + (i - 1) * profile.interval = profile.interval * i + shift
      BY <1>1, <3>1
    <3>3. EventTime(i) = profile.interval * i + shift
      BY <3>2 DEF EventTime
    <3>4. /\ RowAt[i] = EventTime(i) /\ RowSent[i] = EventTime(i) + lag[i]
          /\ At[i] = profile.interval * i /\ Sent[i] = profile.interval * i + lag[i]
      OBVIOUS
    <3> HIDE DEF RowAt, RowSent, At, Sent, shift, lag
    <3> QED
      BY <3>1, <3>3, <3>4
  <2> HIDE DEF RowAt, RowSent, At, Sent, shift, n
  <2>2. \A i, j \in 1..n : /\ (RowSent[j] < RowSent[i]) <=> (Sent[j] < Sent[i])
                           /\ (RowAt[j] > RowAt[i]) <=> (At[j] > At[i])
    BY <2>1
  <2> QED
    BY <2>2 DEF Overtaken
<1>6. Corpus!Identities(order, Corpus!LateArrivals(order)) = late
  BY DEF ProfileInv, RowsFit, Corpus!Measurable
<1>7. ASSUME NEW p \in DOMAIN rows, rows[p].id \in late PROVE CrossesAWindow(rows[p])
  <2>1. Window \in Nat \ {0} /\ profile.lateBy >= Window
    <3>1. late # {} /\ late \in Corpus!LatePositions
      BY <1>7 DEF ProfileInv, PicksFit
    <3>2. profile.late # 0
      <4>1. Cardinality(late) = profile.late /\ late \in SUBSET (1..n - 1)
        BY <3>1, SameOperators DEF Corpus!LatePositions
      <4>2. IsFiniteSet(late)
        <5>1. IsFiniteSet(1..n - 1)
          <6>1. n - 1 \in Int /\ 1 \in Int /\ 1 <= n - 1 + 1
            BY <1>1
          <6> HIDE DEF n
          <6> QED
            BY <6>1, FromTo
        <5> QED
          BY <4>1, <5>1, FS_Subset
      <4> QED
        BY <3>1, <4>1, <4>2, FS_EmptySet
    <3> QED
      BY <1>1, <3>2, GeneratorAssumption DEF ProfileInv, ProfileFits, Importable, DelayMatchesCount
  <2>2. /\ rows[p].at = EventTime(rows[p].id) /\ rows[p].emitted = EventTime(rows[p].id) + profile.lateBy
        /\ rows[p].id \in 1..n
    BY <1>2, <1>7 DEF RowsHold
  <2>3. EventTime(rows[p].id) \in Int
    <3>1. PICK i \in 1..n : i = rows[p].id
      BY <2>2
    <3>2. profile.start + (i - 1) * profile.interval \in Int
      BY <1>1
    <3> QED
      BY <3>1, <3>2 DEF EventTime
  <2>4. \A a \in Int : (a + profile.lateBy) \div Window > a \div Window
    BY <1>1, <2>1
  <2> QED
    BY <2>2, <2>3, <2>4 DEF CrossesAWindow
<1> QED
  BY <1>3, <1>4, <1>5, <1>6, <1>7 DEF LatenessIsReal

LEMMA OneSide == ASSUME ProfileInv PROVE OneVersionPerStream
<1>1. CASE phase # "delivered"
  BY <1>1 DEF ProfileInv, RowsFit, OneVersionPerStream
<1>2. CASE phase = "delivered"
  <2> SUFFICES ASSUME NEW p \in DOMAIN rows
               PROVE  CASE profile.placement = "before" -> rows[p].at < Earlier
                        [] profile.placement = "between" -> Earlier < rows[p].at /\ rows[p].at < Later
                        [] profile.placement = "after" -> Later < rows[p].at
    BY DEF OneVersionPerStream
  <2>1. /\ profile.count \in Nat \ {0} /\ profile.interval \in Nat \ {0} /\ profile.start \in Int
        /\ profile.placement = ObservedPlacement /\ profile.placement \in {"before", "between", "after"}
    BY <1>2, DeliveredFits DEF ProfileInv, ProfileFits, Importable, Declaration
  <2>2. PICK i \in 1..profile.count : rows[p].at = EventTime(i)
    BY <1>2, DeliveredHolds DEF RowsHold
  <2>3. /\ profile.start \in Int /\ EventTime(i) \in Int /\ LastEventTime \in Int
        /\ profile.start <= EventTime(i) /\ EventTime(i) <= LastEventTime
    <3>1. /\ profile.start + (i - 1) * profile.interval <= profile.start + (profile.count - 1) * profile.interval
          /\ profile.start <= profile.start + (i - 1) * profile.interval
          /\ profile.start + (i - 1) * profile.interval \in Int
          /\ profile.start + (profile.count - 1) * profile.interval \in Int
      BY <2>1
    <3> QED
      BY <2>1, <3>1 DEF EventTime, LastEventTime
  <2>4. Earlier \in Int /\ Later \in Int /\ Earlier < Later
    BY GeneratorAssumption
  <2>5. CASE profile.placement = "before"
    <3>1. LastEventTime < Earlier
      BY <2>1, <2>3, <2>4, <2>5 DEF ObservedPlacement
    <3> QED
      BY <2>2, <2>3, <2>4, <2>5, <3>1
  <2>6. CASE profile.placement = "between"
    <3>1. Earlier < profile.start /\ LastEventTime < Later
      BY <2>1, <2>3, <2>4, <2>6 DEF ObservedPlacement
    <3> QED
      BY <2>2, <2>3, <2>4, <2>6, <3>1
  <2>7. CASE profile.placement = "after"
    <3>1. Later < profile.start
      BY <2>1, <2>3, <2>4, <2>7 DEF ObservedPlacement
    <3> QED
      BY <2>2, <2>3, <2>4, <2>7, <3>1
  <2> QED
    BY <2>1, <2>5, <2>6, <2>7
<1> QED
  BY <1>1, <1>2

\* A reader of the delivered file measures what was declared, row for row (the defects
\* of StreamProfile and the predictions of measures.py); its late arrivals are real, and
\* a stream lies on one side of the vault's applied dates.
THEOREM FileAsDeclared == ProfileSpec => []FileIsAsDeclared
<1>1. ProfileInv => FileIsAsDeclared
  <2>1. ProfileInv => PredictionIsTheFile
    BY FilePredicted DEF PredictionIsTheFile, Delivered
  <2>2. ProfileInv => LatenessIsReal
    BY LatenessHolds DEF LatenessIsReal, Delivered
  <2> QED
    BY <2>1, <2>2, OneSide DEF FileIsAsDeclared
<1> QED
  BY <1>1, InitProfile, StepProfile, PTL DEF ProfileSpec

-----------------------------------------------------------------------------
(* The corpora of the event-time experiment are what a delivery leaves.     *)

LEMMA StampIs ==
  ASSUME NEW late, NEW i \in Nat
  PROVE  /\ Payment(i, late) \in Stamped /\ Payment(i, late).id = i
         /\ Payment(i, late).at = Interval * i /\ Interval * i \in Nat
         /\ Payment(i, late).emitted \in {Interval * i, Interval * i + LateBy}
<1>1. Interval \in Nat /\ LateBy \in Nat
  BY DeliveryAssumption
<1>2. Interval * i \in Nat /\ Interval * i + LateBy \in Int /\ Interval * i + 0 = Interval * i
  BY <1>1
<1>3. Interval * i + (IF i \in late THEN LateBy ELSE 0) \in {Interval * i, Interval * i + LateBy}
  BY <1>2
<1> QED
  BY <1>2, <1>3 DEF Payment, Stamped

LEMMA CorpusDispatches ==
  ASSUME NEW late, NEW twice \in SUBSET (1..EventCount)
  PROVE  Dispatch(EventCount, [i \in 1..EventCount |-> Payment(i, late).emitted],
                  [i \in 1..EventCount |-> Payment(i, late)], DeliveryOrder(late), twice,
                  DeliveredRecords(late, twice), Stamped)
<1> DEFINE n == EventCount
           e == [i \in 1..n |-> Payment(i, late).emitted]
           pay == [i \in 1..n |-> Payment(i, late)]
           order == DeliveryOrder(late)
           place == [i \in 1..n |-> Place(i, late)]
           nth == [p \in 1..n |-> CHOOSE i \in 1..n : place[i] = p]
<1>1. n \in Nat
  BY DeliveryAssumption
<1>2. ASSUME NEW i \in 1..n
      PROVE  /\ pay[i] \in Stamped /\ pay[i].id = i /\ pay[i] = Payment(i, late)
             /\ e[i] = Payment(i, late).emitted /\ e[i] \in Int
  <2>1. i \in Nat
    BY <1>1
  <2>2. Payment(i, late) \in Stamped /\ Payment(i, late).id = i
    BY <2>1, StampIs
  <2> QED
    BY <2>2 DEF Stamped
<1>3. ASSUME NEW i \in 1..n PROVE place[i] = Cardinality(NoLaterThan(e, n, i))
  <2>1. place[i] = Cardinality({j \in 1..n : NoLater(Payment(j, late), Payment(i, late))})
    BY DEF Place
  <2>2. ASSUME NEW j \in 1..n
        PROVE  NoLater(Payment(j, late), Payment(i, late)) <=> (e[j] < e[i] \/ (e[j] = e[i] /\ j <= i))
    <3>1. /\ Payment(j, late).emitted = e[j] /\ Payment(i, late).emitted = e[i]
          /\ Payment(j, late).id = j /\ Payment(i, late).id = i
      BY <1>2
    <3> QED
      BY <3>1 DEF NoLater
  <2> QED
    BY <2>1, <2>2 DEF NoLaterThan
<1>4. Ranking(n, e, place)
  BY <1>2, <1>3 DEF Ranking
<1>5. ReadOff(nth, n, place)
  BY DEF ReadOff
<1>6. \A p \in 1..n : \A i \in 1..n : (place[i] = p) = (Place(i, late) = p)
  OBVIOUS
<1>7. \A p \in 1..n : nth[p] = CHOOSE i \in 1..n : Place(i, late) = p
  BY <1>6
<1>8. ASSUME NEW p \in 1..n PROVE nth[p] \in 1..n
  <2> HIDE DEF place, nth, n, e
  <2> QED
    BY <1>1, <1>4, <1>5, <1>8, Placed
<1> HIDE DEF place, nth, e, pay
<1>9. order = [p \in 1..n |-> pay[nth[p]]]
  <2>1. order = [p \in 1..n |-> Payment(CHOOSE i \in 1..n : Place(i, late) = p, late)]
    BY Zenon DEF DeliveryOrder
  <2>2. ASSUME NEW p \in 1..n
        PROVE  Payment(CHOOSE i \in 1..n : Place(i, late) = p, late) = pay[nth[p]]
    <3>1. nth[p] = CHOOSE i \in 1..n : Place(i, late) = p
      BY <1>7
    <3>2. pay[nth[p]] = Payment(nth[p], late)
      BY <1>2, <1>8
    <3> QED
      BY <3>1, <3>2, Zenon
  <2> QED
    BY <2>1, <2>2, Zenon
<1>10. pay \in [1..n -> Stamped] /\ \A i \in 1..n : pay[i].id = i
  BY <1>2 DEF pay
<1>11. DeliveredRecords(late, twice) =
         FlattenSeq([p \in 1..n |-> Copies(order[p], order[p].id \in twice)])
  <2>1. ASSUME NEW p \in 1..n
        PROVE  (IF order[p].id \in twice THEN <<order[p], order[p]>> ELSE <<order[p]>>) =
                 Copies(order[p], order[p].id \in twice)
    BY DEF Copies
  <2>2. [p \in 1..n |-> IF order[p].id \in twice THEN <<order[p], order[p]>> ELSE <<order[p]>>] =
          [p \in 1..n |-> Copies(order[p], order[p].id \in twice)]
    BY <2>1
  <2>3. DeliveredRecords(late, twice) = FlattenSeq(
          [p \in 1..n |-> IF order[p].id \in twice THEN <<order[p], order[p]>> ELSE <<order[p]>>])
    BY DEF DeliveredRecords
  <2> QED
    BY <2>2, <2>3
<1> QED
  BY <1>4, <1>5, <1>9, <1>10, <1>11 DEF Dispatch, e, pay

\* What the measurement takes for granted of a corpus holds of every one the generator
\* delivers, whichever payments are late and whichever are delivered twice.
THEOREM DeliveriesAreCorpora ==
  \A late \in LatePositions : \A twice \in SUBSET (1..EventCount) : IsCorpus(DeliveredRecords(late, twice))
<1> SUFFICES ASSUME NEW late \in LatePositions, NEW twice \in SUBSET (1..EventCount)
             PROVE  IsCorpus(DeliveredRecords(late, twice))
  OBVIOUS
<1> DEFINE n == EventCount
           e == [i \in 1..n |-> Payment(i, late).emitted]
           pay == [i \in 1..n |-> Payment(i, late)]
           order == DeliveryOrder(late)
           c == DeliveredRecords(late, twice)
<1>1. n \in Nat \ {0} /\ Interval \in Nat /\ LateBy \in Nat
  BY DeliveryAssumption
<1>2. /\ c \in Seq(Stamped)
      /\ \A k \in 1..Len(c) : c[k].id \in 1..n /\ c[k] = pay[c[k].id]
      /\ \A k, l \in 1..Len(c) : k < l => c[k].id = c[l].id \/ Follows(e, c[k].id, c[l].id)
  <2>1. Dispatch(n, e, pay, order, twice, c, Stamped)
    BY CorpusDispatches
  <2> HIDE DEF n, e, pay, order, c
  <2> QED
    BY <1>1, <2>1, DispatchHolds
<1>3. DOMAIN c = 1..Len(c)
  BY <1>2
<1>4. \A i \in 1..n : /\ pay[i].at = Interval * i /\ Interval * i \in Nat /\ pay[i].emitted = e[i]
                      /\ pay[i].emitted \in {Interval * i, Interval * i + LateBy}
  BY <1>1, StampIs
<1> HIDE DEF c, e, pay
<1> SUFFICES ASSUME NEW k \in 1..Len(c), NEW l \in 1..Len(c)
             PROVE  /\ c[k].at \in Nat /\ c[k].emitted \in {c[k].at, c[k].at + LateBy}
                    /\ c[k].id = c[l].id => c[k] = c[l]
                    /\ k < l => \/ c[k].emitted < c[l].emitted
                                \/ c[k].emitted = c[l].emitted /\ c[k].at <= c[l].at
  BY <1>3 DEF IsCorpus, c
<1>5. PICK i \in 1..n, j \in 1..n : i = c[k].id /\ j = c[l].id /\ c[k] = pay[i] /\ c[l] = pay[j]
  BY <1>2
<1>6. /\ c[k].at = Interval * i /\ c[l].at = Interval * j /\ Interval * i \in Nat /\ Interval * j \in Nat
      /\ c[k].emitted = e[i] /\ c[l].emitted = e[j] /\ e[i] \in Nat /\ e[j] \in Nat
      /\ c[k].emitted \in {Interval * i, Interval * i + LateBy}
  <2>1. /\ pay[i].at = Interval * i /\ Interval * i \in Nat /\ pay[i].emitted = e[i]
        /\ pay[i].emitted \in {Interval * i, Interval * i + LateBy}
        /\ pay[j].at = Interval * j /\ Interval * j \in Nat /\ pay[j].emitted = e[j]
        /\ pay[j].emitted \in {Interval * j, Interval * j + LateBy}
    BY <1>4
  <2>2. /\ c[k].at = pay[i].at /\ c[l].at = pay[j].at
        /\ c[k].emitted = pay[i].emitted /\ c[l].emitted = pay[j].emitted
    BY <1>5
  <2>3. \A a, b \in Nat : \A x : x \in {a, a + b} => x \in Nat
    OBVIOUS
  <2>4. pay[i].emitted \in Nat /\ pay[j].emitted \in Nat
    BY <1>1, <2>1, <2>3
  <2>5. e[i] \in Nat /\ e[j] \in Nat
    BY <2>1, <2>4, Zenon
  <2>6. c[k].emitted \in {Interval * i, Interval * i + LateBy}
    BY <2>1, <2>2, Zenon
  <2>7. c[k].at = Interval * i /\ c[l].at = Interval * j /\ c[k].emitted = e[i] /\ c[l].emitted = e[j]
    BY <2>1, <2>2, Zenon
  <2> QED
    BY <2>1, <2>5, <2>6, <2>7
<1>7. c[k].at \in Nat /\ c[k].emitted \in {c[k].at, c[k].at + LateBy}
  BY <1>6
<1>8. c[k].id = c[l].id => c[k] = c[l]
  BY <1>5
<1>9. ASSUME k < l
      PROVE  c[k].emitted < c[l].emitted \/ (c[k].emitted = c[l].emitted /\ c[k].at <= c[l].at)
  <2>1. i = j \/ Follows(e, i, j)
    BY <1>2, <1>5, <1>9
  <2>2. CASE i = j
    BY <1>6, <2>2
  <2>3. CASE Follows(e, i, j)
    <3>1. e[i] <= e[j] /\ (e[i] = e[j] => i < j)
      BY <2>3 DEF Follows
    <3>2. i < j => Interval * i <= Interval * j
      BY <1>1
    <3> QED
      BY <1>6, <3>1, <3>2
  <2> QED
    BY <2>1, <2>2, <2>3
<1> QED
  BY <1>7, <1>8, <1>9

=============================================================================
