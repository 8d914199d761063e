------------------------------ MODULE Producer ------------------------------
(***************************************************************************)
(* opl.streaming.producer: publish_records offers a corpus to librdkafka,  *)
(* whose local queue is bounded and whose own thread delivers it; what     *)
(* the broker said comes back through callbacks the caller serves while it *)
(* polls or flushes.  A publish that raises leaves on the topic what had   *)
(* been delivered, and its caller may publish again.                       *)
(***************************************************************************)
EXTENDS Naturals, Sequences

CONSTANTS
  Corpora,        \* the corpora a caller may publish, each a sequence of records
  QueueSize,      \* how many records the local queue holds
  DrainAttempts,  \* _QUEUE_DRAIN_ATTEMPTS
  MaxPublishes    \* bound: calls of publish_records

Records == UNION {{c[i] : i \in DOMAIN c} : c \in Corpora}

ASSUME ProducerAssumption ==
  /\ QueueSize \in Nat \ {0} /\ DrainAttempts \in Nat \ {0} /\ MaxPublishes \in Nat
  /\ Corpora \subseteq Seq(Records)

VARIABLES
  corpus,     \* the records, in memory
  feed,       \* the records the topic's one partition holds
  queue,      \* the local queue, oldest first
  reports,    \* delivery callbacks not served yet: TRUE for a delivery
  offered,    \* how many records of the corpus have been enqueued
  polls,      \* polls spent on the record that does not fit
  delivered, failures, \* _DeliveryLedger
  publishing, \* where publish_records is
  publishes,  \* calls so far
  base,       \* how long the feed was when the last call began
  published   \* message_count of the last call, 0 if it has not returned

producerVars == <<corpus, feed, queue, reports, offered, polls, delivered, failures,
                  publishing, publishes, base, published>>

ProducerTypeOK ==
  /\ corpus \in Corpora /\ feed \in Seq(Records) /\ queue \in Seq(Records)
  /\ reports \in Seq(BOOLEAN) /\ Len(queue) <= QueueSize
  /\ offered \in Nat /\ polls \in 0..DrainAttempts
  /\ delivered \in Nat /\ failures \in Nat
  /\ publishing \in {"idle", "offer", "flush"}
  /\ publishes \in 0..MaxPublishes /\ base \in Nat /\ published \in Nat

ProducerInit ==
  /\ corpus \in Corpora /\ feed = <<>> /\ queue = <<>> /\ reports = <<>>
  /\ offered = 0 /\ polls = 0 /\ delivered = 0 /\ failures = 0
  /\ publishing = "idle" /\ publishes = 0 /\ base = 0 /\ published = 0

-----------------------------------------------------------------------------
(* librdkafka's thread: the head of the queue is acknowledged, in order and *)
(* once (enable.idempotence, acks=all), or given up.                        *)

Deliver ==
  /\ queue # <<>>
  /\ feed' = Append(feed, Head(queue))
  /\ queue' = Tail(queue) /\ reports' = Append(reports, TRUE)
  /\ UNCHANGED <<corpus, offered, polls, delivered, failures, publishing, publishes, base, published>>

\* Bound: one record per call.
GiveUp ==
  /\ queue # <<>> /\ failures = 0 /\ \A i \in DOMAIN reports : reports[i]
  /\ queue' = Tail(queue) /\ reports' = Append(reports, FALSE)
  /\ UNCHANGED <<corpus, feed, offered, polls, delivered, failures, publishing, publishes, base, published>>

\* A callback, in poll or flush: _DeliveryLedger.report.
ServeReport ==
  /\ publishing # "idle" /\ reports # <<>>
  /\ publishing = "flush" \/ Len(queue) = QueueSize
  /\ reports' = Tail(reports)
  /\ IF Head(reports) THEN delivered' = delivered + 1 /\ UNCHANGED failures
                      ELSE failures' = failures + 1 /\ UNCHANGED delivered
  /\ UNCHANGED <<corpus, feed, queue, offered, polls, publishing, publishes, base, published>>

-----------------------------------------------------------------------------
(* publish_records.                                                        *)

\* A fresh client and a fresh ledger.
Publish ==
  /\ publishing = "idle" /\ publishes < MaxPublishes
  /\ publishing' = "offer" /\ publishes' = publishes + 1
  /\ offered' = 0 /\ polls' = 0 /\ delivered' = 0 /\ failures' = 0
  /\ base' = Len(feed) /\ published' = 0
  /\ UNCHANGED <<corpus, feed, queue, reports>>

\* _produce_one: the record is enqueued.
Offer ==
  /\ publishing = "offer" /\ offered < Len(corpus) /\ Len(queue) < QueueSize
  /\ offered' = offered + 1 /\ polls' = 0
  /\ queue' = Append(queue, corpus[offered + 1])
  /\ UNCHANGED <<corpus, feed, reports, delivered, failures, publishing, publishes, base, published>>

\* publish_records leaves and its client goes with it: of what is queued some
\* was on its way and reaches the topic unreported.
CloseClient ==
  /\ publishing' = "idle" /\ queue' = <<>> /\ reports' = <<>>
  /\ \E n \in 0..Len(queue) : feed' = feed \o SubSeq(queue, 1, n)

\* It does not fit: poll, and after so many polls give the corpus up.
Poll ==
  /\ publishing = "offer" /\ offered < Len(corpus) /\ Len(queue) = QueueSize
  /\ \/ /\ polls + 1 < DrainAttempts /\ polls' = polls + 1
        /\ UNCHANGED <<publishing, feed, queue, reports>>
     \/ polls + 1 = DrainAttempts /\ polls' = 0 /\ CloseClient
  /\ UNCHANGED <<corpus, offered, delivered, failures, publishes, base, published>>

Flush ==
  /\ publishing = "offer" /\ offered = Len(corpus)
  /\ publishing' = "flush"
  /\ UNCHANGED <<corpus, feed, queue, reports, offered, polls, delivered, failures, publishes, base, published>>

\* mutant: the refusals count what was offered, not what was reported
CountsOffered(remaining) == remaining = 0

\* _refuse_an_incomplete_delivery.
Complete(remaining) == failures = 0 /\ remaining = 0 /\ delivered = offered

\* flush returns once the queue is empty, or when its timeout passes.
FlushReturns ==
  /\ publishing = "flush"
  /\ LET remaining == Len(queue) + Len(reports)
     IN  published' = IF Complete(remaining) THEN delivered ELSE 0
  /\ CloseClient
  /\ UNCHANGED <<corpus, offered, polls, delivered, failures, publishes, base>>

ProducerNext ==
  Deliver \/ GiveUp \/ ServeReport \/ Publish \/ Offer \/ Poll \/ Flush \/ FlushReturns

-----------------------------------------------------------------------------

\* What publish_records returns is on the topic: the whole corpus, once and in
\* order, whatever the queue, the broker and the timeouts did, and whatever an
\* earlier call that raised had left there before it.
PublishedIsOnTheTopic ==
  published > 0 =>
    /\ published = Len(corpus)
    /\ SubSeq(feed, base + 1, base + published) = corpus
=============================================================================
