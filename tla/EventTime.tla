------------------------------ MODULE EventTime ------------------------------
(***************************************************************************)
(* opl.streaming.lateness and opl.streaming.watermarked_dedup: two         *)
(* watermark delays are derived from a corpus in memory, one that drops    *)
(* its late arrivals and one that keeps them; each arm reads the topic     *)
(* through the same dedup at its delay; the pair is evidence only if the   *)
(* difference is the one predicted.                                        *)
(*                                                                         *)
(* The engine is modelled from what the code measures of it: a batch is    *)
(* filtered against the watermark of the batches before the previous one,  *)
(* and which way a row exactly on the watermark goes is left open.         *)
(***************************************************************************)
EXTENDS Producer, Delivery, FiniteSetsExt

CONSTANTS
  Limits,        \* the max_offsets_per_trigger a caller may pass
  Cap,           \* numRecentProgressUpdates
  MaxProofs,     \* bound: calls of prove_boundary
  MaxLeftover    \* bound: the records an earlier publish left on a proof's topic

ASSUME EventTimeAssumption ==
  /\ Limits \subseteq Nat \ {0} /\ Cap \in Nat \ {0}
  /\ MaxProofs \in Nat /\ MaxLeftover \in Nat

\* What _delivery_order and delivered_records leave of a corpus: payments on time
\* or late, in order of emission and then of event time, a redelivery its original.
IsCorpus(c) ==
  \A i, j \in DOMAIN c :
    /\ c[i].at \in Nat /\ c[i].emitted \in {c[i].at, c[i].at + LateBy}
    /\ c[i].id = c[j].id => c[i] = c[j]
    /\ i < j => \/ c[i].emitted < c[j].emitted
                \/ c[i].emitted = c[j].emitted /\ c[i].at <= c[j].at

ASSUME CorpusAssumption == \A c \in Corpora : IsCorpus(c)

Arms == {"dropping", "keeping"}

VARIABLES
  boundary,  \* LatenessBoundary of the running proof
  limit,     \* the rate limit of the query, passed apart from the boundary's
  inclusive, \* does the watermark filter drop a row exactly on it
  capRead,   \* can the session's cap be read
  stage,     \* what prove_boundary is doing
  proofs,    \* calls so far
  readable,  \* readable: the end offset the arm's run resolved
  landed,    \* landed[a]: the rows of the arm's sink, in order
  state,     \* state[a]: the identities the dedup holds
  cuts,      \* cuts[a]: the end offset of each batch of the arm's checkpoint
  reading,   \* reading[a]: IngestedStream: rows, consuming batches, oldest update kept
  proven     \* the evidence, as the rows each arm landed

eventVars == <<boundary, limit, inclusive, capRead, stage, proofs, readable, landed,
               state, cuts, reading, proven>>

NoBoundary == [late |-> 0, limit |-> 0, dropping |-> 0, keeping |-> 0]
NoReading  == [rows |-> 0, batches |-> 0, oldest |-> 0]
NoProof    == [a \in Arms |-> <<>>]

EventInit ==
  /\ boundary = NoBoundary /\ limit = 1 /\ inclusive = TRUE /\ capRead = TRUE
  /\ stage = "idle" /\ proofs = 0 /\ readable = 0
  /\ landed = [a \in Arms |-> <<>>] /\ state = [a \in Arms |-> {}]
  /\ cuts = [a \in Arms |-> <<>>] /\ reading = [a \in Arms |-> NoReading]
  /\ proven = NoProof

EventTypeOK ==
  /\ boundary \in [late : Nat, limit : Nat, dropping : Int, keeping : Nat]
  /\ stage \in {"idle", "dropping", "keeping", "judge"}
  /\ landed \in [Arms -> Seq(Records)]
  /\ \A a \in Arms : state[a] \subseteq Records
  /\ reading \in [Arms -> [rows : Nat, batches : Nat, oldest : Nat]]

-----------------------------------------------------------------------------
(* lateness.py: the margins of a corpus and the delays placed between them. *)

CeilingOf(n, k) == (n + k - 1) \div k

\* mutant: the watermark of the batch just before
LagOfOne == 1

\* LATE_EVENT_WATERMARK_LAG_BATCHES
LagBatches == 2

Unreachable == -1

\* _batch_frontiers: the newest event of the batches that count for batch b.
Frontier(s, k, b) ==
  IF b <= LagBatches THEN Unreachable
  ELSE Max({s[p].at : p \in 1..Min({(b - LagBatches) * k, Len(s)})})

MarginOf(s, k, p) ==
  LET frontier == Frontier(s, k, (p - 1) \div k + 1)
  IN  IF frontier = Unreachable THEN Unreachable ELSE frontier - s[p].at

MarginsOf(s, k, positions) == {Unreachable} \cup {MarginOf(s, k, p) : p \in positions}

NarrowestLate(s, k) == Min({MarginOf(s, k, p) : p \in LateArrivals(s)} \cup {Max(MarginsOf(s, k, LateArrivals(s)))})
WidestLate(s, k)     == Max(MarginsOf(s, k, LateArrivals(s)))
WidestPunctual(s, k) == Max(MarginsOf(s, k, DOMAIN s \ LateArrivals(s)))

DroppingDelay(s, k) == NarrowestLate(s, k) \div 2

\* What boundary_for does not refuse.
Accepted(s, k) ==
  /\ LateCount > 0 /\ Cardinality(Identities(s, LateArrivals(s))) = LateCount
  /\ NarrowestLate(s, k) >= 2
  /\ DroppingDelay(s, k) > WidestPunctual(s, k)
  /\ LateBy > WidestLate(s, k)

BoundaryFor(s, k) ==
  [late |-> LateCount, limit |-> k, dropping |-> DroppingDelay(s, k), keeping |-> LateBy]

DelayOf(a) == IF a = "dropping" THEN boundary.dropping ELSE boundary.keeping

-----------------------------------------------------------------------------
(* prove_boundary: the two arms, one after the other.                      *)

\* A root of its own per call: fresh sinks and checkpoints.  A publish that
\* raised has ended its caller, so a proof follows one that returned.
ProveBoundary ==
  /\ stage = "idle" /\ publishing = "idle" /\ proofs < MaxProofs /\ published > 0
  /\ base <= MaxLeftover
  /\ limit' \in Limits /\ inclusive' \in BOOLEAN /\ capRead' \in BOOLEAN
  /\ \E k \in Limits : Accepted(corpus, k) /\ boundary' = BoundaryFor(corpus, k)
  /\ stage' = "dropping" /\ proofs' = proofs + 1 /\ readable' = Len(feed)
  /\ landed' = [a \in Arms |-> <<>>] /\ state' = [a \in Arms |-> {}]
  /\ cuts' = [a \in Arms |-> <<>>] /\ reading' = [a \in Arms |-> NoReading]
  /\ proven' = NoProof
  /\ UNCHANGED producerVars

Consumed(a) == IF cuts[a] = <<>> THEN 0 ELSE cuts[a][Len(cuts[a])]

\* The newest event of the first n batches of the arm's checkpoint.
Newest(a, n) == Max({Unreachable} \cup {feed[p].at : p \in 1..(IF n = 0 THEN 0 ELSE cuts[a][n])})

\* The filter's watermark, and the one the state is evicted by after a batch.
Behind(a, at, n) ==
  LET newest == IF n <= 0 THEN Unreachable ELSE Newest(a, n)
      mark   == newest - DelayOf(a)
  IN  newest # Unreachable /\ (at < mark \/ (inclusive /\ at = mark))

\* One batch through withWatermark and dropDuplicatesWithinWatermark.
RunBatch(a) ==
  /\ stage = a /\ Consumed(a) < readable
  /\ LET start  == Consumed(a)
         end    == Min({start + limit, readable})
         filter == Len(cuts[a]) - 1
         passes == {p \in start + 1..end : ~Behind(a, feed[p].at, filter)}
         first  == {p \in passes : /\ \A r \in state[a] : r.id # feed[p].id
                                   /\ \A q \in passes : q < p => feed[q].id # feed[p].id}
         new    == {feed[p] : p \in first}
     IN  /\ landed' = [landed EXCEPT ![a] = @ \o [i \in 1..Cardinality(first) |->
                         feed[CHOOSE p \in first : Cardinality({q \in first : q <= p}) = i]]]
         /\ state' = [state EXCEPT ![a] =
                         {r \in @ \cup new : ~Behind(a, r.at, Len(cuts[a]))}]
         /\ cuts' = [cuts EXCEPT ![a] = Append(@, end)]
  /\ UNCHANGED <<boundary, limit, inclusive, capRead, stage, proofs, readable, reading, proven, producerVars>>

\* The batch that only evicts, run when the last one moved the watermark.
Eviction(a) ==
  LET n == Len(cuts[a])
  IN  IF n > 0 /\ Newest(a, n) > Newest(a, n - 1) THEN 1 ELSE 0

RingIsFull(a) == capRead /\ Len(cuts[a]) + Eviction(a) >= Cap

\* recentProgress holds the last Cap updates.
Reported(a) ==
  LET updates == Len(cuts[a]) + Eviction(a)
      evicted == IF updates > Cap THEN Min({updates - Cap, Len(cuts[a])}) ELSE 0
  IN  [rows    |-> Consumed(a) - (IF evicted = 0 THEN 0 ELSE cuts[a][evicted]),
       batches |-> Len(cuts[a]) - evicted,
       oldest  |-> evicted + 1]

Refuse == stage' = "idle" /\ UNCHANGED <<readable, reading>>

\* _progress_of and the floor; the next arm resolves the topic's end afresh.
EndArm(a) ==
  /\ stage = a /\ Consumed(a) = readable
  /\ \/ (RingIsFull(a) \/ Reported(a).rows = 0) /\ Refuse
     \/ /\ ~RingIsFull(a) /\ Reported(a).rows > 0
        /\ reading' = [reading EXCEPT ![a] = Reported(a)]
        /\ stage' = IF a = "dropping" THEN "keeping" ELSE "judge"
        /\ readable' = Len(feed)
  /\ UNCHANGED <<boundary, limit, inclusive, capRead, proofs, landed, state, cuts, proven, producerVars>>

\* The query fails, or the process dies, inside an arm.
ArmFails ==
  /\ stage \in Arms
  /\ Refuse
  /\ UNCHANGED <<boundary, limit, inclusive, capRead, proofs, landed, state, cuts, proven, producerVars>>

SameCorpus == reading["dropping"] = reading["keeping"]

SplitAsDerived(a) == reading[a].batches = CeilingOf(reading[a].rows, boundary.limit)

Dropped == Len(landed["keeping"]) - Len(landed["dropping"])

\* The refusals a pair has to pass.
Consistent ==
  /\ SameCorpus /\ \A a \in Arms : SplitAsDerived(a)
  /\ Dropped > 0 /\ Dropped = boundary.late

Judge ==
  /\ stage = "judge"
  /\ stage' = "idle"
  /\ proven' = IF Consistent THEN landed ELSE NoProof
  /\ UNCHANGED <<boundary, limit, inclusive, capRead, proofs, readable, landed, state, cuts, reading, producerVars>>

\* Another process publishes to the topic between the arms' reads.
Intrude ==
  /\ stage \in Arms /\ Len(feed) = Len(corpus)
  /\ feed' = Append(feed, Head(corpus))
  /\ UNCHANGED <<corpus, queue, reports, offered, polls, delivered, failures,
                 publishing, publishes, base, published, eventVars>>

\* A caller publishes first and proves afterwards.
EventNext ==
  \/ stage = "idle" /\ ProducerNext /\ UNCHANGED eventVars
  \/ Intrude
  \/ ProveBoundary \/ Judge \/ ArmFails
  \/ \E a \in Arms : RunBatch(a) \/ EndArm(a)

EventSpec == ProducerInit /\ EventInit /\ [][EventNext]_<<producerVars, eventVars>>

-----------------------------------------------------------------------------

IdsOf(rows) == {rows[i].id : i \in DOMAIN rows}

LateIds == Identities(corpus, LateArrivals(corpus))

\* The prediction is met wherever it applies: both arms having read the corpus
\* the boundary was derived from, split as it was derived for, they differ by
\* the late arrivals, each identity once, whichever way the comparison falls.
PredictionIsMet ==
  stage = "judge" /\ feed = corpus /\ limit = boundary.limit
      /\ (\A a \in Arms : Consumed(a) = Len(corpus)) =>
    /\ IdsOf(landed["keeping"]) = IdsOf(corpus)
    /\ IdsOf(landed["dropping"]) = IdsOf(corpus) \ LateIds
    /\ \A a \in Arms : Len(landed[a]) = Cardinality(IdsOf(landed[a]))

\* Evidence separates exactly the late arrivals, also when the topic grew
\* between the reads, where the topic was empty before the corpus came.
EvidenceIsTheLateArrivals ==
  proven # NoProof /\ base = 0 =>
    IdsOf(proven["keeping"]) \ IdsOf(proven["dropping"]) = LateIds

\* BoundaryEvidence: "two landed counts over one corpus, and the rows between
\* them" -- whatever a publish that raised had left on the topic before.
EveryEvidenceIsTheLateArrivals ==
  proven # NoProof => IdsOf(proven["keeping"]) \ IdsOf(proven["dropping"]) = LateIds

\* A reading that rules truncation out is the whole run: the cap was read and
\* not reached, or the oldest update kept is the first batch there was.
TruncationRuledOut(a) == capRead \/ reading[a].oldest = 1

ReadingIsTheRun ==
  \A a \in Arms : reading[a] # NoReading /\ TruncationRuledOut(a) =>
    reading[a].rows = Consumed(a)

\* The run is the one the derivation is about, and what it measures is what was
\* predicted: of the punctual and of the late arrivals.
MeasuredIsPredicted == ReadingIsTheRun /\ PredictionIsMet /\ EvidenceIsTheLateArrivals

=============================================================================
