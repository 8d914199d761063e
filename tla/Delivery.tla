------------------------------ MODULE Delivery ------------------------------
(***************************************************************************)
(* opl.generator.defects and opl.generator.measures: the corpus a payment  *)
(* stream is delivered as -- some payments late, some delivered twice --   *)
(* and the lateness a reader of it measures.                               *)
(***************************************************************************)
EXTENDS Integers, Sequences, FiniteSets, SequencesExt

CONSTANTS
  EventCount,  \* payments in the stream
  Interval,    \* event_interval_ms
  LateCount,   \* late_count
  LateBy       \* late_by_ms

ASSUME DeliveryAssumption ==
  /\ EventCount \in Nat \ {0} /\ Interval \in Nat \ {0}
  /\ LateCount \in Nat /\ LateBy \in Nat

\* late_positions: never the last payment, which nothing newer can precede.
LatePositions == {late \in SUBSET (1..EventCount - 1) : Cardinality(late) = LateCount}

\* Payment i, _delayed if it is one of the late ones.
Payment(i, late) ==
  [id |-> i, at |-> Interval * i,
   emitted |-> Interval * i + (IF i \in late THEN LateBy ELSE 0)]

\* The key of sorted: when it was emitted, then its number.
NoLater(r, q) == r.emitted < q.emitted \/ (r.emitted = q.emitted /\ r.id <= q.id)
Place(i, late) ==
  Cardinality({j \in 1..EventCount : NoLater(Payment(j, late), Payment(i, late))})

\* _delivery_order: every payment at its place.
DeliveryOrder(late) ==
  [p \in 1..EventCount |->
     Payment(CHOOSE i \in 1..EventCount : Place(i, late) = p, late)]

\* late_arrivals: behind something newer that was emitted strictly earlier.
LateArrivals(s) ==
  {p \in DOMAIN s : \E q \in DOMAIN s : s[q].emitted < s[p].emitted /\ s[q].at > s[p].at}

Identities(s, positions) == {s[p].id : p \in positions}

\* What the generator does not refuse: the lateness injected is the lateness
\* measured, before any redelivery.
Measurable(late) ==
  /\ LateCount > 0 => LateBy > Interval
  /\ LET order == DeliveryOrder(late) IN Identities(order, LateArrivals(order)) = late

\* delivered_records: a redelivery follows its original, byte for byte.
DeliveredRecords(late, twice) ==
  LET order == DeliveryOrder(late)
  IN FlattenSeq([p \in 1..EventCount |->
       IF order[p].id \in twice THEN <<order[p], order[p]>> ELSE <<order[p]>>])
=============================================================================
