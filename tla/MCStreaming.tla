---------------------------- MODULE MCStreaming ----------------------------
(* An instance of the two streaming experiments for TLC.  Each runs on a    *)
(* topic of its own, so a behaviour is one of either.                       *)
EXTENDS ExactlyOnce, EventTime

VARIABLE scope   \* which experiment runs in this behaviour

MCInit == Init /\ ProducerInit /\ EventInit /\ scope \in {"exactly_once", "event_time"}

MCNext ==
  /\ \/ scope = "exactly_once" /\ Next /\ UNCHANGED <<producerVars, eventVars>>
     \/ scope = "event_time" /\ EventNext /\ UNCHANGED vars
  /\ UNCHANGED scope

MCSpec == MCInit /\ [][MCNext]_<<vars, producerVars, eventVars, scope>>

\* Payments, one or two of them late: next to each other or apart; one of them
\* delivered twice.
MCCorpora ==
  {DeliveredRecords(late, twice) :
      late \in {l \in {{2}, {3}, {2, 3}, {1, 3}} : l \in LatePositions /\ Measurable(l)},
      twice \in {{}, {3}}}

----------------------------------------------------------------------------
\* Type correctness of both.
TypesOK == TypeOK /\ ProducerTypeOK /\ EventTypeOK
=============================================================================
