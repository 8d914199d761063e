----------------------------- MODULE MCLanding -----------------------------
(* An instance of the three ways a file reaches the landing Volume for TLC: *)
(* the WebDAV share, the central bank's API and the merchant database.      *)
(* They share no state, so a behaviour is one of any of them.               *)
EXTENDS Extraction, ApiLanding, MerchantSnapshot

VARIABLE scope   \* the source of this behaviour

MCVars == <<vars, apiVars, merchantVars, scope>>

MCInit == ExtractionInit /\ ApiInit /\ MerchantInit /\ scope \in {"webdav", "api", "merchant"}

MCNext ==
  /\ \/ scope = "webdav" /\ ExtractionNext /\ UNCHANGED <<apiVars, merchantVars>>
     \/ scope = "api" /\ ApiNext /\ UNCHANGED <<vars, merchantVars>>
     \/ scope = "merchant" /\ MerchantNext /\ UNCHANGED <<vars, apiVars>>
  /\ UNCHANGED scope

MCStep == scope = "webdav" /\ Step /\ UNCHANGED <<apiVars, merchantVars, scope>>

MCSpec == MCInit /\ [][MCNext]_MCVars /\ WF_MCVars(MCStep)

\* Two versions of a file of one length, and a shorter one.
MCSize == <<2, 2, 1>>

\* A merchant of each class the mutation touches.
MCClass == [held |-> {"h"}, advance |-> {"a"}, insert |-> {"i"}, update |-> {"u"},
            silent |-> {"s"}, delete |-> {"d"}, untouched |-> {}]

----------------------------------------------------------------------------
\* What is landed is landed whole: no run of the WebDAV tools leaves half an
\* object it did not report, an exit code of 0 means every file asked for is
\* there, and Auto Loader never finds half of an API's file.
LandedWhole == NoHalfObjectAtRest /\ ZeroMeansLanded /\ NeverHalf

\* And it stays: a run deletes only what it sent, replaces only a file that was
\* not there when it looked, and finds the bytes it would write itself unless the
\* source revised them.
LandedWholeAndKept ==
  []LandedWhole /\ []ReproducibleUntilRevised /\ OnlyTheSenderDeletes /\ OnlyUnseenReplaced

\* Type correctness of the three.
TypesOK == ExtractionTypeOK /\ ApiTypeOK /\ MerchantTypeOK
=============================================================================
