------------------------------ MODULE MCTriage ------------------------------
(* An instance of the triage for TLC: two job runs of one job, of which the  *)
(* second has rejected rows or none.                                         *)
EXTENDS Triage

MCJobOf == [b \in Batch |-> "job"]
MCRejects ==
  {[b1 |-> [r1 |-> 1, r2 |-> 1], b2 |-> [r1 |-> 0, r2 |-> n]] : n \in {0, 1}}
MCClean == [b \in Batch |-> 1]
=============================================================================
