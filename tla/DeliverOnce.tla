---------------------------- MODULE DeliverOnce ----------------------------
(***************************************************************************)
(* What an exactly-once sink promises: a block of records is appended in   *)
(* one commit, only if none of them is in the table, and nothing that was  *)
(* appended is taken back.                                                 *)
(***************************************************************************)
EXTENDS Naturals

CONSTANT Record   \* the deliveries a sink may be handed

VARIABLE rows     \* rows[r]: how many rows of the table are delivery r

Init == rows = [r \in Record |-> 0]

Deliver(block) ==
  /\ \A r \in block : rows[r] = 0
  /\ rows' = [r \in Record |-> IF r \in block THEN 1 ELSE rows[r]]

Next == \E block \in SUBSET Record : Deliver(block)

Spec == Init /\ [][Next]_rows
=============================================================================
