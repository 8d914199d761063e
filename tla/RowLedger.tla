------------------------------ MODULE RowLedger ------------------------------
(***************************************************************************)
(* What the bronze flow promises about each record of the source: it is    *)
(* staged once, and from staging it goes to bronze or to quarantine, never *)
(* from one to the other and never to both.  Only an operator's hand       *)
(* brings records back to staging.                                         *)
(***************************************************************************)
CONSTANT Row   \* the records of the source

VARIABLE where  \* where[r]: the one table that answers for record r

Init == where = [r \in Row |-> "unread"]

Move(rows, from, to) ==
  /\ \A r \in rows : where[r] = from
  /\ where' = [r \in Row |-> IF r \in rows THEN to ELSE where[r]]

Stage    == \E rows \in SUBSET Row : Move(rows, "unread", "staged")
Promote  == \E rows \in SUBSET Row : Move(rows, "staged", "bronze")
Reject   == \E rows \in SUBSET Row : Move(rows, "staged", "quarantine")
Withdraw == \E rows \in SUBSET Row, from \in {"bronze", "quarantine"} :
              Move(rows, from, "staged")

Next == Stage \/ Promote \/ Reject \/ Withdraw

Spec == Init /\ [][Next]_where
=============================================================================
