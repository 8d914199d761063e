------------------------------ MODULE MCVault ------------------------------
(* An instance of Vault for TLC: two relationships of one hub key, one of  *)
(* which may be rejected, depart, return, or come with another payload.    *)
EXTENDS Vault

MCRel     == {"r1", "r2"}
MCParent  == [r \in MCRel |-> "k"]
MCPayload == {1, 2}

Row(r, p) == [rel |-> r, payload |-> p]

Published(rows, rejects) == [accepted |-> rows, rejected |-> rejects]

\* r1 is absent, rejected, accepted with either payload, or accepted beside a
\* rejected sibling; r2, which shares its hub key, is there or not.
MCFile ==
  {Published({Row("r2", 2)} \cup a, {}) : a \in {{}, {Row("r1", 1)}, {Row("r1", 2)}}}
  \cup {Published({Row("r1", 1)}, {}), Published({Row("r1", 1)}, {"r1"}),
        Published({Row("r2", 2)}, {"r1"}), Published({}, {"r1"})}

=============================================================================
