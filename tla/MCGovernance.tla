---------------------------- MODULE MCGovernance ----------------------------
(* An instance of the two halves of the control over personal names for TLC: *)
(* the column mask and the grants.  They share no state, so a behaviour is   *)
(* one of either.                                                            *)
EXTENDS Masking, Grants

VARIABLE half   \* the half of this behaviour

MCVars == <<maskingVars, grantsVars, half>>

\* The other half starts in one of its states only.
MCInit ==
  /\ MaskingInit /\ GrantsInit
  /\ \/ half = "mask" /\ grants = {}
     \/ half = "grants" /\ contract = "plain" /\ ~asserted

MCNext ==
  /\ \/ half = "mask" /\ MaskingNext /\ UNCHANGED grantsVars
     \/ half = "grants" /\ GrantsNext /\ UNCHANGED maskingVars
  /\ UNCHANGED half

MCSpec == MCInit /\ [][MCNext]_MCVars

\* Three months, of which the first and the last are ten years apart: a
\* filename carries one digit of the year.
MCTokenOf == <<"6-06", "6-07", "6-06">>

MCLine ==
  {[id |-> 1, token |-> "6-06", named |-> TRUE],
   [id |-> 2, token |-> "6-07", named |-> TRUE],
   [id |-> 3, token |-> "6-07", named |-> FALSE],
   [id |-> 4, token |-> "none", named |-> TRUE]}

MCLegacy == {l \in MCLine : l.id = 1}

----------------------------------------------------------------------------
\* Type correctness of both halves.
TypesOK == MaskingTypeOK /\ GrantsTypeOK
=============================================================================
