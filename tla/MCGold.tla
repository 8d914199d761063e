------------------------------- MODULE MCGold -------------------------------
(* An instance of the gold layer for TLC: the star and the point-in-time    *)
(* table.  They share no table (pit.py: "it joins to nothing in this star"), *)
(* so a behaviour is one of either and the other stands still.              *)
EXTENDS Star, Pit

VARIABLE scope   \* whose jobs run in this behaviour

MCInit == Init /\ PitInit /\ scope \in {"star", "pit"}

MCNext ==
  /\ \/ scope = "star" /\ Next /\ UNCHANGED pitVars
     \/ scope = "pit" /\ PitNext /\ UNCHANGED vars
  /\ UNCHANGED scope

MCSpec == MCInit /\ [][MCNext]_<<vars, pitVars, scope>>

----------------------------------------------------------------------------
\* Two companies; snapshots of days 2, 3 and 4 in any order, the last one bringing
\* a key the first hub load did not; a day has two instants.
MCCompany        == {"a", "b"}
MCDay            == 1..5
MCHubLoads       == {{"a"}, {"a", "b"}}
MCSatelliteLoads == {{<<"a", 2>>}, {<<"a", 3>>}, {<<"a", 4>>, <<"b", 4>>}}

Event(id, at, foreign, file) ==
  [id |-> id, payer |-> "a", payee |-> "b", foreign |-> foreign, at |-> at, file |-> file]

\* A foreign payment at midnight of day 2; its redelivery in a second file beside
\* a legitimate repeat at midnight of day 4, a second foreign payment.
MCPaymentLoads ==
  {{Event("p", 4, TRUE, "f")},
   {Event("p", 4, TRUE, "g"), Event("q", 8, TRUE, "g"), Event("r", 8, FALSE, "g")}}

\* The quote of day 1, published that evening; the same quote date with another
\* rate; the quote of day 3, published at midnight of day 4.
MCQuoteLoads ==
  {{[day |-> 1, published |-> 3, rate |-> 6]},
   {[day |-> 1, published |-> 5, rate |-> 5]},
   {[day |-> 3, published |-> 8, rate |-> 7]}}

\* Two establishments; a snapshot may bring one satellite a version and the
\* other none.
MCEstablishment == {"e", "g"}
MCPitSatellite  == {"dados", "endereco"}
MCApplied       == 1..3
MCKeyLoads      == {{"e"}, {"e", "g"}}

Brings(dados, endereco) == [s \in MCPitSatellite |-> IF s = "dados" THEN dados ELSE endereco]

MCSnapshots ==
  {Brings({<<"e", 1>>}, {<<"e", 1>>}),
   Brings({<<"e", 2>>, <<"g", 2>>}, {<<"g", 2>>}),
   Brings({<<"g", 3>>}, {<<"e", 3>>})}

----------------------------------------------------------------------------
\* Type correctness of both.
TypesOK == TypeOK /\ PitTypeOK
=============================================================================
