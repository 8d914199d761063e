------------------------------ MODULE MCIntake ------------------------------
(* How a payment file is generated and how the gate reads a staged one, for  *)
(* TLC.  They share no state, so a behaviour is one of either and the other  *)
(* stands still.                                                             *)
EXTENDS Generator, DqRules, TLC

CONSTANT Never

VARIABLE scope   \* whose steps this behaviour takes

----------------------------------------------------------------------------
\* Profiles: one window with every combination of defects, and every window with
\* one combination.  Dates 5 and 12; a window lasts 3.

Between ==
  [count |-> 4, repeats |-> 1, interval |-> 1, start |-> 7, placement |-> "between",
   twice |-> 0, late |-> 0, lateBy |-> 0, drift |-> Never]

Defective ==
  {[Between EXCEPT !.repeats = r, !.twice = t, !.late = n, !.lateBy = d, !.drift = i] :
     r \in {0, 2, 4}, t \in {0, 2, 5}, n \in {0, 1, 2, 4}, d \in 0..4,
     i \in {Never, 1, 3, 5}}

Placed ==
  {[Between EXCEPT !.count = c, !.start = s, !.interval = i, !.placement = w,
                   !.late = n, !.lateBy = 3 * n] :
     c \in {2, 4}, s \in {1, 2, 5, 6, 8, 9, 12, 13}, i \in {0, 1, 2}, n \in {0, 1},
     w \in {"before", "between", "after"}}

Profiles == Defective \cup Placed
\* Contracts cut to one column of every kind the rules tell apart; the merchant's
\* trade name and the partner's document may be NULL.
MCColumns ==
  [payments |-> {"transaction_id", "payer"},
   ptax |-> {"quote_date", "currency", "venda", "data_hora_cotacao"},
   merchant |-> {"cnpj", "legal_name", "trade_name", "onboarded_on", "credit_limit",
                 "_snapshot_at"},
   socios |-> {"cnpj_basico", "nome_socio_razao_social", "cpf_cnpj_socio"}]
MCRequired ==
  [payments |-> <<"transaction_id", "payer">>,
   ptax |-> <<"quote_date", "currency", "data_hora_cotacao", "venda">>,
   merchant |-> <<"cnpj", "legal_name", "credit_limit", "onboarded_on", "_snapshot_at">>,
   socios |-> <<"cnpj_basico", "nome_socio_razao_social">>]
MCShapes ==
  [payments |-> <<<<"basico", "payer">>>>,
   ptax |-> <<<<"iso date", "quote_date">>, <<"decimal", "venda">>,
              <<"publication", "data_hora_cotacao">>>>,
   merchant |-> <<<<"cnpj", "cnpj">>, <<"iso date", "onboarded_on">>,
                  <<"instant", "_snapshot_at">>, <<"decimal", "credit_limit">>>>,
   socios |-> <<<<"basico", "cnpj_basico">>>>]

\* Two flaws in the first row, so that rules shadow each other; one in the second.
MCWear == <<2, 1>>

Resting == [contract |-> "payments", refDated |-> FALSE, rescues |-> FALSE]

----------------------------------------------------------------------------
MCInit ==
  \/ scope = "generator" /\ ProfileInit
     /\ frame = Resting /\ batch = <<>> /\ split = {}
  \/ scope = "gate" /\ DqInit
     /\ profile = Between /\ phase = "refused" /\ picked = NothingPicked
     /\ events = <<>> /\ rows = <<>>

MCNext ==
  /\ \/ scope = "generator" /\ ProfileNext /\ UNCHANGED dqVars
     \/ scope = "gate" /\ DqNext /\ UNCHANGED profileVars
  /\ UNCHANGED scope

MCSpec == MCInit /\ [][MCNext]_<<profileVars, dqVars, scope>>
=============================================================================
