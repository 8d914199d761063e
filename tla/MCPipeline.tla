----------------------------- MODULE MCPipeline -----------------------------
\* The jobs on an instance for TLC.
EXTENDS Pipeline

\* Upstream of the fact; the links whose hubs other jobs load; the rest.
WorkingSets ==
  {{"vault_empresa", "vault_estabelecimento", "gold_dim_company", "gold_fact_payment"},
   {"vault_estabelecimento", "gold_pit_estabelecimento"},
   {"vault_empresa", "vault_merchant"},
   {"vault_empresa", "vault_partner", "vault_payments"},
   {"vault_empresa", "gold_conformed_dimensions"},
   {"vault_reference"}}
TwoMonths == 1..2
Establishments == {"estabelecimentos"}
=============================================================================
