----------------------------- MODULE MCCatalogue -----------------------------
\* What the three registries declare, payloads cut to what the guards tell
\* apart, and the edits that can go wrong.
EXTENDS Catalogue

TwoMonths == {"2026-06", "2026-07"}

Basico == Key("cnpj_basico", {8})
EstabelecimentoKeys == <<Basico, Key("cnpj_ordem", {4}), Key("cnpj_dv", {2})>>
Counterparty(role, column) == End("hub_empresa", {role}, TRUE, {<<Prefix(column, 8)>>})
MerchantEnds == <<Bare("hub_merchant"), End("hub_empresa", {}, TRUE, {<<Prefix("cnpj", 8)>>})>>
PaymentEnds == <<Counterparty("payer", "payer_cnpj_basico"),
                 Counterparty("payee", "payee_cnpj_basico")>>
PartnerEnds == <<End("hub_empresa", {"company"}, TRUE, {}),
                 End("hub_empresa", {"partner"}, FALSE, {})>>
PartnerKeys == <<Plain("identificador_socio"), Plain("cpf_cnpj_socio")>>

Cnpj ==
  <<Hub("hub_empresa", "hub_empresa_hk", <<Basico>>),
    Snapshotted("sat_empresa_dados", "hub_empresa", <<"razao_social", "capital_social">>),
    Hub("hub_estabelecimento", "hub_estabelecimento_hk", EstabelecimentoKeys),
    Snapshotted("sat_estabelecimento_dados", "hub_estabelecimento", <<"nome_fantasia">>),
    Snapshotted("sat_estabelecimento_endereco", "hub_estabelecimento", <<"cep", "uf">>),
    Link("link_company_partner", "link_company_partner_hk", PartnerEnds, PartnerKeys),
    EffectivitySatellite("sat_eff_company_partner", "link_company_partner",
                         "data_entrada_sociedade"),
    ReferenceTable("ref_pais", "pais", "codigo", "descricao")>>
Merchant ==
  <<Hub("hub_merchant", "hub_merchant_hk", <<Plain("merchant_id")>>),
    Link("link_merchant_empresa", "link_merchant_empresa_hk", MerchantEnds, <<>>),
    EffectivitySatellite("sat_eff_merchant_empresa", "link_merchant_empresa", "onboarded_on")>>
Payments ==
  <<Link("link_payment", "link_payment_hk", PaymentEnds, <<Plain("transaction_id")>>),
    Satellite("sat_link_payment", "link_payment", <<"amount", "currency">>, "event_time",
              "iso-instant-text", TRUE)>>

DeclaredVault == Cnpj \o Merchant \o Payments
DeclaredDomain ==
  <<[name |-> "cnpj", tables |-> 1..8], [name |-> "merchant", tables |-> 9..11],
    [name |-> "payments", tables |-> 12..13]>>

Of2(source, keys) == {Grain(source, keys, <<>>, "_snapshot_month")}
PartnerGrain == Of2("socios", <<"cnpj_basico", "identificador_socio", "cpf_cnpj_socio">>)
MerchantGrain ==
  {Grain("merchant", <<"merchant_id", "cnpj">>, <<Prefix("cnpj", 8)>>, "snapshot_at")}
EstabelecimentoGrain == Of2("estabelecimentos", <<"cnpj_basico", "cnpj_ordem", "cnpj_dv">>)
DeclaredLedger ==
  (2 :> Of2("empresas", <<"cnpj_basico">>)) @@ (4 :> EstabelecimentoGrain)
  @@ (5 :> EstabelecimentoGrain) @@ (7 :> PartnerGrain) @@ (11 :> MerchantGrain) @@ (13 :> {})
LoadedFrom ==
  (2 :> "empresas") @@ (4 :> "estabelecimentos") @@ (5 :> "estabelecimentos")
  @@ (7 :> "socios") @@ (11 :> "merchant") @@ (13 :> "payments")

DeclaredGold ==
  <<Scd2("dim_company", "company_sk", "sat_empresa_dados"),
    Calendar("dim_date", "date_key", "full_date", "sat_empresa_dados",
             <<Role("event_date_key", "event_time", "contract", "iso-instant-text"),
               Role("fx_rate_date_key", "fx_rate_date", "derived", "date")>>),
    Enumerated("dim_channel", "channel_key", "channel_code", "payment_method",
               <<"PIX", "TED">>),
    Enumerated("dim_currency", "currency_key", "currency_code", "currency", <<"BRL", "USD">>),
    PointInTime("pit_estabelecimento", "hub_estabelecimento",
                <<"sat_estabelecimento_dados", "sat_estabelecimento_endereco">>, "as_of_date"),
    Fact("fact_payment", "transaction_id", "amount", "additive-within-currency", "dim_company",
         <<<<"payer_cnpj_basico", "payer_company_sk">>,
           <<"payee_cnpj_basico", "payee_company_sk">>>>,
         <<Derived("fx_rate", <<"currency", "event_time">>, "non-additive"),
           Derived("amount_brl", <<"amount", "fx_rate">>, "additive")>>,
         <<"dim_date", "dim_channel", "dim_currency">>)>>

DeclaredBronze ==
  <<Entry("cnpj_lookup", "lookup", "bronze_cnpj_lookup", "lookups", "local", {}, Monthly),
    Entry("cnpj_estab", "estabelecimentos", "bronze_cnpj_estab", "estabelecimentos", "zips",
          {"Estabelecimentos"}, Monthly),
    Entry("cnpj_socios", "socios", "bronze_cnpj_socios", "socios", "zips", {"Socios"}, Monthly),
    Entry("payments", "payments", "bronze_payments", "payments", "generated", {}, Monthly),
    Entry("ptax", "ptax", "bronze_ptax", "ptax", "api", {}, Monthly),
    Entry("merchant", "merchant", "bronze_merchant", "merchant", "postgres", {}, "snapshot_at")>>

Contract ==
  [lookup |-> {"codigo", "descricao"}, estabelecimentos |-> {"cnpj_basico"},
   socios |-> {"cnpj_basico"}, payments |-> {"transaction_id"}, ptax |-> {"currency"},
   merchant |-> {"merchant_id", "snapshot_at"}]
MaskedContracts == {"socios"}
Groups ==
  {[prefix |-> "Cnaes", table |-> "lookup"], [prefix |-> "Paises", table |-> "lookup"],
   [prefix |-> "Estabelecimentos", table |-> "estabelecimentos"],
   [prefix |-> "Socios", table |-> "socios"]}
Spelling ==
  [SAT_EMPRESA_DADOS |-> "sat_empresa_dados", DIM_DATE |-> "dim_date",
   CNPJ_ESTAB_STAGING |-> "cnpj_estab_staging"]

KeyLists == {<<>>, <<Plain("")>>, <<Key("cnpj_basico", {0})>>, <<Plain("cnpj_basico")>>,
             <<Basico, Basico>>, <<Plain("load_date")>>, <<Basico, Plain("razao_social")>>,
             <<Plain("hub_empresa_hk")>>, EstabelecimentoKeys}
EndLists ==
  {<<Bare("hub_empresa"), Bare("hub_empresa")>>, <<Bare("hub_empresa"), Bare("hub_merchant")>>,
   <<Bare("sat_empresa_dados"), Bare("hub_merchant")>>, <<Bare(""), Bare("hub_merchant")>>,
   <<Bare("hub_merchant")>>, PaymentEnds, PartnerEnds,
   <<End("hub_merchant", {""}, TRUE, {}), Bare("hub_empresa")>>,
   <<End("hub_merchant", {}, TRUE, {<<>>}), Bare("hub_empresa")>>,
   <<Bare("hub_merchant"), End("hub_empresa", {}, TRUE, {<<Prefix("cnpj", 14)>>})>>,
   <<Bare("hub_merchant"), End("hub_estabelecimento", {}, TRUE, {<<Prefix("cnpj", 8)>>})>>,
   <<Counterparty("payer", "cnpj"), Counterparty("payee", "cnpj")>>,
   <<End("hub_merchant", {}, FALSE, {}), End("hub_empresa", {}, FALSE, {})>>}

Fields ==
  [hub |-> [name |-> {"", "hub_merchant", "dim_date"},
            hashKey |-> {"", "cnpj_basico", "hub_empresa_hk", "razao_social", "as_of_date", "load_date"},
            keys |-> KeyLists],
   satellite |->
     [name |-> {"", "hub_empresa"},
      parent |-> {"hub_estabelecimento", "link_payment", "hub_gone"},
      payload |-> {<<>>, <<"uf", "uf">>, <<"hash_diff">>, <<"hub_empresa_hk">>,
                   <<"valid_from">>, <<"company_sk">>},
      applied |-> {[column |-> c, reads |-> r] : c \in {"", "load_date", "hub_empresa_hk"},
                                                 r \in {"date", "epoch"}},
      transactional |-> BOOLEAN],
   link |->
     [name |-> {"", "hub_empresa"}, hashKey |-> {"", "hub_empresa_hk"}, ends |-> EndLists,
      child |-> {<<>>, <<Plain("cnpj")>>, <<Key("cnpj", {14})>>, <<Plain("record_source")>>,
                 <<Plain("onboarded_on"), Plain("onboarded_on")>>,
                 <<Plain("cnpj_basico")>>, <<Plain("hub_merchant_hk")>>}],
   effectivity |->
     [name |-> {"", "hub_empresa"}, parent |-> {"hub_empresa", "link_payment", "gone"},
      entry |-> {"", "closed_by", "applied_date", "link_merchant_empresa_hk", "cpf_cnpj_socio"}],
   reference |->
     [name |-> {"", "sat_empresa_dados"}, lookupType |-> {""},
      naturalKey |-> {"", "descricao", "load_date"}, payload |-> {"", "codigo", "applied_date"}],
   scd2 |->
     [name |-> {"", "SAT_EMPRESA_DADOS", "bronze_ptax", "dim_date"},
      surrogate |-> {"", "valid_to", "cnpj_basico", "razao_social", "payer_company_sk"},
      source |-> {"hub_empresa", "sat_link_payment", "sat_estabelecimento_dados", "gone"}],
   calendar |->
     [name |-> {"DIM_DATE", "sat_empresa_dados"}, surrogate |-> {"load_date", "full_date", "year"},
      natural |-> {"", "year"}, source |-> {"hub_empresa", "gone"},
      roles |-> {<<>>, <<Role("event_date_key", "event_time", "contract", "iso-instant-text"),
                         Role("event_date_key", "fx_rate_date", "derived", "date")>>,
                 <<Role("event_date_key", "event_time", "contract", "member")>>,
                 <<Role("event_date_key", "event_time", "derived", "date")>>,
                 <<Role("amount", "event_time", "contract", "iso-instant-text")>>,
                 <<Role("event_time", "emitted_at", "contract", "iso-instant-text")>>,
                 <<Role("payee_company_sk", "event_time", "contract", "iso-instant-text")>>,
                 <<Role("event_date_key", "event_time", "contract", "iso-instant-text"),
                   Role("rate_key", "rate_date", "derived", "date")>>}],
   enumerated |->
     [name |-> {"DIM_DATE", "dim_extra"}, surrogate |-> {"channel_code", "event_date_key", "amount_brl"},
      natural |-> {"record_source"}, column |-> {"currency", "payment_channel", "gone", "amount"},
      members |-> {<<>>, <<"PIX", "PIX">>, <<"">>}],
   pit |->
     [name |-> {"SAT_EMPRESA_DADOS"}, hub |-> {"hub_empresa", "sat_estabelecimento_dados", "gone"},
      satellites |-> {<<"sat_estabelecimento_dados">>,
                      <<"sat_estabelecimento_dados", "sat_estabelecimento_dados">>,
                      <<"sat_empresa_dados", "sat_estabelecimento_dados">>,
                      <<"sat_link_payment", "sat_estabelecimento_dados">>},
      asOf |-> {"applied_date", "hub_estabelecimento_hk", "load_date",
                "sat_estabelecimento_dados_applied_date"}],
   fact |->
     [name |-> {"dim_date"}, grain |-> {"amount", "gone", "event_time"},
      measure |-> {"transaction_id", "currency"},
      additivity |-> {"additive", "non-additive"}, company |-> {"dim_date", "gone"},
      roles |-> {<<<<"payer_cnpj_basico", "payer_company_sk">>>>,
                 <<<<"payer_cnpj_basico", "channel_key">>,
                   <<"payee_cnpj_basico", "payee_company_sk">>>>,
                 <<<<"payer_cnpj_basico", "company_sk">>, <<"payee_cnpj_basico", "company_sk">>>>,
                 <<<<"payer_cnpj_basico", "fx_rate">>, <<"payee_cnpj_basico", "payee_company_sk">>>>},
      derived |-> {<<Derived("amount_brl", <<"amount", "fx_rate">>, "additive"),
                     Derived("fx_rate", <<"currency", "event_time">>, "non-additive")>>,
                   <<Derived("amount_brl", <<"amount">>, "additive")>>,
                   <<Derived("fx_rate", <<"currency">>, "additive"),
                     Derived("amount_brl", <<"fx_rate">>, "additive")>>,
                   <<Derived("fx_rate", <<"event_time">>, "non-additive"),
                     Derived("amount_brl", <<"amount", "fx_rate">>, "additive")>>},
      conformed |-> {<<>>, <<"dim_date", "dim_channel">>,
                     <<"dim_date", "dim_channel", "dim_currency", "dim_currency">>}],
   bronze |->
     [contract |-> {"socios", "gone"}, key |-> {"bronze_payments", "2026-06"},
      staging |-> {"CNPJ_ESTAB_STAGING", "bronze_ptax"}, bronze |-> {"dim_date", "fact_payment"},
      subdir |-> {"zips", "_tmp", "a/b", "", "estabelecimentos", "2026-06"},
      landing |-> {"zips", "api", "ftp"}, prefix |-> {{}, {"Socios"}},
      axis |-> {"snapshot_at", Monthly}, checks |-> BOOLEAN]]

Ledgers ==
  {{}, PartnerGrain, MerchantGrain, Of2("empresas", <<"cnpj_basico">>),
   {Grain("merchant", <<"merchant_id", "cnpj">>, <<>>, "snapshot_at")},
   {Grain("merchant", <<"cnpj", "merchant_id">>, <<Prefix("cnpj", 8)>>, "snapshot_at")},
   {Grain("empresas", <<"cnpj_basico">>, <<Prefix("cnpj_basico", 4)>>, "_snapshot_month")},
   {Grain("socios", <<"cnpj_basico", "cnpj_basico">>, <<>>, "_snapshot_month")}}
Domains ==
  {<<>>, [DeclaredDomain EXCEPT ![2].name = "cnpj"], [DeclaredDomain EXCEPT ![2].name = ""],
   [DeclaredDomain EXCEPT ![3].tables = {}], SubSeq(DeclaredDomain, 1, 2)}
=============================================================================
