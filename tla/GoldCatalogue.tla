---------------------------- MODULE GoldCatalogue ----------------------------
(***************************************************************************)
(* What gold declares over the vault and the payments contract             *)
(* (opl.gold.specs, spec_fields, fact_spec, registry), what is refused     *)
(* when it is imported (opl.gold.registry_guards) and when the fact is     *)
(* loaded (opl.gold.fact_guards), and the columns each table is written    *)
(* with.                                                                   *)
(***************************************************************************)
EXTENDS VaultCatalogue, BronzeCatalogue

VARIABLE gold    \* position in opl.gold.registry.TABLES -> the table declared there

\* Named like DIMENSION_COLUMNS.
Reserved == {"valid_from", "valid_to", "is_current", "load_date", "record_source"}

\* opl.contracts.payments.
Identity == "transaction_id"
EventTime == "event_time"
Counterparties == <<"payer_cnpj_basico", "payee_cnpj_basico">>
BusinessAttributes == ToSet(Counterparties) \cup {"amount", "currency", "payment_method"}
Carried == {Identity, EventTime, "emitted_at"} \cup BusinessAttributes
Drifting == {"payment_channel"}

Additivities == {"additive", "additive-within-currency", "non-additive"}

-----------------------------------------------------------------------------
(* The five kinds, and what each refuses on its own.                       *)

Role(key, column, source, reads) ==
  [key |-> key, column |-> column, source |-> source, reads |-> reads]
Derived(name, inputs, additivity) ==
  [name |-> name, inputs |-> inputs, additivity |-> additivity]

Scd2(name, surrogate, source) ==
  [kind |-> "scd2", name |-> name, surrogate |-> surrogate, source |-> source]
Enumerated(name, surrogate, natural, column, members) ==
  [kind |-> "enumerated", name |-> name, surrogate |-> surrogate, natural |-> natural,
   column |-> column, members |-> members]
Calendar(name, surrogate, natural, source, roles) ==
  [kind |-> "calendar", name |-> name, surrogate |-> surrogate, natural |-> natural,
   source |-> source, roles |-> roles]
PointInTime(name, hub, satellites, asOf) ==
  [kind |-> "pit", name |-> name, hub |-> hub, satellites |-> satellites, asOf |-> asOf]
Fact(name, grain, measure, additivity, company, roles, derived, conformed) ==
  [kind |-> "fact", name |-> name, grain |-> grain, measure |-> measure,
   additivity |-> additivity, company |-> company, roles |-> roles, derived |-> derived,
   conformed |-> conformed]

Scd2IsSound(d) ==
  Named(d.name) /\ Named(d.surrogate) /\ Named(d.source) /\ d.surrogate \notin Reserved

\* _assert_the_key_columns_are_the_dimensions_own.
KeysAreItsOwn(d) == {d.surrogate, d.natural} \cap Reserved = {} /\ d.surrogate # d.natural

ColumnIsCarried(column) == column \in Carried \ Drifting

\* _assert_the_declared_values_are_a_set.
IsADeclaredSet(values) == values # <<>> /\ IsInjective(values) /\ "" \notin ToSet(values)

EnumeratedIsSound(d) ==
  /\ Named(d.name) /\ Named(d.surrogate) /\ Named(d.natural) /\ Named(d.column)
  /\ KeysAreItsOwn(d) /\ ColumnIsCarried(d.column) /\ IsADeclaredSet(d.members)

RoleKeyIsTheFacts(r) == r.key # r.column /\ r.key \notin Reserved

RoleColumnMatchesSource(r) ==
  IF r.source = "contract" THEN ColumnIsCarried(r.column) ELSE r.column \notin Carried

RoleReaderMatchesSource(r) == (r.reads = "date") <=> (r.source = "derived")

RoleIsSound(r) ==
  /\ Named(r.key) /\ Named(r.column)
  /\ r.source \in {"contract", "derived"}
  /\ r.reads \in {"iso-instant-text", "date", "member"}
  /\ RoleKeyIsTheFacts(r) /\ RoleColumnMatchesSource(r) /\ RoleReaderMatchesSource(r)

\* _assert_the_roles_are_a_set_with_one_contract_source.
RolesAreASet(roles) ==
  /\ roles # <<>>
  /\ IsInjective([i \in DOMAIN roles |-> roles[i].key])
  /\ IsInjective([i \in DOMAIN roles |-> roles[i].column])
  /\ Cardinality({i \in DOMAIN roles : roles[i].source = "contract"}) = 1

ReadsADay(roles) == \A i \in DOMAIN roles : roles[i].reads # "member"

CalendarIsSound(d) ==
  /\ Named(d.name) /\ Named(d.surrogate) /\ Named(d.natural) /\ Named(d.source)
  /\ KeysAreItsOwn(d)
  /\ \A i \in DOMAIN d.roles : RoleIsSound(d.roles[i])
  /\ RolesAreASet(d.roles) /\ ReadsADay(d.roles)

Pointer(satellite) == satellite \o "_applied_date"
Pointers(p) == [i \in DOMAIN p.satellites |-> Pointer(p.satellites[i])]

AsOfIsItsOwn(p) ==
  /\ p.asOf # "applied_date"
  /\ p.asOf \notin ToSet(Pointers(p)) \cup Reserved
  /\ p.hub \notin ToSet(p.satellites)

PitIsSound(p) ==
  /\ Named(p.name) /\ Named(p.hub) /\ Named(p.asOf)
  /\ Len(p.satellites) >= 2 /\ IsADeclaredSet(p.satellites)
  /\ AsOfIsItsOwn(p)

DerivedIsSound(m) ==
  /\ Named(m.name) /\ m.additivity \in Additivities
  /\ m.name \notin Carried \cup Reserved
  /\ IsADeclaredSet(m.inputs) /\ m.name \notin ToSet(m.inputs)

GrainIsTheEventsOwn(f) == f.grain \in Carried \ BusinessAttributes
MeasureIsCarried(f) == f.measure \in BusinessAttributes /\ f.measure # f.grain

\* The delivered measure is in two currencies: a derived one must be additive.
OneMeasureIsAdditive(f) ==
  /\ f.additivity \in Additivities \ {"additive"}
  /\ Cardinality({i \in DOMAIN f.derived : f.derived[i].additivity = "additive"}) = 1

\* mutant: inputs are looked up among every derived measure, whatever the order
DerivedFromAny(f) ==
  \A i \in DOMAIN f.derived :
    /\ f.derived[i].name \notin Carried \cup {f.derived[j].name : j \in 1..(i - 1)}
    /\ ToSet(f.derived[i].inputs) \subseteq
         Carried \cup {f.derived[j].name : j \in DOMAIN f.derived}

\* _assert_the_derived_measures_are_computable: declaration order is
\* computation order.
DerivedAreComputable(f) ==
  \A i \in DOMAIN f.derived :
    LET produced == Carried \cup {f.derived[j].name : j \in 1..(i - 1)}
    IN f.derived[i].name \notin produced /\ ToSet(f.derived[i].inputs) \subseteq produced

RoleKeys(f) == [i \in DOMAIN f.roles |-> f.roles[i][2]]
DerivedNames(f) == [i \in DOMAIN f.derived |-> f.derived[i].name]

EveryCounterpartyPlaysOneRole(f) ==
  /\ Len(f.roles) = Len(Counterparties)
  /\ {f.roles[i][1] : i \in DOMAIN f.roles} = ToSet(Counterparties)
  /\ IsInjective(RoleKeys(f))

RoleKeysAreItsOwn(f) ==
  ToSet(RoleKeys(f)) \cap (ToSet(DerivedNames(f)) \cup Reserved \cup Carried) = {}

FactIsSound(f) ==
  /\ Named(f.name) /\ Named(f.company)
  /\ \A i \in DOMAIN f.derived : DerivedIsSound(f.derived[i])
  /\ GrainIsTheEventsOwn(f) /\ MeasureIsCarried(f) /\ OneMeasureIsAdditive(f)
  /\ DerivedAreComputable(f) /\ EveryCounterpartyPlaysOneRole(f) /\ RoleKeysAreItsOwn(f)
  /\ f.conformed # <<>> /\ IsInjective(f.conformed)

GoldSpecIsSound(t) ==
  CASE t.kind = "scd2" -> Scd2IsSound(t)
    [] t.kind = "enumerated" -> EnumeratedIsSound(t)
    [] t.kind = "calendar" -> CalendarIsSound(t)
    [] t.kind = "pit" -> PitIsSound(t)
    [] t.kind = "fact" -> FactIsSound(t)

-----------------------------------------------------------------------------
(* The whole set: build_registry over TABLES and the vault's registry.     *)

GoldTables == {gold[i] : i \in DOMAIN gold}
Are(kinds) == {t \in GoldTables : t.kind \in kinds}
Conformed == Are({"enumerated", "calendar"})
GoldNamed(name) == CHOOSE t \in GoldTables : t.name = name

NoNameIsAnotherLayers ==
  {Fold(t.name) : t \in GoldTables} \cap {Fold(n) : n \in BronzeNames \cup {t.name : t \in Tables}}
    = {}

NoTwoTablesShareAName == IsInjective([i \in DOMAIN gold |-> Fold(gold[i].name)])

FactRoles(d) ==
  IF d.kind = "calendar" THEN d.roles ELSE <<Role(d.surrogate, d.column, "contract", "member")>>
FactKeys(d) == [i \in DOMAIN FactRoles(d) |-> FactRoles(d)[i].key]
DrawsFrom(d) == {FactRoles(d)[i].column : i \in DOMAIN FactRoles(d)}

NoTwoDimensionsDrawFromOneColumn ==
  \A d, e \in Conformed : d # e => DrawsFrom(d) \cap DrawsFrom(e) = {}

FactsReachEveryDimension ==
  \A f \in Are({"fact"}) :
    /\ \E d \in Are({"scd2"}) : d.name = f.company
    /\ ToSet(f.conformed) = {d.name : d \in Conformed}

\* _projected, the columns of one fact row.
FactColumns(f) ==
  RoleKeys(f) \o FlattenSeq([i \in DOMAIN f.conformed |-> FactKeys(GoldNamed(f.conformed[i]))])
    \o <<f.grain, f.measure, "fx_rate", "amount_brl", EventTime>> \o Stamp

\* The names registry_guards compares: the declared measures, not the written.
DeclaredFactColumns(f) ==
  RoleKeys(f) \o FlattenSeq([i \in DOMAIN f.conformed |-> FactKeys(GoldNamed(f.conformed[i]))])
    \o <<f.grain, f.measure>> \o DerivedNames(f) \o <<EventTime>> \o Stamp

\* mutant: the role keys are compared with the measures and never with each other
FactKeysUncompared == \A f \in Are({"fact"}) : IsInjective(RoleKeys(f))

FactColumnsAreDistinct == \A f \in Are({"fact"}) : IsInjective(DeclaredFactColumns(f))

DimensionsReadSatellites ==
  \A d \in Are({"scd2", "calendar"}) : IsA(d.source, {"satellite"})

HubOf(p) == TheTable(p.hub)
PitsResolve ==
  \A p \in Are({"pit"}) :
    /\ IsA(p.hub, {"hub"}) /\ p.asOf # HubOf(p).hashKey
    /\ \A s \in ToSet(p.satellites) : IsA(s, {"satellite"}) /\ TheTable(s).parent = p.hub

\* What the satellite and its parent hub deliver into an SCD2 row; a
\* transactional satellite has no parent hub to resolve.
Delivered(d) == Names(TheTable(TheTable(d.source).parent).keys) \o TheTable(d.source).payload

SourceColumnsDoNotCollide ==
  \A d \in Are({"scd2"}) :
    /\ IsA(TheTable(d.source).parent, {"hub"})
    /\ ToSet(Delivered(d)) \cap (Reserved \cup {d.surrogate}) = {}

\* Importing gold, which imports bronze and the vault.
GoldImports ==
  /\ BronzeImports /\ VaultImports
  /\ \A t \in GoldTables : GoldSpecIsSound(t)
  /\ NoNameIsAnotherLayers /\ NoTwoTablesShareAName
  /\ NoTwoDimensionsDrawFromOneColumn
  /\ FactsReachEveryDimension
  /\ FactColumnsAreDistinct
  /\ DimensionsReadSatellites
  /\ PitsResolve
  /\ SourceColumnsDoNotCollide

-----------------------------------------------------------------------------
(* What the fact's load refuses, and what gold writes.                     *)

\* _refuse_a_fact_whose_measures_this_loader_cannot_derive.
MeasuresAreTheLoaders(f) ==
  /\ DerivedNames(f) = <<"fx_rate", "amount_brl">>
  /\ "currency" \in ToSet(f.derived[1].inputs)

\* _refuse_a_derived_role_this_loader_cannot_produce.
DerivedRolesAreTheLoaders(f) ==
  \A name \in ToSet(f.conformed) : LET roles == FactRoles(GoldNamed(name)) IN
    \A i \in DOMAIN roles : roles[i].source = "derived" => roles[i].column = "fx_rate_date"

\* _refuse_a_mismatched_source: one business key, the counterparty's type.
CompanyHasOneKey(f) == Len(TheTable(TheTable(GoldNamed(f.company).source).parent).keys) = 1

FactLoads(f) ==
  CompanyHasOneKey(f) /\ MeasuresAreTheLoaders(f) /\ DerivedRolesAreTheLoaders(f)

\* CALENDAR_ATTRIBUTES, of which two.
Attributes == <<"year", "month">>

DimensionColumns(d) ==
  <<d.surrogate>> \o Delivered(d) \o <<"valid_from", "valid_to", "is_current">> \o Stamp
ConformedColumns(d) ==
  <<d.surrogate, d.natural>> \o (IF d.kind = "calendar" THEN Attributes ELSE <<>>) \o Stamp
PitColumns(p) == <<HubOf(p).hashKey, p.asOf>> \o Pointers(p) \o Stamp

GoldWritten(t) ==
  CASE t.kind = "scd2" -> DimensionColumns(t)
    [] t.kind \in {"enumerated", "calendar"} -> ConformedColumns(t)
    [] t.kind = "pit" -> PitColumns(t)
    [] t.kind = "fact" -> FactColumns(t)
=============================================================================
