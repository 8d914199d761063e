--------------------------- MODULE VaultCatalogue ---------------------------
(***************************************************************************)
(* What the vault declares (opl.vault.specs, the domain modules) and what  *)
(* it takes for a declaration to be imported and loaded: the per-table     *)
(* checks of every spec, the whole-set guards of opl.vault.registry, and   *)
(* the refusals of the loaders.  The columns a loader writes are given     *)
(* apart, so that the guards can be measured against them.                 *)
(* An optional field is a set: {} is None.                                 *)
(***************************************************************************)
EXTENDS Naturals, Sequences, FiniteSets, SequencesExt

VARIABLES
  vault,    \* slot of a domain's tuple -> the table declared there
  domain,   \* domain module -> the VaultDomain it binds: [name, tables (slots)]
  ledger    \* gated slot -> the ObservationGrain its load is handed

vaultVars == <<vault, domain, ledger>>

Metadata == {"load_date", "record_source", "applied_date", "hash_diff"}
Effectivity == {"is_active", "last_observed_on", "closed_by"}
Readers == {"date", "iso-instant-text"}

Names(keys) == [i \in DOMAIN keys |-> keys[i].name]
Named(text) == text # ""

-----------------------------------------------------------------------------
(* The five kinds, and what each refuses on its own.                       *)

Key(name, width) == [name |-> name, width |-> width]
Plain(name) == Key(name, {})
Prefix(column, width) == [column |-> column, width |-> width]
End(hub, role, identifying, keyFrom) ==
  [hub |-> hub, role |-> role, identifying |-> identifying, keyFrom |-> keyFrom]
Bare(hub) == End(hub, {}, TRUE, {})

Hub(name, hashKey, keys) ==
  [kind |-> "hub", name |-> name, hashKey |-> hashKey, keys |-> keys]
Satellite(name, parent, payload, column, reads, transactional) ==
  [kind |-> "satellite", name |-> name, parent |-> parent, payload |-> payload,
   applied |-> [column |-> column, reads |-> reads], transactional |-> transactional]
Snapshotted(name, parent, payload) ==
  Satellite(name, parent, payload, "_snapshot_ref_date", "date", FALSE)
Link(name, hashKey, ends, child) ==
  [kind |-> "link", name |-> name, hashKey |-> hashKey, ends |-> ends, child |-> child]
EffectivitySatellite(name, parent, entry) ==
  [kind |-> "effectivity", name |-> name, parent |-> parent, entry |-> entry]
ReferenceTable(name, lookupType, naturalKey, payload) ==
  [kind |-> "reference", name |-> name, lookupType |-> lookupType,
   naturalKey |-> naturalKey, payload |-> payload]

KeyIsSound(k) == Named(k.name) /\ 0 \notin k.width

\* _validated_columns.
ColumnsAreSound(columns) ==
  columns # <<>> /\ IsInjective(columns) /\ ToSet(columns) \cap Metadata = {}

HubIsSound(h) ==
  /\ Named(h.name) /\ Named(h.hashKey)
  /\ \A i \in DOMAIN h.keys : KeyIsSound(h.keys[i])
  /\ ColumnsAreSound(Names(h.keys))
  /\ h.hashKey \notin ToSet(Names(h.keys))

AppliedDateIsSound(a) ==
  Named(a.column) /\ a.reads \in Readers /\ a.column \notin Metadata

SatelliteIsSound(s) ==
  Named(s.name) /\ Named(s.parent) /\ AppliedDateIsSound(s.applied) /\ ColumnsAreSound(s.payload)

PrefixIsSound(p) == Named(p.column) /\ p.width > 0

\* _validated_key_from: declared and empty is refused, absent is not.
KeyFromIsSound(keyFrom) ==
  \A from \in keyFrom : from # <<>> /\ \A i \in DOMAIN from : PrefixIsSound(from[i])

EndIsSound(e) == Named(e.hub) /\ "" \notin e.role /\ KeyFromIsSound(e.keyFrom)

IdentifyingEnds(l) == {i \in DOMAIN l.ends : l.ends[i].identifying}

EnoughIdentity(l) ==
  IdentifyingEnds(l) # {} /\ Cardinality(IdentifyingEnds(l)) + Len(l.child) >= 2

LinkIsSound(l) ==
  /\ Named(l.name) /\ Named(l.hashKey)
  /\ \A i \in DOMAIN l.ends : EndIsSound(l.ends[i])
  /\ EnoughIdentity(l)
  /\ \A i \in DOMAIN l.child : KeyIsSound(l.child[i])
  /\ l.child = <<>> \/ ColumnsAreSound(Names(l.child))

EffectivityIsSound(s) ==
  /\ Named(s.name) /\ Named(s.parent) /\ Named(s.entry)
  /\ s.entry \notin Metadata \cup Effectivity

ReferenceIsSound(r) ==
  /\ Named(r.name) /\ Named(r.lookupType) /\ Named(r.naturalKey) /\ Named(r.payload)
  /\ r.naturalKey # r.payload
  /\ {r.naturalKey, r.payload} \cap Metadata = {}

\* ObservationGrain.
Grain(source, keys, prefixes, axis) ==
  [source |-> source, keys |-> keys, prefixes |-> prefixes, axis |-> axis]

PrefixedColumns(g) == [i \in DOMAIN g.prefixes |-> g.prefixes[i].column]

GrainIsSound(g) ==
  /\ g.keys # <<>> /\ IsInjective(g.keys) /\ g.axis \notin ToSet(g.keys)
  /\ \A i \in DOMAIN g.prefixes : PrefixIsSound(g.prefixes[i])
  /\ ToSet(PrefixedColumns(g)) \subseteq ToSet(g.keys)
  /\ IsInjective(PrefixedColumns(g))

SpecIsSound(t) ==
  CASE t.kind = "hub" -> HubIsSound(t)
    [] t.kind = "satellite" -> SatelliteIsSound(t)
    [] t.kind = "link" -> LinkIsSound(t)
    [] t.kind = "effectivity" -> EffectivityIsSound(t)
    [] t.kind = "reference" -> ReferenceIsSound(t)

-----------------------------------------------------------------------------
(* The whole set: build_registry over every discovered domain.             *)

Slots == UNION {domain[m].tables : m \in DOMAIN domain}
Tables == {vault[i] : i \in Slots}
Of(kind) == {t \in Tables : t.kind = kind}
Registered(name) == \E t \in Tables : t.name = name
TheTable(name) == CHOOSE t \in Tables : t.name = name
IsA(name, kinds) == Registered(name) /\ TheTable(name).kind \in kinds

\* discover_domains, and VaultDomain on its own: every module of the package
\* binds a domain of at least one table.
DomainsAreFound ==
  /\ domain # <<>>
  /\ \A m \in DOMAIN domain : Named(domain[m].name) /\ domain[m].tables # {}

DomainNamesAreUnique == IsInjective([m \in DOMAIN domain |-> domain[m].name])

\* _collected_tables: compared byte for byte.
TableNamesAreUnique == IsInjective([i \in Slots |-> vault[i].name])

\* Neither the payload nor the applied date is the column the digest goes into.
KeepsItsColumns(s, parent) == parent.hashKey \notin ToSet(s.payload) \cup {s.applied.column}

ParentSupportsTransactionality(s, parent) == s.transactional <=> parent.kind = "link"

SatellitesHangOffHubsOrLinks ==
  \A s \in Of("satellite") :
    /\ IsA(s.parent, {"hub", "link"})
    /\ KeepsItsColumns(s, TheTable(s.parent))
    /\ ParentSupportsTransactionality(s, TheTable(s.parent))

\* _link_hubs: in the order of the ends.
HubsOf(l) == [i \in DOMAIN l.ends |-> TheTable(l.ends[i].hub)]
JoinsHubs(l) == \A i \in DOMAIN l.ends : IsA(l.ends[i].hub, {"hub"})

ReferenceColumn(e, h) ==
  IF e.role = {} THEN h.hashKey ELSE (CHOOSE r \in e.role : TRUE) \o "_" \o h.hashKey

References(l) == [i \in DOMAIN l.ends |-> ReferenceColumn(l.ends[i], HubsOf(l)[i])]

LinksJoinRegisteredHubs ==
  \A l \in Of("link") :
    /\ JoinsHubs(l)
    /\ IsInjective(References(l))
    /\ ToSet(References(l)) \cap ({l.hashKey} \cup ToSet(Names(l.child))) = {}

\* _refuse_a_derivation_that_does_not_fit.
Fits(from, h) ==
  Len(from) = Len(h.keys) /\ \A i \in DOMAIN from : h.keys[i].width = {from[i].width}

DerivationsFitTheirHubs ==
  \A l \in Of("link") : \A i \in DOMAIN l.ends :
    \A from \in l.ends[i].keyFrom : Fits(from, HubsOf(l)[i])

SourceColumns(e, h) ==
  IF e.keyFrom = {} THEN Names(h.keys)
  ELSE LET from == CHOOSE f \in e.keyFrom : TRUE IN [i \in DOMAIN from |-> from[i].column]

\* What the identifying ends contribute, of what each end would.
OfIdentifying(l, each) ==
  FlattenSeq([i \in DOMAIN l.ends |-> IF l.ends[i].identifying THEN each[i] ELSE <<>>])

\* identity_columns_of and identity_derivations_of.
IdentityColumns(l) ==
  OfIdentifying(l, [i \in DOMAIN l.ends |-> SourceColumns(l.ends[i], HubsOf(l)[i])]) \o
  Names(l.child)

Derivation(e, h) == IF e.keyFrom = {} THEN <<>> ELSE CHOOSE f \in e.keyFrom : TRUE
IdentityDerivations(l) ==
  OfIdentifying(l, [i \in DOMAIN l.ends |-> Derivation(l.ends[i], HubsOf(l)[i])])

EffectivitiesHangOffLinks ==
  \A s \in Of("effectivity") :
    /\ IsA(s.parent, {"link"})
    /\ LET l == TheTable(s.parent) IN s.entry \notin {l.hashKey} \cup ToSet(Names(l.child))

GatedIdentitiesNameAColumnOnce ==
  \A s \in Of("effectivity") : IsInjective(IdentityColumns(TheTable(s.parent)))

\* Importing the vault: every spec, then build_registry.
VaultImports ==
  /\ \A t \in Tables : SpecIsSound(t)
  /\ \A i \in DOMAIN ledger : \A g \in ledger[i] : GrainIsSound(g)
  /\ DomainsAreFound /\ DomainNamesAreUnique /\ TableNamesAreUnique
  /\ SatellitesHangOffHubsOrLinks
  /\ LinksJoinRegisteredHubs
  /\ DerivationsFitTheirHubs
  /\ EffectivitiesHangOffLinks
  /\ GatedIdentitiesNameAColumnOnce

-----------------------------------------------------------------------------
(* The observation ledger a gated load is handed, and the loaders' guards. *)

\* satellite_grain._refuse_a_mismatched_grain: the source's own ledger, no
\* prefix under a hub, the hub's key in the hub's order.
GrainIsTheHubs(h, g, source) ==
  /\ g.source = source
  /\ g.prefixes = <<>>
  /\ g.keys = Names(h.keys)

\* snapshot_axis_for: a transactional satellite has no ledger, any other one.
SatelliteLoads(s, gate, source) ==
  IF s.transactional THEN gate = {}
  ELSE /\ TheTable(s.parent).kind = "hub"
       /\ \E g \in gate : GrainIsTheHubs(TheTable(s.parent), g, source)

\* effectivity._grain_key_mismatch and _grain_derivation_mismatch.
GrainIsTheLinks(l, g) ==
  g.keys = IdentityColumns(l) /\ g.prefixes = IdentityDerivations(l)

EffectivityLoads(s, gate, source) ==
  \E g \in gate : g.source = source /\ GrainIsTheLinks(TheTable(s.parent), g)

\* _refuse_a_link_this_loader_cannot_write; the partner link has its loader.
LinkLoads(l) ==
  /\ IdentifyingEnds(l) = DOMAIN l.ends
  /\ \A i \in DOMAIN l.child : l.child[i].width = {}

\* What the load of one table checks before it writes.
Loads(t, gate, source) ==
  CASE t.kind = "satellite" -> SatelliteLoads(t, gate, source)
    [] t.kind = "effectivity" -> EffectivityLoads(t, gate, source)
    [] t.kind = "link" -> LinkLoads(t)
    [] OTHER -> TRUE

-----------------------------------------------------------------------------
(* What is written, and over which values a key is taken.                  *)

Stamp == <<"load_date", "record_source">>

HubColumns(h) == <<h.hashKey>> \o Names(h.keys) \o Stamp
SatelliteColumns(s) ==
  <<TheTable(s.parent).hashKey, "load_date", "applied_date", "record_source", "hash_diff">>
    \o s.payload
LinkColumns(l) == <<l.hashKey>> \o References(l) \o Names(l.child) \o Stamp
EffectivityColumns(s) ==
  <<TheTable(s.parent).hashKey, "load_date", "applied_date", "record_source", "is_active",
    s.entry, "last_observed_on", "closed_by">>
ReferenceColumns(r) == <<r.naturalKey, r.payload>> \o Stamp

Written(t) ==
  CASE t.kind = "hub" -> HubColumns(t)
    [] t.kind = "satellite" -> SatelliteColumns(t)
    [] t.kind = "link" -> LinkColumns(t)
    [] t.kind = "effectivity" -> EffectivityColumns(t)
    [] t.kind = "reference" -> ReferenceColumns(t)

\* One component of a digest: a source column, cut and padded.
Component(column, cut, pad) == [column |-> column, cut |-> cut, pad |-> pad]

HubKey(h) == [i \in DOMAIN h.keys |-> Component(h.keys[i].name, {}, h.keys[i].width)]

\* end_components: the end's own columns, padded by position to the hub's widths.
EndKey(e, h) ==
  IF e.keyFrom = {} THEN HubKey(h)
  ELSE LET from == CHOOSE f \in e.keyFrom : TRUE
       IN [i \in DOMAIN from |-> Component(from[i].column, {from[i].width}, h.keys[i].width)]

\* link_hash_key_expression.
LinkKey(l) ==
  OfIdentifying(l, [i \in DOMAIN l.ends |-> EndKey(l.ends[i], HubsOf(l)[i])]) \o
  [i \in DOMAIN l.child |-> Component(l.child[i].name, {}, l.child[i].width)]

KeyOf(t) == IF t.kind = "hub" THEN HubKey(t) ELSE LinkKey(t)

\* ObservationGrain.key_expression.
CutBy(g, column) ==
  {g.prefixes[i].width : i \in {j \in DOMAIN g.prefixes : g.prefixes[j].column = column}}

LedgerKey(g) == {<<column, CutBy(g, column)>> : column \in ToSet(g.keys)}
=============================================================================
