----------------------------- MODULE Catalogue -----------------------------
(***************************************************************************)
(* The three registries as one source tree: a developer edits declarations *)
(* in it, and importing opl.gold.registry imports the bronze and the vault *)
(* registries and either refuses or leaves them all built.  What an        *)
(* accepted tree promises is stated over what the loaders and the streams  *)
(* then do with it, not over the guards.                                   *)
(***************************************************************************)
EXTENDS GoldCatalogue

CONSTANTS
  LiveVault, LiveDomain, LiveLedger, LiveGold, LiveBronze,  \* what is declared today
  SourceTable,   \* slot -> the bronze table its job task names
  Candidates,    \* kind -> field -> values an edit may give it
  LedgerEdits, DomainEdits,
  MaxEdits       \* bound: edits between two imports

\* What a field of a declaration holds, by the kind of the table.
KeyColumn == [name : STRING, width : SUBSET Nat]
KeyPrefix == [column : STRING, width : Nat]
LinkEnd ==
  [hub : STRING, role : SUBSET STRING, identifying : BOOLEAN, keyFrom : SUBSET Seq(KeyPrefix)]
DerivedMeasure == [name : STRING, inputs : Seq(STRING), additivity : STRING]
FactRole == [key : STRING, column : STRING, source : STRING, reads : STRING]

FieldsOf ==
  [hub |-> [name |-> STRING, hashKey |-> STRING, keys |-> Seq(KeyColumn)],
   satellite |->
     [name |-> STRING, parent |-> STRING, payload |-> Seq(STRING),
      applied |-> [column : STRING, reads : STRING], transactional |-> BOOLEAN],
   link |->
     [name |-> STRING, hashKey |-> STRING, ends |-> Seq(LinkEnd), child |-> Seq(KeyColumn)],
   effectivity |-> [name |-> STRING, parent |-> STRING, entry |-> STRING],
   reference |->
     [name |-> STRING, lookupType |-> STRING, naturalKey |-> STRING, payload |-> STRING],
   scd2 |-> [name |-> STRING, surrogate |-> STRING, source |-> STRING],
   enumerated |->
     [name |-> STRING, surrogate |-> STRING, natural |-> STRING, column |-> STRING,
      members |-> Seq(STRING)],
   calendar |->
     [name |-> STRING, surrogate |-> STRING, natural |-> STRING, source |-> STRING,
      roles |-> Seq(FactRole)],
   pit |-> [name |-> STRING, hub |-> STRING, satellites |-> Seq(STRING), asOf |-> STRING],
   fact |->
     [name |-> STRING, grain |-> STRING, measure |-> STRING, additivity |-> STRING,
      company |-> STRING, roles |-> Seq(STRING \X STRING), derived |-> Seq(DerivedMeasure),
      conformed |-> Seq(STRING)]]

IsDeclared(t, kinds) ==
  /\ t.kind \in kinds /\ DOMAIN t = {"kind"} \cup DOMAIN FieldsOf[t.kind]
  /\ \A f \in DOMAIN FieldsOf[t.kind] : t[f] \in FieldsOf[t.kind][f]

VaultKinds == {"hub", "satellite", "link", "effectivity", "reference"}
GoldKinds == {"scd2", "enumerated", "calendar", "pit", "fact"}
Gated == {"satellite", "effectivity"}
Ledger ==
  [source : STRING, keys : Seq(STRING), prefixes : Seq(KeyPrefix), axis : STRING]
IsLedger(g) == g \subseteq Ledger /\ \A a, b \in g : a = b

\* Every satellite a point-in-time table could be declared over.
PitSatellites ==
  UNION {ToSet(s) : s \in Candidates["pit"].satellites \cup
    {LiveGold[i].satellites : i \in {j \in DOMAIN LiveGold : LiveGold[j].kind = "pit"}}}

ASSUME CatalogueAssumption ==
  /\ MaxEdits \in Nat
  /\ \A i \in DOMAIN LiveVault : IsDeclared(LiveVault[i], VaultKinds)
  /\ \A i \in DOMAIN LiveGold : IsDeclared(LiveGold[i], GoldKinds)
  /\ \A k \in DOMAIN FieldsOf : \A f \in DOMAIN Candidates[k] :
       f \in DOMAIN FieldsOf[k] /\ Candidates[k][f] \subseteq FieldsOf[k][f]
  /\ \A i \in DOMAIN LiveLedger : i \in DOMAIN LiveVault /\ LiveVault[i].kind \in Gated
  /\ \A g \in LedgerEdits \cup {LiveLedger[i] : i \in DOMAIN LiveLedger} : IsLedger(g)
  /\ \A d \in DomainEdits \cup {LiveDomain} : \A m \in DOMAIN d : d[m].tables \subseteq DOMAIN LiveVault
  /\ IsFiniteSet(DOMAIN LiveBronze)

\* A suffix tells the names of two satellites apart as they were, and makes no
\* stamp of one.
ASSUME SpellingAssumption ==
  \A s, r \in PitSatellites :
    (Pointer(s) = Pointer(r) => s = r) /\ Pointer(s) \notin ToSet(Stamp)

VARIABLES
  edits,    \* edits so far
  verdict   \* of the import: "draft" (not imported yet), "imported", "refused"

vars == <<vaultVars, gold, bronze, edits, verdict>>

Init ==
  /\ vault = LiveVault /\ domain = LiveDomain /\ ledger = LiveLedger
  /\ gold = LiveGold /\ bronze = LiveBronze
  /\ edits = 0 /\ verdict = "draft"

Edited == verdict = "draft" /\ edits < MaxEdits /\ edits' = edits + 1 /\ UNCHANGED verdict

\* Every table that differs from t in one field.
Variants(t, kind) ==
  UNION {{[t EXCEPT ![f] = v] : v \in Candidates[kind][f]} : f \in DOMAIN Candidates[kind]}

EditVault ==
  /\ Edited /\ UNCHANGED <<domain, ledger, gold, bronze>>
  /\ \E i \in DOMAIN vault : \E t \in Variants(vault[i], vault[i].kind) :
       t # vault[i] /\ vault' = [vault EXCEPT ![i] = t]

EditLedger ==
  /\ Edited /\ UNCHANGED <<vault, domain, gold, bronze>>
  /\ \E i \in DOMAIN ledger, g \in LedgerEdits :
       g # ledger[i] /\ ledger' = [ledger EXCEPT ![i] = g]

EditDomain ==
  /\ Edited /\ UNCHANGED <<vault, ledger, gold, bronze>>
  /\ \E d \in DomainEdits : d # domain /\ domain' = d

EditGold ==
  /\ Edited /\ UNCHANGED <<vaultVars, bronze>>
  /\ \E i \in DOMAIN gold : \E t \in Variants(gold[i], gold[i].kind) :
       t # gold[i] /\ gold' = [gold EXCEPT ![i] = t]

EditBronze ==
  /\ Edited /\ UNCHANGED <<vaultVars, gold>>
  /\ \E i \in DOMAIN bronze : \E t \in Variants(bronze[i], "bronze") :
       t # bronze[i] /\ bronze' = [bronze EXCEPT ![i] = t]

Import ==
  /\ verdict = "draft"
  /\ verdict' = IF GoldImports THEN "imported" ELSE "refused"
  /\ UNCHANGED <<vaultVars, gold, bronze, edits>>

Next == EditVault \/ EditLedger \/ EditDomain \/ EditGold \/ EditBronze \/ Import

Spec == Init /\ [][Next]_vars

-----------------------------------------------------------------------------
Accepted == verdict = "imported"

\* The pairs of names that are written together and that no guard compares: a
\* hash key, or a link's reference to one, with the columns the loader adds; a
\* link's hash key with its own dependent-child keys; a calendar's keys with its
\* attributes; a payload column with the business key of its parent hub.
NamesNobodyCompares(t) ==
  CASE t.kind = "hub" -> {t.hashKey} \cap Metadata
    [] t.kind = "satellite" -> {TheTable(t.parent).hashKey} \cap Metadata
    [] t.kind = "link" ->
         (({t.hashKey} \cup ToSet(References(t))) \cap Metadata)
           \cup ({t.hashKey} \cap ToSet(Names(t.child)))
    [] t.kind = "effectivity" -> {TheTable(t.parent).hashKey} \cap (Metadata \cup Effectivity)
    [] t.kind = "calendar" -> {t.surrogate, t.natural} \cap ToSet(Attributes)
    [] t.kind = "scd2" -> ToSet(Names(TheTable(TheTable(t.source).parent).keys))
                            \cap ToSet(TheTable(t.source).payload)
    [] t.kind = "pit" -> {HubOf(t).hashKey} \cap (Metadata \cup ToSet(Pointers(t)))
    [] OTHER -> {}

\* No table of an accepted tree whose load its own guards let through is
\* written with two columns of one name: a projection that does so keeps its
\* row count and loses one of the two values.  (But for the names nobody
\* compares: the run of CalendarKeysAreItsOwn shows one of them.)
ColumnsAreWrittenOnce ==
  /\ \A t \in Tables : NamesNobodyCompares(t) = {} => IsInjective(Written(t))
  /\ \A t \in GoldTables :
       NamesNobodyCompares(t) = {} /\ (t.kind = "fact" => FactLoads(t))
         => IsInjective(GoldWritten(t))

NoColumnIsWrittenTwice == Accepted => ColumnsAreWrittenOnce

\* Every value a loader resolves by name is there and is keyed as it is read:
\* a link's reference is taken over as many components, each as long, as the
\* key of the hub it points at; a dimension, a point-in-time table and a fact
\* find the tables they are built over; and a derived measure is computed
\* from columns already there.
EveryKeyResolves ==
  /\ \A l \in Of("link") : \A i \in DOMAIN l.ends :
       LET reference == EndKey(l.ends[i], HubsOf(l)[i])
           key == HubKey(HubsOf(l)[i])
       IN /\ Len(reference) = Len(key)
          /\ \A k \in DOMAIN key :
               reference[k].pad = key[k].pad /\ reference[k].cut \in {{}, key[k].pad}
  /\ \A p \in Are({"pit"}) : \A s \in ToSet(p.satellites) :
       \E t \in Of("satellite") : t.name = s /\ KeyOf(TheTable(t.parent)) = HubKey(HubOf(p))
  /\ \A f \in Are({"fact"}) : \A i \in DOMAIN f.derived :
       ToSet(f.derived[i].inputs) \subseteq
         Carried \cup {f.derived[j].name : j \in 1..(i - 1)}

\* The observation ledger of a gated load tells absence apart per key of the
\* table it gates: it is grouped by the components the table's own digest is
\* taken over, each read the same way.  A coarser ledger keeps a window open
\* that ended, a finer one closes a window that did not.
LedgerIsKeyedAsItsTable ==
  \A i \in DOMAIN ledger \cap Slots : \A g \in ledger[i] :
    Loads(vault[i], ledger[i], SourceTable[i]) =>
      LedgerKey(g) = LET key == KeyOf(TheTable(vault[i].parent))
                     IN {<<key[k].column, key[k].cut>> : k \in DOMAIN key}

\* One Delta table per declaration, whatever the case it is spelled in: a
\* gold table is no bronze or vault table and no other gold table, a bronze
\* one no other table's bronze, staging or quarantine.  Every writer appends,
\* so two declarations on one table would both report success.
OneOwnerPerTable ==
  /\ \A i \in DOMAIN gold :
       /\ \A j \in DOMAIN gold \ {i} : Resolves(gold[i].name) # Resolves(gold[j].name)
       /\ Resolves(gold[i].name) \notin {Resolves(t.name) : t \in Tables} \cup {Resolves(n) : n \in BronzeNames}
  /\ \A i, j \in DOMAIN bronze : \A k, n \in 1..3 :
       <<i, k>> # <<j, n>> => Resolves(DeltaNames(bronze[i])[k]) # Resolves(DeltaNames(bronze[j])[n])

Inside(path, dir) == IsPrefix(dir, path)
Apart(a, b) == ~Inside(a, b) /\ ~Inside(b, a)

\* Where files of the table are put, besides the directory its stream reads.
PutElsewhere(s, m) ==
  {LandingTmp(s, m)} \cup (IF s.landing \in FileFed THEN {LandingZips(s, m)} ELSE {})

\* A stream walks its source directory recursively: of an accepted tree, it
\* finds there no file of another table, another month, a staging directory
\* or the month's zips; and no stream's checkpoint or schema lies at, above
\* or below another's or the state left unscoped by the first month.
StreamsKeepApart ==
  \A i, j \in DOMAIN bronze : \A m, n \in Months :
    LET a == bronze[i]
        b == bronze[j]
    IN /\ <<i, m>> # <<j, n>> =>
            /\ Apart(LandingDir(a, m), LandingDir(b, n))
            /\ Apart(Checkpoint(a, m), Checkpoint(b, n))
            /\ Apart(SchemaLocation(a, m), SchemaLocation(b, n))
       /\ \A path \in PutElsewhere(b, n) : ~Inside(path, LandingDir(a, m))
       /\ \A orphan \in Orphans(b) :
            Apart(Checkpoint(a, m), orphan) /\ Apart(SchemaLocation(a, m), orphan)

\* The names the declarations compare resolve to one column each: a key is
\* found where it is read, and the ledger is keyed as its table.
KeysAgree == Accepted => EveryKeyResolves /\ LedgerIsKeyedAsItsTable

\* Two declarations never write one table or read one directory.
NamesKeepApart == Accepted => OneOwnerPerTable /\ StreamsKeepApart

\* opl.gold.specs of the keys of a dimension: a key column the loader writes
\* itself is refused.
CalendarKeysAreItsOwn ==
  Accepted => \A d \in Are({"calendar"}) : IsInjective(ConformedColumns(d))
=============================================================================
