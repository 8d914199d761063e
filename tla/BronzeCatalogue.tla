--------------------------- MODULE BronzeCatalogue ---------------------------
(***************************************************************************)
(* What bronze declares (opl.bronze.registry), what is refused when it is  *)
(* imported (registry, registry_landing, registry_subdirs and              *)
(* registry_collisions), and the directories of the Volume each table's    *)
(* stream reads and writes (opl.config, opl.bronze.autoloader).            *)
(* A path is the sequence of its components below the Volume's root.       *)
(***************************************************************************)
EXTENDS Naturals, Sequences, FiniteSets, SequencesExt

CONSTANTS
  Months,
  ContractColumns,   \* contract -> its columns
  MaskedColumns,     \* the contracts that have masked columns
  FileGroups,        \* the file groups a month publishes: [prefix, table]
  Folded             \* a name -> its casefolded spelling, where the two differ

VARIABLE bronze      \* key of REGISTRY -> the table declared there

\* An entry; checks: some constraint of it creates a CHECK.
Entry(name, contract, key, subdir, landing, prefix, axis) ==
  [name |-> name, contract |-> contract, key |-> key, staging |-> name \o "_staging",
   bronze |-> "bronze_" \o name, quarantine |-> name \o "_quarantine", subdir |-> subdir,
   landing |-> landing, prefix |-> prefix, axis |-> axis, checks |-> contract = "lookup"]

Monthly == "_snapshot_month"
FileFed == {"zips", "local"}
NotFileFed == {"generated", "api", "postgres"}
LandingModes == FileFed \cup NotFileFed

Specs == {bronze[i] : i \in DOMAIN bronze}
Each(Of(_)) == IsInjective([i \in DOMAIN bronze |-> Of(bronze[i])])

-----------------------------------------------------------------------------
(* The layout: OplConfig and the Auto Loader's state.                      *)

RootOf(landing) == IF landing \in FileFed THEN "cnpj" ELSE landing

\* _landing_and_tmp, and landing_zips for what a month's zips bring.
LandingDir(spec, month) == <<RootOf(spec.landing), month, spec.subdir>>
LandingTmp(spec, month) == <<"_tmp", RootOf(spec.landing), month, spec.subdir>>
LandingZips(spec, month) == <<"cnpj", month, "zips", spec.subdir>>

Checkpoint(spec, month) == <<"_checkpoints", month, spec.key>>
SchemaLocation(spec, month) == <<"_schemas", month, spec.key>>

\* The unscoped state of the first month, left where it was.
Orphans(spec) == {<<"_checkpoints", spec.key>>, <<"_schemas", spec.key>>}

-----------------------------------------------------------------------------
(* The guards, in the order they run.                                      *)

ContractsExist == \A s \in Specs : s.contract \in DOMAIN ContractColumns

NoTwoTablesShareAContract == LET Contract(s) == s.contract IN Each(Contract)

NonMonthlyAxisIsAContractColumn ==
  \A s \in Specs : s.axis # Monthly => s.axis \in ContractColumns[s.contract]

LandingModesKnown == \A s \in Specs : s.landing \in LandingModes

PrefixesOf(contract) == {g.prefix : g \in {x \in FileGroups : x.table = contract}}

\* _assert_prefixes_match_their_file_groups: the contract's one prefix, or
\* none when it gathers several groups.
PrefixesMatchTheirFileGroups ==
  \A s \in Specs : s.landing \in FileFed =>
    /\ PrefixesOf(s.contract) # {}
    /\ s.prefix = IF Cardinality(PrefixesOf(s.contract)) = 1 THEN PrefixesOf(s.contract) ELSE {}

NothingDownloadsWhatIsNotFileFed ==
  \A s \in Specs : s.landing \notin FileFed => PrefixesOf(s.contract) = {} /\ s.prefix = {}

NoMaskedContractDeclaresACheck == \A s \in Specs : s.contract \in MaskedColumns => ~s.checks

\* A subdir with a separator is two components.
SubdirsAreSingleComponents == \A s \in Specs : s.subdir \notin {"", ".", "..", "a/b"}

\* _reserved_subdirs.
ReservedSubdirs == {"zips", "_tmp", "_schemas", "_checkpoints"}

NoTableClaimsAReservedSubdir == \A s \in Specs : s.subdir \notin ReservedSubdirs

NoTwoTablesShareASubdir == LET Subdir(s) == s.subdir IN Each(Subdir)

\* The table a name resolves to: UC and Spark identifiers are case-insensitive.
Resolves(name) == IF name \in DOMAIN Folded THEN Folded[name] ELSE name

\* mutant: the names are compared as they are spelled
FoldAsSpelled(name) == name

\* casefold, by which names are compared.
Fold(name) == Resolves(name)

DeltaNames(s) == <<s.staging, s.bronze, s.quarantine>>
BronzeNames == UNION {ToSet(DeltaNames(s)) : s \in Specs}

NoTwoTablesShareADeltaName ==
  Cardinality({Fold(n) : n \in BronzeNames}) = 3 * Cardinality(DOMAIN bronze)

NoTableKeyIsMonthShaped == \A s \in Specs : s.key \notin Months

NoTwoTablesShareACheckpoint == LET TableKey(s) == s.key IN Each(TableKey)

\* Importing bronze.
BronzeImports ==
  /\ ContractsExist /\ NoTwoTablesShareAContract /\ NonMonthlyAxisIsAContractColumn
  /\ LandingModesKnown /\ PrefixesMatchTheirFileGroups /\ NothingDownloadsWhatIsNotFileFed
  /\ NoMaskedContractDeclaresACheck
  /\ SubdirsAreSingleComponents /\ NoTableClaimsAReservedSubdir /\ NoTwoTablesShareASubdir
  /\ NoTwoTablesShareADeltaName /\ NoTableKeyIsMonthShaped /\ NoTwoTablesShareACheckpoint
=============================================================================
