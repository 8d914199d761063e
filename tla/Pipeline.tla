------------------------------ MODULE Pipeline ------------------------------
(***************************************************************************)
(* The jobs that carry bronze into the vault and the vault into gold, and  *)
(* the blast radius of opl.triage_agent.blast_radius, which tells from     *)
(* declarations alone what a bronze table feeds.  A job is launched by an  *)
(* operator over a window of months; its tasks run when the tasks they     *)
(* depend on have succeeded, in parallel where nothing orders them, and    *)
(* runs of different jobs interleave.  A task is one step: it reads tables *)
(* that only grow and appends to the one table it owns.  What is inside a  *)
(* load is in Vault, Dimension, Star and Pit; here a table is the months   *)
(* it was loaded from and the bronze tables its rows come from.            *)
(***************************************************************************)
EXTENDS Naturals, FiniteSets

CONSTANTS
  Months,       \* snapshot months, 1..n: month m delivers the keys 1..m
  Jobs,         \* the jobs of the bundle
  Plans,        \* sets of jobs an operator may be working with
  Late,         \* bronze tables that still receive months
  MidRun,       \* whether a month may be promoted while a vault run reads its table
  MaxLaunches,  \* bound: runs of jobs
  MaxRunning    \* bound: runs in flight at once

JobNames ==
  {"vault_empresa", "vault_estabelecimento", "vault_merchant", "vault_partner",
   "vault_payments", "vault_reference", "gold_conformed_dimensions",
   "gold_dim_company", "gold_fact_payment", "gold_pit_estabelecimento"}

ASSUME PipelineAssumption ==
  /\ Jobs \subseteq JobNames
  /\ Plans \subseteq SUBSET Jobs
  /\ Months \subseteq Nat /\ IsFiniteSet(Months) /\ Months # {}
  /\ MaxLaunches \in Nat /\ MaxRunning \in Nat /\ MidRun \in BOOLEAN

VARIABLES
  delivered,  \* delivered[b]: months promoted to the bronze table b
  rows,       \* rows[t]: months whose keys the table t holds
  origins,    \* origins[t]: bronze tables its rows come from, and the way they came
  window,     \* window[j]: months the run of job j was launched with, {} when idle
  task,       \* task[j][t]: "waiting", "done" or "failed"
  plan,       \* the jobs the operator works with
  launches    \* runs launched so far

vars == <<delivered, rows, origins, window, task, plan, launches>>

----------------------------------------------------------------------------
\* The declarations: bronze registry, vault domains, gold registry, bundle.

Bronze == {"empresas", "estabelecimentos", "socios", "lookup", "merchant",
           "payments", "ptax"}

CnpjDomain ==
  {"hub_empresa", "sat_empresa_dados", "hub_estabelecimento", "sat_estabelecimento_dados",
   "sat_estabelecimento_endereco", "link_empresa_estabelecimento", "link_company_partner",
   "sat_eff_company_partner", "ref_cnae", "ref_motivo", "ref_municipio",
   "ref_natureza_juridica", "ref_pais", "ref_qualificacao"}
MerchantDomain == {"hub_merchant", "sat_merchant_dados", "link_merchant_empresa",
                   "sat_eff_merchant_empresa"}
PaymentsDomain == {"link_payment", "sat_link_payment"}
VaultTable     == CnpjDomain \cup MerchantDomain \cup PaymentsDomain

\* Blast radius, leg 1: the bronze tables each vault table is loaded from.
VAULT_LOADS_FROM ==
  [hub_empresa                  |-> {"empresas", "estabelecimentos"},
   sat_empresa_dados            |-> {"empresas"},
   hub_estabelecimento          |-> {"estabelecimentos"},
   sat_estabelecimento_dados    |-> {"estabelecimentos"},
   sat_estabelecimento_endereco |-> {"estabelecimentos"},
   link_empresa_estabelecimento |-> {"estabelecimentos"},
   hub_merchant                 |-> {"merchant"},
   sat_merchant_dados           |-> {"merchant"},
   link_merchant_empresa        |-> {"merchant"},
   sat_eff_merchant_empresa     |-> {"merchant"},
   link_company_partner         |-> {"socios"},
   sat_eff_company_partner      |-> {"socios"},
   link_payment                 |-> {"payments"},
   sat_link_payment             |-> {"payments"},
   ref_cnae |-> {"lookup"}, ref_motivo |-> {"lookup"}, ref_municipio |-> {"lookup"},
   ref_natureza_juridica |-> {"lookup"}, ref_pais |-> {"lookup"},
   ref_qualificacao |-> {"lookup"}]

\* Leg 3: the gold tables built from bronze with no vault table in between.
DIRECT_TO_GOLD == [payments |-> {"dim_date", "fact_payment"}, ptax |-> {"fact_payment"}]

GOLD_WITHOUT_A_BRONZE_SOURCE == {"dim_channel", "dim_currency"}

\* Leg 2: the vault tables a gold table's spec names, its hub included.
SpecSources ==
  [dim_company |-> {"hub_empresa", "sat_empresa_dados"},
   dim_date |-> {"sat_empresa_dados"}, dim_channel |-> {}, dim_currency |-> {},
   fact_payment |-> {},
   pit_estabelecimento |-> {"hub_estabelecimento", "sat_estabelecimento_dados",
                            "sat_estabelecimento_endereco"}]

\* The other gold tables it names.
SpecDimensions ==
  [t \in DOMAIN SpecSources |->
     IF t = "fact_payment"
     THEN {"dim_company", "dim_date", "dim_channel", "dim_currency"} ELSE {}]

\* The vault tables its own fields name: the hub of dim_company is in none.
VaultNamesIn ==
  [SpecSources EXCEPT !["dim_company"] = {"sat_empresa_dados"}]

GoldTable == DOMAIN SpecSources
Table     == VaultTable \cup GoldTable

----------------------------------------------------------------------------
\* blast_radius(source).

\* mutant: an incident is not followed into the second feed of a hub.
VaultReachedFirst(b) ==
  {t \in VaultTable : b = CHOOSE p \in VAULT_LOADS_FROM[t] : TRUE}

VaultReached(b) == {t \in VaultTable : b \in VAULT_LOADS_FROM[t]}

\* Closed over the star's own edges; the star is one edge deep, so one more
\* step than its depth is the fixpoint.
StarClosure(reached) ==
  LET step[n \in 0..Cardinality(GoldTable)] ==
        IF n = 0 THEN reached
        ELSE step[n - 1] \cup {t \in GoldTable : SpecDimensions[t] \cap step[n - 1] # {}}
  IN  step[Cardinality(GoldTable)]

GoldReached(vault, direct) ==
  StarClosure({t \in GoldTable : SpecSources[t] \cap vault # {}} \cup direct)

Direct(b) == IF b \in DOMAIN DIRECT_TO_GOLD THEN DIRECT_TO_GOLD[b] ELSE {}

DirectLeg(b) == GoldReached({}, Direct(b))

BlastRadius ==
  [b \in Bronze |->
     [vault |-> VaultReached(b), gold |-> GoldReached(VaultReached(b), Direct(b)),
      goldDirect |-> DirectLeg(b)]]

\* The sentence a triager reads: which of its four arms.
BlastRadiusNote(b) ==
  LET r == BlastRadius[b] IN
      IF r.goldDirect # {} THEN IF r.vault # {} THEN "both legs" ELSE "no vault loader"
      ELSE IF r.gold # {} THEN "through the vault" ELSE "no gold table"

\* The guards without which the module does not import.
VaultDeclarationIsTotal ==
  /\ DOMAIN VAULT_LOADS_FROM = VaultTable
  /\ \A t \in VaultTable : VAULT_LOADS_FROM[t] # {} /\ VAULT_LOADS_FROM[t] \subseteq Bronze

DirectDeclarationNamesRegistered ==
  \A b \in DOMAIN DIRECT_TO_GOLD :
    b \in Bronze /\ DIRECT_TO_GOLD[b] # {} /\ DIRECT_TO_GOLD[b] \subseteq GoldTable

NoBronzeTableReachesNothing ==
  \A b \in Bronze : BlastRadius[b].vault \cup BlastRadius[b].gold # {}

UnreachedGoldIsDeclared ==
  GoldTable \ UNION {BlastRadius[b].gold : b \in Bronze} = GOLD_WITHOUT_A_BRONZE_SOURCE

EveryVaultFieldIsRead == \A t \in GoldTable : VaultNamesIn[t] \subseteq SpecSources[t]

DirectLegIsPartOfTheWhole ==
  \A b \in Bronze : BlastRadius[b].goldDirect \subseteq BlastRadius[b].gold

ASSUME ImportGuards ==
  /\ VaultDeclarationIsTotal /\ DirectDeclarationNamesRegistered
  /\ NoBronzeTableReachesNothing /\ UnreachedGoldIsDeclared
  /\ EveryVaultFieldIsRead /\ DirectLegIsPartOfTheWhole

----------------------------------------------------------------------------
\* The bundle: the tasks of each job with the tasks they depend on.

\* The tasks of each entry point.
HubTask == {"hub_empresa", "hub_estabelecimento", "hub_merchant",
            "hub_empresa_from_estabelecimentos"}
SatelliteTask == {"sat_empresa_dados", "sat_estabelecimento_dados",
                  "sat_estabelecimento_endereco", "sat_merchant_dados", "sat_link_payment"}
LinkTask == {"link_empresa_estabelecimento", "link_merchant_empresa", "link_payment"}
EffectivityTask == {"sat_eff_merchant_empresa", "sat_eff_company_partner"}
ReferenceTask == {"ref_cnae", "ref_motivo", "ref_municipio", "ref_natureza_juridica",
                  "ref_pais", "ref_qualificacao"}

Root == {"assert_deployed_revision"}
Only(tasks) == [t \in Root \cup tasks |-> IF t \in Root THEN {} ELSE Root]

TasksOf(j) ==
  CASE j = "vault_empresa" ->
         [assert_deployed_revision |-> {}, hub_empresa |-> Root,
          sat_empresa_dados |-> {"hub_empresa"}]
    [] j = "vault_estabelecimento" ->
         [assert_deployed_revision |-> {}, hub_estabelecimento |-> Root,
          hub_empresa_from_estabelecimentos |-> {"hub_estabelecimento"},
          sat_estabelecimento_dados |-> {"hub_estabelecimento"},
          sat_estabelecimento_endereco |-> {"sat_estabelecimento_dados"},
          link_empresa_estabelecimento |->
            {"sat_estabelecimento_endereco", "hub_empresa_from_estabelecimentos"}]
    [] j = "vault_merchant" ->
         [assert_deployed_revision |-> {}, hub_merchant |-> Root,
          sat_merchant_dados |-> {"hub_merchant"},
          link_merchant_empresa |-> {"hub_merchant"},
          sat_eff_merchant_empresa |-> {"link_merchant_empresa"}]
    [] j = "vault_partner" ->
         [assert_deployed_revision |-> {}, link_company_partner |-> Root,
          sat_eff_company_partner |-> {"link_company_partner"}]
    [] j = "vault_payments" ->
         [assert_deployed_revision |-> {}, link_payment |-> Root,
          sat_link_payment |-> {"link_payment"}]
    [] j = "vault_reference" ->
         Only(ReferenceTask)
    [] j = "gold_conformed_dimensions" -> Only({"dim_date", "dim_channel", "dim_currency"})
    [] j = "gold_dim_company" -> Only({"dim_company"})
    [] j = "gold_fact_payment" -> Only({"fact_payment"})
    [] j = "gold_pit_estabelecimento" -> Only({"pit_estabelecimento"})

\* mutant: the link waits for the satellites and not for the company hub.
DagLinkUnordered ==
  [j \in Jobs |->
     IF j = "vault_estabelecimento"
     THEN [TasksOf(j) EXCEPT !["link_empresa_estabelecimento"] =
             {"sat_estabelecimento_endereco"}]
     ELSE TasksOf(j)]

Dag == [j \in Jobs |-> TasksOf(j)]

\* The bronze table every task of a vault job is handed.
JobSource ==
  [vault_empresa |-> "empresas", vault_estabelecimento |-> "estabelecimentos",
   vault_merchant |-> "merchant", vault_partner |-> "socios",
   vault_payments |-> "payments", vault_reference |-> "lookup"]

TargetOf(t) == IF t = "hub_empresa_from_estabelecimentos" THEN "hub_empresa" ELSE t

\* The hubs a link references.
LinkedHubs ==
  [link_empresa_estabelecimento |-> {"hub_empresa", "hub_estabelecimento"},
   link_merchant_empresa |-> {"hub_merchant", "hub_empresa"},
   link_company_partner |-> {"hub_empresa"}, link_payment |-> {"hub_empresa"}]

\* The parent a satellite hangs from.
ParentOf ==
  [sat_empresa_dados |-> "hub_empresa", sat_estabelecimento_dados |-> "hub_estabelecimento",
   sat_estabelecimento_endereco |-> "hub_estabelecimento",
   sat_merchant_dados |-> "hub_merchant",
   sat_eff_merchant_empresa |-> "link_merchant_empresa",
   sat_eff_company_partner |-> "link_company_partner", sat_link_payment |-> "link_payment"]

----------------------------------------------------------------------------
Init ==
  /\ delivered = [b \in Bronze |-> IF b \in Late THEN {} ELSE Months]
  /\ rows = [t \in Table |-> {}] /\ origins = [t \in Table |-> {}]
  /\ window = [j \in Jobs |-> {}]
  /\ task = [j \in Jobs |-> [t \in DOMAIN Dag[j] |-> "waiting"]]
  /\ plan \in Plans /\ launches = 0

Running(j) == window[j] # {}

\* Nothing in the bundle orders a bronze job and the vault job that reads it.
Deliver(b) ==
  /\ \A j \in Jobs \cap DOMAIN JobSource : JobSource[j] = b /\ Running(j) => MidRun
  /\ \E m \in Months \ delivered[b] :
       /\ \A n \in Months : n < m => n \in delivered[b]
       /\ delivered' = [delivered EXCEPT ![b] = @ \cup {m}]
  /\ UNCHANGED <<rows, origins, window, task, plan, launches>>

\* The months of a launch are named, each of them once.
RequiredMonths(W) == W # {}

\* One run of a job at a time; the jobs that take no window read what there is.
Launch(j, W) ==
  /\ j \in plan /\ ~ Running(j) /\ RequiredMonths(W)
  /\ launches < MaxLaunches
  /\ Cardinality({k \in Jobs : Running(k)}) < MaxRunning
  /\ j \notin DOMAIN JobSource \cup {"gold_dim_company"} => W = Months
  /\ launches' = launches + 1
  /\ window' = [window EXCEPT ![j] = W]
  /\ UNCHANGED <<delivered, rows, origins, task, plan>>

Ready(j, t) ==
  /\ Running(j) /\ task[j][t] = "waiting"
  /\ \A d \in Dag[j][t] : task[j][d] = "done"

Ends(j, t, status) ==
  /\ task' = [task EXCEPT ![j][t] = status]
  /\ UNCHANGED <<delivered, window, plan, launches>>

----------------------------------------------------------------------------
\* The vault: each entry point takes one kind of table.

Appends(j, t) ==
  \* The months of the window bronze holds; a window that matches nothing
  \* appends nothing and succeeds.
  LET loaded == window[j] \cap delivered[JobSource[j]]
      target == TargetOf(t)
  IN  /\ rows' = [rows EXCEPT ![target] = @ \cup loaded]
      /\ origins' = IF loaded = {} THEN origins
                    ELSE [origins EXCEPT ![target] = @ \cup {<<JobSource[j], "direct">>}]
      /\ Ends(j, t, "done")

LoadHub(j, t) == t \in HubTask /\ Ready(j, t) /\ Appends(j, t)

LoadSatellite(j, t) == t \in SatelliteTask /\ Ready(j, t) /\ Appends(j, t)

LoadReference(j, t) == t \in ReferenceTask /\ Ready(j, t) /\ Appends(j, t)

RefuseUnloadedHubs(t) == t \in DOMAIN LinkedHubs /\ \E h \in LinkedHubs[t] : rows[h] = {}

LoadLink(j, t) ==
  /\ t \in LinkTask /\ Ready(j, t)
  /\ ~ RefuseUnloadedHubs(t)
  /\ Appends(j, t)

\* The one link with an end that is derived and not identifying.
LoadPartnerLink(j) ==
  LET t == "link_company_partner"
  IN  /\ t \in DOMAIN Dag[j] /\ Ready(j, t)
      /\ ~ RefuseUnloadedHubs(t)
      /\ Appends(j, t)

RefuseAWindowThatCannotClose(j, t) == t \in EffectivityTask /\ Cardinality(window[j]) < 2

LoadEffectivity(j, t) ==
  /\ t \in EffectivityTask /\ Ready(j, t)
  /\ ~ RefuseAWindowThatCannotClose(j, t)
  /\ Appends(j, t)

----------------------------------------------------------------------------
\* Gold.

\* Where the rows of a table that gold reads come from, and by which way.
ComesFrom(t) ==
  IF t \in Bronze THEN IF delivered[t] = {} THEN {} ELSE {<<t, "direct">>}
  ELSE IF t \in VaultTable THEN {<<o[1], "vault">> : o \in origins[t]}
  ELSE origins[t]

Builds(j, t, months, reads) ==
  /\ Ready(j, t)
  /\ rows' = [rows EXCEPT ![t] = @ \cup months]
  /\ origins' = [origins EXCEPT ![t] = @ \cup UNION {ComesFrom(s) : s \in reads}]
  /\ Ends(j, t, "done")

\* dim_company closes intervals over the snapshots its satellite holds, all of
\* them, and keeps no interval a later snapshot has closed.
RefuseOutgrown(j, t) ==
  t = "dim_company" /\ \/ window[j] # rows["sat_empresa_dados"]
                       \/ rows[t] \notin {{}, window[j]}

BuildDimension(j) ==
  LET t == "dim_company"
  IN  /\ t \in DOMAIN Dag[j]
      /\ ~ RefuseOutgrown(j, t)
      /\ Builds(j, t, window[j], {"hub_empresa", "sat_empresa_dados"})

\* The calendar spans payments and applied dates; the other two are declared.
BuildConformed(j, t) ==
  \/ /\ t = "dim_date"
     /\ Builds(j, t, delivered["payments"] \cup rows["sat_empresa_dados"],
               {"payments", "sat_empresa_dados"})
  \/ t \in GOLD_WITHOUT_A_BRONZE_SOURCE /\ Builds(j, t, Months, {})

BuildPit(j) ==
  LET t == "pit_estabelecimento"
  IN  /\ t \in DOMAIN Dag[j]
      /\ Builds(j, t, rows["sat_estabelecimento_dados"]
                         \cup rows["sat_estabelecimento_endereco"],
                SpecSources[t])

\* The keys of the calendar, channel and currency are computed from the
\* payment itself: their tables are read to count orphans and no more.
BuildFact(j) ==
  LET t == "fact_payment"
  IN  /\ t \in DOMAIN Dag[j]
      /\ Builds(j, t, delivered["payments"], {"payments", "ptax", "dim_company"})

\* The operator's remedy for a dimension its source has outgrown.
DropDimension ==
  /\ rows["dim_company"] # {} /\ rows["dim_company"] # rows["sat_empresa_dados"]
  /\ rows' = [rows EXCEPT !["dim_company"] = {}]
  /\ origins' = [origins EXCEPT !["dim_company"] = {}]
  /\ UNCHANGED <<delivered, window, task, plan, launches>>

----------------------------------------------------------------------------
\* The wheel under test is the revision deployed.
AssertRevision(j) ==
  /\ Ready(j, "assert_deployed_revision")
  /\ Ends(j, "assert_deployed_revision", "done")
  /\ UNCHANGED <<rows, origins>>

Refuses(j, t) ==
  RefuseUnloadedHubs(t) \/ RefuseAWindowThatCannotClose(j, t) \/ RefuseOutgrown(j, t)

\* A task refuses, or dies before its append commits; max_retries is 0.  Bound:
\* one death a run.
Fail(j, t) ==
  /\ Ready(j, t)
  /\ Refuses(j, t) \/ \A u \in DOMAIN Dag[j] : task[j][u] # "failed"
  /\ Ends(j, t, "failed")
  /\ UNCHANGED <<rows, origins>>

\* The run is over when no task can start; those behind a failure never do.
Settled(j) == Running(j) /\ \A t \in DOMAIN Dag[j] : ~ Ready(j, t)

End(j) ==
  /\ Settled(j)
  /\ window' = [window EXCEPT ![j] = {}]
  /\ task' = [task EXCEPT ![j] = [t \in DOMAIN @ |-> "waiting"]]
  /\ UNCHANGED <<delivered, rows, origins, plan, launches>>

Step(j) ==
  \/ AssertRevision(j) \/ End(j)
  \/ LoadPartnerLink(j) \/ BuildDimension(j) \/ BuildPit(j) \/ BuildFact(j)
  \/ \E t \in DOMAIN Dag[j] :
       \/ LoadHub(j, t) \/ LoadSatellite(j, t) \/ LoadReference(j, t)
       \/ LoadLink(j, t) \/ LoadEffectivity(j, t) \/ BuildConformed(j, t)
       \/ Fail(j, t)

Next ==
  \/ \E b \in Late : Deliver(b)
  \/ \E j \in Jobs, W \in SUBSET Months : Launch(j, W)
  \/ \E j \in Jobs : Step(j)
  \/ DropDimension

Spec == Init /\ [][Next]_vars

----------------------------------------------------------------------------
PipelineTypeOK ==
  /\ delivered \in [Bronze -> SUBSET Months]
  /\ rows \in [Table -> SUBSET Months]
  /\ origins \in [Table -> SUBSET (Bronze \X {"direct", "vault"})]
  /\ window \in [Jobs -> SUBSET Months]
  /\ launches \in 0..MaxLaunches

\* The radius of a bronze table holds every table a row of it can be in: what
\* triage tells from declarations covers what the entry points read, through
\* hubs with two feeds, dimensions and the fact.
WithinTheRadius ==
  \A t \in Table : \A o \in origins[t] :
    t \in BlastRadius[o[1]].vault \cup BlastRadius[o[1]].gold

\* What the note says of the way is so: a gold table holding rows that never
\* passed the vault is on the direct leg, and the two arms that name no direct
\* leg are used of no table that has one.
TheWayIsTold ==
  \A t \in GoldTable, b \in Bronze :
    <<b, "direct">> \in origins[t] =>
      /\ t \in BlastRadius[b].goldDirect
      /\ BlastRadiusNote(b) \in {"both legs", "no vault loader"}

\* The keys a table holds: those of every month it was loaded from.
Keys(t) == {k \in Months : \E m \in rows[t] : k <= m}

\* No link of establishments references a hub row that does not exist yet, which
\* nothing would report: its task comes after both hubs it references.
LinkAfterBothHubs ==
  \A h \in LinkedHubs["link_empresa_estabelecimento"] :
    Keys("link_empresa_estabelecimento") \subseteq Keys(h)

\* Within a job the order of the tasks keeps references whole, whichever of
\* them failed in whichever run: no satellite holds a key its parent does not,
\* and the link of establishments none that one of its hubs does not.
NothingDanglesWithinAJob ==
  /\ \A s \in DOMAIN ParentOf : Keys(s) \subseteq Keys(ParentOf[s])
  /\ LinkAfterBothHubs

\* Across jobs nothing orders a link after its hubs; a link that holds rows
\* still references no hub that was never loaded.
NoLinkOverAnEmptyHub ==
  \A l \in DOMAIN LinkedHubs : rows[l] # {} => \A h \in LinkedHubs[l] : rows[h] # {}

\* Rows stay within the radius declared for their table, and reach gold by the way
\* its note names.
RadiusIsTold == WithinTheRadius /\ TheWayIsTold

\* References are to what is loaded: within a job by the order of its tasks, and
\* across jobs to no hub that was never loaded.
ReferencesAreLoaded == NothingDanglesWithinAJob /\ NoLinkOverAnEmptyHub
=============================================================================
