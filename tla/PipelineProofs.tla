---------------------------- MODULE PipelineProofs ----------------------------
(***************************************************************************)
(* Proofs about Pipeline, for any months, any sets of jobs an operator     *)
(* works with and any number of runs in flight: what a vault table         *)
(* references has been loaded, and what a bronze table delivers stays      *)
(* within the radius declared for it.                                      *)
(***************************************************************************)
EXTENDS Pipeline, FiniteSetTheorems, TLAPS

VaultJobs == Jobs \cap DOMAIN JobSource

\* What the jobs hold.
Typed ==
  /\ delivered \in [Bronze -> SUBSET Months]
  /\ rows \in [Table -> SUBSET Months]
  /\ window \in [Jobs -> SUBSET Months]
  /\ DOMAIN task = Jobs
  /\ \A j \in Jobs : DOMAIN task[j] = DOMAIN Dag[j]

\* A job that is not running has done nothing yet.
Idle == \A j \in Jobs : window[j] = {} => \A t \in DOMAIN Dag[j] : task[j][t] = "waiting"

\* The months of the window of j that its source holds.
Loaded(j) == window[j] \cap delivered[JobSource[j]]

\* A task that is done has loaded what its window and its source have.
DoneIsLoaded ==
  \A j \in VaultJobs : \A t \in DOMAIN Dag[j] \ Root :
    task[j][t] = "done" => Loaded(j) \subseteq rows[TargetOf(t)]

\* The task each satellite waits for: its parent's, or the sibling's before it.
Behind ==
  [ParentOf EXCEPT !["sat_estabelecimento_endereco"] = "sat_estabelecimento_dados"]

Estabelecimento == "link_empresa_estabelecimento"

Whole ==
  /\ \A s \in DOMAIN ParentOf : rows[s] \subseteq rows[Behind[s]]
  /\ \A h \in LinkedHubs[Estabelecimento] : rows[Estabelecimento] \subseteq rows[h]

PipelineInv == Typed /\ Idle /\ DoneIsLoaded /\ Whole /\ NoLinkOverAnEmptyHub

-----------------------------------------------------------------------------
(* The bundle.                                                             *)

LEMMA DagOf == \A j \in Jobs : Dag[j] = TasksOf(j)
BY DEF Dag

LEMMA NamedTables ==
  /\ DOMAIN ParentOf \subseteq VaultTable /\ DOMAIN Behind = DOMAIN ParentOf
  /\ \A s \in DOMAIN ParentOf : Behind[s] \in VaultTable /\ ParentOf[s] \in VaultTable
  /\ DOMAIN LinkedHubs \subseteq VaultTable
  /\ \A l \in DOMAIN LinkedHubs : LinkedHubs[l] \subseteq VaultTable
BY DEF ParentOf, Behind, LinkedHubs, VaultTable, CnpjDomain, MerchantDomain, PaymentsDomain

Load == HubTask \cup SatelliteTask \cup LinkTask \cup EffectivityTask \cup ReferenceTask
          \cup {"link_company_partner"}

\* Every task of a vault job appends to a vault table, and a satellite or the link
\* of establishments waits for what it references.
LEMMA VaultTasks ==
  ASSUME NEW j \in Jobs, NEW t \in DOMAIN Dag[j],
         t \in Load
  PROVE  /\ j \in DOMAIN JobSource /\ t \notin Root /\ TargetOf(t) \in VaultTable
         /\ TargetOf(t) \in {t, "hub_empresa"}
         /\ t \in DOMAIN ParentOf =>
              /\ TargetOf(t) = t /\ TargetOf(Behind[t]) = Behind[t]
              /\ Behind[t] \in Dag[j][t] \cap DOMAIN Dag[j] /\ Behind[t] \notin Root
         /\ t = Estabelecimento =>
              /\ TargetOf(t) = t
              /\ {"sat_estabelecimento_endereco", "hub_empresa_from_estabelecimentos"}
                   \subseteq Dag[j][t] \cap DOMAIN Dag[j]
<1>1. j \in JobNames
  BY PipelineAssumption
<1>2. Dag[j] = TasksOf(j)
  BY DagOf
<1> USE DEF Load, TasksOf, Root, Only, TargetOf, ParentOf, Behind, Estabelecimento, JobSource, VaultTable,
            CnpjDomain, MerchantDomain, PaymentsDomain, HubTask, SatelliteTask, LinkTask,
            EffectivityTask, ReferenceTask
<1>3. CASE j = "vault_empresa"
  BY <1>2, <1>3
<1>4. CASE j = "vault_estabelecimento"
  BY <1>2, <1>4
<1>5. CASE j = "vault_merchant"
  BY <1>2, <1>5
<1>6. CASE j = "vault_partner"
  BY <1>2, <1>6
<1>7. CASE j = "vault_payments"
  BY <1>2, <1>7
<1>8. CASE j = "vault_reference"
  BY <1>2, <1>8
<1>9. CASE j \in {"gold_conformed_dimensions", "gold_dim_company", "gold_fact_payment",
                  "gold_pit_estabelecimento"}
  BY <1>2, <1>9
<1> QED
  BY <1>1, <1>3, <1>4, <1>5, <1>6, <1>7, <1>8, <1>9 DEF JobNames

\* A vault job has no other tasks, and every job begins with the revision.
LEMMA JobTasks ==
  ASSUME NEW j \in Jobs
  PROVE  /\ Root \subseteq DOMAIN Dag[j]
         /\ j \in DOMAIN JobSource => DOMAIN Dag[j] \ Root \subseteq Load
<1>1. Dag[j] = TasksOf(j) /\ j \in JobNames
  BY DagOf, PipelineAssumption
<1>2. CASE j \in {"vault_empresa", "vault_estabelecimento", "vault_merchant"}
  BY <1>1, <1>2 DEF TasksOf, Root, Load, HubTask, SatelliteTask, LinkTask, EffectivityTask
<1>3. CASE j \in {"vault_partner", "vault_payments", "vault_reference"}
  BY <1>1, <1>3 DEF TasksOf, Root, Only, Load, SatelliteTask, LinkTask, EffectivityTask, ReferenceTask
<1>4. CASE j \in {"gold_conformed_dimensions", "gold_dim_company", "gold_fact_payment",
                  "gold_pit_estabelecimento"}
  BY <1>1, <1>4 DEF TasksOf, Root, Only, JobSource
<1> QED
  BY <1>1, <1>2, <1>3, <1>4 DEF JobNames

LEMMA GoldIsNotVault == GoldTable \cap VaultTable = {}
BY DEF GoldTable, SpecSources, VaultTable, CnpjDomain, MerchantDomain, PaymentsDomain

-----------------------------------------------------------------------------
(* The steps.                                                              *)

\* What a task leaves of the invariant when it ends.
LEMMA TaskEnds ==
  ASSUME PipelineInv, NEW j \in Jobs, NEW t \in DOMAIN Dag[j], NEW status,
         Ready(j, t), Ends(j, t, status)
  PROVE  /\ DOMAIN task' = Jobs /\ \A k \in Jobs : DOMAIN task'[k] = DOMAIN Dag[k]
         /\ Idle'
         /\ \A k \in Jobs : \A u \in DOMAIN Dag[k] :
              task'[k][u] = IF k = j /\ u = t THEN status ELSE task[k][u]
<1>1. DOMAIN task = Jobs /\ \A k \in Jobs : DOMAIN task[k] = DOMAIN Dag[k]
  BY DEF PipelineInv, Typed
<1>2. task' = [task EXCEPT ![j][t] = status] /\ window' = window /\ window[j] # {}
  BY DEF Ends, Ready, Running
<1>3. \A k \in Jobs : \A u \in DOMAIN Dag[k] :
        task'[k][u] = IF k = j /\ u = t THEN status ELSE task[k][u]
  BY <1>1, <1>2
<1>4. DOMAIN task' = Jobs /\ \A k \in Jobs : DOMAIN task'[k] = DOMAIN Dag[k]
  BY <1>1, <1>2
<1>5. Idle'
  <2> SUFFICES ASSUME NEW k \in Jobs, window'[k] = {}, NEW u \in DOMAIN Dag[k]
               PROVE  task'[k][u] = "waiting"
    BY DEF Idle, Dag
  <2>1. k # j /\ window[k] = {}
    BY <1>2
  <2> QED
    BY <2>1, <1>3 DEF PipelineInv, Idle
<1> QED
  BY <1>3, <1>4, <1>5

\* Steps that touch no vault table keep what its references are.
VaultStays == \A t \in VaultTable : rows'[t] = rows[t]

LEMMA WholeStays ==
  ASSUME Whole, NoLinkOverAnEmptyHub, VaultStays
  PROVE  Whole' /\ NoLinkOverAnEmptyHub'
<1>1. Estabelecimento \in DOMAIN LinkedHubs
  BY DEF Estabelecimento, LinkedHubs
<1> QED
  BY <1>1, NamedTables DEF Whole, NoLinkOverAnEmptyHub, VaultStays

\* A load appends what its window and its source have to the table it owns.
LEMMA AppendsStep ==
  ASSUME PipelineInv, NEW j \in Jobs, NEW t \in DOMAIN Dag[j], t \in Load,
         Ready(j, t), Appends(j, t), ~ RefuseUnloadedHubs(t)
  PROVE  PipelineInv'
<1> DEFINE L == Loaded(j)
<1>1. /\ rows' = [rows EXCEPT ![TargetOf(t)] = @ \cup L]
      /\ Ends(j, t, "done") /\ UNCHANGED <<delivered, window>>
  BY DEF Appends, Loaded, Ends
<1>2. /\ j \in DOMAIN JobSource /\ TargetOf(t) \in VaultTable /\ TargetOf(t) \in {t, "hub_empresa"}
      /\ t \notin Root
  BY VaultTasks
<1>3. JobSource[j] \in Bronze /\ L \subseteq Months
  BY <1>2 DEF JobSource, Bronze, Loaded, PipelineInv, Typed
<1>4. /\ rows' \in [Table -> SUBSET Months]
      /\ rows'[TargetOf(t)] = rows[TargetOf(t)] \cup L
      /\ \A u \in Table : u # TargetOf(t) => rows'[u] = rows[u]
      /\ \A u \in Table : rows[u] \subseteq rows'[u]
  BY <1>1, <1>2, <1>3 DEF PipelineInv, Typed, Table
<1>5. Typed' /\ Idle'
  BY <1>1, <1>4, TaskEnds DEF PipelineInv, Typed, Dag
<1>6. DoneIsLoaded'
  <2> SUFFICES ASSUME NEW k \in VaultJobs, NEW u \in DOMAIN Dag[k] \ Root, task'[k][u] = "done"
               PROVE  Loaded(k) \subseteq rows'[TargetOf(u)]
    BY <1>1 DEF DoneIsLoaded, Loaded, Dag
  <2>1. CASE k = j /\ u = t
    BY <2>1, <1>4
  <2>2. CASE ~ (k = j /\ u = t)
    <3>1. k \in Jobs /\ task[k][u] = "done"
      BY <2>2, <1>1, TaskEnds DEF VaultJobs
    <3>2. TargetOf(u) \in VaultTable
      BY <3>1, JobTasks, VaultTasks DEF VaultJobs
    <3>3. Loaded(k) \subseteq rows[TargetOf(u)]
      BY <3>1 DEF PipelineInv, DoneIsLoaded
    <3> QED
      BY <3>2, <3>3, <1>4 DEF Table
  <2> QED
    BY <2>1, <2>2
<1>7. \A u \in Dag[j][t] \cap DOMAIN Dag[j] : u \notin Root => L \subseteq rows[TargetOf(u)]
  BY <1>2 DEF Ready, PipelineInv, DoneIsLoaded, VaultJobs
<1>8. \A s \in DOMAIN ParentOf : rows'[s] \subseteq rows'[Behind[s]]
  <2> SUFFICES ASSUME NEW s \in DOMAIN ParentOf PROVE rows'[s] \subseteq rows'[Behind[s]]
    OBVIOUS
  <2>1. s \in Table /\ Behind[s] \in Table /\ s # "hub_empresa" /\ rows[s] \subseteq rows[Behind[s]]
    BY NamedTables DEF Table, ParentOf, PipelineInv, Whole
  <2>2. CASE s = TargetOf(t)
    <3>1. s = t
      BY <2>1, <2>2, <1>2
    <3>2. L \subseteq rows[Behind[s]]
      BY <3>1, <1>7, VaultTasks
    <3> QED
      BY <2>1, <2>2, <3>2, <1>4
  <2> QED
    BY <2>1, <2>2, <1>4
<1>9. ASSUME NEW h \in LinkedHubs[Estabelecimento]
      PROVE  rows'[Estabelecimento] \subseteq rows'[h]
  <2>1. Estabelecimento \in Table /\ h \in Table /\ Estabelecimento # "hub_empresa"
        /\ rows[Estabelecimento] \subseteq rows[h]
    BY NamedTables DEF Table, LinkedHubs, Estabelecimento, PipelineInv, Whole
  <2>2. CASE Estabelecimento = TargetOf(t)
    <3>1. t = Estabelecimento
      BY <2>1, <2>2, <1>2
    <3>2. /\ L \subseteq rows["sat_estabelecimento_endereco"]
          /\ L \subseteq rows["hub_empresa"]
      BY <3>1, <1>7, VaultTasks DEF TargetOf, Root
    <3>3. /\ rows["sat_estabelecimento_endereco"] \subseteq rows["sat_estabelecimento_dados"]
          /\ rows["sat_estabelecimento_dados"] \subseteq rows["hub_estabelecimento"]
      BY DEF PipelineInv, Whole, Behind, ParentOf
    <3>4. L \subseteq rows[h]
      BY <3>2, <3>3 DEF LinkedHubs, Estabelecimento
    <3> QED
      BY <2>1, <2>2, <3>4, <1>4
  <2> QED
    BY <2>1, <2>2, <1>4
<1>10. Whole'
  BY <1>8, <1>9 DEF Whole
<1>11. NoLinkOverAnEmptyHub'
  <2> SUFFICES ASSUME NEW l \in DOMAIN LinkedHubs, rows'[l] # {}, NEW h \in LinkedHubs[l]
               PROVE  rows'[h] # {}
    BY DEF NoLinkOverAnEmptyHub
  <2>1. l \in Table /\ h \in Table /\ l # "hub_empresa"
    BY NamedTables DEF Table, LinkedHubs
  <2>2. CASE l = t
    BY <2>1, <2>2, <1>4 DEF RefuseUnloadedHubs
  <2>3. CASE l # t
    BY <2>1, <2>3, <1>2, <1>4 DEF PipelineInv, NoLinkOverAnEmptyHub
  <2> QED
    BY <2>2, <2>3
<1> QED
  BY <1>5, <1>6, <1>10, <1>11 DEF PipelineInv

\* A task that fails, and the one that checks the revision, load nothing.
LEMMA EmptyStep ==
  ASSUME PipelineInv, NEW j \in Jobs, NEW t \in DOMAIN Dag[j], NEW status,
         Ready(j, t), Ends(j, t, status), UNCHANGED rows,
         status = "failed" \/ t \in Root
  PROVE  PipelineInv'
<1>1. UNCHANGED <<delivered, window>>
  BY DEF Ends
<1>2. Typed' /\ Idle'
  BY <1>1, TaskEnds DEF PipelineInv, Typed, Dag
<1>3. DoneIsLoaded'
  BY <1>1, TaskEnds DEF PipelineInv, DoneIsLoaded, Loaded, Dag, VaultJobs
<1>4. Whole' /\ NoLinkOverAnEmptyHub'
  BY WholeStays DEF PipelineInv, VaultStays
<1> QED
  BY <1>2, <1>3, <1>4 DEF PipelineInv

\* A build appends to gold.
LEMMA BuildsStep ==
  ASSUME PipelineInv, NEW j \in Jobs, NEW t \in GoldTable, NEW months \in SUBSET Months, NEW reads,
         Builds(j, t, months, reads), t \in DOMAIN Dag[j]
  PROVE  PipelineInv'
<1>1. /\ Ready(j, t) /\ Ends(j, t, "done") /\ UNCHANGED <<delivered, window>>
      /\ rows' = [rows EXCEPT ![t] = @ \cup months]
  BY DEF Builds, Ends
<1>2. rows' \in [Table -> SUBSET Months] /\ VaultStays
  BY <1>1, GoldIsNotVault DEF PipelineInv, Typed, Table, VaultStays
<1>3. Typed' /\ Idle'
  BY <1>1, <1>2, TaskEnds DEF PipelineInv, Typed, Dag
<1>4. DoneIsLoaded'
  <2> SUFFICES ASSUME NEW k \in VaultJobs, NEW u \in DOMAIN Dag[k] \ Root, task'[k][u] = "done"
               PROVE  Loaded(k) \subseteq rows'[TargetOf(u)]
    BY <1>1 DEF DoneIsLoaded, Loaded, Dag
  <2>1. k \in Jobs /\ u \in Load /\ TargetOf(u) \in VaultTable
    BY JobTasks, VaultTasks DEF VaultJobs
  <2>2. t \notin Load
    BY GoldIsNotVault DEF Load, HubTask, SatelliteTask, LinkTask, EffectivityTask, ReferenceTask,
          GoldTable, SpecSources
  <2>3. task[k][u] = "done"
    BY <2>1, <2>2, <1>1, TaskEnds
  <2> QED
    BY <2>1, <2>3, <1>2 DEF PipelineInv, DoneIsLoaded, VaultStays
<1>5. Whole' /\ NoLinkOverAnEmptyHub'
  BY <1>2, WholeStays DEF PipelineInv
<1> QED
  BY <1>3, <1>4, <1>5 DEF PipelineInv

LEMMA StepStep ==
  ASSUME PipelineInv, NEW j \in Jobs, Step(j)
  PROVE  PipelineInv'
<1>1. CASE AssertRevision(j)
  BY <1>1, EmptyStep, JobTasks DEF AssertRevision, Root
<1>2. CASE End(j)
  <2>1. /\ window' = [window EXCEPT ![j] = {}]
        /\ task' = [task EXCEPT ![j] = [t \in DOMAIN @ |-> "waiting"]]
        /\ UNCHANGED <<delivered, rows>>
    BY <1>2 DEF End
  <2>2. Typed' /\ Idle'
    BY <2>1 DEF PipelineInv, Typed, Idle, Dag
  <2>3. DoneIsLoaded'
    BY <2>1 DEF PipelineInv, Typed, DoneIsLoaded, Loaded, Dag, VaultJobs
  <2>4. Whole' /\ NoLinkOverAnEmptyHub'
    BY <2>1, WholeStays DEF PipelineInv, VaultStays
  <2> QED
    BY <2>2, <2>3, <2>4 DEF PipelineInv
<1>3. CASE LoadPartnerLink(j)
  BY <1>3, AppendsStep DEF LoadPartnerLink, Load
<1>4. CASE BuildDimension(j)
  <2>1. window[j] \in SUBSET Months /\ "dim_company" \in GoldTable
    BY DEF PipelineInv, Typed, GoldTable, SpecSources
  <2> QED
    BY <1>4, <2>1, BuildsStep DEF BuildDimension
<1>5. CASE BuildPit(j)
  <2>1. /\ rows["sat_estabelecimento_dados"] \cup rows["sat_estabelecimento_endereco"]
             \in SUBSET Months
        /\ "pit_estabelecimento" \in GoldTable
    BY DEF PipelineInv, Typed, GoldTable, SpecSources, Table, VaultTable, CnpjDomain
  <2> QED
    BY <1>5, <2>1, BuildsStep DEF BuildPit
<1>6. CASE BuildFact(j)
  <2>1. delivered["payments"] \in SUBSET Months /\ "fact_payment" \in GoldTable
    BY DEF PipelineInv, Typed, GoldTable, SpecSources, Bronze
  <2> QED
    BY <1>6, <2>1, BuildsStep DEF BuildFact
<1>7. ASSUME NEW t \in DOMAIN Dag[j],
             LoadHub(j, t) \/ LoadSatellite(j, t) \/ LoadReference(j, t) \/ LoadEffectivity(j, t)
      PROVE  PipelineInv'
  <2>1. t \in Load /\ t \notin DOMAIN LinkedHubs /\ Ready(j, t) /\ Appends(j, t)
    BY <1>7 DEF LoadHub, LoadSatellite, LoadReference, LoadEffectivity, Load, HubTask,
                SatelliteTask, ReferenceTask, EffectivityTask, LinkedHubs
  <2> QED
    BY <2>1, AppendsStep DEF RefuseUnloadedHubs
<1>8. ASSUME NEW t \in DOMAIN Dag[j], LoadLink(j, t)
      PROVE  PipelineInv'
  BY <1>8, AppendsStep DEF LoadLink, Load
<1>9. ASSUME NEW t \in DOMAIN Dag[j], BuildConformed(j, t)
      PROVE  PipelineInv'
  <2>1. /\ delivered["payments"] \cup rows["sat_empresa_dados"] \in SUBSET Months
        /\ Months \in SUBSET Months
        /\ {"dim_date"} \cup GOLD_WITHOUT_A_BRONZE_SOURCE \subseteq GoldTable
    BY DEF PipelineInv, Typed, GoldTable, SpecSources, Bronze, Table, VaultTable, CnpjDomain,
           GOLD_WITHOUT_A_BRONZE_SOURCE
  <2>2. CASE t = "dim_date" /\ Builds(j, t, delivered["payments"] \cup rows["sat_empresa_dados"],
                                     {"payments", "sat_empresa_dados"})
    BY <2>1, <2>2, BuildsStep
  <2>3. CASE t \in GOLD_WITHOUT_A_BRONZE_SOURCE /\ Builds(j, t, Months, {})
    BY <2>1, <2>3, BuildsStep
  <2> QED
    BY <1>9, <2>2, <2>3 DEF BuildConformed
<1>10. ASSUME NEW t \in DOMAIN Dag[j], Fail(j, t)
       PROVE  PipelineInv'
  BY <1>10, EmptyStep DEF Fail
<1> QED
  BY <1>1, <1>2, <1>3, <1>4, <1>5, <1>6, <1>7, <1>8, <1>9, <1>10 DEF Step

\* No month is promoted while a run of the job that reads its table is under way.
LEMMA DeliverStep ==
  ASSUME PipelineInv, ~ MidRun, NEW b \in Late, Deliver(b)
  PROVE  PipelineInv'
<1>1. PICK m \in Months : delivered' = [delivered EXCEPT ![b] = @ \cup {m}]
  BY DEF Deliver
<1>2. UNCHANGED <<rows, window, task>>
  BY DEF Deliver
<1>3. Typed' /\ Idle'
  BY <1>1, <1>2 DEF PipelineInv, Typed, Idle, Dag
<1>4. ASSUME NEW j \in VaultJobs PROVE Loaded(j)' = Loaded(j)
  <2>1. CASE JobSource[j] = b
    <3>1. window[j] = {} /\ window'[j] = {}
      BY <2>1, <1>2 DEF Deliver, VaultJobs, Running
    <3> QED
      BY <3>1 DEF Loaded
  <2>2. CASE JobSource[j] # b
    <3>1. delivered'[JobSource[j]] = delivered[JobSource[j]]
      BY <2>2, <1>1 DEF PipelineInv, Typed, VaultJobs, JobSource, Bronze
    <3> QED
      BY <3>1, <1>2 DEF Loaded
  <2> QED
    BY <2>1, <2>2
<1>5. DoneIsLoaded'
  BY <1>2, <1>4 DEF PipelineInv, DoneIsLoaded, Dag
<1>6. Whole' /\ NoLinkOverAnEmptyHub'
  BY <1>2, WholeStays DEF PipelineInv, VaultStays
<1> QED
  BY <1>3, <1>5, <1>6 DEF PipelineInv

LEMMA LaunchStep ==
  ASSUME PipelineInv, NEW j \in Jobs, NEW W \in SUBSET Months, Launch(j, W)
  PROVE  PipelineInv'
<1>1. /\ window[j] = {} /\ W # {} /\ window' = [window EXCEPT ![j] = W]
      /\ UNCHANGED <<delivered, rows, task>>
  BY DEF Launch, Running, RequiredMonths
<1>2. Typed' /\ Idle'
  BY <1>1 DEF PipelineInv, Typed, Idle, Dag
<1>3. DoneIsLoaded'
  BY <1>1 DEF PipelineInv, Typed, Idle, DoneIsLoaded, Loaded, Dag, VaultJobs
<1>4. Whole' /\ NoLinkOverAnEmptyHub'
  BY <1>1, WholeStays DEF PipelineInv, VaultStays
<1> QED
  BY <1>2, <1>3, <1>4 DEF PipelineInv

LEMMA DropStep ==
  ASSUME PipelineInv, DropDimension
  PROVE  PipelineInv'
<1>1. /\ rows' = [rows EXCEPT !["dim_company"] = {}] /\ UNCHANGED <<delivered, window, task>>
  BY DEF DropDimension
<1>2. "dim_company" \in GoldTable /\ rows' \in [Table -> SUBSET Months] /\ VaultStays
  BY <1>1, GoldIsNotVault DEF PipelineInv, Typed, Table, VaultStays, GoldTable, SpecSources
<1>3. Typed' /\ Idle'
  BY <1>1, <1>2 DEF PipelineInv, Typed, Idle, Dag
<1>4. DoneIsLoaded'
  <2> SUFFICES ASSUME NEW k \in VaultJobs, NEW u \in DOMAIN Dag[k] \ Root, task[k][u] = "done"
               PROVE  Loaded(k) \subseteq rows'[TargetOf(u)]
    BY <1>1 DEF DoneIsLoaded, Loaded, Dag
  <2>1. TargetOf(u) \in VaultTable
    BY JobTasks, VaultTasks DEF VaultJobs
  <2> QED
    BY <2>1, <1>2 DEF PipelineInv, DoneIsLoaded, VaultStays
<1>5. Whole' /\ NoLinkOverAnEmptyHub'
  BY <1>2, WholeStays DEF PipelineInv
<1> QED
  BY <1>3, <1>4, <1>5 DEF PipelineInv

-----------------------------------------------------------------------------
(* What the order of the tasks promises.                                   *)

LEMMA PipelineInitInv == Init => PipelineInv
<1> SUFFICES ASSUME Init PROVE PipelineInv
  OBVIOUS
<1>1. Typed
  BY DEF Init, Typed
<1>2. Idle /\ DoneIsLoaded
  BY DEF Init, Idle, DoneIsLoaded, VaultJobs
<1>3. Whole /\ NoLinkOverAnEmptyHub
  BY NamedTables DEF Init, Whole, NoLinkOverAnEmptyHub, Table, LinkedHubs, Estabelecimento
<1> QED
  BY <1>1, <1>2, <1>3 DEF PipelineInv

LEMMA PipelineInvStep ==
  ASSUME PipelineInv, ~ MidRun, [Next]_vars
  PROVE  PipelineInv'
<1>1. CASE UNCHANGED vars
  BY <1>1 DEF vars, PipelineInv, Typed, Idle, DoneIsLoaded, Loaded, Whole, NoLinkOverAnEmptyHub, Dag
<1> QED
  BY <1>1, StepStep, DeliverStep, LaunchStep, DropStep DEF Next

LEMMA InvIsWhole == PipelineInv => ReferencesAreLoaded
<1> SUFFICES ASSUME PipelineInv PROVE NothingDanglesWithinAJob
  BY DEF PipelineInv, ReferencesAreLoaded
<1>1. ASSUME NEW s \in DOMAIN ParentOf PROVE rows[s] \subseteq rows[ParentOf[s]]
  <2>1. CASE s = "sat_estabelecimento_endereco"
    BY <2>1 DEF PipelineInv, Whole, Behind, ParentOf
  <2>2. CASE s # "sat_estabelecimento_endereco"
    BY <2>2 DEF PipelineInv, Whole, Behind
  <2> QED
    BY <2>1, <2>2
<1>2. \A h \in LinkedHubs[Estabelecimento] : rows[Estabelecimento] \subseteq rows[h]
  BY DEF PipelineInv, Whole
<1> QED
  BY <1>1, <1>2 DEF NothingDanglesWithinAJob, LinkAfterBothHubs, Keys, Estabelecimento

\* If no month is promoted under a run that reads its table, no satellite and no link
\* of establishments ever holds a key of a parent that was not loaded, and no link
\* holds a row over a hub that was never loaded: for any months, any windows, any
\* plan of jobs, any runs in flight at once, and any tasks that fail.
THEOREM References ==
  ASSUME ~ MidRun
  PROVE  Spec => []ReferencesAreLoaded
<1>1. Init => PipelineInv
  BY PipelineInitInv
<1>2. PipelineInv /\ [Next]_vars => PipelineInv'
  BY PipelineInvStep
<1>3. PipelineInv => ReferencesAreLoaded
  BY InvIsWhole
<1> QED
  BY <1>1, <1>2, <1>3, PTL DEF Spec

-----------------------------------------------------------------------------
(* The blast radius.                                                       *)

\* The gold tables are six.
LEMMA SixGoldTables == Cardinality(GoldTable) = 6
<1> DEFINE S1 == {"dim_company"}
           S2 == S1 \cup {"dim_date"}
           S3 == S2 \cup {"dim_channel"}
           S4 == S3 \cup {"dim_currency"}
           S5 == S4 \cup {"fact_payment"}
           S6 == S5 \cup {"pit_estabelecimento"}
<1>1. IsFiniteSet(S1) /\ Cardinality(S1) = 1
  BY FS_Singleton
<1>2. IsFiniteSet(S2) /\ Cardinality(S2) = 2
  <2>1. "dim_date" \notin S1
    OBVIOUS
  <2> HIDE DEF S1
  <2> QED
    BY <1>1, <2>1, FS_AddElement
<1>3. IsFiniteSet(S3) /\ Cardinality(S3) = 3
  <2>1. "dim_channel" \notin S2
    OBVIOUS
  <2> HIDE DEF S2
  <2> QED
    BY <1>2, <2>1, FS_AddElement
<1>4. IsFiniteSet(S4) /\ Cardinality(S4) = 4
  <2>1. "dim_currency" \notin S3
    OBVIOUS
  <2> HIDE DEF S3
  <2> QED
    BY <1>3, <2>1, FS_AddElement
<1>5. IsFiniteSet(S5) /\ Cardinality(S5) = 5
  <2>1. "fact_payment" \notin S4
    OBVIOUS
  <2> HIDE DEF S4
  <2> QED
    BY <1>4, <2>1, FS_AddElement
<1>6. IsFiniteSet(S6) /\ Cardinality(S6) = 6
  <2>1. "pit_estabelecimento" \notin S5
    OBVIOUS
  <2> HIDE DEF S5
  <2> QED
    BY <1>5, <2>1, FS_AddElement
<1>7. GoldTable = S6
  BY DEF GoldTable, SpecSources
<1> QED
  BY <1>6, <1>7

\* One more step over the star.
Spread(S) == S \cup {t \in GoldTable : SpecDimensions[t] \cap S # {}}

\* Only the fact names dimensions.
LEMMA SpreadIs ==
  ASSUME NEW S
  PROVE  /\ S \subseteq Spread(S)
         /\ "dim_company" \in S => "fact_payment" \in Spread(S)
         /\ "dim_company" \in Spread(S) => "dim_company" \in S
BY DEF Spread, SpecDimensions, GoldTable, SpecSources

\* The closure has what it starts from, and the fact with its company dimension.
LEMMA ClosureIs ==
  ASSUME NEW reached
  PROVE  /\ reached \subseteq StarClosure(reached)
         /\ "dim_company" \in StarClosure(reached) => "fact_payment" \in StarClosure(reached)
<1> DEFINE R1 == Spread(reached)
           R2 == Spread(R1)
           R3 == Spread(R2)
           R4 == Spread(R3)
           R5 == Spread(R4)
           R6 == Spread(R5)
           f == [n \in 0..6 |->
                   IF n = 0 THEN reached ELSE IF n = 1 THEN R1 ELSE IF n = 2 THEN R2
                   ELSE IF n = 3 THEN R3 ELSE IF n = 4 THEN R4 ELSE IF n = 5 THEN R5 ELSE R6]
           Is(g) == g = [n \in 0..6 |-> IF n = 0 THEN reached ELSE Spread(g[n - 1])]
           step == CHOOSE g : Is(g)
<1>1. Is(f)
  <2> HIDE DEF R1, R2, R3, R4, R5, R6
  <2>1. ASSUME NEW n \in 0..6
        PROVE  f[n] = IF n = 0 THEN reached ELSE Spread(f[n - 1])
    <3>1. n \in {0, 1, 2, 3, 4, 5, 6}
      OBVIOUS
    <3> QED
      BY <3>1 DEF R1, R2, R3, R4, R5, R6
  <2> QED
    BY <2>1
<1>2. Is(step)
  <2> HIDE DEF f, Is
  <2> QED
    BY <1>1
<1>3. StarClosure(reached) = step[6]
  BY SixGoldTables DEF StarClosure, Spread
<1> HIDE DEF step
<1>4. /\ step[0] = reached /\ step[1] = Spread(step[0]) /\ step[2] = Spread(step[1])
      /\ step[3] = Spread(step[2]) /\ step[4] = Spread(step[3]) /\ step[5] = Spread(step[4])
      /\ step[6] = Spread(step[5])
  BY <1>2
<1>5. reached \subseteq step[6]
  <2>1. \A S : S \subseteq Spread(S)
    BY SpreadIs
  <2> QED
    BY <1>4, <2>1
<1>6. "dim_company" \in step[6] => "fact_payment" \in step[6]
  <2>1. "dim_company" \in step[6] => "dim_company" \in step[5]
    BY <1>4, SpreadIs
  <2>2. "dim_company" \in step[5] => "fact_payment" \in step[6]
    BY <1>4, SpreadIs
  <2> QED
    BY <2>1, <2>2
<1> QED
  BY <1>3, <1>5, <1>6

\* What a row of origin o in the gold table t owes the radius.
Told(t, o) ==
  /\ o[1] \in Bronze
  /\ t \in GoldReached(VaultReached(o[1]), Direct(o[1]))
  /\ o[2] = "direct" => t \in DirectLeg(o[1])

RadiusInv ==
  /\ DOMAIN origins = Table
  /\ \A t \in VaultTable : \A o \in origins[t] : o[1] \in VAULT_LOADS_FROM[t]
  /\ \A t \in GoldTable : \A o \in origins[t] : Told(t, o)

LEMMA ToldIsWithin == RadiusInv => RadiusIsTold
<1> SUFFICES ASSUME RadiusInv PROVE RadiusIsTold
  OBVIOUS
<1>1. \A t \in VaultTable : VAULT_LOADS_FROM[t] \subseteq Bronze
  BY ImportGuards DEF VaultDeclarationIsTotal
<1>2. WithinTheRadius
  <2> SUFFICES ASSUME NEW t \in Table, NEW o \in origins[t]
               PROVE  t \in BlastRadius[o[1]].vault \cup BlastRadius[o[1]].gold
    BY DEF WithinTheRadius
  <2>1. CASE t \in VaultTable
    <3>1. o[1] \in VAULT_LOADS_FROM[t] /\ o[1] \in Bronze
      BY <1>1, <2>1 DEF RadiusInv
    <3>2. t \in VaultReached(o[1])
      BY <2>1, <3>1 DEF VaultReached
    <3> QED
      BY <3>1, <3>2 DEF BlastRadius
  <2>2. CASE t \in GoldTable
    <3>1. o[1] \in Bronze /\ t \in GoldReached(VaultReached(o[1]), Direct(o[1]))
      BY <2>2 DEF RadiusInv, Told
    <3> QED
      BY <3>1 DEF BlastRadius
  <2> QED
    BY <2>1, <2>2 DEF Table
<1>3. TheWayIsTold
  <2> SUFFICES ASSUME NEW t \in GoldTable, NEW b \in Bronze, <<b, "direct">> \in origins[t]
               PROVE  /\ t \in BlastRadius[b].goldDirect
                      /\ BlastRadiusNote(b) \in {"both legs", "no vault loader"}
    BY DEF TheWayIsTold
  <2>1. Told(t, <<b, "direct">>)
    BY DEF RadiusInv
  <2>2. t \in DirectLeg(b)
    BY <2>1 DEF Told
  <2>3. BlastRadius[b].goldDirect = DirectLeg(b)
    BY DEF BlastRadius
  <2> QED
    BY <2>2, <2>3 DEF BlastRadiusNote
<1> QED
  BY <1>2, <1>3 DEF RadiusIsTold

\* A load is handed a bronze table its target is declared to be loaded from.
LEMMA LoadsAreDeclared ==
  ASSUME NEW j \in Jobs, NEW t \in DOMAIN Dag[j], t \in Load
  PROVE  JobSource[j] \in VAULT_LOADS_FROM[TargetOf(t)]
<1>1. j \in JobNames
  BY PipelineAssumption
<1>2. Dag[j] = TasksOf(j)
  BY DagOf
<1> USE DEF Load, TasksOf, Root, Only, TargetOf, JobSource, VAULT_LOADS_FROM, HubTask, SatelliteTask,
            LinkTask, EffectivityTask, ReferenceTask
<1>3. CASE j = "vault_empresa"
  BY <1>2, <1>3
<1>4. CASE j = "vault_estabelecimento"
  BY <1>2, <1>4
<1>5. CASE j = "vault_merchant"
  BY <1>2, <1>5
<1>6. CASE j = "vault_partner"
  BY <1>2, <1>6
<1>7. CASE j = "vault_payments"
  BY <1>2, <1>7
<1>8. CASE j = "vault_reference"
  BY <1>2, <1>8
<1>9. CASE j \in {"gold_conformed_dimensions", "gold_dim_company", "gold_fact_payment",
                  "gold_pit_estabelecimento"}
  BY <1>2, <1>9
<1> QED
  BY <1>1, <1>3, <1>4, <1>5, <1>6, <1>7, <1>8, <1>9 DEF JobNames

LEMMA AppendsTold ==
  ASSUME RadiusInv, NEW j \in Jobs, NEW t \in DOMAIN Dag[j], t \in Load, Appends(j, t)
  PROVE  RadiusInv'
<1>1. \/ origins' = origins
      \/ origins' = [origins EXCEPT ![TargetOf(t)] = @ \cup {<<JobSource[j], "direct">>}]
  BY DEF Appends
<1>2. TargetOf(t) \in VaultTable /\ TargetOf(t) \in Table /\ TargetOf(t) \notin GoldTable
  BY VaultTasks, GoldIsNotVault DEF Table
<1>3. JobSource[j] \in VAULT_LOADS_FROM[TargetOf(t)]
  BY LoadsAreDeclared
<1>4. CASE origins' = origins
  BY <1>4 DEF RadiusInv
<1>5. CASE origins' = [origins EXCEPT ![TargetOf(t)] = @ \cup {<<JobSource[j], "direct">>}]
  <2>1. DOMAIN origins' = Table
    BY <1>5 DEF RadiusInv
  <2>2. \A u \in Table : u # TargetOf(t) => origins'[u] = origins[u]
    BY <1>5 DEF RadiusInv
  <2>3. origins'[TargetOf(t)] = origins[TargetOf(t)] \cup {<<JobSource[j], "direct">>}
    BY <1>2, <1>5 DEF RadiusInv
  <2>4. \A u \in VaultTable : \A o \in origins'[u] : o[1] \in VAULT_LOADS_FROM[u]
    BY <1>2, <1>3, <2>2, <2>3 DEF RadiusInv, Table
  <2>5. \A u \in GoldTable : \A o \in origins'[u] : Told(u, o)
    BY <1>2, <2>2 DEF RadiusInv, Table
  <2> QED
    BY <2>1, <2>4, <2>5 DEF RadiusInv
<1> QED
  BY <1>1, <1>4, <1>5

\* Where a table comes from owes to the radius of the table built what the
\* declarations promise: a vault table the spec names, a table of the direct
\* leg, or the dimension the fact names.
LEMMA ComesTold ==
  ASSUME RadiusInv, NEW t \in GoldTable, NEW s, NEW o \in ComesFrom(s),
         \/ s \in VaultTable /\ s \in SpecSources[t]
         \/ s \in DOMAIN DIRECT_TO_GOLD /\ t \in DIRECT_TO_GOLD[s]
         \/ s = "dim_company" /\ t = "fact_payment"
  PROVE  Told(t, o)
<1>1. CASE s \in VaultTable /\ s \in SpecSources[t]
  <2>1. s \notin Bronze
    BY <1>1 DEF Bronze, VaultTable, CnpjDomain, MerchantDomain, PaymentsDomain
  <2>2. PICK p \in origins[s] : o = <<p[1], "vault">>
    BY <1>1, <2>1 DEF ComesFrom
  <2>3. p[1] \in VAULT_LOADS_FROM[s] /\ o[1] = p[1] /\ o[2] # "direct"
    BY <1>1, <2>2 DEF RadiusInv
  <2>4. o[1] \in Bronze
    BY <1>1, <2>3, ImportGuards DEF VaultDeclarationIsTotal
  <2>5. s \in VaultReached(o[1])
    BY <1>1, <2>3 DEF VaultReached
  <2>6. t \in {u \in GoldTable : SpecSources[u] \cap VaultReached(o[1]) # {}} \cup Direct(o[1])
    BY <1>1, <2>5
  <2>7. t \in GoldReached(VaultReached(o[1]), Direct(o[1]))
    BY <2>6, ClosureIs DEF GoldReached
  <2> QED
    BY <2>3, <2>4, <2>7 DEF Told
<1>2. CASE s \in DOMAIN DIRECT_TO_GOLD /\ t \in DIRECT_TO_GOLD[s]
  <2>1. s \in Bronze
    BY <1>2, ImportGuards DEF DirectDeclarationNamesRegistered
  <2>2. o = <<s, "direct">> /\ o[1] = s
    BY <2>1 DEF ComesFrom
  <2>3. t \in Direct(s)
    BY <1>2 DEF Direct
  <2>4. \A V : t \in {u \in GoldTable : SpecSources[u] \cap V # {}} \cup Direct(s)
    BY <2>3
  <2>5. \A V : t \in GoldReached(V, Direct(s))
    BY <2>4, ClosureIs DEF GoldReached
  <2> QED
    BY <2>1, <2>2, <2>5 DEF Told, DirectLeg
<1>3. CASE s = "dim_company" /\ t = "fact_payment"
  <2>1. s \in GoldTable /\ s \notin Bronze /\ s \notin VaultTable
    BY <1>3, GoldIsNotVault DEF GoldTable, SpecSources, Bronze
  <2>2. o \in origins[s] /\ Told(s, o)
    BY <2>1 DEF ComesFrom, RadiusInv
  <2>3. \A V, D : s \in GoldReached(V, D) => t \in GoldReached(V, D)
    BY <1>3, ClosureIs DEF GoldReached
  <2> QED
    BY <2>2, <2>3 DEF Told, DirectLeg
<1> QED
  BY <1>1, <1>2, <1>3

LEMMA BuildsTold ==
  ASSUME RadiusInv, NEW j, NEW t \in GoldTable, NEW months, NEW reads,
         Builds(j, t, months, reads),
         \A s \in reads : \/ s \in VaultTable /\ s \in SpecSources[t]
                          \/ s \in DOMAIN DIRECT_TO_GOLD /\ t \in DIRECT_TO_GOLD[s]
                          \/ s = "dim_company" /\ t = "fact_payment"
  PROVE  RadiusInv'
<1>1. origins' = [origins EXCEPT ![t] = @ \cup UNION {ComesFrom(s) : s \in reads}]
  BY DEF Builds
<1>2. t \in Table /\ t \notin VaultTable
  BY GoldIsNotVault DEF Table
<1>3. /\ DOMAIN origins' = Table
      /\ origins'[t] = origins[t] \cup UNION {ComesFrom(s) : s \in reads}
      /\ \A u \in Table : u # t => origins'[u] = origins[u]
  BY <1>1, <1>2 DEF RadiusInv
<1>4. ASSUME NEW o \in origins'[t] PROVE Told(t, o)
  <2>1. CASE o \in origins[t]
    BY <2>1 DEF RadiusInv
  <2>2. CASE o \in UNION {ComesFrom(s) : s \in reads}
    <3>1. PICK s \in reads : o \in ComesFrom(s)
      BY <2>2
    <3> QED
      BY <3>1, ComesTold
  <2> QED
    BY <1>3, <2>1, <2>2
<1>5. \A u \in VaultTable : \A o \in origins'[u] : o[1] \in VAULT_LOADS_FROM[u]
  BY <1>2, <1>3 DEF RadiusInv, Table
<1>6. \A u \in GoldTable : \A o \in origins'[u] : Told(u, o)
  BY <1>3, <1>4 DEF RadiusInv, Table
<1> QED
  BY <1>3, <1>5, <1>6 DEF RadiusInv

LEMMA StepTold ==
  ASSUME RadiusInv, NEW j \in Jobs, Step(j)
  PROVE  RadiusInv'
<1>1. CASE UNCHANGED origins
  BY <1>1 DEF RadiusInv
<1>2. CASE AssertRevision(j) \/ End(j)
  BY <1>1, <1>2 DEF AssertRevision, End
<1>3. CASE LoadPartnerLink(j)
  BY <1>3, AppendsTold DEF LoadPartnerLink, Load
<1>4. CASE BuildDimension(j)
  <2>1. "dim_company" \in GoldTable /\ {"hub_empresa", "sat_empresa_dados"} \subseteq VaultTable
        /\ {"hub_empresa", "sat_empresa_dados"} \subseteq SpecSources["dim_company"]
    BY DEF GoldTable, SpecSources, VaultTable, CnpjDomain
  <2> QED
    BY <1>4, <2>1, BuildsTold DEF BuildDimension
<1>5. CASE BuildPit(j)
  <2>1. "pit_estabelecimento" \in GoldTable /\ SpecSources["pit_estabelecimento"] \subseteq VaultTable
    BY DEF GoldTable, SpecSources, VaultTable, CnpjDomain
  <2> QED
    BY <1>5, <2>1, BuildsTold DEF BuildPit
<1>6. CASE BuildFact(j)
  <2>1. "fact_payment" \in GoldTable /\ {"payments", "ptax"} \subseteq DOMAIN DIRECT_TO_GOLD
        /\ \A s \in {"payments", "ptax"} : "fact_payment" \in DIRECT_TO_GOLD[s]
    BY DEF GoldTable, SpecSources, DIRECT_TO_GOLD
  <2> QED
    BY <1>6, <2>1, BuildsTold DEF BuildFact
<1>7. ASSUME NEW t \in DOMAIN Dag[j],
             \/ LoadHub(j, t) \/ LoadSatellite(j, t) \/ LoadReference(j, t) \/ LoadLink(j, t)
             \/ LoadEffectivity(j, t)
      PROVE  RadiusInv'
  BY <1>7, AppendsTold DEF LoadHub, LoadSatellite, LoadReference, LoadLink, LoadEffectivity, Load
<1>8. ASSUME NEW t \in DOMAIN Dag[j], BuildConformed(j, t)
      PROVE  RadiusInv'
  <2>1. CASE t = "dim_date" /\ Builds(j, t, delivered["payments"] \cup rows["sat_empresa_dados"],
                                     {"payments", "sat_empresa_dados"})
    <3>1. /\ "dim_date" \in GoldTable /\ "sat_empresa_dados" \in VaultTable
          /\ "sat_empresa_dados" \in SpecSources["dim_date"]
          /\ "payments" \in DOMAIN DIRECT_TO_GOLD /\ "dim_date" \in DIRECT_TO_GOLD["payments"]
      BY DEF GoldTable, SpecSources, VaultTable, CnpjDomain, DIRECT_TO_GOLD
    <3> QED
      BY <2>1, <3>1, BuildsTold
  <2>2. CASE t \in GOLD_WITHOUT_A_BRONZE_SOURCE /\ Builds(j, t, Months, {})
    <3>1. t \in GoldTable
      BY <2>2 DEF GOLD_WITHOUT_A_BRONZE_SOURCE, GoldTable, SpecSources
    <3> QED
      BY <2>2, <3>1, BuildsTold
  <2> QED
    BY <1>8, <2>1, <2>2 DEF BuildConformed
<1>9. ASSUME NEW t \in DOMAIN Dag[j], Fail(j, t) PROVE RadiusInv'
  BY <1>1, <1>9 DEF Fail
<1> QED
  BY <1>2, <1>3, <1>4, <1>5, <1>6, <1>7, <1>8, <1>9 DEF Step

\* Whatever a bronze table delivers stays within the radius declared for it, and
\* reaches gold by the way the note names, whichever jobs run over whichever
\* windows, fail, and are run again, and even if a month is promoted under a run
\* that reads its table (triage_agent/blast_radius.py: blast_radius).
THEOREM Radius == Spec => []RadiusIsTold
<1>1. Init => RadiusInv
  BY DEF Init, RadiusInv, Table
<1>2. RadiusInv /\ [Next]_vars => RadiusInv'
  <2> SUFFICES ASSUME RadiusInv, [Next]_vars PROVE RadiusInv'
    OBVIOUS
  <2>1. CASE UNCHANGED origins
    BY <2>1 DEF RadiusInv
  <2>2. CASE DropDimension
    <3>1. origins' = [origins EXCEPT !["dim_company"] = {}]
      BY <2>2 DEF DropDimension
    <3>2. DOMAIN origins' = Table /\ \A u \in Table : origins'[u] \in {origins[u], {}}
      BY <3>1 DEF RadiusInv
    <3>3. \A u \in Table : \A o \in origins'[u] : o \in origins[u]
      BY <3>2
    <3> QED
      BY <3>2, <3>3 DEF RadiusInv, Table
  <2> QED
    BY <2>1, <2>2, StepTold DEF Next, Deliver, Launch, vars
<1> QED
  BY <1>1, <1>2, ToldIsWithin, PTL DEF Spec

=============================================================================
