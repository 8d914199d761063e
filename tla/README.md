# Open Payments Lakehouse: models, checks and proofs

The lakehouse takes monthly CNPJ open data, a merchant snapshot, PTAX quotes
and a stream of simulated payments from files on a Databricks Volume through
bronze, a Data Vault and a gold star schema. Nothing in it is a long-running
service. What makes it hard is that every step is a *task* of a *job* that may
die anywhere, that is re-run only by an operator (`max_retries: 0` on every
task), that appends to tables no transaction spans, and that decides what to do
from what it finds there. This directory holds TLA+ models of that: what a task
does, what may happen between two tasks, and what the tables are then supposed
to say.

Paths below are relative to the repository. `opl/` stands for `src/opl/`, `jobs/` for
`databricks/resources/`, `tasks/` for `databricks/src/`.

## 1. Inventory

| Component | State it keeps | Operations | What makes it correct | Modelled |
|---|---|---|---|---|
| Extraction from the WebDAV share (`opl/extraction/webdav.py`, `landing.py`, `scripts/extract_*.py`) | partial files on the host, objects on the Volume | list, download, resume, restart, unzip, upload, verify, clean up | bytes are in their place; what is at rest is whole; a run ends and its exit code is true | `Extraction` |
| PTAX (`ptax_source.py`, `tasks/fetch_ptax.py`) and generated landing (`opl/bronze/generated_landing.py`) | a staged file, a landed file | fetch a window a day at a time; write aside, refuse a different file, rename | one file a path, whole, and reproducible until the source revises | `ApiLanding` |
| Merchant registry (`scripts/seed_merchant_db.py`, `extract_merchant_snapshot.py`, `postgres_source.py`) | a PostgreSQL table, a readiness file, snapshots on the Volume | seed, mutate in two sessions, read six statements in one snapshot | a snapshot is one moment; an incremental run misses only what it cannot see | `MerchantSnapshot` |
| Bronze flow: unzip, ingest (`opl/bronze/unzip_volume.py`, `autoloader.py`) | zips and inner files on the Volume, Auto Loader checkpoint, staging table | unzip what is not landed; availableNow microbatches, each a Delta commit and a checkpoint advance | each file is staged by one batch, once, over partial failures and files that reappear | `BronzeFlow` |
| Bronze flow: gate (`dq.py`, `tasks/dq_gate_batch.py`, `fail_on_dq.py`) | quarantine table, task value `bad_row_count` | split a batch by the rules, append the rejects once, publish the count, stop the flow | no reject reaches bronze through the flow; each reject is counted once | `BronzeFlow` |
| DQ rules (`rules.py`, `rule_predicates.py`, `rule_overlap.py`) | none | three-valued predicates over a row; first reason; overlap | what is promoted is what no rule objects to, over NULLs too | `DqRules` |
| Bronze flow: promote (`promote.py`, `tasks/promote_batch.py`) | bronze table and its constraint | plan from three counts, append, assert the constraint; in the flow, or from the repromote job | exactly once per batch over repairs, repromotes and redeploys | `BronzeFlow` |
| Bronze flow: reconcile and reclaim (`reconcile.py`, `retention.py`) | none of their own | verdict per batch; delete landed files proven accounted for | nothing is deleted that is not in bronze or quarantine; a green run is reconciled | `BronzeFlow` |
| PII masks and snapshot backfill (`masking.py`, `tasks/ensure_masked_table.py`, `backfill_masks.py`, `scripts/backfill_snapshot_columns.py`) | function, tables, masks, constraint | create in order beside the writers; overwrite, restore, verify | no table holds names unmasked unless a replace took the mask | `Masking` |
| PII grants (`pii_governance.py`, `tasks/apply_pii_governance.py`) | catalog grants and tags | tag, look, revoke, grant, look again | the roster reads, nobody else; a success says so truly | `Grants` |
| Producer (`producer.py`) | local queue, delivery ledger | produce, poll, drain, flush, refuse an incomplete delivery | what is reported published is on the topic | `Producer` |
| Event time (`ingest.py`, `watermarked_dedup.py`, `lateness.py`) | de-duplication state, watermark, two arms | derive two delays, read twice, compare with the prediction | late is dropped, nothing else; the measure is what was predicted | `EventTime`, `Delivery` |
| Exactly-once sink (`opl/streaming/exactly_once.py`) | checkpoint (offset and commit log), Delta table with `txnAppId`/`txnVersion`, ledger of batches | a foreachBatch body in two arms; a proof that kills each arm in a batch and restarts it | the guarded arm lands each record once; evidence is never of a run that did not finish | `ExactlyOnce` |
| Payments generator (`opl/generator/`) | none beyond a file | declare, guard, draw, deliver late and twice, predict | published numbers are what the file shows | `Generator`, `Delivery` |
| Vault (`opl/vault/`) | hub, link, satellite and effectivity tables, all insert-only | anti-join loads; change detection; departures from the observation ledger | satellites reconstruct the source's history and reference only what is loaded | `Vault` |
| Vault and gold jobs (`jobs/vault_*.yml`, `jobs/gold_*.yml`) | task states of a run | tasks in dependency order, windows, partial failure, relaunch | references stay whole; rows stay inside the declared reach | `Pipeline` |
| Gold dimension (`opl/gold/dimensions.py`) | versions of `dim_company`, each with its interval | declare the window, derive, refuse an outgrown target, append once, count | one version of a company in force at any instant; an accepted table is the whole source; keys outlive a rebuild | `Dimension` |
| Gold facts, FX, calendar (`facts.py`, `fact_guards.py`, `fx.py`, `conformed.py`) | rows of `fact_payment` and `dim_date` | resolve counterparties and rate as of the payment's instant, append what is missing, count | one row per payment; it carries the version and rate of its instant | `Star` |
| Gold point-in-time table (`pit.py`) | one row per key and snapshot date | grid, fill forward, append layers | a pointer is the latest version of its satellite at its date | `Pit` |
| Registries and specs of bronze, vault and gold | declarations | import guards, loader refusals | what is imported can be loaded: no column twice, keys agree, names kept apart | `BronzeCatalogue`, `VaultCatalogue`, `GoldCatalogue`, `Catalogue` |
| Task telemetry view (`dataops_task_telemetry`) | the platform's hour-sliced timeline, job names | fold slices into task runs | a repaired run is one run | `Telemetry` |
| Triage agent (`opl/triage_agent/`, `tasks/triage_dq_incident.py`, `open_triage_issue.py`) | facts file, issues | four statements at four moments, grade, hold, post | what is published is one reading, under the wheel that posts it | `Triage`; blast radius in `Pipeline` |
| Cadence and freshness views, migration of lookups, the control experiment with a language model, probes, ADR index, CI | none anything here reads back | | | no, see section 6 |

`PROJECT.json` lists every component with its files and what is left out of
it, and every hazard with its line and the properties that cover it.

How components interact: through tables and files only. The bronze flow's
tasks pass one value (`bad_row_count`) and a batch id (the job's run id). The
vault reads bronze *and quarantine* of a month, and so sees a month between its
gate and its promote. Gold reads the vault. The triage reads the platform's record of the
bronze jobs. Operators start jobs, repair them,
redeploy the wheel, and follow the remedies the refusals print; administrators change grants;
they are actors of the models, because half of the code exists for what they do.

Hard behaviours: a task dying between two effects; a repair under the same run id; two jobs
on one table; a redeploy that changes the rules between two tasks; months
loaded twice, in overlapping windows, out of order, or before they are promoted; a batch
replayed after a crash; a resume over a file that was replaced; several statements that
should be one observation; remedies that do not combine.

## 2. The modules

| Module | Models | Composed with |
|---|---|---|
| `RowLedger` | what the bronze flow promises of each record: unread, staged, then bronze or quarantine | |
| `BronzeFlow` | one table and month: unzip, ingest, gate, condition task, promote, DDL, reclaim, the repromote job, operators, redeploys | refines `RowLedger` (checked and proved) |
| `DqRules` | the rule sets the gate applies | `MCIntake` |
| `DeliverOnce` | what an exactly-once sink promises | |
| `ExactlyOnce` | `prove_arm`, `run_arm`, the batch body, the fault, the refusals, the engine's logs and Delta's version guard | refines `DeliverOnce` (checked and proved) |
| `Producer`, `Delivery`, `EventTime` | publish a corpus; what a corpus is; read it in two arms and compare | `EventTime` EXTENDS the other two |
| `Generator` | profiles, their guards, draws and predictions | `MCIntake` |
| `Extraction`, `ApiLanding`, `MerchantSnapshot` | the three ways bytes reach the landing Volume | `MCLanding` |
| `Masking`, `Grants` | the control over personal names | `MCGovernance` |
| `Vault` | one vault job: four loads, task order, failures, repairs, launches over any window | |
| `Dimension`, `Star`, `Pit` | `dim_company`; the calendar, FX and `fact_payment`; point-in-time | `Star` EXTENDS `Dimension` |
| `Pipeline` | all vault and gold jobs at once, a task one step, and the blast radius | |
| `VaultCatalogue`, `BronzeCatalogue`, `GoldCatalogue`, `Catalogue` | what may be declared and what the import accepts | `Catalogue` EXTENDS all |
| `Telemetry`, `Triage` | the record of task runs; a triage over it | `Triage` EXTENDS `Telemetry` |
| `BronzeFlowProofs` | theorems about `BronzeFlow`, its refinement of `RowLedger`, and `DqRules` | |
| `StreamingProofs` | theorems about `ExactlyOnce` (and its refinement of `DeliverOnce`), `Producer`, `EventTime`; about `Delivery` and `Generator` | |
| `LandingProofs` | theorems about `Extraction`, `ApiLanding`, `MerchantSnapshot` | |
| `GovernanceProofs` | theorems about `Masking`, `Grants`; about `Catalogue` | |
| `VaultProofs`, `GoldProofs` | theorems about `Vault`; about `Dimension`, `Star`, `Pit` | |
| `PipelineProofs`, `TriageProofs` | theorems about `Pipeline`; about `Telemetry` and `Triage` | |
| `MC*` | instances for TLC | |

Systems that share no table are checked by one run whose initial state chooses
between them (`MCStreaming`, `MCLanding`, `MCGovernance`, `MCGold`, `MCIntake`):
the product of two such systems would add states and no behaviour.

Operators written to be *wrong* (`CheckStopsOnAllBad`,
`ChangedFromAllEarlier`, ...)
stand beside the definition they could be confused with and say what is wrong with
them in a comment. No specification uses them: each is a plausible bug, and
each property is known to fail when one of them replaces the original. They
are listed as `mutants` in `PROJECT.json`.

### 2.1 BronzeFlow

| State | Code |
|---|---|
| `zips`, `landed` | the month's zips and inner files in the Volume's landing directory |
| `seen` | the Auto Loader checkpoint |
| `staging[b]` | files whose rows the staging table holds under `_batch_id = b` |
| `quarantine`, `bronze` | copies of records, each with its batch; a second copy is a record appended twice |
| `deployed`, `plan` | the wheel's rules; the rules a planned append will use, because a task process loads the wheel once |
| `task`, `active`, `repromoting`, `published` | job control; `bad_row_count` |

Tasks are one action per effect that survives a crash: `promote` is three
(`PlanPromote`, `AppendToBronze`, `AssertConstraints`) because it reads,
commits and runs DDL, and another job may act in between; `Gate` is one commit followed by
publishing, with `GateDiesAfterAppend` the death in the middle. `Repair` restarts a
failed run at the failed task and `RerunGate` at the gate, under the same batch.
Records are grouped by file because staging, reclaim and the checkpoint are at
file grain and the counts are at record grain.

Left out: which rule rejects a record (a build is the set of records it accepts; `DqRules` has the rules);
audit columns and schema inference; scoping of paths by month (one month is modelled);
`assert_deployed_revision`'s refusal (a run it stops does nothing: a stuttering
step); paths that differ between jobs; two promotes of one batch at once,
which `promote_batch.py` leaves to the operator (the `Busy` guards). Auto Loader and
Delta are external: a microbatch commits its rows and its checkpoint together.

### 2.2 ExactlyOnce

| State | Code |
|---|---|
| `ends`, `committed` | offset log and commit log of an arm's checkpoint |
| `txn`, `copies` | the highest `txnVersion` of the table's log; rows of each record |
| `arm`, `run`, `at` | the arm, the faulted run or its replay, the step within a batch |
| `ledger`, `killed`, `evidence` | `BatchLedger`, the invocation the fault struck, what `prove_arm` returned |

A run takes batch after batch: log the end offset, hand the batch to the body
(ledger, write, fault), commit. A batch that was logged and not committed is
run again over the same offsets. `Fails` is any failure that is not the
injected fault, at any step. The topic grows meanwhile. `prove_arm` may be
called again and again on the same checkpoints.

Left out: a checkpoint or table deleted between runs; more than one partition
(offsets of one partition are all the guard depends on).

### 2.3 Producer, Delivery, EventTime

| State | Code |
|---|---|
| `corpus`, `feed` | the records in memory; the records of the topic's one partition |
| `queue`, `reports`, `offered`, `polls` | librdkafka's local queue, delivery callbacks not served yet, progress of `publish_records` |
| `delivered`, `failures`, `published` | `_DeliveryLedger`, the count a publish returned |
| `boundary`, `limit` | the `LatenessBoundary` and the rate limit, which are passed apart and need not agree |
| `landed`, `state`, `cuts` | per arm: its sink, the identities the de-duplication holds, the end offsets of its batches |
| `reading`, `proven` | `IngestedStream` as the progress ring reports it; the evidence |

A full queue, a rejected record and a flush that times out are each an action,
and a publish that raised leaves on the topic what was delivered. The engine is
external and taken as the code measures it: a batch is filtered against the
watermark of two batches before, and a row exactly on the watermark goes either
way (`inclusive` is chosen once and never constrained). `recentProgress` is a
ring of `Cap` entries in which the batch that only evicts counts too.

Left out: decoding of a message; the managed broker's credentials and
configuration.

### 2.4 Vault

| State | Code |
|---|---|
| `file`, `phase` | what a month was published as, and how far bronze is with it: after its gate its rejects are in quarantine, after its promote its accepted rows are in bronze |
| `hub`, `link`, `sat`, `eff` | rows of the four tables; `value` is the `hash_diff`, or `is_active` |
| `satMonths`, `effWindows` | months and windows covered so far |
| `loads`, `window`, `done` | launches, the `months` parameter, tasks that succeeded |

`State` is the observation ledger's five states over the window it is asked
about; `Changed` is `changed_rows`: persisted (key, month) pairs are dropped, and
what remains is appended if its value differs from the row before it, persisted
or in the batch. A task may commit and still fail (`Task`), and may be repaired
or abandoned by the next launch.

Operators may keep three orders, which the constant `Orders` names:
`promote_first` (a month a run covers has been promoted, or not published),
`in_order` (months are loaded in their order), `to_newest` (a window not loaded
before goes on to the newest month covered: the recorded runs pass every month
there is, `months=2026-06+2026-07`). Nothing in the code enforces any of them. Each theorem below names those it needs;
section 4 shows what is lost without.

Left out: reference tables, partner links and transactional satellites; the
second hub of a link; a month republished after it was loaded (the loader keeps the first
value and says so); two runs of one load at once (documented as the
operator's responsibility); the entry date and record source of a close, which
come from the same row as `last_observed_on`.

### 2.5 Gold: Dimension, Star, Pit

| State | Code |
|---|---|
| `hub`, `satellite` | keys of the company hub, versions (key, `applied_date`) of its satellite; other jobs append to both at any time |
| `dim`, `dimBuild`, `dimVerdict` | rows of `dim_company`, the frames a build holds, how the last one ended |
| `payments`, `quotes`, `calendar` | rows of `bronze_payments` and `bronze_ptax`, days of `dim_date` |
| `fact`, `factBuild`, `factVerdict` | rows of `fact_payment`, a build's derived rows and identities, how the last one ended |
| `meant` | history: the keys a fact build resolved to, with what each named then |
| `keys`, `observed` | the establishment hub, the versions of each of its satellites |
| `pit`, `pitBuild`, `pitVerdict` | rows of the table, the dates a build measured, how the last one ended |
| `revised` | history: a satellite gained a row under a layer that no build could refuse to keep |

A build is three actions: what is read and refused before anything is written;
the append, which is one commit; and the counts, which read the table again and
compare it with sources that may have moved on. It may die between any two.
`DimensionRead` and `FactRead` pin the frames (each is one DataFrame over one
Delta version); `DimensionVerify` counts the satellite as it is by then.
`PitRead` measures only the dates: `PitWrite` reads the rows afresh, and the two
may disagree. Some refusals name a repair, which is to drop the table and build
again (`DropDimension`, `DropPit`).

`DropDimension` is enabled while a fact holds keys into the table it drops.
That is the interesting case, and what `FactKeysSurviveRebuilds` is about.

Left out: `xxhash64` collisions (a surrogate key is the pair it is taken
over); unreadable instants and amounts, which stop a build before it writes;
amounts, so the product of a rate and an amount; currencies PTAX is not landed
for; a calendar build that dies (its append is its only effect); two builds of
one table at once, which the docstrings leave to the operator; the dimension's
payload columns (`attributes` is the version they are copied from).

### 2.6 Extraction, ApiLanding, MerchantSnapshot

| State | Code |
|---|---|
| `share`, `disk`, `volume` | the versions the share serves, the files on the host, the objects on the Volume |
| `listing`, `sized` | what the directory listing showed, and whether it gave sizes |
| `file`, `at`, `resumes`, `restarts` | the position of `download` and `upload` in a file and their counters |
| `put`, `littered`, `failed`, `rc` | files this run sent; files whose failed upload was never cleaned up; the exit code |
| `series`, `fetcher[f]`, `stagedFile`, `landedFile`, `bronzeFile` | the bank's answer for a day, a running fetch, `<tmp>/<pid>-<name>`, the landed file, what Auto Loader read |
| `clock`, `table`, `created`, `pending`, `t1`, `ready` | the registry, its incarnation, the held-open rows and their stamp, the readiness file |
| `extract`, `landed` | the extractor's six statements, the snapshots on the Volume |

A file is the sequence of the *versions* its bytes are of, so a resume over a
replaced file shows as a mixture and a byte appended at the wrong place as
`Misplaced`; sizes are in the listing and in a response, contents are not.
PostgreSQL keeps what it documents: a `REPEATABLE READ` transaction sees what
was committed at its first statement, `now()` is when the writer began, and a
name is resolved when a statement runs.

### 2.7 Masking, Grants

| State | Code |
|---|---|
| `rows`, `columns`, `masks`, `asserted`, `function` | the three tables of one contract, their columns, masks and constraint; the mask function |
| `job`, `backfill` | a run of the ingestion or repromote job; a backfill, statement by statement |
| `bare` | history: tables a backfill replaced and nobody fully masked since |
| `grants`, `tagged`, `run`, `admin` | the catalog's grants and tags, the task's position, administrators' statements |

An overwrite may be planned as a replace of the table, which drops masks and
`NOT NULL`; which happens is nondeterministic, as the code says it is. No
principal that runs a job is in the readers' group, so a job reads masked values.

### 2.8 Telemetry, Triage

| State | Code |
|---|---|
| `timeline`, `names` | `system.lakeflow.job_task_run_timeline` in hour slices; the names a job had |
| `gate`, `running`, `tries`, `staged`, `promoted`, `quarantine` | the bronze runs and what they leave |
| `removed`, `aged` | history: batches whose rejects were removed (truncated, re-created, deleted, aged out), periods aged out of the record |
| `triage`, `facts`, `posted` | the run and the payload it assembles, the facts file, the issues |
| `holds`, `manifest` | `HOLDS` and the downstream manifest of the wheel, which change between drafting and posting |

Rows of the feed, severity, census and history are read at four moments, and
job runs, repairs, promotes and losses go on in between.

### 2.9 Pipeline

| State | Code |
|---|---|
| `delivered[b]` | months promoted to bronze table `b` |
| `rows[t]`, `origins[t]` | months whose keys table `t` holds; the bronze tables its rows come from and the way they came |
| `window[j]`, `task[j]` | the `months` a run of job `j` was launched with; its task states |
| `plan`, `launches` | the jobs an operator works with |

A task is one step here and several in `Vault`, `Dimension`, `Star` and `Pit`:
the module is about what the *order* of tasks and jobs gives. `MidRun` says whether
a month may be promoted to a table while a run reads it.

### 2.10 Catalogue and intake

`Catalogue` starts from the declarations of today and makes up to `MaxEdits`
edits of one field each, from `Candidates`; importing then runs the guards in
the code's order and ends `imported` or `refused`. Its properties are stated
over what the loaders then write and read, in operators of their own, so that a
guard is measured against something it does not define. An optional field is a
set, `{}` being `None`. `FieldsOf` types the declarations by kind, as the
frozen dataclasses of the specs do; `NamesNobodyCompares` names the pairs of columns that
are written together and that no guard compares.

`DqRules` takes rows whose cells are good or flawed (null, blank, misfit, lost,
divergent) through every shape of rule; predicates are `"T"`, `"F"` or `"N"`.
`Generator` takes a profile through its guards, draws positions and values
arbitrarily where the code draws them from digests of a seed, delivers the
rows, and compares the file with the numbers published beforehand. `Delivery` is the file both it and the
event-time experiment read. The sort of `_delivery_order` is stated as what it leaves: a payment's `Place` is
how many come no later by the sort's key, and place by place the payments are read off (`DeliveryOrder`).

## 3. Runs

A run's property is often a conjunction of named parts that answer one question
together (`FactRowsStand == FactGrain /\ FactKeysSurviveRebuilds`); the parts
are defined beside it.

| Run | Question | Shows |
|---|---|---|
| `flow` | one build of the rules, crashes anywhere, repairs, gates re-run, repromotes, manual reconciliation; then crashes stop and operators follow the printed remedies | deletes only of accounted files; gate and promote split a batch by the rules, and green is reconciled; the flow implements `RowLedger`; every launched run settles; a stopped batch's accepted rows reach bronze |
| `deploy` | a second build with other rules at any time, every documented intervention | no record twice; whole files under one rule set; the inductive invariant holds |
| `deleted` | a statement of the bronze docs, over two builds | finding 1 |
| `streaming` | both arms killed, failing anywhere, proved again on the same checkpoints; and a corpus published over a full queue, a lost record and a timed-out flush, then read at both delays under either rate limit while the topic grows | the guarded table is exactly-once, the naive one shows the replay, evidence is of finished replays; what is reported published is on the topic; the measure is the predicted one |
| `vault` | two launches over any windows of three months, tasks dying and repaired, all orders kept | both satellites tell the history; no dangling row; re-runs append nothing |
| `gold` | either the star or the point-in-time table, while snapshots, payments and quotes land between any two steps of a build, builds die, are refused, and tables are dropped and rebuilt | one version in force at any instant; accepted tables are their source; facts keep their grain, and their keys what they named; a payment carries the version and rate of its instant; pointers are the latest a layer could hold |
| `landing` | a download over a share that replaces files, two fetches of an API whose answers are revised, an extraction between the sessions of a mutation; each killed anywhere and run again | no byte out of place; at rest a file is whole; a failed run deletes only what it sent; a landed file is replaced only unread; a snapshot is one moment and misses exactly what it cannot see; a run ends |
| `governance` | the masking statements, ingestion, promote and repromote beside a backfill, each killed anywhere; the grants task beside administrators | only a replace uncovers a table; names arrive whole in bronze; a backfill that says done has masked, asserted and stamped; nobody outside the roster reads after a success but by a later grant, and reads are withdrawn before they are given |
| `triage` | four statements per incident while runs are gated, repaired, renamed, promoted and their rejects removed; a facts file posted under another wheel | runs are counted once and prior ones are prior; evidence called removed was; an issue is the posting wheel's |
| `pipeline` | ten jobs over any windows of two months, four launches, two at once, any task dying, bronze delivered meanwhile | rows stay in the radius declared for their bronze table and reach gold by the way its note names; references stay whole |
| `catalogue` | any two edits of the registries | what is imported and loaded writes no column twice, reads keys that exist, gates on a ledger keyed as its table, and keeps names and directories apart |
| `intake` | every profile of a small alphabet, every draw; rules of four contracts over flawed rows | published numbers are the file's; the gate promotes exactly the sound rows; reasons and overlap explain each other |

Deadlock checking is off everywhere: jobs end, months run out, and a system no
operator touches rests.

### Bounds, and why they are enough

- Bronze: two files, two ingestion runs and their repromotes. A file has two records that
  a build judges differently, so a batch can be clean, mixed or all rejects, and
  a file can be accounted for in two tables. Two runs are what partial ingests, files that
  reappear and a repromote beside an ingestion need. Run ids bound launches;
  repairs, re-runs, redeploys and crashes are unbounded.
- Exactly-once: five offsets, two per batch, the second batch killed, three
  calls. A call can find no batch, a short batch or a batch left in doubt by the call before it,
  in either arm.
- Event time: six payments two instants apart, up to two of them late by nine, beside
  each other or apart, one delivered twice; a queue of one; batches of one or two;
  a progress ring of eight, which the longer runs overflow. Lateness spans several
  batches, so a margin off by one batch or one instant is seen.
  `MaxLeftover` = 0 keeps an earlier publish's remains off the topic: section 4, 7.
- Vault: three months, two launches, two relationships of one hub key, seven
  forms of a month (absent, rejected, either payload, beside a rejected sibling or with
  the other relationship). Longer histories are what the theorems are for.
- Gold, star: two companies, one missing from the first hub load; snapshots of
  days 2, 3 and 4 in any order, so that a later build meets a version before the
  first. Two instants a day, and payments on boundaries: at a midnight a version
  opens, at the instant a quote is published. A payment is redelivered in another
  file beside a legitimate repeat of it; one quote date is landed with two rates; a
  payment may precede every quote landed.
- Gold, point-in-time: two keys, the second late, two satellites, three
  snapshots of which two bring one satellite what the other lacks, in any order.
- Landing: a zip and a CSV of five bytes in all, one resume and one restart a download, two
  runs; two days, two fetches of them overlapping, two revisions; a clock of four instants, so that the
  held-open stamp, the later watermark and the release fall apart, two snapshots, two seedings.
- Governance: three months, four lines of which one has no name and one no month in its file; two governed
  tables, two principals of which one is on the roster, two statements of
  administrators between those of the task.
- Triage: two runs of one job, two reasons, five hours and two attempts of a
  task, so that a repaired run's slices straddle the other run; one loss of
  evidence, one revision of the wheel.
- Pipeline: two months, and jobs in six working sets chosen for sharing a table
  or a feed; the theorem covers all jobs together.
- Catalogue: two edits, because each guard sees one file and what it misses
  takes two. Intake: profiles over windows of three events, two counterparties, two
  amounts; rows with up to two flaws, because a flaw hides behind an empty column.

### Fairness

Safety is checked without any, with two exceptions. `flow` runs `FairSpec`, which has the behaviours of `Spec`
whose crashes are finitely many; since any finite behaviour of `Spec` extends to one of them,
its safety is `Spec`'s.

- `WF_vars(TaskEnds(j))`: a running task ends, because it is one process.
- `OperatorsAttend`: strong fairness of the three remedies the code prints or
  documents: repair a failed run that its gate did not stop, repromote a batch the view
  reports as stranded, delete a batch's bronze rows when a promote refused
  them. Nothing in the code re-runs a failed task; without
  operators there is no liveness to state. Strong, because another job's run
  disables a remedy for a while, again and again.
- `<>[][~FaultStep]_vars`: crashes, and re-runs no remedy asks for, are
  finitely many. With infinitely many no run need ever end.

`landing` assumes weak fairness of the extraction script's own step
(`RunsEnd`): it is one process, and every request and every sleep in it has a
timeout. Starting it is not fair: nobody has to.

## 4. Findings

One is a run; the rest are properties defined in the modules, false in what the
code does under the constants named here. They are not among the runs, which
keep to what holds.

1. `deleted`: `retention.py:50` says a file may go when every row it staged is
   accounted for. `RECLAIMABLE_SQL` compares counts; with rules changed in
   between, a record in both tables balances one in neither, and the file goes.
   The zip and the staging rows remain.
2. `RemedyResolvesStranding` (`BronzeFlow`): `reconcile.py:155` prints the repromote as "What resolves a
   stranding". For a batch stranded by a failed ingest whose files hold
   rejects, no gate ever runs, and the batch is as stranded afterwards.
3. `ClosesCarryTheirOpen` (`Vault`): a relationship that was only ever rejected is closed when it
   leaves, with NULL for the month it was last seen in; `effectivity.py:48`
   and `:383` say the closing row carries it.
4. `EffectivityTellsHistory` (`Vault`, four months, three launches, without
   `to_newest`): `effectivity.py:494` promises a row at every change
   including the return. Windows {1,2}, {3,4}, then {2,3}, with a relationship
   there in 2 and 4 and not in 3: the third load appends the departure, the
   return at 4 wrote no row because it was no change then, and is not in the
   window. The satellite says departed from 3 on.
5. `RebuiltCalendarHealsOrphans` (`Star`): `gold_load_fact.py:170` and `facts.py:642` say that
   re-running the conformed build repairs an orphaned date key. `covered_span`
   (`conformed.py:199`) spans the payments' days and the satellite's dates. A
   payment converted at a quote from before both has a rate date no rebuild
   appends. (`OrphansPrecedeTheCalendar`: this is the only such case.)
6. `EveryAcceptedPointerIsLatest` (`Pit`): `pit.py:376` calls a backfill below a held date "THE ONE
   CASE AN APPEND-ONLY PIT CANNOT DO", and refuses it. When a layer was built
   from one satellite and the other is loaded with the same date afterwards,
   no date is new, nothing is refused, and the stale pointer stays.
   (`AcceptedPointersAreLatest`: otherwise pointers are right.)
7. `EveryEvidenceIsTheLateArrivals` (`EventTime`, five payments, one late,
   `MaxLeftover` = 5): `prove_boundary` accepts a pair of arms by counts. After a publish that lost
   a record and raised, the same corpus is published again; the arms read the
   leftover and the corpus, the late arrival is early enough in the leftover,
   a punctual row is dropped in its place, and the counts agree.
8. `BronzeIsTheLandedFile` (`ApiLanding`): `generated_landing.py:268` says overlapping runs
   write identical bytes. That holds for derived files; PTAX lands an external
   series through it, and a revision between two fetches lets the second rename
   replace a file that bronze has read.
9. `NoPhantomDepartures` (`MerchantSnapshot`): the truncation refusal compares rows with a
   count "INSIDE the same transaction" (`postgres_source.py:392`). A re-seed that commits after the
   column query and before the row query makes both empty; without `--wait-for` the
   empty snapshot is landed, and every merchant departs.
10. `RerunIsIdempotent` (`Masking`): `backfill_snapshot_columns.py:531` prints that re-running is
    idempotent. On a masked bronze of one month the re-run reads `***` for every
    name, overwrites with it, and verifies. Today's table has two months and is
    refused before the write.
11. `NoHoldMeansNoHold` (`Triage`): `report.py:352` prints "No hold is declared for this batch";
    a facts file drafted before a hold and posted after it says so under a wheel
    that holds the batch.
12. `TruncationCannotAccount` (`Triage`): `report.py:154` says of a batch absent from a quarantine
    that holds others that "a recreated or truncated table cannot account for it". Truncated
    first and appended to by a later gate, it can.
13. `LinkAfterBothHubs` (`Pipeline`, `MidRun` = TRUE): `vault_estabelecimento_job.yml:127` says the
    task order leaves no link row without its hub row. Tasks read bronze when they start; a month promoted
    between a hub task and the link task is in the link and not in the hub.
14. `CalendarKeysAreItsOwn` (`Catalogue`): `gold/specs.py:134` refuses "a key column the loader
    writes itself". The calendar's attributes are not among the columns compared: a
    calendar keyed on `year` imports, and its projection names the column twice.

Read in the code beside these:

- `reconcile.py:42` calls `over_promoted` "Unreachable through the shipped
  flow". A loosened rule deployed between a gate and the batch's repromote
  reaches it, by the mechanism of finding 1.
- `loading.py:403` says a backfill out of order leaves a redundant row, "not
  wrong". When the later month had repeated the value it wrote no row, and the
  backfilled value is then reported for it: why `in_order` is a premise below.
- `facts.py`'s `_deduplicated` says a redelivery that conflicts always lowers
  the count of retained tuples. It does not when the dropped tuple is carried by
  another payment, or when only `event_time` differs.
- `pit.py`'s bound (rows of a layer against keys of the hub) misses a row of
  a key outside the hub when a key of the hub has no row at that layer.
- Names nothing compares at import: a hash key, or a link's reference to one, with the
  metadata columns (for an effectivity its own columns too, for a point-in-time table its pointers), a link's
  hash key with its child key, a dimension's payload with its hub's business key,
  vault names that differ by case only, a vault name with a bronze one.
- `seed_merchant_db.py --release-after` releases the held rows by a timer, and so may commit them
  before the first snapshot was taken.
- `scripts/open_triage_issue.py:116` opens an issue per call: a second posting of one
  facts file is a second issue.

## 5. What is proved

All theorems hold for every value of the constants that satisfies the modules'
`ASSUME`s, and are checked to the last leaf by TLAPS. The assumptions are about data
and come from the code:

- sets of files, records, columns, snapshots and lines are finite, files are disjoint, payloads and
  instants are numbers, bounds are naturals;
- `CorpusAssumption` is what `_delivery_order` and `delivered_records` leave of a corpus: in order of
  emission, then of event time, a payment emitted on time or late by the one delay, a redelivery equal
  to its original (`generator/defects.py`). `DeliveriesAreCorpora` proves it of everything `Delivery` delivers;
- `GeneratorAssumption`: a declared profile has the fields and types of its dataclasses, its counts and delays
  no less than zero (`require_whole`); which profiles are imported is a guard of the model, not an assumption;
- `StarAssumption`: a quote is never published before its day, which `quotes_in` refuses;
- `DqAssumption`: the shapes whose rule answers NULL of a NULL (`cnpj_basico` length, `cnpj`,
  snapshot instant) are declared on required columns only, as `rules_for` and `REQUIRED_FIELDS` do;
- `MaskingAssumption`: every month has a file token; `MerchantAssumption`: a merchant is of one class of mutation;
- `ImportGuards` of `Pipeline` are the guards `blast_radius.py` runs at import;
- `CatalogueAssumption`: what is declared, and what an edit may put in its place, has the fields and types of its
  dataclass; a slot with a ledger is a satellite's or an effectivity's, and a ledger is one grain or none; a domain
  lists tables there are; the bronze registry is finite. `SpellingAssumption`: the suffix of a pointer column
  (`specs.py:462`) tells two satellites apart as their names did and spells no stamp. It is an assumption because
  letters are below the model: strings are compared, never taken apart.

TLC evaluates each of them on the instance of its run.

**Bronze** (`BronzeFlowProofs`). `RecordsOnceInv` is inductive: no two jobs work on one batch; no two
batches stage one file, because the checkpoint consumes a file once; a promote
that is about to append has found nothing of its batch in bronze, and only its own
job can change that; and each table's records come from files no other batch
staged. From it: `PromotedOnce`, `QuarantinedOnce`, whatever is
deployed, repaired or deleted by hand. `WholeFiles`: what bronze holds of a
batch is whole files under one build's rules. `RejectsStayOut`, for one build:
nothing is in both tables. "No record twice" alone is not inductive: a second append
is excluded only by what the plan saw before it, and two batches only by what the checkpoint saw.

| Theorem | Needs | Argument |
|---|---|---|
| `DeletesAccounted` | one build | the reclaim compares counts; copies of a batch are in bijection with its records (`RecordsOnceInv`), so a count as large as the file's is all of its records (`AsManyIsAll`) |
| `SteadyFlow`, `BatchSplit` | `SteadyRules`: one build, bronze not dropped, staging not truncated | `SteadyInv`: what a table holds of a batch staging still holds; how far a run has got says what the two tables hold (`Gated`); a repromote past its promote has left its batch whole (`RepromoteDone`) |
| `OneTableAnswers` | `SteadyRules` | the flow implements `RowLedger`: an ingest is `Stage`, an append to bronze `Promote`, a gate's append `Reject`, an operator's delete `Withdraw`, everything else a stutter |

Without `SteadyRules` the last two are false, and the runs `flow` and `deploy` differ by it.

**DQ rules** (`BronzeFlowProofs`). The rules of a contract are a set, `Ruled`, whatever
their order (`RulesAre`), and they match a row exactly where they should, kind by
kind (`MatchingIs`): a predicate in SQL's three values answers TRUE of the flawed
cells (`CellAnswers`), a chain of ORs over all columns of a row with one such
cell (`ColumnAnswers`), and where a shape's rule answers NULL of a NULL the column is required, so another
rule answers. `PromotesTheSound` follows. `ExplainsTheReasons` counts: a reason is the least place among
the matches (`ReasonIs`), so the rows a reason is given to are among those its rule matches, and two
finite sets one in the other are equal when they are as many (`ReasonsAndRules`).

**Exactly-once** (`StreamingProofs`). The invariant is `LogsAndTablesAgree`
with types: at most one batch in doubt, Delta's version is that batch or the
one before it, and the guarded table is the offsets up to it, once. From it
`NothingLost`, `FinishedStream`, and `GuardedImplementsDeliverOnce`: every step of the
guarded arm is a `DeliverOnce` step or a stutter. `TablesAndLogs` and `OnceToTheEnd`
are the bundles the run checks. `ArmsTellApart` is about numbers: `EvidenceInv`
follows the killed batch (`KilledTold`: each of its rows is in the arm's table, and twice in
the naive one when it is handed over again), and a lemma on sums turns that into the counts evidence is made of.

**Publishing** (`StreamingProofs`). `CountsWhatIsThere`, by `PublishInv`: while nothing is lost, the topic beyond its base and the queue behind it are
the corpus so far offered, in order, and what has arrived is what was counted as delivered or waits to be reported (`OnItsWay`).

**Event time** (`StreamingProofs`). `MeasuresThePrediction` compares two arms that each read the
topic in batches, advance a watermark and drop what is behind it. `MeasureInv` follows an arm at any point of a
batch: an identity lands once, because one still held is refused and one let go is behind
the filter of every later batch, whose watermark only rises (`BehindRises`). In *any* split into batches the keeping
arm drops nothing and the dropping arm nothing punctual; that is all evidence needs
(`ExactlyTheLate`, by counting). The split the prediction was made for is needed only where *every* late record
must have been dropped (`PredictionIsMet`).

**Generator** (`StreamingProofs`). `FileAsDeclared`: for every profile, draw and choice of positions, the file has the numbers
its profile published. `ProfileInv` (TLC checked it on the instance of `intake` first) says that a profile past its import
is one the guards let through (`ProfileFits`), that the picks are of the declared sizes and places (`PicksFit`), that the base
events are pairwise apart and every other one repeats one (`EventsFit`: two events alike cannot both be bases, or the
count of distinct attributes would be short), and that rows exist only of picks that measured as picked (`RowsFit`).
What remains is about the file. Places are a permutation (`PlacesAre`: as many as come no later, by counting and
by `StepByStep`); records delivered once or twice keep that order, and are as many as the payments plus those doubled
(`SpreadAll`, along the recursive function under `FlattenSeq`). `Dispatch` bundles the two, and `DispatchHolds` is what a reader
may use: every record its payment's, every payment there, order kept, length told. From it come the counts (`FilePredicted`),
the late arrivals, which are the payments overtaken however often each is delivered (`LateArrivalsAre`,
`LatenessHolds`), and the one side of the vault's dates (`OneSide`, from the window's refusal at import).
`DeliveriesAreCorpora` uses the same lemmas for `CorpusAssumption`.

**Landing** (`LandingProofs`). Extraction: `InPlaceAlways`: a byte is only ever
appended at the length the response is proven to start at, so no answer of the
share puts one out of place. `SenderDeletes`: the cleanup after a failed upload is
reached only for a file this run has sent (`Sent`), and nothing else takes
an object away. `NoHalfAtRest`: an object
whose verification has not succeeded is either being verified, or being discarded, or
listed as littered; the invariant follows the object from the upload over
verification to its discard. `ZeroIsLanded` (`RunsHonestly`) joins them over the files of a run: behind
the one being worked on, each is landed or the run knows it failed.
PTAX and generated files (`ApiInv`): two fetchers of one edition of the bank's answer hold one payload,
and what is renamed was read back; so `QuotesReproduce` and, as a step, `ReplacesOnlyUnseen`.
Merchants (`MerchantInv`): the table is the seed with a prefix of the mutation's three
statements applied; what is landed is the table at the moment of its one read; `SnapshotsAreMoments` adds that the incremental
answer misses exactly what moves no stamp. `LandsWholeAndKeeps` is the bundle of the three.

**Masking and grants** (`GovernanceProofs`). `MaskingInv`: a table of the masked contract that has rows a
reader could open has its masks, or is `bare`: replaced by a backfill that has not restored them
(`ShieldedBeforeRows`); a line is in each table once; and the backfill knows of its table what its step has
checked, though others append to it meanwhile (`BackfillIsSound`). From it `Uncovers`, `ArriveWhole` (bronze receives the names
unmasked, since staging has no mask), `ReportsTheTruth`. `Governs`: the grant task opens a table only when every read it had
to withdraw, on every table, is withdrawn or was granted again meanwhile; and a
reader outside the roster after a success was granted after its
table was looked at. `GrantsInv` records that what the
run saw of a table it has looked at, with what administrators did since, accounts for every read there is,
and that what was revoked stays so but by a later grant.

**Vault** (`VaultProofs`). Two lemmas carry it. `ChangedTells`: after an
append, the table says what *every* candidate says, those it did not write
included (by the least candidate that it would not tell). `ToldAlready`: a
candidate the table tells, along with all earlier ones of its key, is not
written. Then:

| Theorem | Needs | Invariant |
|---|---|---|
| `TypeCorrect` | nothing | a task that runs has a launch |
| `NoRowDangles` | `promote_first` | while a run is going its months are not between gate and promote, so bronze stands still under it; a hub task that succeeded covers every relationship of the window |
| `ClosesDeparted` | `promote_first` | covered months are promoted for good, and every row says what its month shows |
| `SatelliteHistory`, `RowsAreChanges` | and `in_order` | a load writes no row of a covered month, and only after all of them |
| `EffectivityHistory` | `promote_first`, `to_newest` | what an earlier window stated and this one does not lies before every row this one writes |
| `RerunsAppendNothing` | all three | both of the above |
| `VersionsHistory`, `DeparturesHistory` | the orders of their parts | the bundles the run checks |

**Gold dimension** (`GoldProofs`). `OneVersionInForce` is about the derivation
alone: for any set of versions, any company in it and any instant, one row of
that company covers the instant. It rests on least and greatest elements of sets
of days and on midnights being monotone. The invariant `DimInv` says the table is
empty or was derived from *some* subsets of hub and satellite, which have only
grown since. From it `PartitionsTime`. `AcceptedIsTheSource` is a counting
argument (`CountTells`): a table derived from part of the satellite, with as many
rows as the satellite and one more, was derived from all of it, because keys are
distinct. `KeysSurviveRebuilds` (`MeantInv`) adds that what a key names does not
depend on what the table was derived from.

**Gold fact** (`GoldProofs`). `OneRowPerPayment`: each lookup has one
answer (`ResolvedOnce`, by the dimension's theorem; `ConvertedOnce`, because
publication orders reduced quotes totally; `DeduplicatedOnce`), so the rows derived
are one per identity. `GrainInv` carries that over an append to a table that
holds part of them, and shows that the count never has anything to refuse. `RowsStand` joins it with the dimension's keys.
`TellsThePayment` (`TellsInv`): every row held is of a delivered payment and at a quote that was published before it; two rows at one
quote day have one rate; no day of the calendar is outside the span of what it was built from.

**Point-in-time** (`GoldProofs`). `PitTells`, by `PitInv`: one row of a key and layer, of a key something was said of by then; and,
unless a satellite was revised, either every pointer is the latest `applied_date` at or before its layer or the next
build will refuse, because a layer came in below one already written (`WillRefuse`). The second half of that disjunction is what makes
it inductive: between the snapshot that arrives out of order and the refusal the pointers are wrong.

**Pipeline** (`PipelineProofs`). `References`, for any plan of jobs, windows and
overlaps of runs, when no month is promoted under a run that reads its table
(`~MidRun`). `PipelineInv`: a task that is done has loaded what its window has in bronze; a
satellite's or link's rows are among the rows of the tables it waits for;
an idle job has no task done. Without the premise a link outruns its hub (section 4, 13).
`Radius` needs no premise. `RadiusInv`: every origin of a vault table is declared in `VAULT_LOADS_FROM`, and every origin of a gold
table is told, over the path it came by (`Told`). The closure over gold is a recursive function of six steps; `ClosureIs` unrolls it.

**Triage** (`TriageProofs`). `TelemetryInv`: how far a batch's gate has got says which of its tasks ran and how often (`Gated`, `Attempted`),
each attempt began after the one before (`Clocked`), and a job had one name after the declared one at most (`Named`).
`CountsEachRunOnce` follows: an incident is one record, by whatever name, and its history the runs that began before.
`EvidenceInv` adds what the payloads of a triage say of a quarantine that is emptied and refilled between its four statements, with
a lemma that a breakdown with no reason missing sums to its grade: `TellsItsEvidence`. `PostsItsOwnWheel` is about the step that posts.

**Catalogue** (`GovernanceProofs`), for any declarations and any number of edits. `DraftTyped` says that an edit leaves every table
declared as its kind is; an accepted tree is one the guards let through, and nothing edits it again (`OnlyAnImportAccepts`, `Frozen`).
What is left is what the guards imply:
- `DeclarationsKeepApart`. A guard that counts folded names makes every place of a name its own (`DeltaNamesApart`: as many names
  as places, so the map is injective); keys, subdirs and landing modes that differ make paths that are not prefixes of each
  other (`InsideAgrees`).
- `DeclaredKeysAgree`. The ends of a link are read, cut and padded together (`EndReads`), so what the identifying ones
  contribute, flattened, lines up with the ledger's columns and prefixes (`LedgerOfALink`): the guard compares columns and
  cuts in two sequences, the property in one set of pairs.
- `NothingIsWrittenTwice`. The columns of each kind are lists joined (`JoinedLists`, `ThreeApart`); a fact's are the ones its
  guard compares only because its loader refuses other measures than it writes (`FactWritten`). The closed form of `FlattenSeq`
  is proved by first failing place (`FirstPlace`), the induction theorems being out of reach.

The proof of the last one failed at first, for a reason: a link's reference to a hub whose hash key is `load_date` is
written beside the stamp, and so is an effectivity's or a point-in-time table's copy of the key. No
guard compares these. The instance had no such candidate; `NamesNobodyCompares` now names them and the instance tries one.

**Only model-checked**: liveness (`EveryRunSettles`, `GatedBatchReachesBronze`, `RunsEnd`), which TLAPS does not
reach. Every other property of a passing run is stated by a theorem.

## 6. Not modelled

- Cadence and freshness views: read-only classifications of timestamps that
  nothing in the system reads back.
- The migration of the lookups (`scripts/migrate_lookups_to_subdir.py`): it moves files once, by hand.
- The control experiment with a language model (`triage_llm_control.py`): writes nothing.
- The assertion of the mask's predicate over sample rows and the script that
  rebuilds the reader principal: checks of the catalog by an administrator.
- Schema inference and audit columns: no property tells them apart.
- The spelling of a hash (a digest is the tuple it is taken of, so injective), and how a seed becomes a
  value (a draw is arbitrary). Collisions are outside both.
- Credentials and configuration of the managed broker; session settings.
- Retries inside one PTAX request: one nondeterministic answer.
- Reference, partner-link and transactional loads in detail: tasks of `Pipeline` that share the
  loaders' windows and refusals.
- A month republished after it was loaded: the loader keeps the first value and says so
  (`loading.py:356`). Two runs of one load at once (`hubs.py:109`), left to the operator.
- Two processes of one pid staging one file, on two hosts (`generated_landing.py`).
- Probes, ADR index, CI, tests: development tooling.
