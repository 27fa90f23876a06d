# NOC Orchestrator: specification and verification

TLA+ models of the state machines of NOC Orchestrator, the checks TLC makes on
small instances of them, and the theorems TLAPS proves for every instance. Paths
are relative to `src/lib/` of the repository unless they start with `docs/`.

1. The system
2. Modules and their correspondence to the code
3. Runs, bounds and what they show
4. Where the code and its documentation disagree
5. Proofs
6. What is only model-checked, and what is not modelled
7. Plan

## 1. The system

A Next.js application and a background worker share one PostgreSQL database
through Prisma (`docs/architecture.md`). Nothing is coordinated in memory: web
processes, the worker and its retries meet only in the database, mostly at READ
COMMITTED, with serializable transactions where a plan is created, a batch is
published or a bulk change is applied. Jobs are pg-boss jobs in the same database.
Most of what can go wrong is an order of statements of two handlers that nobody
wrote a test for: the tests run the stores one call at a time. The rest is wide
pure decisions (identity, rules, firmware) whose cases nobody enumerated.

| Component | State | Operations | Interacts with | Hard behaviour | What makes it correct | Module |
|---|---|---|---|---|---|---|
| Firmware work planning (`firmware-work-plan-store.ts`, `-planning.ts`) | plans, targets, events | preview, create, transition, amend | devices, policy, compatibility, exceptions | stale screens, several operators, clocks as versions | one active plan per device; no lost update; work keeps to the approved window; created from the previewed findings | `WorkPlan` |
| Live drift of plans (`firmware-work-plan-live.ts`) | what a plan froze | compare with now | policy, compatibility | everything may have changed | a plan reported fresh is safe | `FirmwareGovernance` |
| Inventory connections (`meraki-`, `auvik-`, `aruba-classic-integration-store.ts`) | source, encrypted secret | create, save, test, discover, rotate tokens | provider APIs | slow calls between a read and a write; single-use tokens | only tested credentials are enabled; the stored token is live | `InventoryConnection` |
| Synchronization (`*-inventory-sync.ts`, `inventory-sync-run-store.ts`) | runs | begin, fetch, stage, automate, publish, complete, fail | jobs, importer | manual sync, job, retry and expired job at once; crashes | one run and one worker; a success is a published batch; runs end | `InventorySync` |
| Background jobs (`jobs/*`, `inventory-sync-scheduling.ts`) | queue and schedule of a source | fire, deliver, retry, expire | synchronization | expiry under a live handler | a completed job did synchronize; jobs are settled | `InventorySync` |
| Ingestion and staging (`importer-v2-ingestion-store.ts`, `-evaluator.ts`, `-firmware.ts`) | staged rows | evaluate, stage | catalog, mappings | catalog and mappings change between uploads | a row staged VALID needs no look; its fields belong together | `ImportEvidence`, `ImportEvaluation` |
| Rules (`importer-v2-rule-*.ts`) | revisions of the rule book, mappings | guide, scope, manage, remember | workspace | two engineers rebase on one book | a rule is activated as it was shown; the latest mapping speaks | `RuleEngine`, `ImportRules` |
| Workspace and automation (`importer-v2-workspace-*.ts`) | rows, decisions | correct, match, verify in bulk, recheck | rules, publication | several writers of one row; five writes per correction | exclusions are not lost; statuses follow decisions | `StagedBatch` |
| Publication (`importer-v2-publication*.ts`) | attempts, keys | QA, select, publish | inventory | retries, two keys at once, stale QA | each row once and with the decisions of engineers shown; the history keeps its batch | `StagedBatch` |
| Identity, crosswalk, snapshots (`importer-v2-identity*.ts`, `-repeat-diff.ts`, `-publication-store.ts`) | crosswalk, snapshots, devices, catalog | stage, correct, decide, repair, publish | inventory | several providers, edits by hand, two implementations of publication | an identifier names one device; repeats are quiet; bulk is row by row | `ImportIdentity`, `ImportPublication` |
| Stack topology (`importer-v2-stack-*.ts`) | members of stacks | group, publish | identity | members move | as above | `ImportPublication`, in part |
| Customers, units, sites (`customer-`, `organization-unit-`, `site-store.ts`) | hierarchy | create, change, remove | devices | two moves at once | units form a forest | `InventoryHierarchy` |
| Devices, models, families, bulk maintenance, firmware repair | devices and models | edit, bulk change, repair, roll back | hierarchy, catalog | edits, reviewed changes and repairs cross | sites stay with their customer; changes are as reviewed | `InventoryDevices` |
| Firmware catalog (`firmware-release-store.ts`, `firmware-train-store.ts`) | releases, trains | edit | policy | a change of a train is five statements | one preferred train; proposals are usable | `FirmwareCatalog` |
| Firmware policy, compliance, compatibility, exceptions, lifecycle | policies, rules, overrides, exceptions, records | set, clear, save, override, except, decide | catalog, devices | previews outlive what they show; instants | recommendations are earned; policies are named as resolved | `FirmwareDecisions`, `FirmwareGovernance` |
| Audit, dashboards, reports, UI, authentication, schema | none of their own, or appended | read, format | everything | none | presentation | not modelled |

`PROJECT.json` lists every component with its status, and the hazards, each at the
line where it bites, with the properties that cover it.

## 2. Modules and their correspondence to the code

A handler is modelled statement by statement where another handler can act in
between, and in one step where it cannot (a transaction that is serializable or
holds the lock that matters). A screen is what a client has read and may act on
later. `PROJECT.json` maps each definition to its lines. `Tables` holds what all
share: a table is a function from ids to rows, `None` is NULL.

**WorkPlan.** `plan`, `target` and `event` are the three tables. `view[c]` is the screen
of an operator: a plan with its `state` and `updatedAt`, or a preview with its token.
`tx[c]` is a transaction in flight. `BeginTransition` and `BeginAmend` are the read and
all checks of the READ COMMITTED transactions, `CommitTransition` and `CommitAmend` the
`updateMany` guarded by `(state, updatedAt)`, the event and the commit. `CommitCreate`
ends a serializable transaction: `Serializable` fails it when a committed creation wrote
what this one read and the other way round. `NextUpdatedAt` is the code's `max(now,
previous + 1 ms)`; `Clocks` are the readings a process may get, so clocks may disagree
or stand still. `technical` is what a plan is computed from, changed by the environment.
The preview token hashes part of it only (`firmware-work-plan-store.ts:853`): the
recommendation, the exception's id, and the observed, policy and target fingerprints
(`basis`). The customer, the site, the model, the texts of policy and target and the
snapshot of the exception (`context`) are not hashed, and the targets are saved with
what the fresh read has (925-975). `Init` has, for each `LegacyPlans`, any row the
lifecycle migration may have left, or none.

**PlanLifecycle** is the abstract promise: a device is held by at most one open
plan, a plan takes one legal step at a time, and the booking of scheduled work is
the dated proposal. `WorkPlan!Lifecycle` is the refinement mapping: plans to stages,
active plans to holders, row columns to proposal and booking. Reads, checks and
screens become stutters.

**InventoryConnection.** `source` and `secret` are the two rows. A save is a read
with its checks (`BeginSave`) and a transaction (`CommitSave`). A test or a sync
reads the row (`Load`), then the secret (`LoadSecret`), calls the provider, and
writes its verdict (`WriteVerdict`). `live[g]` is the generation of the refresh
token the provider accepts. `Refresh` spends it, `PersistRotation` saves the new
one if the stored one is still the one that was exchanged, `RefuseRotation`
discards it. `verified` remembers the pairs of region and credentials that ever
passed a test. Names, tenants, sites and mappings are the one flag `scoped`. Two
variables are not of the code: `classic` says, for a whole behaviour, which provider the
connection is of, and `crossed` remembers that requests of two administrators overlapped.

**InventorySync.** `LockSource`, `FindNoRun`, `CreateRun` are the begin
transaction with its `FOR UPDATE`. Then `Fetch`, `Stage`, `Automate`,
`AutoPublish`, and `Complete`, or on an exception `Break` and `Fail`.
`CompleteThrows` and `FailThrows` are ledger updates whose answer is lost, before or
after they commit. `job` is the singleton job of the source; `Expire` retries it
while its handler may still be at work. `losses` says, for a whole behaviour,
whether processes may die and answers get lost. pg-boss is modelled from the options
`jobs/registry.ts` and `jobs/job-system.ts` pass to it.

**StagedBatch.** A row has its inclusion, status, recheck flag, revision and
attempt; `decisions[r]` is the ordered history of what engineers and rules
decided. Handlers (`work`) go through the stages of the code:

- a correction: `Preview`, `Apply` (the scope token is compared), `Write` (the
  transaction), `OverlayRead`, `OverlayWrite`, then a recheck;
- an identity match: `Preview`, `Apply`, `Confirm`;
- bulk verification: `StartVerify`, the plans of identities and of firmware, each
  compared (`StillPlanned`) and written by id, then a recheck;
- a recheck: `Reread`, one `Recheck` per row guarded by its revision,
  `EndRecheck`;
- rules: `ChangeRules` by the rule editor, or `GuideRule` by the wizard;
  automation is `StartAutomation`, `ClearRules`, `CreateRules`, then a recheck;
- publication: `Review` takes a QA with its fingerprint, `Post` compares it,
  `Open` starts the serializable transaction and rebuilds the QA, `Commit` or
  `Rollback`. A write to a row the transaction writes dooms it (`Wrote`);
- deletion: `StartDelete` reads that nothing is published, `Delete` deletes unless
  the RESTRICT of the attempts stops it.

`ClearRules` leaves of a history what is not of the rules that no longer say it, in its
order (`Without`). The identity of a row is settled (new, or one certain match),
suggested, ambiguous or invalid; a decision settles the two in the middle, none settles
an invalid one. `Ambiguous` are the rows whose `repeatClassification` is AMBIGUOUS or
INVALID: the recomputation asks for it (for AMBIGUOUS; an invalid identity is in review
anyway), the overlay and the identity endpoint do not, and it keeps a row from being
published. Of the recomputation's terms `suggestionNeedsReview` is never true, because ingestion stores no suggestions
(`importer-v2-ingestion-store.ts:621`). An `Outcome` says of each value who decided it, an
engineer or a rule. A finding is none, a warning or an error; a correction sets a value,
excludes, matches a device or verifies. What the rows write, and the repair of
identities, which changes a repeat classification, are in `ImportPublication`.

**ImportCatalog, ImportIdentity, ImportPublication.** `ImportCatalog` keys a
record of the catalog by its field, parents and name. `ImportIdentity` holds the
pure decisions: normal forms, candidates and their confidence, the verdict, the
decision that applies (`Review`), and the comparison with the last snapshot
(`Diff`). `ImportPublication` has the state they work on: `crosswalk` maps a
provider and a device to normal identifiers and outlives the device, `snapshots`
are cumulative, `topology` holds stack members. `StageExport` resolves every row
against what stands; `Correct`, `Decide`, `Repair`, `Recheck`, `Exclude` are the
workspace; `Publish` is the transaction, an `Outcome` of either `RowByRow` or
`Bulk`; `Switch`, `CreateByHand`, `EditByHand`, `DeleteByHand` happen meanwhile.
`RowByRow` is the loop as a recursive function over the rows: a set with the
inventory so far, or empty once a row is refused. The platform of a release is one test
in both; the code compares it in lower case in bulk
(`importer-v2-publication-store.ts:396`) and by `normalizedFirmwarePlatform` row by row
(1309), so that platforms spelled differently may pass one and not the other. The
source's value and the effective one are one value here.

**ImportEvidence, ImportEvaluation.** One row from its source to its staged
status: hierarchy template, device-type policy, the layers that decide a field
(remembered mapping, catalog, relation of the model), firmware columns with their
warnings, verification at one click. Texts are opaque, tables say what the
patterns of the code find in them.

**RuleEngine, ImportRules.** `RuleEngine` computes which rules match a row, which
actions win by tier and rank, and the effect. `ImportRules` has the revisions of
the book and the desks of engineers: `ShowGuided`, `CheckGuided`, `ShowScoped`,
`CheckScoped`, `BaseScoped`, `CountRevisions`, `SaveRevision`, `Decide`, and for
mappings `Recall` and `SaveMapping`. `Manage` enables, disables or removes a rule.

**InventoryHierarchy.** `pending[q]` is what a request is about to write. A change
of a unit holds `lockOrganizationCustomer` and is one step; others check first and
write later, with foreign keys and unique indexes at the write.

**InventoryDevices.** `edit[e]` is the whole-row write of an edit; `shown` is the bulk
change or repair under review, with the stamps of its rows; `repairs` are the audit
events a rollback starts from.

**FirmwareDecisions** are the decisions as operators: comparison of versions of several
grammars, policy selection, compatibility, compliance, the train the catalog proposes,
exception cover. **FirmwareCatalog** adds releases and trains. `BeginUpdate`,
`FindPeers`, `DemotePeers`, `WriteTrain`, `CommitTrain` are the statements of
`updateFirmwareTrain`, `BeginRelease`, `WriteRelease`, `CommitRelease` those of
`updateFirmwareRelease`. A write is a statement with its trigger and, later, its commit:
the triggers are plain reads at READ COMMITTED that see what is committed and lock
nothing (`prisma/migrations/20260920163500_firmware_catalog_simplification`), while row
locks, the unique indexes and the foreign keys make an open statement wait (`TakesKey`).
`crossed` is not of the code: it remembers which writes of a train and of a release it
names were open at one time. **FirmwareGovernance** has policies, rules, overrides,
exceptions, records and plans; a write that confirms a preview is a `Begin` and a
`Commit`. Its properties are stated there, of any device, model and instant.

`MC*` modules are the instances; `*Cases` modules hold their data. The proof
modules are in section 5.

## 3. Runs, bounds and what they show

An MC module that merges several instances has a variable `scenario`: a behaviour
belongs to one scenario, and what is not of it rests.

| Run | Scenarios, bounds | Properties |
|---|---|---|
| `workplan_lifecycle` | 2 operators, 1 device with an accepted exception, 1 plan, new or migrated, a clock that stands still, 4 versions | `WorkKeepsToTheProposal`, `ApprovalIsOnRecord`, `NoBlindWrite`, `ImplementsLifecycle` |
| `workplan_race` | 2 operators, 2 devices, one of which may be retired or moved, 2 plans, 2 versions | `OneActivePlanPerDevice`, `CreatedAsPreviewed` |
| `inventory` | *central* (Classic Central): 2 administrators and a sync, 2 grants, 1 rotation of each | `EnabledIsScoped`, `StoredTokenIsLive`, `EnabledIsVerifiedInTurn` |
| | *other* (Meraki, Auvik): one administrator after another and a sync, 2 regions with a grant each; processes die | `EnabledIsVerifiedInTurn` |
| | *rules*: 2 engineers, 2 rows, 4 rules, 3 revisions | `RulesDecide` |
| | *memory*: 2 engineers, 1 mapping, 3 versions | `MemoryHasOneVoice` |
| | *hierarchy*: 2 requests, 2 customers, 2 units | `UnitsFormAForest` |
| | *devices*: 1 edit at a time against a bulk change and a repair, 3 writes | `SitesStayWithTheirCustomer`, `RepairChoicesAgree`, `ReviewedChangesAreExact` |
| `import` | *sync*: 3 handlers, 3 runs, 1 retry, 1 manual request; crashes and lost answers | `OneRunAtATime`, `OneSyncAtWork`, `SuccessIsPublished` |
| | *publication*: 2 providers, 2 batches, 1 correction, 1 edit by hand, 3 devices, one stack | `IdentifiersNameOneDevice`, `RepeatsAreQuiet`, `BulkIsRowByRow` |
| | *evaluation*: every pair of firmware columns, several hierarchies, a catalog that is switched | `TrustIsEarned`, `RowsHangTogether` |
| `sync_liveness` | 2 handlers, 2 runs, 1 retry, 1 manual request; no losses | `SyncsSettle`, `OutcomesAreFinal`, `CompletedJobsSynced` |
| `batch` | *publication*: 2 rows, 1 handler, 2 keys, 2 requests | `RowsArePublishedAsShown`, `HistoryKeepsItsBatch`, `PublicationsAreCurrent` |
| | *review*: 2 rows, 2 handlers, 1 key, 1 request; processes die | the same and `ExcludedStaysOut` |
| | *serial*: 2 rows, 1 handler, 2 corrections per row, 4 rule books | `TurnsAddUp` |
| | *rules*: 1 row, 1 handler, 1 key, 1 correction, 4 rule books that correct, match and exclude | `RowsArePublishedAsShown`, `ExcludedStaysOut`, `PublicationsAreCurrent` |
| | *invalid*: 1 row no decision settles, 1 handler, 1 key, 2 corrections | the same |
| `firmware` | *catalog*: 2 editors, 2 trains, 2 releases, 2 platforms, 2 writes | `OnePreferredTrain`, `DefaultsStayUsable` |
| | *policies*: 2 engineers, 2 models, 1 policy in force and 1 announced | `SetTakesEffect`, `PoliciesAreNamedAsResolved` |
| | *evidence*: 1 model, 2 overrides, 2 changes of evidence; *plans*: 1 plan, 1 exception, 2 changes | `RecommendationsAreEarned` |
| | *exceptions*: a site's and a device's, 3 instants, 1 change | `CoveredAsShown` |
| `connection_race` | *violation*: 2 administrators and a sync | `EnabledIsVerified` |
| `batch_lost_preview` | *violation*: 2 handlers, 1 correction | `CorrectionsBuildOnEachOther` |
| `batch_retry` | *violation*: 1 key, 1 request | `RetriesAreAnswered` |
| `catalog_members` | *violation*: the bounds of `firmware` | `MembersMatchTheirTrain` |
| `live_fresh` | *violation*: the bounds of `firmware` | `FreshPlansAreNotStale` |

`TypeOK` is checked in `workplan_lifecycle`, `inventory` and `import`. Each property
of a passing run has a mutant in `PROJECT.json`: a plausible bug in a mapped
definition under which TLC finds the property violated.

*Why the bounds are enough.* Every race is between two handlers over one row, plan,
run, book or token; a second row or device is there so that a selection can overlap
another in part. Three handlers in *sync* let a manual sync, an expired delivery and
its retry be at work at once. `MaxRotations` 1 lets a token be spent by somebody
else's exchange. Two batches are an import and its repeat. `MaxRevision`, `MaxJobs`,
`MaxRequests`, `MaxChanges`, `MaxFixes`, `MaxHands` bound counters nothing else
depends on. The theorems of section 5 do not depend on these sizes.

*Symmetry* is used over operators, handlers, requests, keys, plans, devices, editors
and engineers where the instance names none of them, never in the liveness run.

*Deadlock* is not checked in `batch`, `batch_lost_preview`, `batch_retry`, `import`,
`firmware` and the two violations on it: once the bounded corrections, keys, batches
or changes are used up nothing is left to do.

*Fairness* (`InventorySync!Fairness`). Weak fairness of `Progress(h)` for each
handler: a process that is alive executes its next statement, and the calls it
makes have timeouts. Weak fairness of `\E h : Deliver(h)`: pg-boss workers poll.
Weak fairness of `Expire`: pg-boss supervises its active jobs. Nothing is assumed of
administrators, schedules, or crashes, which the liveness run excludes: the code
never closes the run of a process that died (`inventory-sync-run-store.ts:27` only
refuses to start another one).

*Preconditions of some properties.*

- `OutcomesAreFinal` holds without lost answers: a completion that committed and
  whose answer was lost is followed by `failInventorySyncRun`, and SUCCEEDED turns
  into FAILED.
- `StoredTokenIsLive` holds without crashes: if a process dies after the provider
  rotated the token and before it is saved (`aruba-classic-integration-store.ts:304`),
  only new credentials help.
- `EnabledIsVerifiedInTurn` speaks of behaviours in which no requests of two
  administrators have overlapped; `connection_race` is such an overlap.
- `CreatedAsPreviewed` speaks of what the token covers: that a plan is saved from the
  facts its preview showed does not extend to their context (section 4).
- `RowsArePublishedAsShown`, `ExcludedStaysOut` and `PublicationsAreCurrent` hold while
  rules decide and speak of the decisions of engineers. Where a rule spoke, or fell
  silent, between a QA and its commit, the value, the match or the exclusion it concerns is
  excepted, and nothing else is (`RulesApart`). Section 4 says what rules do there.
- `TurnsAddUp` speaks of one handler at a time, whose process does not die. A row that may
  repeat several has, until it is recomputed, the status it was staged or confirmed with:
  the property admits both, and `Blocked` keeps such a row from being published.
- `DefaultsStayUsable` admits a default outside its train only if the write of the train
  and the write of the release were open at one time (`crossed`); that what the catalog
  proposes may be used holds even then.

## 4. Where the code and its documentation disagree

Five of these are runs; the others were met while modelling.

Runs:

- `connection_race`. A save decides on the row it read before its transaction, and
  a test writes SUCCESS for whatever is stored when it ends. Two administrators can
  leave a connection enabled with credentials no test has seen
  (`docs/architecture-decisions/0002-auvik-api-inventory-source.md:47`).
- `batch_lost_preview`. The scope token is compared before, and outside, the
  transaction that writes (`docs/importer-v2-reconciliation-workspace.md:210`).
- `batch_retry`. The endpoint compares the fingerprint before it looks for the
  idempotency key, and a commit changes the fingerprint, so the retry of a committed
  publication is answered 409 (`docs/importer-v2-publication.md:32`).
- `catalog_members`. A train that changes its platform keeps members of the old one
  (`docs/firmware-catalog.md:65`).
- `live_fresh`. The live comparison selects a model without its platform, so a plan
  for a device that inherits its platform is stale when it is created
  (`firmware-work-planning.ts:112`).

Importer:

- Automation records an EXCLUDE_ROW decision before the recheck sets the inclusion.
  In between the decision resolves every finding of the row, which can be published
  (`docs/importer-v2-publication.md:17`).
- Decisions of automation do not increment `reviewRevision`, so they change neither
  the fingerprint nor its check: values no QA showed can be published
  (`docs/importer-v2-publication.md:7`, which the comment of `PublishedAsShown` restricts
  to decisions of engineers), and a recheck that read a row before
  automation excluded it can include it again.
- The match of a rule is recorded as a manual override and needs no confirmation
  (`docs/importer-v2-rule-engine.md:97`).
- The overlay writes statuses by id that it computed from an earlier read
  (`docs/importer-v2-reconciliation-workspace.md:223`); bulk verification checks
  revisions and then writes by id at READ COMMITTED.
- A row staged AMBIGUOUS stays blocked after CHOOSE_CANDIDATE
  (`importer-v2-publication.ts:312`), although the choice resolves its identity
  (`docs/importer-v2-reconciliation-workspace.md:126,134`). The identity endpoint stores
  VALID or WARNING and starts no recheck (`importer-v2-workspace-identity.ts:167`); the
  next recomputation makes it NEEDS_REVIEW (`importer-v2-workspace-maintenance.ts:368`).
- A diff is computed at staging and trusted at publication: an edit by hand in
  between is overwritten (`docs/importer-v2-publication.md:44`), and a device moved
  to another customer with a site of the same name keeps the old customer's site
  (`docs/importer-v2-publication.md:30`).
- Publishing the rest of an older batch makes its snapshot the latest
  (`docs/importer-v2-identity-repeat-diffs.md:55`).
- The crosswalk of a deleted device stays (`device-store.ts:528`) and blocks its
  source rows.
- Remembered mappings are laid over the decision of a rule
  (`importer-v2-rule-evaluation.ts:144`, `docs/importer-v2-evaluation.md:52`).
- A nonconforming value of the hierarchy is replaced by null at staging
  (`docs/importer-v2-source-profiles.md:29`); a trimmed delimiter splits hyphenated
  names; SOFTWARE_ONLY calls an unparseable version a placeholder; a manual override
  with a null id is overwritten by the relation of the model.
- Two first uses of a source can create two rule books; two writers of rules that
  start from one revision lose one of them; the id of a guided rule ignores its scope
  row (`importer-v2-rule-wizard-store.ts:182`).
- `importerV2CurrentFirmwareReleaseId` ignores the status of compatibility.

Firmware and inventory:

- A device that changes its customer, site or model between the preview of a plan and
  its creation is saved with facts nobody was shown: the token does not cover them.
- A write of a train that makes a release its default and a concurrent write that moves
  this release out of the train both pass their triggers and commit, and leave a default
  outside its train. The migration (lines 73-149) raises "Preferred firmware release must
  belong to the same firmware train, vendor, and platform." and "A train default release
  cannot be moved outside its train, vendor, or platform." for either alone.
- A sync reads the connection and then its secret: credentials saved in between are
  used without a test.
- Compatibility with no evidence is PLATFORM_INHERITANCE where
  `docs/firmware-compatibility.md:100` and `docs/firmware-compliance.md:10` have
  UNKNOWN.
- The versions of an override restart after it was cleared
  (`firmware-compatibility-store.ts:475`); the saved configuration of a model is
  dated at the request; peers stay demoted when the write of the train is refused.
- An edit of a device, and of a unit or site, writes the whole row it read: a field that
  somebody else changed meanwhile is written back. No property speaks of the lost field,
  only of a site and a customer that no longer agree (`SitesStayWithTheirCustomer`).
- A family can move to another vendor while a model joins it
  (`model-family-store.ts:149`); a model that changes its vendor leaves its devices on
  releases of the old one; a model and its platform rules are written in two
  transactions (`device-model-store.ts:409`).

## 5. Proofs

Eight modules. Each proof has the same shape: an invariant stronger than what is
wanted, one lemma per action or class of actions that it survives, and a last step
in temporal logic. TLC checks the properties on the runs first.

**`WorkPlanProofs`**, for any operators, devices, plans, clocks and bounds, from
`WorkPlanAssumption` (the legacy plans are plans, the clocks are in the bound, NULL is
not a date or a window) and `NoneAssumption` (NULL is not a row, a screen or a
transaction).

- `TypeCorrect`: `TypeOK /\ InFlight`. `TypeOK` alone is not inductive: what a
  transaction writes is a row because what it read was one. `InFlight` has three
  parts. `ReadsAreEarlier`: a screen holds an earlier version of its plan, and an equal
  version is an equal row, which is where `NextUpdatedAt` matters. `WritesAreChecked`: a
  transaction passed its checks on the row it read. `OverlapsAreRecorded`: a device
  about to be planned is in no active plan but those of creations the database has
  recorded as overlapping.
- `DevicesArePlannedOnce` from `OverlapsAreRecorded` and `Serializable`;
  `WritersSawTheRow`, `PlansMoveForward` from `ReadsAreEarlier`; `WorkKeeps` from
  `WritesAreChecked` and an invariant of single rows.
- `ApprovalStands`: that an approval stands is a recursive reading of the history, but
  it only needs one fact about appending an event (`StandsAfter`).
- `CreationsAreAsPreviewed`: what a creation in flight carries was computed from the
  facts its token covers (`CreationsAreSeen`), and previews with one token agree in all
  but the context of their devices, which the theorem does not speak of.
- `WorkPlanRefines`: the refinement of `PlanLifecycle`, step by step. A commit is
  the abstract step of its state, every other step a stutter; that a creation finds
  its devices free is `DevicesArePlannedOnce` on both sides of the step.

**`InventoryProofs`**, first of connections, for any provider, administrators, syncs,
regions, credentials and rotations. `Inv`: `Issued` (a token belongs to the grant it is
carried with and is not newer than the last one issued), `PastedAreNew` (credentials
being pasted are not in use), `OneExchange` (between an exchange and its save nobody
else has the token that was issued, which makes the comparison under the row lock
enough). `TokenStaysLive` is strengthened to "or the exchange under way holds the live
token", `EnabledStaysScoped` to the rows that saves in flight are about to write.
`TurnsVerify`: as long as administrators take turns, `InTurn` holds: the connection is
enabled, or its test has succeeded, only if its region and credentials passed one; a
save under way that keeps both was decided on the row as it is, one that replaces either
disables the connection and forgets the test; a test under way is of the credentials
that are stored. Syncs rotate tokens and never write a verdict.

Then of the hierarchy and the devices. `NoUnitAboveItself`: a forest is stated as "no
nonempty set of units closed under parents below a unit"; a new closed set after a move
would have to contain the moved unit, and the walk up the parents that the code makes under
the lock would have met it. The invariant adds that requests in flight keep the customer of
what they write. `DevicesStayAtHome`: whole-row writes carry a site of the customer they
carry. `ChangesAreAsShown`: the stamps of a preview are not newer than the rows, so equal
stamps are equal rows. `RepairsAgree` is proved of every row and catalog, without the
specification.

**`InventorySyncProofs`**, for any handlers, runs and retries, with and without losses.
`Inv`: a handler at work owns an open run, no run has two owners, the handler that
found no run holds the lock, attempts are bounded. `OneRunAtATime` alone is not
inductive: the handler that creates a run found none, and only the lock it still holds
says that none was created since. It gives `TypeCorrect`, `OneRun`, `OneWorker`,
`SuccessStands`, and without losses `OutcomesStand` and `CompletionStands`: an outcome is
only written by the owner of an open run, and a delivery completes after its run did.

**`StagedBatchProofs`**, for any rows, rules, handlers, keys and requests. `Inv` (an
open transaction that is not doomed has seen what it writes; attempts name keys that
were used) gives `WrittenOnce` and `HistoryStays`. `Kept` (what an open transaction
showed is still what stands, what a handler carries was computed from a revision that
guards it) gives `PublishedAsConfirmed`, `LeftOutForGood` and `CommitsAreCurrent`, for any
rules that are activated and applied meanwhile. A revision does not pin the decisions of a
row, because automation deletes and appends its own; it pins those of engineers, in their
order (`Hand`). From these alone it follows who said what: as long as a rule has not the
last word on a value, it is what the engineers' decisions make it (`Told`, `ToldApart`).
So what is compared by revision is compared up to what rules say (`RulesApart`), and an
engineer's exclusion, which raises the revision and sets the inclusion in one
transaction, survives every stale recheck.

`TurnsStand` is about one handler at a time. `Turns` has three parts: `Chained`,
decisions of engineers on a row are on different revisions, which it has left behind;
`Turn`, what the handler carries at each stage is what the row is (its revision, the
status of a match, of the overlay, of a recheck), since nobody else writes; and every
row is `Settled`, waiting for a recheck or shown as its decisions have it (`Judged`:
with or without what it may repeat), or `Due`, about to be looked at by the handler.
Automation is where `Due` is needed: it changes decisions first, and the rows only with
the recheck at its end. That deleting decisions keeps the others apart and in their
order is a lemma on finite sets of places (`StayingStays`).

**`FirmwareCatalogProofs`**, for any editors, releases, trains and identities, from
`CatalogAssumption` (the catalog it starts from obeys the indexes and triggers). `Inv`:
`CatalogTypeOK`, `OnePreferredTrain`, `DefaultsStayAtHome`, and what is known of the
statements that are open: `TrainsWillBeRight` and `ReleasesWillBeRight` (a statement
that is open passed its trigger, and what it will commit still agrees with what is
committed, or the two have crossed), and `CrossingsAreKnown` (a train and a release that
are both open are in `crossed`). `OneTrainToFollow` rests on the partial index, whatever
was demoted before. `DefaultsAreNeverStale` says that crossing is the only way a default
leaves its train, that no default is deleted, and that proposals are usable all the
same: the catalog checks a default when it proposes it. It needs that the train the
catalog proposes is one of its trains: the comparison of versions is a total preorder on
each grammar, by lemmas on its order and well-founded induction.

**`FirmwareGovernanceProofs`**, for any engineers, devices, models, releases, policies and
instants, from `GovernanceAssumption`. What it says of the policies at the start is what
their only writers keep: rows are numbered one after another, and a policy of a model
alone is its default, on the track `default`, and not of the legacy configuration
(`setModelDesiredFirmwarePolicies` and `appendFirmwarePolicyVersion` write no other).
`GovernanceInv`: the tables hold rows under their ids; versions of the override of a model
on a release never skip, so a version that is free is the newest (`FreeVersionIsNewest`);
an exception covers the policies its engineer was shown; a plan froze the image its device
was offered; what a desk carries came from rows that are still there.

- `AdviceIsAlwaysEarned`: what a device is told is a case of `Compliance` whose premises
  are active, allowed and known to run; that a plan reported fresh keeps its image is
  that equal fingerprints name equal images.
- `PoliciesAreAlwaysNamedAsResolved`: the resolver goes down the ranks of a device, and
  for a plain one comes to the newest policy of its model, which is the one the database
  selects (`StoreAgrees`); an announcement is the row of the greatest instant not after
  another, and nothing lies in between (`Timeline`).
- `ExceptionsCoverWhatWasShown`: an exception until the policy changes compares the
  policies in force with those it was given, and both are named by all that decides them.
- `BulkChangesTakeEffect`: only the transaction of a bulk change ends it, and its rows are
  the newest of their models. The property speaks of models for which no policy is
  announced at the instant of the change.

**`ImportStagingProofs`**, for any catalog, mappings, texts, engineers and rules.

- `ValidRowsAreTrusted`: the interpreter names no version only where it had nothing to
  read or warned of a conflict; of its warnings those that do not block are listed, and of
  a row VALID no other is left. `RowsAlwaysHangTogether`: a site is looked up among those
  of the customer, and the relations of the model are laid over what was decided before, or
  are an error. From `EvaluationAssumption`: a site has a customer
  (`prisma/schema.prisma:218`), NULL is no record.
- `RulesAlwaysDecide`: the index misses no rule that matches; an action wins when it is of
  the best tier and rank in every slot it writes; what it did not win stays as staged. The
  winners are applied one after another by a recursive function, and a first step at which
  one of these would fail is ruled out (least natural number). It covers actions that write
  several slots, which no writer in the source produces and the run therefore has not.
  `BookIsOfRules` says that every revision holds rules of that form, `RulesInv` that the
  book is numbered without gaps and its active revision is in it (`BookIsInOrder`), that
  mappings are (`MemoryIsInOrder`), and that a desk carries rows and the revision it started
  from: what is saved is what was shown, on the revision that is active then. From
  `TextsAssumption` (texts that are equal in lower case have the same key), `InputsAssumption`
  (fields have the names the engine knows) and `RulesAssumption`.
- `MemoryStands`: two engineers who read the same latest version collide on the unique key.

**`ImportPublicationProofs`**, for any exports, catalogs, numbers of devices and edits, from
`PublicationAssumption` (an export lists its rows; NULL is neither a number nor the name
of a correction). `Inv` is `Sound`: devices have numbers that were given out, the
crosswalk speaks of such numbers and names one device.

- `NamesStayUnique`: a row written alone claims nobody else's identifier
  (`IdentityTaken` finds everyone who shares one, `SharersAreFound`); new devices written
  together are compared with the inventory and with each other. That every step of
  the loop keeps `Sound` goes through the recursive function of `RowByRow`, shown to
  exist by the least number at which it would not (`StepsExist`).
- `EitherWayIsTheSame`: the loop, after row n, stands at the inventory with the chosen
  rows up to n (`Partial`), or at nothing if one of them does not fit. `RowsAreRanked`:
  the rank of a chosen row is its number among the chosen ones, so both give the same
  numbers. `NewRowRefused`: after the rows before it, a row is refused for the inventory
  of the start or for one of these rows, which is what the bulk checks say.
- `RepeatsStayQuiet`: by `NamesStayUnique` the source id of a provider names one
  device, which alone is a candidate, with high confidence (`SourceIdDecides`); the row
  is found by its key and nothing changed (`SameIsNoChange`).

## 6. What is only model-checked, and what is not modelled

Only model-checked: `SyncsSettle`, which is liveness and out of reach of TLAPS 1.4.5. Every
other property of a passing run is a theorem.

Not modelled, of the modelled components:

- connections: names, tenants, sites and mappings beyond the flag `scoped`;
  encryption; paging, rate limits and parsing of the provider clients;
- jobs: the demonstration job and graceful shutdown;
- staging reads crosswalk, devices and snapshot at once; corrections of identity
  fields stand also for provider rules that map them; the layers of the evaluator that
  ingestion leaves empty are left out; reading workbooks and recognising a profile;
- publication: pages of a batch, the report of an attempt; the normal forms of names;
  derived identities of stack members;
- rules: activation of an old revision, which nothing calls;
- hierarchy and devices: codes, notes, and the uniqueness of names of models;
- catalog: the documents of a release. Lists and summaries, which only read.

Audit, dashboards, explorer, drill-downs, reports, exports, user interface,
authentication, schema and scripts are not modelled: they read, format or declare. The
constraints that matter are in the modules that depend on them.

## 7. Plan

Done: the modules above, in the order of section 2, and the proofs of section 5.

To come, most important first:

1. Derived identities of stack members, and their order with automation.
2. Read models that decide: dispositions on the dashboard and in the drill-down,
   against `FirmwareDecisions`.
