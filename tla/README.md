# Verification of the ICT Branch Toolkit

TLA+ models of the ICT Branch Toolkit, a Django/PostgreSQL server and a React
client for incident communications planning: ICS-205 radio plans that several
people edit at once, an approval workflow, equipment custody, reference data
and a hash-chained audit log. The modules follow the code of `src/backend/apps`
(and, for what clients send, `src/frontend/src`). `PROJECT.json` maps every
definition to its source lines, lists the runs, the mutants that show a
property can fail, the findings, the hazards and the theorems.

Run a model with `tlc -config <cfg> <module>`, check proofs with
`tlapm <module>.tla`.

## 1. The system

### How it executes

Every HTTP request is one PostgreSQL transaction (`ATOMIC_REQUESTS`,
`config/settings.py:83`) at the default level READ COMMITTED. Each statement
sees what was committed when the statement began; a statement that waits for a
row lock afterwards sees the new version of that row, but not rows inserted
meanwhile. Several workers serve requests at once. What is hard about this
program follows from that: most handlers read, check and write in separate
statements, and only some of them lock what they checked. The database's UNIQUE
and foreign-key constraints are part of the protocol, and the models treat
them as such.

### Inventory of components

| Component | State | Operations | Interacts with | Hard behaviour | What makes it correct |
|---|---|---|---|---|---|
| **audit** | `AuditEvent` rows: sequence, previous hash, record hash | `record_event`, `record_export`, `verify_audit_chain` | called inside the transaction of nearly every request | all requests queue on the newest row; the lock is granted on a row that is no longer the newest | one gapless verifiable chain; events and outcomes agree; nobody waits for ever |
| **collaboration** | `CollaborationChange` ledger, resolutions, presence leases, sensitive-field rules | `apply_mutation` (five operations), conflict resolution, leases | writes plan rows; driven by the browser | duplicated, late, reused mutations; versions that were current once | a mutation takes effect once; replays are answered alike; no value is overwritten unseen |
| **plans** | `ICS205Plan`, `PlanRevision`, `Assignment`, `AssignmentRelationship` | create, edit, reorder, copy, approve, publish contacts; unversioned REST edits of the same rows | collaboration, site links, deconfliction, extensions | check-then-write without locks, whole-row saves of stale reads | approved revisions change only by edits that were already past their check; drafts start from approved content |
| **sites** | `RadioSite`, `ManualRing`, `SiteAssignment` | edit sites, link and unlink assignments, freeze at approval, copy, export | plans | a link committed while an approval freezes | links of approved revisions have snapshots |
| **plan workspace client** | what the browser last fetched; mutation ids | composes mutations with the version it shows, repeats them, resubmits after a conflict | collaboration API | one id may reach the server late, twice or never | see collaboration |
| **inventory custody** | `Asset`, `AssetCheckout`, maintenance, programming, charging records | checkout of several assets, return, hold, resolution, maintenance; asset form | audit, incidents | long legal sequences; forms write whole stale rows | one open checkout per asset; the license is kept exactly while it is open; status and checkouts agree |
| **inventory import** | `AssetImportBatch` | preview, commit | assets | preview is older than the commit; commits race each other and the form | a batch is imported whole and once; files close no circle of parents |
| **inventory attachments** | `AssetAttachment` rows and files in a volume | upload, download, delete | storage volume | the volume does not roll back | a file that outlives its record is reported |
| **accounts** | users and roles, local contingency accounts, token sessions, reset links | create, activate, sign in and out, disable, reset, expire | permission checks of every component | a disabling or reset that overtakes a login; roles that add up | no session of an account that was not activated, nor a new one of a disabled account but from a login under way; accounts come from those who manage them |
| **incidents** | `Incident`, `OperationalPeriod`, `IncidentMembership` | create, update, archive; purge of incident data (management command) | everything scoped to an incident | whole-row saves against an archive; the purge against running requests | archived incidents close; nothing is left of a purged incident |
| **extensions** | `ExtensionInstallation`, `ExtensionExecution`; ICS 205B forms and rows | install (disabled), enable and disable, execute on an approved revision; edit, renumber and reorder rows of a form | plans (approved revisions), incidents | a deployment with another manifest while it is enabled or runs; row positions under racing edits | only an enabled, unchanged manifest runs, on approved revisions; forms belong to a period of their incident |
| **fcc_data** | `FccImportBatch` with licenses, structures, locations, frequencies, emissions | import a complete archive, make it current, report status, search towers | server automation script | two imports of one dataset; doubled and clashing rows; reads in several queries | a dataset, once imported, always has a current batch; its reported counts are its rows |
| **deconfliction** | `DeconflictionAnalysis`, finding dispositions | analyse an approved revision, dispose of findings, approve | plans, resources, rf profiles | late edits of the revision; rows without areas; pairs at a threshold | an analysis is silent about a pair only where it says why |
| **resources** | sources, releases, channels, talkgroups | preview, import with provenance, approve reference data | plans, deconfliction | two releases that claim one source | what a release under a CISA source declares of its origin was reviewed |
| **rf_analysis** | subscriber profiles and versions, input snapshots, elevations, HAAT, coverage, directional and terrain results, observations, reviews, calibration sets, validation bundles | copy, approve, run, cancel, retry, correct, review, archive | sites, plans | sites that move, evidence that ages, configurations that change, reviews that change again | approved versions change only by a PATCH already past its check; results rest on approved, complete, fresh evidence that is theirs; stale evidence stays stale |
| **scripts** | lock, status and recovery-set files on the server | FCC server automation, deployment, database recovery | fcc_data, deployment | crash between two files, a restarted controller | not modelled, see section 6 |
| **frontend** | fetched data | rendering and requests | the API | stale data on screen | only what it sends to the plan API is of interest here |

### Interactions in one picture

    browser --mutations--> collaboration --FOR UPDATE--> plans <--no lock-- REST edits
                                |                          ^  ^
                                |                approval -+  +- site links (freeze, copy)
                                v                          |
             audit log <-- every request            approved revisions
                                                     |          |
       resources --definitions--> deconfliction <----+          +----> extensions
       fcc_data (archives, tower search)                               (executions, ICS 205B)
                                                                             |
       accounts, roles, incidents: who may do what, and what is closed <-----+

       sites --coordinates--> elevations -> HAAT -> coverage, directional, terrain
       subscriber profile versions (approved) --inputs--^      |
       observations -> reviews -> calibration sets -> validation bundles

       inventory: services (FOR UPDATE), forms and imports (no lock) on assets; files

## 2. Modules and their correspondence to the code

### Core

| Module | Models | State | Actions |
|---|---|---|---|
| `AuditChain` | `audit/services.py`, `audit/models.py` and the request transaction | committed rows; per request: stage, row found, own rows, row locks | `Begin`, `ReadTail` and `LockTail` (the two halves of the FOR UPDATE query), `InsertRow`, `UniqueViolation`, `HandlerFails`, `Commit` |
| `Collaboration` | `collaboration/services.py` with `plans/services.py`, the copy and approve views, `sites/services.py`, and the mutations composed by `PlanWorkspace.tsx` | revision and assignment rows (with the row's site link), the change ledger, payloads in transit, what each request has read; histories of answers, effects and approvals | `ClientSend`; `MutateReplay/Start/Commit/Collides`; `Preview`, `ApproveValidate/Refused/Freeze/Commit`; `CopyCheck/Number/Insert/Collides`; `LinkRead/Commit`, `UnlinkRead/Commit`; `Abort` |
| `RevisionLifecycle` | the promise of ADR-0003 and ADR-0018 about revisions | status and content by number | `Open`, `Edit`, `Approve` |
| `PlanRequests` | the REST endpoints of `plans/views.py`, extending `Collaboration` | the same | a read, the gate in `PlanRevision.save`, and a write per verb |
| `AuditChainProofs`, `CollaborationProofs` | | | theorems |

### Inventory

| Module | Models | State | Actions |
|---|---|---|---|
| `AssetCustody` | `inventory/services.py`, the asset serializer and views | assets (status, parent), checkouts, forms in progress; history of forced statuses | `CheckoutAssets`, `ReturnNormal`, `ReturnOnHold`, `ResolveHold`, `RecordMaintenance`, `CreateAsset`, `FormRead/Write/Abort` |
| `AssetImport` | `inventory/imports.py`, extending `AssetCustody` | import batches, commits in progress; history of who created an asset | `PreviewImport`, `CommitCheck`, `CommitInsert`, `CommitFails` |
| `AssetAttachments` | `inventory/attachments.py` | rows, files in the volume, reported leftovers | `StoreFile`, `UploadCommit/Fails`, `DeleteRead`, `RemoveFile`, `DeleteCommit`, `AttachmentAbort` |
| `Inventory` | the three together | | all of them on one set of assets |
| `InventoryProofs` | | | theorems |

### RF analysis

| Module | Models | State | Actions |
|---|---|---|---|
| `ProfileVersions` | `rf_analysis/services.py` and the profile views | a profile, its versions and input snapshots; what each request has read | create, rename, `ReadPatch/CheckPatch/WritePatch`, `ReadApprove/CheckApprove/LockApprove/FinishApprove`, `ReadCopy/DraftFree/TakeNumber/InsertCopy`, archives |
| `HaatEvidence` | `elevation.py`, `usgs_3dep.py`, `haat.py` | the site, configuration, clock, elevation and HAAT rows | `CreateHaat` (acquires or reuses elevations), `RetryHaat`, `ApproveHaat`, `ArchiveInput`, `Tick` |
| `CoverageEvidence` | `coverage.py`, `directional.py`, extending it | estimates and directional analyses | create and approve of both |
| `TerrainJobs` | `terrain.py`, extending that | jobs, the run in progress | `QueueTerrain`, `RetryTerrain`, `StartRun`, `FinishRun`, `CrashRun`, `CancelTerrain`, `ApproveTerrain`, `MoveSite`, `Restart` |
| `FieldCalibration` | `calibration.py`, `phase2_validation.py` | observations, review chains, calibration sets, bundles | record, correct and review; create, `BeginApproveSet/FinishApproveSet`; queue, start, finish, retry, cancel and approve of bundles; `Abort`, `Restart`, `PlanChanges`, `ElevationExpires` |
| `ProfileVersionsProofs`, `TerrainJobsProofs`, `FieldCalibrationProofs` | | | theorems |

### Reference data

| Module | Models | State | Actions |
|---|---|---|---|
| `ChannelLibrary` | `resources/services.py` | sources, releases, imports in progress | `BeginImport` (validation and the approval gate), `CommitImport`, `RollBackImport` |
| `Deconfliction` | `deconfliction/rules.py`, `services.py` | the revision and its late edits, analyses, dispositions | `BeginAnalysis`, `FinishAnalysis` (all rules), `RefuseAnalysis`, `ApproveAnalysis`, `Dispose`, `LateDelete`, `LateLink`, `ArchiveIncident` |
| `FccReference` | `fcc_data/parser.py`, `spool.py`, `services.py`, `status.py`, `views.py` | batches, which are current, imports and reads in progress; parsing and spooling as operators on archives | `ImportLookup/Clear/Cleared/Commit/Abort`, `ReadStructure/Count/Page/Locations` |
| `ReferenceData` | the three together | | |
| `ReferenceDataProofs` | | | theorems |

### Incidents and what their members do

| Module | Models | State | Actions |
|---|---|---|---|
| `AccessControl` | `accounts/permissions.py`, `policy.py`, `views.py`, `serializers.py`, `authentication.py`, `password_reset.py`; `incidents/views.py` | users, sessions, links; incidents, periods, memberships; what each request has read | login, activation, account and reset requests, disable, enable, sign-out; create, update and archive of incidents, periods and memberships, each read and write; `Abandon` |
| `Extensions` | `extensions/services.py`, `registry.py` | registry of the running code, installation, executions | `Install`, `SetEnabled`, `BeginExecution`, `FinishExecution`, `FailExecution`, `Deploy` |
| `InformationPlan` | `extensions/ics205b_*.py` | forms and numbered rows | create and update of forms and rows, deletion with renumbering, reordering |
| `IncidentServices` | the three together, and `purge_incident_data.py` | | `Purge` |
| `IncidentServicesProofs` | | | theorems |

`MC*` modules hold symmetry sets, the values of data constants and the state
constraints named in section 3.

How steps were cut:

- A request is cut where another transaction can change what it will rely on:
  between a check and an unlocked write, and between a statement's snapshot and
  its lock. Code that runs while it holds locks on everything it reads, against
  writers that take the same locks, is one step (`apply_mutation` after its
  lookup, the services of `inventory/services.py`, terrain runs after their
  first query, observation reviews).
- Writes of a transaction become visible at its commit: the last step of a
  request carries all its writes. `AuditChain`, where uncommitted rows matter
  (a UNIQUE conflict makes the second inserter wait), keeps them as `own`, and
  `FccReference` keeps the row locks of an UPDATE that has not committed.
- A rollback is an action (`HandlerFails`, `Abort`, `FormAbort`,
  `CommitFails`, `ImportAbort`, `CrashRun`, `Abandon`); it stands for
  exceptions, lost connections, killed workers, deadlocks that PostgreSQL
  resolves, and audit-sequence collisions.
- A restart with another configuration or another release of the code is an
  action where the code compares what it finds with what it now is: `Restart`
  (RF settings), `Deploy` (extension manifests).
- Constraints are guards of their own (`Taken`, `IdTaken`, `NumberTaken`,
  `MayLink`, `Out`, `Insertable`, `PairFree`, `PositionFree`), with an action
  for the request that meets them where its failure has effects.

Data is abstracted to what the properties distinguish. The SHA-256 of a record
is the tuple of what was hashed (injective). An assignment's fields other than
its position are one `body`; `Publishing` bodies publish contacts,
`Undetermined` ones lack the operating classification that approval requires.
Places of the deconfliction rules lie on a line, so that a great-circle
distance is a difference; frequencies and decibels are small integers;
coordinates are names with a relief, or,
where they are rounded (`FieldCalibration`), integers, with steps that are
constants: one in longitude for each exact latitude. `AccessControl` models who is admitted;
in the other modules the users are ones the handler admits. A definition such
as `StaleIgnored`, next to one with a shorter name or right before one with the
same parameters, is that definition with a slip; no specification uses it, and
`PROJECT.json` "mutants" substitutes it to show that a property notices.

## 3. Runs

Runs that pass:

| Run | Configuration | What it shows |
|---|---|---|
| `audit` | 3 requests, up to 2 events each | `ChainVerifies`: `verify_audit_chain` accepts every committed log. `AuditMatchesOutcome`: the log has exactly the events of the requests that committed. `EveryRequestEnds` (with fairness): nobody waits for a row lock for ever |
| `collaboration` | 2 workers, 2 mutation ids, 2 payloads (which may share an id, or be repeated), 2 assignments, 1 revision | `AppliedOnce`, `ReplayIdempotent`, `VersionTokensSound`, `NoSilentOverwrite`, `ApprovedContentImmutable` |
| `lifecycle` | 2 workers, 1 mutation, 3 assignments, links, 2 revisions | `DraftsStartFromApproved`, and `ImplementsLifecycle`: the workflow, with copies and links, implements `RevisionLifecycle` |
| `plan_requests` | the REST endpoints beside one mutation, 2 workers | `ApprovedOnlyByLateEdits`: an approved revision still changes, but only by requests that had passed their last look at a draft, each at most once, and none joins them |
| `inventory` | 3 assets (one in stock), 2 checkouts, 2 forms, 2 batches, 2 importers, 2 attachments | `OneOpenCheckout`, `LicenseKeptWhileOpen`, `ClosedForGood`; `CustodyAgrees`: status and checkouts agree except where a form moved an asset into or out of `checked_out`; `ImportedWhole`; `CirclesOnlyFromForms`: files, validated when they were previewed, never close a circle of parents, only a racing form can; `LeftoversReported` through repeated and failing deletions |
| `rf_profiles` | 2 workers, 3 versions, 1 snapshot | `ApprovedOnlyByLatePatches`: a version is approved as it publishes itself, although `approve_version` saves part of a row that it did not lock while PATCHes commit before, between and after; once approved it changes only by a PATCH whose `save()` had looked its status up before, each once, which makes it a draft again |
| `rf_analysis` | 2 places, 2 inputs, 2 elevations, 2 HAAT rows, 1 estimate, 1 directional analysis, 2 terrain jobs, 2 configurations, 2 fixtures | `EvidenceChain`: every result rests on approved HAAT over complete elevations of its own place and source that were fresh; `PathFromInput`: a finished profile starts where its input snapshot says; `OutcomesKept` under cancel, retry, crash and restart; `SampleCountsExact`, `LineOfSightExact`: two computations against their definitions |
| `rf_calibration` | 2 observations, 3 reviews each, 2 sets, 2 bundles, 1 split request | `StaleForGood`: evidence that went stale never looks fresh again, whatever the later reviews; `BundlesSound`: bundles rest on approved sets of the right RF pair |
| `reference_data` | 2 importers of 6 FCC archives, 1 reader; 2 library workers and 2 releases of one slug; 4 plans of 3 or 4 rows, 1 analysis | `CurrentKept`, `QuietImportLeavesOne`: racing and dying imports leave a dataset with a current batch, and a quiet one with exactly one; `AvailableIsExact`: reported counts are rows that exist; `DetailsExplained`; `CisaReleasesReviewed`; `SilenceExplained` |
| `access` | 3 users, 2 incidents, 3 periods, 2 requests, 3 manifests, 2 forms, 3 rows | `SignInsChecked`: no session on an issued password, and none for a disabled account but from a login that had found it active; `AccountsByManagers`: roles of incidents and overrides never add up to making accounts; `ArchiveCloses`, `ExecutionsReviewed`, `NoOrphans` |

Type invariants are checked in the RF runs, where the rows have many fields;
those of `AuditChain`, `Collaboration` and `AssetCustody` are proved (section 5)
rather than run. Every invariant and action property of these runs is also a
theorem, for all values of the constants.

Runs that TLC refutes, each a statement of the repository that the code does
not keep (details and quotations in `PROJECT.json` "findings"):

| Run | Statement | How it fails |
|---|---|---|
| `publication` | contacts are published as an approver confirmed them (ADR-0018) | a mutation is saved between the digest check and the approval's write |
| `extension_upgrade` | after a deployment with another manifest, disable the extension and reinstall its registered manifest (`docs/operations/planning-extension-framework.md:71`) | disabling compares the installation with the registry first and refuses; installing refuses while the extension is enabled: no administrator can do either |

### Composition and state constraints

The composed modules join components that share state: custody, forms and
imports write the same assets; deconfliction reads the channel library; the
extension and the form read incidents, memberships and roles, and the purge
deletes from all of them. Their full product is out of TLC's reach, so each MC
module states which parts meet in one behaviour; the union of the
parts is what one run explores, and every action fires.

- `MCInventory.OneStory`: custody of two assets beside two forms; or two
  batches beside one form; or attachments alone, which nothing else reads.
- `MCReferenceData.MCOneStory`: the FCC archives, which share no table with the
  rest; or library, plan and analysis.
- `MCIncidentServices.MCOneStory`: accounts, links and sessions; or the accounts
  made while others have roles in an incident, administrator among them; or the
  members and periods of one incident; or the extension in one incident; or
  forms of two incidents. Roles and incidents are shared by all five. The
  override of the run lets a `comt` create incidents and manage memberships, so
  that he can make himself an administrator of an incident.
- `MCTerrainJobs.MCOneStory`: beyond the HAAT rows, one of terrain jobs,
  directional analyses and a second HAAT calculation, which do not read each
  other. `MCFieldCalibration.MCOneStory`: versions of sets, retries of bundles,
  or stale plans and elevations. `MCSnapshotsEarly`: input snapshots, inert
  copies, are only taken while the profile has one version.

### Bounds and why they are enough

Two workers suffice for every race between a check and a write; a third request
matters in the audit log, where two may wait for the row that a third holds.
Two mutation ids with two payloads cover a duplicate, a reuse of an id with
another payload, and a stale payload behind a saved one. Two revisions are the
least with a copy; three assignments let a copy insert rows beside a row that
is created in the draft. Three assets are the least with a parent from outside
a file and a chain inside it, two batches the least that name the same asset.
`MaxPosition` leaves one position free, so that a row can be moved.
`MaxVersion` (in `PlanRequests`) stops REST edits from raising versions for
ever; mutations are bounded by `MaxPayloads`.
Two places let a site move and move back; `MaxTime` and `TTL` of 1 let one
elevation go stale. Three reviews of an observation are accept, reject, accept
again. Two importers of one dataset can both clear the same batch; of the FCC
archives one holds doubled rows, one half a coordinate and one past the
antimeridian, one rows that clash, one a frequency out of range. The plans
hold every classification, areas that touch and that miss, frequencies at and
beyond the threshold. Three manifests are one, its successor, and one of an
unsupported contract. `MaxPassword` of 2 is a first and a changed password.
`MaxLate` and `MaxDispositions` bound edits after an approval and
dispositions. Symmetry is used on sets whose elements only occur in
equalities, in runs of safety and action properties; the run with liveness uses
none. `CHECK_DEADLOCK FALSE` stands where ids run out: a bounded set of rows,
all created and settled, leaves nothing to do.

### Fairness

Only `FairSpec` of `AuditChain` states fairness: weak fairness of each
request's steps. A worker that has started a request executes it to the end (or
dies, which rolls back: `HandlerFails`); PostgreSQL grants a row lock once it is
free, and only the requests that were under way when a row was the newest ever
queue on it, so each of them gets its turn. A handler calls `record_event` a
bounded number of times (`EventsPerRequest`). No fairness is assumed of
clients, and none of background work: terrain runs and bundles are started by
requests, which nobody owes.

## 4. What the models show about the code besides

Behaviours that follow from the same unlocked check-then-write pattern, which a
reader of the models will meet and for which there is no run of their own:

- audit: the row found is chosen before the wait for its lock; only the UNIQUE
  sequence stops a second writer, whose request fails.
- plans: two copies that both found no draft leave two drafts; two approvals
  both write `approved_at`; an unlocked REST edit writes after the approval, or
  over a newer mutation; a reorder has no token for the order, since moving one
  row does not raise the revision version; a link checked against the draft
  commits after the freeze, without a snapshot, and the official export
  refuses it.
- inventory: a form that read an asset before its checkout writes its old status
  back, and may set `checked_out` with no checkout behind it (the `forced`
  assets); two forms make two assets each other's parent; an attachment's
  deletion that is rolled back has already removed the file.
- rf_analysis: a PATCH that passed the look-up in the version's `save`
  (`rf_analysis/models.py:291`) before an approval overwrites the approved row
  as a draft, while `models.py:299` says "Approved subscriber profile versions
  are immutable." and ADR-0008 (lines 49 and 143) that they are frozen; a PATCH
  between the approver's reading and his write is published with the ERP, path
  and notes of that reading; the step of a generalized longitude comes from the
  cosine of the exact latitude (`calibration.py:142`), so that the stored
  longitude is on no grid that the row declares, while ADR-0012:26 says that
  coordinates are rounded "to the declared grid"; the circles of an estimate
  are centred on the live site; approving a calibration set reads the reviews
  unlocked.
- fcc_data: two racing imports leave two current batches, and the dataset is
  "ambiguous" until the next quiet import, while
  `docs/operations/fcc-server-automation.md:25` requires one current batch; an
  old archive that is imported again is recognised and not made current; rows
  of frequencies that differ only in power refuse the import; location numbers
  must parse even for licenses that are excluded; the tower details are
  separate queries, whose count and page may come from different batches
  (`DetailsExplained` says that only an import in between explains it).
- resources: a preview is valid even when the provenance will be refused; the
  digest of a release is what its payload declares (`serializers.py:116`), and
  is compared with the approved list but with no record.
- incidents: a rename that had read the incident open un-archives it; a PATCH of
  a membership revives one that was deactivated in between; edits of an ICS 205B
  form do not look at `archived_at`, and one that moves a form checks the
  permission of the old incident only.
- accounts: a login that had passed its check creates a token after the account
  was disabled, or after a reset with the old password; two creates can use one
  e-mail address, and a reset by address finds the first; two confirms of one
  reset link may both pass.
- extensions: the purge removes only installations with the prefix
  `synthetic-`, which the built-in `ics205-readiness-summary` does not have;
  an export of an execution names the digest of the present installation.
- ICS 205B: a reorder compares ids as sets, so a list that names one twice
  passes; a deletion that races leaves a gap in the numbers.

## 5. Theorems

Proved with TLAPS, for every value of the constants that satisfies the named
assumptions which the leaves cite. TLC evaluates each of them in its run:

| Assumption | Says |
|---|---|
| `AuditAssumption` | a request records at least one event |
| `CollaborationAssumption`, `PlanRequestsAssumption` | seeded and linkable assignments are assignments, bodies are bodies, bounds are numbers |
| `CustodyAssumption`, `ImportAssumption` | finitely many assets; listed sets are subsets |
| `ProfileAssumption` | finitely many versions (a copy takes the greatest number plus one); NULL is not a row; an edit sends values that its fields take |
| `TimeAssumption`, `FixtureAssumption`, `NullAssumption`, `InputAssumption` | the cache lives for a while, fixtures are samples, NULL is not a row, heights and powers are numbers or NULL |
| `PresetAssumption`, `SettingsAssumption`, `SlopeAssumption` | presets have the numbers and the positive rounding that the engine insists on, a configured provider is a provider, NULL is not a height |
| `BoundsAssumption`, `StepsAssumption`, `RowsAssumption` | sample and review bounds; for each precision a positive step in latitude, and one in longitude at every latitude; finitely many observations and sets; NULL is not a set |
| `FccAssumption`, `AssignmentAssumption` | files have finitely many rows, limits are numbers; frequencies and places are numbers, sites of one assignment are at different places |
| `AccessAssumption`, `ExtensionAssumption`, `InformationAssumption` | the first user exists, roles asked for are roles, manifests have a contract and revisions an incident, NULL is not a row |

**AuditChainProofs** (any number of requests). `ChainAlwaysVerifies`,
`AuditTypeCorrect`, `OutcomesAudited`. `ChainVerifies` is not inductive: a
request that is about to insert must chain to a row that is still there. The
invariant `ChainInv` adds that committed rows and any request's own rows have
distinct sequences, that each row's predecessor is visible to whoever inserted
it, and that the row a request found is visible to it. `OutcomeInv` adds that a
request's own rows are exactly its events 1..n.

**CollaborationProofs** (any number of workers, mutations, assignments,
revisions). `CollaborationTypeCorrect` rests on `TypeInv`, which adds to
`TypeOK` that what a request read refers to rows that exist
(`GroundedInv`). `MutationsAppliedOnce` and `ReplaysIdempotent` follow from the
ledger. `ApprovedContentStays`: mutations re-read the status under the
revision's lock, links do not touch content, copies write other revisions.
`VersionsIdentifyValues` needs `TokenInv`: for each payload, the token is sound
*and* not ahead of the row's version, because versions only grow and every
change of a value raises the one that its operation compares.
`NothingSilentlyOverwritten` follows from that and the version check.
`CopiesStartFromApproved` needs `CopiesInv`: a copy that has seen no draft reads
an approved revision, approval is final, and every approved revision has been
sealed with the content that it still has. `WorkflowImplementsLifecycle` maps
each commit to one step of `RevisionLifecycle`: a saved mutation edits a draft,
an insert opens a revision that did not exist, an approval approves a draft, or
shows nothing new when another request approved it first.
`ApprovedReachedByLateEdits` is about the composition with the REST endpoints,
whose edits are unversioned: there approved revisions are not immutable, and
the theorem says what still reaches them. `SystemInv` keeps the tables and
payloads typed (`StoreInv`) and says of each request in flight that it refers
to what exists, a REST request about a row to the revision of that row
(`RestGrounded`): rows never change revisions, so a stale row is written where
it was read. Each kind of step then writes the revisions of one request that
was past its check, or a draft, and only `SaveGate` on a draft lets a request
past it.

**InventoryProofs** (any number of assets, checkouts, editors, batches,
importers, uploads and deletions; the first five theorems are about `Spec` of
`AssetCustody` alone, the others about the composition `InventorySpec`).
`CustodyTypeCorrect`, `OneAccountable`, `LicensesKeptWhileOpen`,
`CheckoutsClosedForGood`, `CustodyKept`. `CustodyAgrees` is inductive only
together with `TypeOK` and `OneOpenCheckout`: closing one checkout of an asset
may change its status only if no other is active for it.
`BatchesImportedWhole` needs `ImportInv`: only
one importer has a batch locked, as a preview of rows that are well-formed and
not checked out, and whatever an import created is still known, since no
service or form empties a status. So an id that a commit finds free has no
source yet. `CustodyKeptBesideImports` carries the three custody invariants
over to the composition. `FilesDoNotOutliveRows` needs `AttachmentsInv`: ids
are used once, so a file that a deletion removed cannot come back before its
commit. `ImportsCloseNoCircle` needs `AncestryInv`: parents are assets of the
table, those that a form will write as well, and the rows of a preview without
errors have theirs in the table or in the file, where they close no circle. The
walks towards the ancestors before and after a commit are compared step by
step, by induction on their length: among the assets that were there it is the
walk that was (`SameWalk`), and from an inserted row it meets the rows that the
walk of the preview met (`RowsWalk`), which never returns (`CircleStays`).

**ProfileVersionsProofs** (any number of requests and versions).
`PublishedContentIsTheRow`: approval writes the row it refreshed under its
lock, so `ProfileInv` says what requests in flight hold: a whole row, and that
of a draft where an edit or a copy will write it. `ApprovedVersionsStay` adds
`HeldInv`: what an approval holds under its lock has the status that the row
has, and nobody else holds that lock, so no approval writes an approved row and
no PATCH passes the look-up on one. `ProfilesTypeCorrect` needs `TypeInv`: what
requests hold is typed, approved rows are complete, and a version implies its
profile. The next number exists because a finite set of numbers has a greatest
one (`GreatestExists`).

**TerrainJobsProofs** (any sites, inputs, jobs, configurations).
`ProfilesStartAtInput`, `TerrainOutcomesKept`: while a run holds its locks its
job stays queued and its site where it was (`RunInv`), so the snapshot it
compares with is that of the coordinates it computes from. `EvidenceChainHolds`
follows the evidence from fetched elevations to what is built upon them
(`EvidenceInv`): a fetched row is not NULL and so is never overwritten, an HAAT
calculation fits the elevations stored for its place and source, and what
an estimate or a job was built upon stays approved and complete.
`EvidenceTypeCorrect` needs `HeightsKnown`: a calculation that is not
"unavailable" has a height, so the engine computes with numbers, and its
distances come out as natural numbers whatever budget, horizon and rounding
are (`CalculateTyped`).
`SamplesCounted`: multiples of a step are counted by a bijection with an
interval, for every range and step (`DistancesCounted`,
`PathDistancesCounted`). `LineOfSightClear` unfolds the recursive pass along
the profile by induction and keeps `PassInv`, that the steepest sample so far
stands for all of them; `ReachExact` states it for profiles of every length.
Both properties list the ranges that TLC evaluates; the lemmas have no such
bounds.

**FieldCalibrationProofs** (any number of observations, reviews, sets, bundles,
requests). `EvidenceStaleForGood`: a link of a set is the whole history of
reviews or shorter than it, and histories only grow. `BundlesAlwaysSound`: a
bundle's set is approved and complete; approved sets do not change, which needs
that two requests never approve the same set (`PendingInv`).
`CalibrationTypeCorrect` needs `RowsTyped`: a generalized point has its
latitude on the grid of its precision and its longitude on the grid of some
latitude within half a step of the stored one, for all steps and limits
(`RoundedNear`, `GeneralizedCoarse`), errors can be sorted, so there is a
median (`OrderedTyped`, `MedianTyped`), and a version never exceeds the number
of sets.

**ReferenceDataProofs** (any archives, payloads, plans, importers, readers).
`ImportsKeepCurrent`, `QuietImportsSettle`: what an import has cleared was seen
by its UPDATE and is of its own dataset, and once it loads, every batch it saw
that is still current is one it has cleared (`FccInv`).
`CisaReleasesStayReviewed`, for every CISA type: the source that an import
found has its provenance until it commits, for sources never change, and one
that it creates is created by nobody else (`LibraryInv`).
`TowerDetailsExplained` needs `TablesInv`: the batches a reader saw were stored
then, and one that left `current` never returns. `AvailableCountsExact`: the
counting pass of the spool, a fold, is brought to a closed form by induction on
subsets of the lines; as keys are unique, an archive that is imported has as
many rows as counted lines. `NothingPassedInSilence` needs `AnalysesInv`: a
stored result is what the rules say of the stored input, whose rows are typed.

**IncidentServicesProofs** (any users, overrides, incidents, workers, forms).
`NoSessionBeforeActivation`, `SignInsStayChecked`, `AccountsMadeByManagers`,
`ExecutionsWereReviewed`, `ReferencesHold`, `ArchivedIncidentsClosed`, all from
`ServicesInv`: each request in flight has a typed row and is about incidents
that it read open (`RequestInv`), those about accounts hold accounts that exist
and were created by a role that manages accounts (`AccountInv`), an enabled
manifest, and the one that a run in flight uses, was reviewed (`ReviewInv`),
and a period belongs to one incident in whatever rows, forms and requests name
it (`IncidentInv`). `AccountsMadeByManagers` has no hypothesis on the
overrides: a deployment that grants `account.manage` to another role thereby
names those who make accounts, and incident roles still do not.
`SignInsStayChecked` needs besides what each kind of step does to logins under
way: all but `BeginLogin` only end them (`LoginsShrink`).

Only model-checked: `EveryRequestEnds`, since liveness under fairness is out of
the prover's reach, and the two refuted statements of section 3. What recursive
functions and folds compute (the ancestor walks, the spool's counts, the line
of sight) is proved by induction over numbers and subsets, each time with the
induction's set of good cases written out, through the well-foundedness of `<`
on naturals and of finite subsets.

## 6. Not modelled

- Numerical code: propagation, ERP, geodesy and coordinate formats. What is
  modelled are the comparisons by which it decides states and bounds.
- Conversions and layout: spreadsheets, geocoders, GeoJSON/KML, PDF and XLSX
  output, the pages of an ICS 205B, driver-license formats, encryption, the
  text fields of FCC rows, the NIFOG match index.
- Reads that write nothing but an audit event: downloads, exports, the
  verification of an export, status views.
- Conflict records and their resolution, presence leases, sensitive-field
  rules, assignment relationships, plan comparison.
- Row locks as state: lock cycles (collaboration or a checkout of several
  assets against the audit row) are broken by PostgreSQL with an abort, which
  the models have; that every cycle ends is not shown.
- The external identity bridge (disabled; `provision_shadow_identity` is called
  by no route), hidden synthetic accounts, the RadioReference provider
  (disabled).
- Deployment, server automation and recovery scripts: their state is lock
  files, processes, container volumes and remote runs, which the repository
  does not define. What they rely on in the application, one current batch for
  each dataset, is in `FccReference`.
- The user interface beyond the mutations that it composes.

## 7. Plan

Done: the audit log under every request (`AuditChain`), the editing and
approval workflow (`Collaboration`, `RevisionLifecycle`, `PlanRequests`), the
inventory, RF analysis from elevations to validation bundles, reference data
with deconfliction, accounts, incidents and extensions.

Next, in this order:

1. Theorems: what copies and mutations promise (`AppliedOnce`,
   `NoSilentOverwrite`) in the composition of `Collaboration` with the REST
   endpoints, stated with the exceptions that unversioned edits make.
2. Conflict resolution composed with `Collaboration`: conflicts, their
   resolution and the change they name as intervening; presence leases.
3. Row locks as state, for the two lock orders named above.
