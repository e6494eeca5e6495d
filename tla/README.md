# Verification of the Arduino component knowledge base

TLA+ models of the backend in `src/src/arduino_component_kb`, TLC configurations that check
them on small instances, and TLAPS proofs for every value of their constants. Code paths below are
relative to `src/arduino_component_kb/`, paths to `docs/` to the repository root.

## 1. The system

PostgreSQL is the only truth. Everything slow runs in workers that take opaque job ids from
Redis (Dramatiq); Redis may lose or repeat any message. MinIO holds originals and variants.

| Component | State | Operations | Talks to |
|---|---|---|---|
| Job dispatch (`dispatch/`) | `job_dispatches` rows: pending, delivered, failed; attempts | add, reset, recover, claim, publish, mark delivered or failed | shares a transaction with import, media and legacy jobs; publishes to Redis |
| Import jobs (`imports/processor.py`, `repository.py`, `api/imports.py`) | `import_jobs`, `component_sources`, Redis lock per entity | submit, claim, acquire, parse, save, cancel, retry | dispatch, catalogue, deduplication |
| Media (`media/`) | `media_assets`, `media_jobs`, `media_variants`, MinIO objects | reserve, put, confirm, claim, process, complete, reject, retry, retention | dispatch, catalogue |
| Legacy bundles (`legacy/`, `api/legacy_imports.py`) | bundles, items, plan and confirmation hashes, source links | upload, analyse, decide, confirm, apply, cancel, retry | dispatch, media, catalogue |
| Catalogue (`catalog/`) | component status, revision, edit token, snapshots, search documents | edit, submit, approve, publish, hide, archive, restore | search, media |
| Synchronisation (`catalog/synchronization.py`) | edit tokens, creation keys | create, synchronise, approve and publish | catalogue, media |
| Deduplication (`deduplication/`) | candidate pairs, merge decisions | score, generate, merge, attach, reject | catalogue |
| Authentication (`auth/`, `api/admin.py`, `bootstrap.py`) | accounts, role grants, sessions, throttle | register, log in, log out, create, disable, reset, change roles, revoke | every API |
| Import pipeline (`imports/pipeline/`) | rows of a review draft, the KiCad index | stages over one page, publish and load the index | import worker |
| Import review (`imports/review.py`, `review_metrics.py`) | review state with revision, audit trail | decide, change relation, map, confirm; metrics | pipeline rows |
| Frontend, deployment, migrations | none the backend relies on | | |

What makes each component correct, and where it is hard:

* **Dispatch**: an unfinished job always has something that will move it; attempts are bounded;
  a job whose delivery is exhausted fails with its intent. Hard: the reconciler can stop between
  counting an attempt, publishing and recording; several reconcilers may run; rows are reset
  while a publication is in flight.
* **Import jobs**: one worker per job, one draft per entity, settled jobs stay settled, every
  job is settled. Hard: at-least-once delivery, leases and lock TTLs, and worker sessions that
  keep the row as it was at the claim, so that later checks look at old values.
* **Media**: the limit per component, the agreement of asset and job, no deletion of what is
  served. Hard: workers never look at their rows again, retention decides and deletes at
  different times, confirmations race with expiry.
* **Legacy bundles**: what is applied is what was confirmed, an identity becomes one card, a
  published card is not touched, a completed bundle has nothing left to do. Hard: two bundles with
  the same row, cards that change between decision and application, workers whose advisory lock is
  lost, backpressure through the bundle's own dispatch.
* **Catalogue and synchronisation**: the search index shows exactly what is published; students
  read what was approved; no lost update. Hard: stale tabs by token and by revision, autosaves that
  make no revision, restorations that bypass checks.
* **Deduplication**: a pair has one score, a merge loses nothing that was approved.
* **Authentication**: an administrator remains, a session does not outlive a change of its account (but that
  of a login under way), guesses stay bounded. Hard: a login verifies a password for a long time between
  reading and writing; an administrative request resolves its actor before it waits for its locks.
* **Pipeline**: a draft says only what the page says, what is ready needs nobody, an incremental
  index is the full one. Hard: the number of stages whose checks depend on each other's results.
* **Review**: decisions apply to what was seen; the samples of a report carry what was decided last.
  Hard: workspaces and reports read in several statements, rows of a failed run, indexes replaced
  under a running worker.

## 2. Modules

| Module | Models |
|---|---|
| `JobDispatch` | the outbox: rows, the reconciler's passes, the queue; the half of every operation that all job types share |
| `ImportJobs` (extends it) | `import_jobs`, the parser worker, cancel and retry, saving a draft |
| `ImportPromise` | the abstract specification: a request is taken up by one worker at a time and concluded once, an entity gets one component |
| `ImportRefinement` (extends `ImportJobs`) | the refinement mapping from jobs, leases and workers to the promise |
| `MediaJobs` (extends `JobDispatch`) | assets, media jobs, variants, objects, image and video workers, retention |
| `MediaPromise` | the abstract specification: an upload is processed by one worker at a time and only by it made ready, for good; what a rejected upload may still become |
| `MediaRefinement` (extends `MediaJobs`) | the refinement mapping from assets, jobs, dispatches and retention to the promise |
| `LegacyBundles` (extends `JobDispatch`) | bundles and items from upload to completion, cards as far as bundles touch them |
| `LegacyPromise` | the abstract specification: a plan is decided about, confirmed and from then on applied row by row as it is, only while its bundle is being applied; no row is forgotten |
| `LegacyRefinement` (extends `LegacyBundles`) | the refinement mapping from bundles, items, links, locks and workers to the promise |
| `LegacyPlan` (uses `DuplicateScores`) | what a workbook and an archive are read into: members, targets, folders, decisions, merges, pictures |
| `Catalog` | cards: lifecycle, edits by token and by revision, snapshot and search document, decisions about duplicates |
| `DuplicateScores` | preselection, scores and the rows a generation leaves |
| `Accounts` | accounts, grants, sessions, throttle, administration |
| `FactExtraction` < `CardIdentity` < `KicadMatching` < `CardComposition` | the stages of the pipeline over one page, each extending the one before |
| `KicadIndex`, `KicadIndexer` (extends it) | the index of the KiCad libraries built from a cache; an indexer over many builds |
| `PipelineRuns` | shadow runs, their savepoint and retries, publication and loading of the index |
| `ImportReview` (extends it) | the review desk, the audit trail and the metrics |
| `ImportJobs_proofs`, `Catalog_proofs`, `Accounts_proofs`, `MediaJobs_proofs`, `LegacyBundles_proofs`, `ImportReview_proofs`, `Algorithms_proofs` | theorems |
| `FoldTheorems` | what `FoldLeft` does on a sequence of any length, for an operator that is a constant of the module |
| `MCImportJobs`, `MCMediaJobs`, `MCCatalog`, `MCAccounts`, `MCLegacyBundles`, `MCImportReview` | instances for TLC |
| `MCCards`, `MCAlgorithms` (extends it) | the spaces of inputs of the pure algorithms; an indexer beside them |

`JobDispatch` has no specification of its own: `reconcile_once` reads and writes the job table in
the same transaction, so the module that owns the job conjoins its half (`Reconcile`,
`RecordRefused`) and states `Spec`. Definitions with "Mutant" in their comment are not part of any
specification: each is a plausible bug in the operation after it, and shows that a property depends
on that operation.

### How state and actions correspond to the code

* One transaction that takes its row locks first is one action. Work outside transactions
  (download, decoding, publishing) lies between actions. The transaction that saves a draft is
  two actions, because it reads the catalogue long before it inserts; it holds its job's row
  lock in between (`RowFree`). The retention run is one transaction with row locks on its
  candidates (`AssetFree`), and its deletions in MinIO are visible at once.
* **Sessions.** `db.py:47` sets `expire_on_commit=False`, and no query asks for
  `populate_existing`: a `SELECT ... FOR UPDATE` of a row the session knows locks it and returns
  the attributes it already had. `ImportJobs` models this with `stale`, `SeenStatus` and
  `SeenAttempts`; a rollback (`AbortSave`) expires them. Media workers do not even select again,
  so `MediaJobs` writes outcomes unconditionally, apart from what the database's constraints
  refuse (`ConstraintsAllow`).
* `Catalog` stands alone: what an import or a worker does to a card is `Create` and `ImagesReady`.
  Every endpoint locks its card, compares what the client sent and commits once, so an endpoint is an
  action; the interleaving is between the clients, whose tabs hold what they last read (`seen`:
  token, revision, content, status). `Admits` is the guard of the endpoints by revision (a client
  without tokens sends its revision in place of one), `Synchronize` and `ApproveAndPublish` compare
  tokens, `AttachMedia` and `Decides` revisions. The trigger that advances `edit_token` counts flushes, which
  is why an autosave adds two and no revision. Only the decision about duplicates reads before it
  locks (`StatusReadBy`). Content is the number of its version; `basedOn` and `approved` are history
  variables.
* `confirm_upload` takes its time before it waits for the row lock and the storage, so in `MediaJobs`
  a request to confirm takes its time in a step of its own (`TakeTime`) and goes by it when it ends
  (`EndInTime`): the upload may expire, and its place be given away, in between. `late` is history: it
  marks an upload that had expired when its confirmation committed.
* In `Accounts` a request reads, may wait for advisory locks (`LocksOf`), reads what it decides on
  and commits; other requests commit in between. A failure is counted with the time its attempt
  began. Time is counted here, because windows, blocks and lifetimes are compared. As history, a session
  says when its login began and which secret it verified, and `changed` notes when the status, the
  grants or the secret of an account changed last, whichever action did it, and which sessions there
  were then. Revoking sessions is a part of the operations and not of this history.
* In `LegacyBundles` an item is applied in one action (the advisory transaction lock, the look at
  the candidates, card, link and item commit together); the worker's session lock on the bundle may
  be lost under it (`lease`), after which a second worker enters. A hash is the value it is taken
  of. Editors change, publish and review cards while bundles are applied.
* In `ImportReview` loading a workspace is three steps, because `ImportReviewRepository.get` reads the
  symbols, then the review state with its revision, then the actions; an action locks the review state
  and compares. A report takes two steps: `ReviewMetricsRepository.snapshot` selects the audit trails
  (`ReadTrails`) and then the rows (`ReadRows`) at READ COMMITTED. `metrics.seen` is how far it has read
  each trail, and its samples are computed from that and from the rows.
* `PipelineRuns` keeps the tables a savepoint writes; a run is abandoned, failed or saved with the
  import's transaction. What the stages compute is given by `Found` and `Verdict`. A publisher writes
  a temporary file and links it; a file's inode is that of the publisher that wrote it, and the loader
  uses its cache only for the same inode and the same pin (`Loaded`), as `_file_signature` has it.
* The algorithms are operators that take their input as an argument: a page is a sequence of lines with a form
  and the parts that the regular expressions pick out; texts are compared by a normal form that is a constant,
  as are the folding of case, the upper case of part numbers and the aliases of manufacturers
  (`pipeline/normalization/values.py:71,134,153`), whose entries in `MCCards` rewrite what a page says;
  positions are line numbers, so a piece of evidence is a set of lines and a method. Scores are the integers
  (basis points) of the code or parts of a common `Scale`.
* **Time** is otherwise not counted. `leaseFresh[j]` says whether the heartbeat is within the lease;
  `next_attempt_at`, `delivered_at`, the claim lease and backoffs only decide when a row may be
  picked, so a pass of the reconciler picks any subset of the rows that can be due, which covers
  SKIP LOCKED and batch limits too. `SlowWorkers` decides whether a lease or a Redis lock may
  expire under a worker that is still processing.
* **Data** is abstracted to what properties tell apart: an import is the entity its document
  resolves to (`EntityOf`), an original is an image or something else, variants are absent,
  recent, or older than the grace period of retention, a row of a workbook is an identity with a
  topic.
* **Left to the environment**: Dramatiq (a message is redelivered when its worker dies, retried
  up to `max_retries`, then dropped), Redis, MinIO, the browser's upload, operators in the
  database. These definitions are marked external.

## 3. Runs

Every disturbance (crash, loss of a message, refusal by the broker, restart of the reconciler,
manual retry, cancellation, ...) may happen a bounded number of times. A *profile* gives these
numbers, `Profiles` is the set a run considers, and a behaviour starts with one of them (`left`).

| Run | Checks | Instance |
|---|---|---|
| `ImportTwoJobs` | `TypeOK`, `OneDraftPerEntity` | 2 jobs of one entity, 2 slow workers |
| `ImportLeases` | `OneWorkerPerJob`, `KeepsThePromise` | 1 job, 2 workers, 2 reconcilers, each disturbance but retry once, 2 messages |
| `ImportLive` | `NoJobIsStranded`, `SettledJobIsFinal`, `EveryJobSettles` | 1 job, 2 workers, 3 attempts, three profiles |
| `MediaSafe` | `WithinImageLimit` | 2 uploads, room for 1, 2 workers; a crash and a retention run, or a restart and a loss; 2 652 194 states |
| `MediaLive` | `JobAndAssetAgree`, `CleanedIsGone`, `ServedVariantsStay`, `UploadsKeepThePromise`, `EveryUploadSettles` | 1 video, 2 workers, 3 attempts, two profiles; 353 502 states |
| `CatalogSafe` | `TypeOK`, `SearchShowsWhatIsServed`, `ServedWasApproved`, `NoLostUpdate` | 2 people; 1 card through every operation but merge, or 2 cards with merge and edits, or with merge and restoration |
| `AccountsSafe` | `AnAdministratorRemains`, `OneCurrentGrant`, `EveryoneKeepsARole`, `SessionsPostdateChanges`, `FailuresStayBounded` | 2 accounts (1 with outdated hashing), 2 requests at a time, time up to 4; seven profiles; 1 637 476 states |
| `LegacySafe` | `OneCardPerIdentity`, `AppliedAsConfirmed`, `NothingPublishedUnreviewed`, `CompletedIsSettled`, `BundlesKeepThePromise` | 2 bundles sharing an identity, or 1 bundle with 2 workers and a pair of faults with a retry or a cancellation |
| `LegacyLive` | `EveryBundleSettles` | 1 bundle, 2 workers, four profiles of two disturbances |
| `Algorithms` | `EvidenceIsOnThePage`, `ReadyNeedsNobody`, `AcceptedOnTwoLines`, `IncrementalIndexIsFresh`, `AnalysisKeepsTheWorkbook`, `ApplyingOnlyAdds`, `ScoresAgree` | every page, workbook, archive, merge, offer and pair of cards of small spaces (37 500 inputs), and an indexer over any sequence of 125 snapshots (2 files of one library, 1 not indexed; 4 contents) at 2 revisions; 54 442 states |
| `ReviewDesk` | `RowsAreWhole`, `ConfirmedIsDecided`, `MetricsCountDecisions`, `ActsOnWholeTrail`, `PublishedIsKept` | 2 runs, 2 pages, 3 indexes (1 broken), 2 publishers, 2 reviewers, seven profiles, one of them with a report; 2 765 300 states |
| `ReviewTorn` | `DecidedAsShown` | the same with 1 run: **violated** |

All but the last hold. That a saved import stays saved (`SucceededStays`) and a ready picture ready
(`ReadyStays`) has no run of its own: `KeepsThePromise` and `UploadsKeepThePromise` imply it, and section 4
proves both. `ReviewTorn` shows that optimistic locking
(`docs/imports/ROADMAP.md:76`) guards the revision and not what the page showed: the symbols of a
workspace are read before its revision (`imports/review.py:115`), so a decision that commits between
the two statements gives an old symbol with the new revision, and the reviewer overwrites a decision
on a symbol his page shows as undecided. `ActsOnWholeTrail`, which holds, is the weaker promise: the
audit trail, read after the revision, was complete, so the other's decision is listed there.

**Bounds.** `MaxAttempts` is 2 or 3 (the code's minimum is 2, its default 4): enough for a first, a repeated
and a last attempt, which is what the guards tell apart. `MaxMessages` (1 or 2) is the number of copies of one
message that may wait; a duplicate needs two. Two jobs are what a race for an entity or a place needs; the
rest of the state is per job, so liveness runs take one. Two workers and two reconcilers are what a race for a
job needs. In `Catalog` only the operations that could be repeated for ever are counted (`Operations`); a tab
may be read again at any time, two people are what a stale tab needs, two cards what a merge needs, and one
card of the two is `manual_original`. In `Accounts` two administrators against each other need two accounts
and two requests; `MaxTime` 4 is longer than a window and a block (2 each, equal as the shipped 900 seconds
are) and each session (1 and 3), a request takes up to 1, and the limit of 2 failures is passed by two
requests in flight. One of the two accounts is `Outdated`: its logins store the secret they verified anew.
Behaviours end when the time is over, so deadlock is not checked there; nor in the bundles and the review,
where the counted operations run out, nor for `Algorithms`, whose behaviours end when an input is examined (a
page runs through the pipeline one stage a step). In `LegacyBundles` one bundle has the identity of the other
and one more; two are what two decisions about one row and an item left over need. In `MCImportReview` the
first release leaves a specification unmapped, and the three symbols have the three decisions of the matcher;
the profile with a report has three actions and a mark of the curator, which is a change of a relation, a
decision and a confirmation on either side of the first statement. The pages of `MCCards` are put together
from blocks (front matter, title, introduction, two specification sections, identifiers, code, other sections)
with one or two choices each, so that contradictions, repeated evidence, unsafe lines and missing parts meet;
the offers of `MCAlgorithms` have three cards and offer two (`Offered`), so the cut is exercised; the
prefilter's limit (`Considered`, 20) is never reached with three cards and is out of the run's reach.

**Fairness** (`Fairness` of `ImportJobs`, `MediaJobs`, `LegacyBundles`): services run in a loop under
a supervisor (`compose.yaml`: `restart: unless-stopped`), so a worker that is processing goes on and the
reconciler finishes its pass (weak); a waiting message is taken eventually although workers may be
busy or the row locked again and again (strong), and the reconciler gets to each row that is due
again and again (strong: `order_by updated_at` serves the oldest first); leases and TTLs run out.
Users, operators and disturbances promise nothing.

**What the passing runs leave out, and why.** Where code and documentation disagree, or a property
is known to fail, the profiles of the passing runs keep away from the case. These are:

* *A cancelled job is revived.* Claim, cancel, the download fails: the check for `cancelled`
  (`imports/processor.py:286`) looks at the session's copy and the job is `retrying`.
  `docs/REQUIREMENTS.md:386` says a worker cannot overwrite `cancelled`. `SettledJobIsFinal` speaks of
  jobs nobody holds, and `ImportPromise` gives a worker the last word (`Drop`). A manual retry
  together with a disabled source, or exhausted refusals while a worker holds the job together with
  a crash, a loss or a retry, have the same cause: the worker overwrites the `failed` it does not
  see, and the job may then be active with a dead intent.
* *A stranded intent.* An attempt is counted when a row is claimed. A restart between the last claim
  and its record leaves a pending row with no attempts left, which neither `claim_due`
  (`dispatch/repository.py:256`) nor recovery takes; `docs/ARCHITECTURE.md:122` promises recovery
  without loss of a task. `restart` is in no liveness profile.
* *The image limit and manual retry.* A rejected image gives up its place; `prepare_manual_retry`
  (`media/repository.py:456`) takes it back without counting. `docs/REQUIREMENTS.md:290` sets the limit;
  `MediaSafe` has no retry.
* *Retention and registered variants.* An attempt leaves variants behind, a day later a new attempt
  uploads and registers the same keys between retention's question and its deletion
  (`media/retention.py:90`); `docs/DEPLOYMENT.md:172` promises that registered variants are kept.
  `ServedVariantsStay` speaks of variants registered for longer than the grace period.
* *The image limit and a late confirmation.* `confirm_upload` compares the expiry with a time taken
  before it waits for the row lock, and then awaits `storage.stat` (`media/service.py:194`, `:206`, `:209`). An
  upload that expires meanwhile no longer counts, its place goes to another reservation, and both are
  processed: the component has one image more than the limit. `MediaSafe` has this behaviour (`late`);
  `WithinImageLimit` counts the uploads confirmed in time, and is violated if the late ones are counted too.
* *Slow media workers and double confirmations.* Workers of images send no heartbeat; with
  `SlowWorkers` two work on one image and `ReadyStays` fails. Two confirmations of one upload at a
  time (`double`) are modelled but in no passing profile: if the upload expires between them, the
  second rejects an asset that is being processed. `JobAndAssetAgree` speaks of assets whose
  dispatch has not been given up.
* *A login under way at a reset.* A login verifies the password and commits its session without
  looking again, so one that is under way when an administrator resets the password, disables the
  account or changes its roles commits a session after the others were revoked;
  `docs/REQUIREMENTS.md:122-129` has all sessions revoked. With outdated Argon2 parameters it also stores
  a new hash of the old password over the reset (`auth/service.py:101-104`). `AccountsSafe` has both;
  `SessionsPostdateChanges` bounds what they leave: a session that can be used after a change was
  committed after it, by a login that began no longer than a request takes before it, and a login that
  began after it verified the stored secret, unless the account's hash is outdated.
* *The throttle between two rounds.* A failure counts from when its attempt began, so a late one can
  leave a block that ends early. `FailuresStayBounded` bounds a counter by the limit and two rounds of the requests
  in flight, if a block is as long as the window and as two requests take. The shipped settings are
  such (limit 5, both 900 seconds, `config.py:69-71`); settings that the validators also allow (a block of 60
  seconds under a window of 3600) are not, and nothing is claimed of them.
* *A report torn in two.* The trails are selected before the rows (`imports/review_metrics.py:130-153`). A
  decision and a confirmation that commit between the two statements leave a confirmed symbol with no decision
  in the report, which excludes it as `unreviewed`, or as `lifecycle_mismatch` if it read an earlier one; the
  action ids of a sample may be incomplete, and its `relation_changed` may miss a change that was changed
  back. `MetricsCountDecisions` says what holds all the same; that no decided symbol of a confirmed draft is
  missed does not, unless the report has read the confirmation itself.
* *A merge and an autosave.* A card is published and autosaved (a draft, same revision); a merge that had read
  it before the autosave (`catalog/service.py:1009`, `deduplication/review.py:123`) archives it as formerly
  `published`; a restoration then serves the draft nobody reviewed (`docs/REQUIREMENTS.md:239`). The merge
  compares revisions, and an autosave makes none: `NoLostUpdate` fails too. No profile of `CatalogSafe` has
  both, nor merges with hiding or archiving (a survivor that was hidden or archived becomes a draft whose old
  snapshot can be read but is not listed).
* *A restoration without sources.* A merge moves the sources of a published card away and archives
  it; a restoration makes it published again without `_validate_publication`
  (`catalog/service.py:825`); `docs/REQUIREMENTS.md:219` requires a source. No property claims it.
* *A bundle given up.* The reconciler's giving up on a bundle overwrites one that was completed or
  cancelled meanwhile. And where a worker has passed a failed item, the bundle is failed by somebody else
  (the reconciler, a second worker after a lost lock) and retried by hand, the first worker goes on and
  completes it with a planned item behind it (`docs/LEGACY_IMPORTER.md:76`). No profile of `LegacySafe`
  has a broken item, a retry and such a cause; `CompletedSettled` and `RetriedSettled` below say exactly
  when `CompletedIsSettled` holds.
* *Lists of aliases.* `candidates` (`legacy/planning.py:123`) compares the models in titles and
  model fields, not in aliases, so a card that names no model can take items of two models;
  `ApplyingOnlyAdds` speaks of cards that name one.

## 4. Proofs

`ImportJobs_proofs`, for every number of jobs, workers, reconcilers, attempts, messages and every set
of profiles:

| Theorem | States |
|---|---|
| `TypeInvariant`, `TypeCorrect` | `Spec => []TypeOK` |
| `SettledFinal` | `Spec => SettledJobIsFinal` |
| `OneDraft` | `Spec => []OneDraftPerEntity` |
| `OneWorker` | `Disciplined /\ Spec => []OneWorkerPerJob` |
| `SavedStays` | `Disciplined /\ Spec => SucceededStays` |
| `NothingStranded` | `Disciplined /\ Undisturbed /\ Spec => []NoJobIsStranded` |
| `Implements` | `Disciplined /\ Spec => KeepsThePromise` |

They rest on `ImportAssumption`, `DispatchAssumption` and, for the last four, `Disciplined`: workers
keep within the lease and no profile has a manual retry. Without it they are false, as the model
shows; nor is `NoJobIsStranded` true when the reconciler may be killed (the stranded intent above) or
the broker refuses the last attempt of a job that a worker then revives, which is what `Undisturbed`
excludes.

* `TypeOK` is not inductive: that an attempt never exceeds the maximum needs the claim's guards and,
  for `claimAttempts`, that a worker that is busy holds a job (`BusyHolds`). `TypeInv` is both.
* `SettledFinal` follows from `TypeInv` action by action: only an action of a worker that holds
  the job, or a user, touches a settled row.
* `OneDraft` needs `FoundExists` (a worker that found a source row when its transaction began is
  right for ever, rows are never deleted); the index decides for the others.
* `OneWorker` needs `LeasedWhileHeld`: a held job that is not settled is `running` or cancelled or
  failed from outside, and while it is `running` its lease is fresh; hence no second claim. Its
  lemmas show that the reconciler, which resets no job, cannot break this.
* `SavedStays` needs, besides, that nobody holds a job that is `succeeded`.
* `NothingStranded` needs `IntentInv`: a dead intent is that of a failed job nobody works on (the
  lease keeps recovery away from a job that is worked on), and an intent whose last attempt has
  been counted is in the hands of a reconciler.
* `Implements` maps a job's status to open or settled, its holders to `busy` and drafts to
  components; every step of a worker is a `TakeUp`, `Save` or `Drop`, a pass of the reconciler a
  `GiveUp` on a set of requests, everything about messages, leases and attempts a stutter. It needs
  `TypeInv`, `LeaseInv` (one holder, so that a `Drop` frees the request) and `DraftInv`.

`Catalog_proofs`, for every number of cards, people and operations:

| Theorem | States |
|---|---|
| `TypeCorrect` | `Spec => []TypeOK` |
| `ServedApproved` | `MergeAlone`: `Spec => []ServedWasApproved` |
| `NoOverwrite` | `MergeAlone`: `Spec => NoLostUpdate` |
| `SearchShows` | `NoMerges`: `Spec => []SearchShowsWhatIsServed` |

They rest on `CatalogAssumption` and on what the table names: `MergeAlone` (no profile has merges and
autosaves) and `NoMerges` are what the cases above make necessary.

* `CatalogInv` is inductive and has `TypeOK`, `CandidatesKnown` (candidates are about existing cards),
  `Statuses` (who knows the revision knows the status, but for an autosave) and `Tokens` (who knows the
  token knows the content; a token is never behind its revision). The last is why a revision may be
  accepted in place of a token: `AdmittedHasSeen`. All follow from `StepCounted`: a step leaves a card
  alone, or advances its revision, or is an autosave.
* `ServedApproved` needs `ApprovedCards`: content is approved for as long as a card can get back to
  students without a review, so also while `approved`, `hidden` or archived from such a status.
* `Revisions` carries what a revision tells where autosaves and merges do not meet.
* `SearchShows` needs that the document is that of the snapshot unless the card is withdrawn.

`Accounts_proofs`, for any accounts, requests, settings of the throttle and numbers of operations:

| Theorem | States |
|---|---|
| `Types` | `Spec => []TypeOK`, with the constraints of `user_roles` |
| `OneGrantOfARole` | `Spec => []OneCurrentGrant` |
| `RolesLast` | `Spec => []EveryoneKeepsARole` |
| `ChangesEndSessions` | `Spec => []SessionsPostdateChanges` |
| `TheLastStays` | `Spec => AnAdministratorRemains` |
| `FailuresAreBounded` | `Spec => []FailuresStayBounded` |

They rest on `AccountsAssumption` alone (that there are finitely many requests is used by the last only).
`StepKinds` sorts every step into one of eight kinds (`Opened`,
`Enter`, `Created`, `Regranted`, `Replaced`, `Disabled`, `Ended`, `Passed`) by what it does to identities,
sessions, locks and requests; each invariant is preserved by each kind.

* `HoldsLocks` (a request that has read what it decides on holds its locks) gives `OneHolder`.
* `Existence`: what such a request read of the existence of its target is still so. An account comes
  into being only under the lock of its login, and never ceases to exist.
* `OthersRemain` is why nobody takes the last membership: if a request counted several administrators,
  there still is one besides its target, and if it saw no membership its target has none. Creations do not
  take the membership lock, but they only add accounts; all that take a membership do.
* `ChangesEndSessions` needs `HistoryInv`: what a login under way has verified was stored when it began or
  later (`LoginsInv`), and of the sessions that were there at a change none can still be used (`SessionsInv`).
  That a request ends at most `RequestTime` after it began (`InTime`) bounds how long before a change such a
  login began.
* `FailuresAreBounded` counts: `Counting(k)` is the set of requests under way that were admitted for a name
  and whose failure would still be added to its window. A request that ends takes itself from that set as it
  adds one, and none joins while the name is blocked. The first block ends at most a request's time before the
  window (`FirstRound`); what is admitted then comes so late that the first of its failures blocks until
  the window is over (`SecondRound`), and there is no third round (`Limited` of `ThrottleInv`).

`MediaJobs_proofs`, for any finite set of uploads and any workers, reconcilers, attempts and limit:

| Theorem | States |
|---|---|
| `Types` | `Spec => []TypeOK` |
| `CleanedStaysGone` | `Disciplined /\ Spec => []CleanedIsGone` |
| `RowsAgree` | `Disciplined /\ Spec => []JobAndAssetAgree` |
| `PicturesStay` | `Disciplined /\ Spec => ReadyStays` |
| `ServedStay` | `Disciplined /\ Spec => ServedVariantsStay` |
| `UploadsImplement` | `Disciplined /\ Spec => UploadsKeepThePromise` |
| `LimitHolds` | `Unrevived /\ Spec => []WithinImageLimit` |

They rest on `DispatchAssumption`, `MediaAssumption` and what the table names. `Disciplined`: workers keep
within the lease, no profile has two open requests to confirm one upload (the second may reject what the
first has confirmed), and none has both refusals and manual retries (a retry would revive a job that
was given up while its worker still holds it). `Unrevived` has neither: a failed upload is not
counted, so a retry, or the worker of a job that was given up, brings it back past the limit. Uploads
confirmed after they had expired are outside the limit in every profile (`late`). The
profiles of both runs are disciplined, those of `MediaSafe`, which checks the limit, unrevived as well.

* `StoryInv` is inductive and says five things of one upload: who holds it (`WorkerOf`: one worker, with
  a fresh lease, or its delivery was given up for good), who may still confirm it (`UploadOf`), that
  variants, asset and job are finished together (`PictureOf`), what retention locks or lists
  (`RetentionOf`) and how the two rows agree (`RowsOf`). `LeftAlone` covers every upload a step
  does not touch; there is one lemma for the steps of each actor.
* `PicturesStay` and `ServedStay` follow since variants, once registered, stay so (`RegisteredStays`)
  and what retention lists is not registered or was uploaded again since.
* `UploadsImplement` maps an asset to where its upload stands and the holders of its job to `busy`. The
  code has one status for four ends of an upload; `EndOf` reads off the other rows whether it was refused
  before it had a job, rejected by a verdict, abandoned by the delivery (its worker may still make it ready,
  as `MediaJobs` allows) or cleaned. Steps about messages, leases, variants and ages are stutters
  (`Stutters`), giving up and the sweep of retention move sets of uploads. Besides `StoryInv` it needs
  `GivenUpInv`, which holds in every profile: an asset whose delivery was given up is rejected or ready, never
  processing, since the dispatch, the job and the asset fail in one transaction and a retry resets both.
* `LimitHolds` needs `FirmInv` (a held job is running, only failed jobs have a dead delivery): then no
  step but a reservation makes an upload count that did not and is not late (`CountedBefore`); a late
  confirmation adds to `late` what it adds to the count (`LateStays`).

`LegacyBundles_proofs`, for any bundles, rows, identities, cards, workers, reconcilers and profiles:

| Theorem | States |
|---|---|
| `Types` | `Spec => []TypeOK` |
| `OneCard` | `Spec => []OneCardPerIdentity` |
| `ConfirmedIsApplied` | `Spec => []AppliedAsConfirmed` |
| `PublishedIsReviewed` | `Spec => []NothingPublishedUnreviewed` |
| `CompletedSettled` | `NothingFailedIsRetried`: `Spec => []CompletedIsSettled` |
| `RetriedSettled` | `WorkersKeepLocks`: `Spec /\ [][FailsByItsWorker]_vars => []CompletedIsSettled` |
| `BundlesImplement` | `NothingFailedIsRetried`: `Spec => BundlesKeepThePromise` |
| `RetriedBundlesImplement` | `WorkersKeepLocks`: `Spec /\ [][FailsByItsWorker]_vars => BundlesKeepThePromise` |

They rest on `DispatchAssumption`, `LegacyAssumption`, `ProfileAssumption` and what the table names. No
profile of the first hypothesis has both a broken item and a retry; none of the second a lost lock, and there
a bundle fails only when the worker that is on it does. The case above, where a bundle is failed behind the
back of its worker and retried, is what lies outside both.

* `LegacyInv` has `TypeOK`, `Told` (a plan that is being applied is the confirmed one: nothing is decided
  after the confirmation, and a retry goes back to planned items, never to the decisions) and `Applier` (a
  worker that has an item has one that is planned; the advisory transaction lock admits one such worker,
  even after the bundle's session lock was lost).
* `OneCard` and `ConfirmedIsApplied` follow from `RecordsInv`: a link is never turned (`LinksStay`), an applied
  item stays applied, a commit is the one step that makes a card.
* `CompletedSettled` needs `ProgressInv`: what lies behind a worker's position is settled (`Behind`), which
  only a retry of failed items can undo; `Calm` says that none is to come, or that nothing has failed.
  `RetriedSettled` shows instead (`Watches`) that nobody is at work on a bundle when it is retried.
* `BundlesImplement` maps a bundle to its stage, a plan to its decisions without what they were taken on, and
  links to sources; workers, locks, messages, positions, versions and the state of cards are forgotten
  (`Unseen`). `SettledKeeps` shows that it is all a matter of `CompletedIsSettled`: every other step keeps the
  promise in every profile, with locks lost and bundles given up under a worker. It needs `KeepingInv`: a plan
  that waits for its confirmation has a planned item for each decision and asks about the others (`Proposed`),
  so a confirmation leaves no row undecided; an item in hand is not one to skip (`InHand`), so only a row
  somebody wants can fail; and a bundle a reconciler is about to give up exists (`Condemned`), whatever it has
  become since.

`ImportReview_proofs`, for any runs, pages, symbols, indexes, publishers, reviewers and profiles:

| Theorem | States |
|---|---|
| `Types` | `Spec => []TypeOK` |
| `WholeRows` | `Spec => []RowsAreWhole` |
| `IndexIsKept` | `Spec => PublishedIsKept` |
| `WholeTrail` | `Spec => ActsOnWholeTrail` |
| `PeopleDecided` | `Spec => []ConfirmedIsDecided` |
| `MetricsCount` | `Spec => []MetricsCountDecisions` |

They rest on `PipelineAssumption` and `ReviewAssumption` alone. `Steps` sorts a step into those of the
pipeline, loading a workspace, an action of a reviewer (`Decides`, `Reopens`, `Aside`, `Places`, `Confirms`),
a mark of the curator and a statement of a report; each invariant is preserved by each sort.

* `WholeRows` needs `Shadow`, which says for every stage of a run what it has written and reports: nothing
  before persistence or after a failure, every statement before the comparison, with a verified index; and
  `Cached`: a worker's cache was verified when it was read, and holds what the publisher of its inode wrote.
* `IndexIsKept`: a hard link fails where the name exists; and a cache with the inode of the file on the disk
  holds the content of that file (`LoadedIsRead`), so a run begins with what is there (`RunsTakeTheFile`).
* `WholeTrail` needs `Seen`: the trail a workspace shows is at least as long as its revision counts, because it
  is read later; hence an action that is accepted with that revision has it all.
* `PeopleDecided` needs `DraftDecided` while a draft is open (an accepted or rejected row has its decision
  as the last word in the trail, a mapped specification its place) and `Settled` once it is confirmed.
* `MetricsCount` needs `LabelInv` (a row's relation is the one last agreed to (`Agreed`), its status that of
  the last decision in the trail, and a draft is confirmed with no suggestion left), `EndInv` (nothing follows
  a confirmation) and `ReportInv` (a report has read no more of a trail than there is). A sample's row was
  read after its trail, so where the status of the row is that of the last decision that was read, it is that
  of the last there is (`SampleIsDecided`); and a confirmation that was read ends the trail, so all of it was
  read (`ConfirmedIsComplete`).

`Algorithms_proofs`, for inputs of any length and any values of the tables of constants:

| Theorem | States |
|---|---|
| `MergeAdds` | `MergeOnlyAdds` for a draft within its limits and any item |
| `ImagesGiven` | `ImagesFit` for any pictures a card has and any a plan refers to |
| `RowsKept` | `RowsAreKept` for a sheet in which no two rows have the same number |
| `ScoreIsShared` | the score of a pair, whichever card was the new one, if similarities are undirected |
| `GenerationsKeep` | `GenerationsAgree` for any shelf and any open candidates, if similarities are undirected |
| `IndexStaysFresh` | `IndexerSpec => []IncrementalIndexIsFresh`, for any paths, contents, libraries and revisions |
| `ReadyIsDecided` | `ReadyIsSettled` for any judged page and any library |

But for `IndexStaysFresh` they are parts of what `Algorithms` checks as `ApplyingOnlyAdds`,
`AnalysisKeepsTheWorkbook`, `ScoresAgree` and `ReadyNeedsNobody`; the properties are operators of `LegacyPlan`,
`DuplicateScores` and `CardComposition` that the MC modules and the theorems share.
A workbook numbers its rows itself, and similarity of trigrams and distance of pictures are undirected, so the
hypotheses say nothing about the code.

* The code folds over rows, specifications, aliases and pictures. `FoldTheorems` has the operator that is folded
  as a CONSTANT, so that each fold is an instance of the module and no theorem has an operator for a parameter.
  `FoldExists` shows that the community modules' recursive function exists, by a least prefix for which it
  would not; `FoldLeftKeeps`, `FoldLeftTakes` and `FoldLeftRests` follow: a set closed under the step holds the
  result, what a step takes in and later steps do not lose is in the result, and a fold that changes nothing at
  any element leaves its base.
* `MergeAdds`: a step appends or stands still (`SpecsOver`), and after it the item's label rests (`SpecRests`):
  it is there or the list is full; both stay so, hence the second merge is at rest throughout. Its
  proof found that the limit must be outside the search for the label (an empty list with limit 0).
* `RowsKept`: targets are one for an identity and of rows that have it (`TargetsOf`), and a row stays in its target
  with its pictures (`HasRow`).
* `ScoreIsShared` is symmetry part by part; `GenerationsKeep` needs it, because the two generations write the
  row of a pair from different ends.
* `IndexStaysFresh` needs `Sound`: whatever the indexer keeps of a library is what parsing its content gives;
  a build from a sound cache is `Fresh` (`BuildsAreFresh`), and one that fails leaves the cache it had.
* `ReadyIsDecided`: whatever the weights and scores, a route that is ready has no issue of any of the eight
  dimensions (`ReadyHasNoIssue`); each thing left open would be one (`ReadyCase`), proposed symbols unless one is
  accepted. `Judged` is what the earlier stages give: a title, paths of the registry, finitely many symbols.

What stays with TLC: liveness (`EveryJobSettles`, `EveryUploadSettles`, `EveryBundleSettles`: the prover has no
fairness); `SearchShowsWhatIsServed` with merges; of the algorithms `EvidenceIsOnThePage` and
`AcceptedOnTwoLines`, whose definitions pass a page through a dozen nested folds, the conflicts, the category and
the report of `ReadyNeedsNobody`, and the folders, whole bundles
and offers of `AnalysisKeepsTheWorkbook` and `ApplyingOnlyAdds`, and the scores of equal cards and of cards with
one more picture in `ScoresAgree`, which need the sums of a fold of known length.

## 5. Not modelled

* **Imports**: admission limits and idempotency keys (`_admit_submission`), source adapters (HTTP, git,
  HTML); their outcomes are free choices.
* **Media**: per-owner and byte quotas, ordering, previews, decoding and ffmpeg; the deadlock between
  a manual retry (job, then dispatch) and `mark_delivery_failed` (the reverse), which PostgreSQL resolves by
  aborting one of them.
* **Catalogue**: categories, correction proposals, validation and shape of content, slugs, creation
  keys, learning content, the history view.
* **Accounts**: password hashing, CSRF tokens, cookies, the audit view.
* **Legacy**: XLSX and ZIP bytes; listing.
* **Pipeline**: the regular expressions, S-expressions, serialisation, timings and the benchmark's
  command line; of the KiCad distribution only publishing, verification and the cache.
* **Application shell, frontend, deployment, migrations**: no state of their own that the backend
  relies on.

## 6. Plan

1. Done: dispatch, imports, media, catalogue, accounts, bundles, pipeline, review; the promises of
   imports, uploads and bundles.
2. Done: proofs of the safety of `ImportJobs`, `Catalog`, `Accounts`, `MediaJobs`, `LegacyBundles` and
   `ImportReview` with `PipelineRuns`, and of merging, workbooks, scores and the index. Next: the score of
   equal cards, and the evidence of the pipeline.
3. Done: the promises of imports, of uploads and of bundles, and proofs that the code's rows, messages and leases
   implement them.
4. Import admission, and a module on the order of row locks.
