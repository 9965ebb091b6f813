# Verification of Cleanarr's deletion backend

Cleanarr deletes media across Radarr, Sonarr, Jellyfin, Seerr and torrent
clients. A deletion cannot be undone, so the backend (`src/backend`) surrounds
each one with evidence, durable records, confirmation hashes, a retry policy, a
recovery policy and one global execution lock. This directory holds TLA+ modules of
that machinery from the HTTP request to the removal of a torrent's data, TLC
configurations that check them on small instances, and TLAPS proofs, for every
instance, of what matters most in its durable core.

All code paths below are relative to `src/backend/src/cleanarr/`, paths that begin with
`docs/` or `README.md` to the repository.

## 1. Inventory

| Component (source) | State | Operations | Interacts with | What is hard |
|---|---|---|---|---|
| Background deletion jobs (`application/deletion_jobs.py`) | `_jobs`, `_queue`, `_scheduled`, the delayed retry tasks, one worker task, the ordered progress writer; rows and ledger in SQLite | `start`, `preview`, `submit`, `get`, `list`, `dismiss`, `stop`; the worker and its retries | repository (in threads), runner, previewer, execution lock | every database call is an `await`, so a submission, a dismissal, the worker and pruning interleave at each; crash between any two writes; retry timers; failed writes |
| Deletion repository (`infrastructure/deletion_repository.py`) | tables of jobs, batches, children, webhook events, and the ledger of idempotency keys | load, save, delete, create-with-key, webhook markers | jobs, batches, coordinator | a key must be claimed in the transaction that creates its row |
| Webhook coordinator (`application/deletion_events.py`, `api/app.py:1561`) | `processed_webhook_events`, the lock | `initialize`, `process_webhook` | repository, cascade service | redelivery at any time, crash or failure between marker and result |
| Deletion batches (`application/deletion_batches.py`) | `_batches`, `_queue`, `_scheduled`, one worker; rows of parents and children | `start`, `preview`, `submit`, `stop`, worker | same repository, ledger and lock | as for jobs; bound on pending parents; recovery child by child |
| Cascade strategies, resolver, results, Sonarr safety (`application/strategies.py`, `resolver.py`, `safety.py`, `results.py`, `service.py`) | none durable | one strategy per item type | all clients | a failed step must block the ones that depend on it; what a season or an episode event may touch |
| Manual deletion runner (`application/manual_deletion.py`) | none durable | `resolve`, `preview`, `execute` | cascade service, progress callback | the source item goes last; which results may be retried |
| Content inventory (`application/data_safety.py`) | none | pure analysis of who owns which path | torrent removal | unreadable, uncertain, nested and shared paths |
| Torrent removal (`infrastructure/downloaders.py`, the qBittorrent part of `clients.py`) | none durable | `delete_hashes` over the fleet; four adapters | torrent clients | clients are read, then act concurrently; each call may fail half way; users act meanwhile |
| Downloads control (`application/downloads.py`, `download_policy.py`, `infrastructure/downloads_repository.py`) | observations, action records, evaluations | refresh, pause, resume, policy evaluation | torrent clients, lock | claim, execution and settlement are separate writes; a command accepted and applied late |
| Storage overview (`application/storage.py`) | snapshot, collection task | `get`, `refresh` | Arr clients | coalescing, throttling, a configuration changed meanwhile |
| Cleanup candidates (`application/cleanup_candidates.py`, `domain/playback.py`) | none | read-only aggregation | Jellyfin, Arr, stored downloads | a gap in any of a dozen reads must not look like evidence |
| Configuration (`application/configuration.py`, `infrastructure/config_store.py`, `config_migrations.py`, `container.py`) | config row, service's copy, live runtime; sidecars of the upgrade | load, save, import, rebuild | everything | three copies of one truth; a crash during the upgrade |
| Authentication and users (`application/authentication.py`, `infrastructure/auth.py`, `users.py`, `oidc.py`) | users, sessions, SSO state | login, logout, SSO, user administration | SQLite, identity provider | last administrator; policy changed while the provider is awaited |
| Library (`application/library.py`), dashboard | none | read-only aggregation | clients | little |
| Service clients, routers, API schemas, web interface | none of their own | adapters | all | I/O |

What makes them correct:

* **Jobs.** One key, one job. A job is durable before it is acknowledged and is
  never forgotten while it is active. A run that may have deleted something is
  never replayed, by retry or by recovery. At most `max_attempts` runs. A
  finished job stays finished. Every accepted job ends.
* **Batches.** What jobs promise, child by child; a bounded queue; a child that
  may have mutated is not run again; one failed child does not stop the rest.
* **Repository.** The claim on a key and the row it names commit together.
* **Webhook coordinator.** A success is processed once within its retention. A
  processing that ended in a way nobody knows is never repeated. The marker is
  always the truth. Nobody keeps the lock.
* **Cascade and manual runner.** Torrents before Arr, Arr before Seerr, the source last;
  nothing outside the event's scope; "completed" only when it is; a retry only when nothing
  was touched; a dry run touches nothing; a present item is not deleted by a webhook.
* **Torrent removal.** No torrent's data is hit by the removal of another one; the
  cascade goes on only when every requested torrent is gone or retained whole; results tell
  what each adapter did.
* **Downloads.** One command per action; no action runs for ever; ownership is claimed by
  at most one client; the policy stays in its scope.
* **Configuration and access.** What is switched off or imported is not armed by something else;
  disk, service and runtime agree; the upgrade keeps the older configuration; somebody can
  administer.
* **Read models.** "Healthy", "never watched" and "eligible" are claims an operator deletes on:
  each must rest on evidence that was complete.

The `hazards` of `PROJECT.json` name the lines where each of these can go wrong.

### How they interact

Every mutation of another service takes the one execution lock of `api/app.py`: a job, a child of a
batch, an event of a webhook, an action of the Downloads service. So at most one
cascade runs, and a cascade removes torrents by at most one fleet removal at a time. The modules are cut
along that line. `DeletionJobs`, `DeletionBatches` and `WebhookCoordinator` model
the contenders for the lock, with what happens under it reduced to its outcomes; `Cascade` opens
up what happens under the lock; `TorrentRemoval` opens up the cascade's torrent step. Jobs and batches
share the ledger of keys; each module has the other's claims as an action of its environment (`BatchClaims`, `JobClaims`).
`Cascade` gives each manual attempt the verdict that `_run_job` reads off its results (`JobVerdict`), which
is the classification that `DeletionJobs` chooses among.

## 2. Modules

| Module | Models | Used by |
|---|---|---|
| `DeletionJobs` | the job service with its repository, writer, runner order, timers, lock, crashes | |
| `JobLifecycle` | what the job service promises of each job: an abstract specification | |
| `DeletionJobsLifecycle` | the refinement mapping from the first to the second | |
| `DeletionJobs_proofs` | `TypeCorrect`, `ClaimantsOnly`, `OneJobPerKey`, `WriteAheadHolds`; `FinishedRowsStay`, `SpentJobsRest`, `RunsAreBounded`; `NoneIsForgotten`, `ViewMatchesStore`, `LifecycleImplemented` | |
| `DeletionBatches` | the batch service with its part of the repository, pruning, failures, crashes | |
| `DeletionBatches_proofs` | `TypeCorrect`, `OneBatchPerKey`, `NoChildRunsTwice`, `RowBeforeRun`, `OutcomesAreFinal`, `QueueKeepsBound` | |
| `WebhookCoordinator` | `process_webhook` under the lock, and the endpoint's loop around it | |
| `WebhookCoordinator_proofs` | `MarkerIsTrue`, `ReplaysAreSafe` | |
| `ContentSafety` | the assessment of content inventories, as operators | `TorrentRemoval` |
| `TorrentRemoval` | one fleet removal after another, four adapters, users and failures between any two calls | |
| `TorrentRemoval_proofs` | `TypeCorrect`, `SiblingsSafe`, `ResultsTrue`, `ReadySettled` | |
| `Resolver` | which title an event means, as operators | `Cascade` |
| `SonarrSafety` | which episodes, files and torrents an event may touch, as operators | `Cascade` |
| `Cascade` | four strategies for webhooks, the manual runner with its verdicts, changes from outside | |
| `Cascade_proofs` | `DryRunIsDry`, `PresentIsUntouched`, `RetryIsHarmless`, `TorrentsGoFirst`, `CompletedMeansDone`, `SourceGoesLast`, `ScopeIsKept`, `SourceLeavesLast` | |
| `DownloadPolicy` | ownership of torrents, scope and thresholds of the policy, as operators | `Downloads`, `CleanupCandidates` |
| `Downloads` | refresh cycles, policy, operators' actions, restart | |
| `Downloads_proofs` | `TypeCorrect`, `CommandedOnce`, `RunningHasRunner`, `ManagedOnce`, `PolicyInScope` | |
| `Configuration` | store, upgrade, service and runtime of the configuration, import | `Access` |
| `Access` | registration, login, SSO, sessions and roles over it | |
| `Access_proofs` | `TypeCorrect`, `ArmedAsAsked`, `RuntimeAgrees`, `AlwaysAdministered`, `UpgradeCanBeUndone` | |
| `Storage` | the collection, cache and headline of the storage overview | `MCReadModels` |
| `CleanupCandidates` | one request for the list of candidates in a changing world | `MCReadModels` |
| `ReadModels_proofs` | of both: `NeverWatched`, `EligibleProven`; `OverviewTypes`, `Healthy`, `Current`; `ViewsProven` for their composition in `MCReadModels` | |
| `MCDeletionJobs`, `MCDeletionBatches`, `MCTorrentRemoval`, `MCDownloads`, `MCCascade` | small instances for TLC | |
| `MCDeliveries` (`WebhookCoordinator`, `DeletionJobs`), `MCRequests` (`Access`, `DeletionJobs`, `DeletionBatches`), `MCReadModels` (`Storage`, `CleanupCandidates`) | small instances of components side by side, each explored while the others are at rest |

### `DeletionJobs`

A *request* is one call of `submit()`; the job it creates has the request's
name. `KeyOf` gives its idempotency key and `BodyOf` its canonical request, so
repeated, conflicting and unrelated submissions are all choices of constants.

| State | Code |
|---|---|
| `db`, `ledger` | `manual_delete_jobs`, `destructive_idempotency_ledger` |
| `mem` | `_jobs` and its index by key |
| `queue`, `scheduled`, `delayed`, `unsettled` | `_queue`, `_scheduled`, `_delayed_tasks`, the `_settled` events not yet set |
| `backoff` | jobs whose `next_retry_at` is in the future |
| `wkPc`, `wkJob`, `wkRec`, `wkShared` | where `_run_job` is, on which job, the record object it holds, and whether that is the object in `_jobs` |
| `wkDeleted`, `wkResult` | what the runner did and how it ended |
| `pending`, `broken` | `_OrderedJobWriter`: the snapshots still to save, and the error it keeps until `flush()` |
| `req`, `loaded`, `victims`, `doomed`, `reply` | where each submission is, the row it read, the history it prunes, its answer |
| `dis`, `disJob` | the call that holds the dismiss lock |
| `sys` | progress of `start()` under `_start_lock` |
| `lock` | the execution lock of `api/app.py` |
| `applied`, `runs` | history variables: jobs with a deletion made or cut off, and mutating runs of each |

There is one action for each piece of code between two awaits. A database call is
one step, at the moment its transaction commits; what the caller read before
it is kept in the caller's local state and used after it, stale or not. The
downstream deletions are `Mutate` (something is deleted) and `Outcome` (the
runner returns or raises, in any way the classification of `_run_job` tells
apart). `Crash` keeps `db` and `ledger`, and only those.

Bounds: `CrashBudget` crashes, `FaultBudget` failed writes, `MaxAttempts`,
`HistoryLimit`. Both budgets are guards of `Crash` and of the failing writes and
nothing else depends on them.

Abstracted: times (a deadline is future or past), messages, previews and plans
(verification of a plan passes, fails or rejects), corrupted rows. `get` and
`list` read only. `stop()` drains the writer and cancels the worker: its effect
on what is durable is that of a crash at that point, which `Crash` may choose.
Deletions are `applied` when the runner reports one or a crash cuts the run off
while it may mutate; a downstream call that fails although its effect took place
cannot be known to the code and is not in the model.

### `JobLifecycle` and the mapping

Five durable stages: none, accepted, mutating, finished, removed. The store may begin with a history of finished jobs. The mapping
reads the stage off the row and the ledger, and `spent` off `applied`. The
abstract `Begin` and `GoBack` demand that the job is not spent, so refinement
says, of every interleaving and crash, that nothing is replayed, nothing comes
back after it was removed, and nothing is finished twice.

### `DeletionBatches`

A batch, like a job, has the name of the submission that creates it. Several
record objects of one batch can exist, and which of them the worker, the queue
and a repeated call use is what goes wrong most easily; so objects are part of the state.

| State | Code |
|---|---|
| `db`, `ledger`, `born` | rows of parents with their children, the shared ledger, the order of `created_at` |
| `obj`, `mem` | `DeletionBatchRecord` objects, each named by the call that built or loaded it; `_batches`, from a batch to its object |
| `queue`, `scheduled` | `_queue` (of batch ids), `_scheduled` |
| `pc`, `on`, `kid` | where each submission, the worker and `start()` are; the object and the child they are at |
| `todo`, `rest` | history rows an actor prunes; loaded batches that recovery has still to visit |
| `reply` | the answer of each submission |
| `lock` | the execution lock |
| `ran` | history variable: how often the runner was called for each child |

`SaveFinal`, `DeleteRow` and `Pop` are the tail of `_finalize` and
`_prune_history`, the same code run by the worker, by `start()` and by a
submission whose children are all blocked. The memory side of `_finalize` belongs to
the step before it, since it is not separated from it by an `await`. A preview chooses
which children are ready and whether the hash still matches; a
verification under the lock passes or blocks; the runner ends clean or not.
A failed call takes the path its place in the code gives it: out of the
worker's loop (`WorkerFails`), into the handler of the child when it happens
under the lock (`BlockFails`), to the caller (`SubmitFails`), or out of
`start()`, which begins again on its next call (`BootFails`). A crash is also what
`stop()` may leave behind. `JobClaims` is the job service claiming keys in the ledger both share.

Bounds: `ChildCount`, `HistoryLimit` and `MaxPending` are the code's own
parameters, made small; `CrashBudget` and `FaultBudget` are guards of crashes and failed
calls only; the save of an abort can fail whenever one is due (`AbortFails`), for it follows a failed call
that was counted.

### `WebhookCoordinator`

`row` is `processed_webhook_events`: no row, a marker, a result within the
retention, or one that is older (`RetentionEnds` ages it; `initialize` and
`mark_webhook_processing` purge it). A delivery goes
`wait`, `load`, `check`, `mark`, `process`, `record` for each of its events, each
step one database call or one return of the processor, and takes the lock anew for
each event, as the loop in `api/app.py` does. `fate` is a history variable: how
the last processing of an event ended. `ProcessorRaises` also stands for
`activity_store.record` raising after the cascade succeeded, and for a cancelled
request.

### `ContentSafety` and `TorrentRemoval`

A path is the sequence of its parts. `Assess`, `Refresh`, `SafetyReason` and
`ScopeMatches` are the analysis of `data_safety.py`, over sets of scopes; the second hash of a hybrid
torrent, which only qBittorrent reports, is left out.

| State | Code |
|---|---|
| `kind`, `policy` | the configured clients: adapter and removal policy |
| `fleet` | the torrents each client really holds, where their data lies, and whether their files are known |
| `pc`, `request`, `dry` | stage of `MultiDownloaderClient.delete_hashes`, the hashes it was asked for |
| `inv`, `evidence` | the inventories read so far, the `ContentAssessment` |
| `turn`, `stage`, `listed` | `_recheck_content_assessment`: the rTorrent client it is at, its two listings |
| `step`, `left`, `found` | of each client's `delete_hashes` task: where it is, hashes still to handle, what it saw of them |
| `results` | `DownloaderRemovalResult` records |
| `seen`, `touched`, `moved`, `hit` | history variables: places the evidence rests on, torrents acted on, torrents a user moved or added, data hit that was another torrent's |

Every RPC of an adapter is a step that works or fails, with or without its
effect: qBittorrent's listing and its one removal call; Transmission's and Deluge's check of
directories and removal; rTorrent's close, removal of the data and erasure of the entry, hash by
hash. The adapters run concurrently. Between any two steps a user adds or moves a torrent.

### `Resolver`, `SonarrSafety` and `Cascade`

| State | Code |
|---|---|
| `shape` | what the services report that no attempt changes: identities, episodes, grabs |
| `config` | `general.dry_run`, which may change during an attempt |
| `lib`, `torrents`, `retained`, `seerr`, `jelly` | what is left in Arr, the download clients, `retained_torrents`, Seerr and Jellyfin |
| `pc`, `att` | where the running attempt is; its event, captured mode, results, remaining work and verdict |
| `spent` | attempts and troubles used |

One action per call to a service, in the order of each strategy: presence check,
resolution, evidence, torrents, retention record, files and monitoring, title, requests, issues, media, and, for a manual
job, the Jellyfin source item. A mutating call that fails may have had its effect (`Mutate`). `Unfinished`, `Retryable` and
`JobVerdict` turn the results of an attempt into the verdict of the job as `_run_job` does.
Meanwhile Jellyfin rescans an item under a new id, torrents vanish, the operator switches
the mode, and a change of configuration closes the clients an attempt still uses.
The plan hash and the binding of a Jellyfin item to a title are taken to match:
`DeletionJobs` models what happens when verification rejects.
Grabs are of any title, so a torrent may hold two films or two series; what the code asks about a torrent's history is
`Owners` (every Radarr) for a film and the analysis of the one series otherwise.

### `DownloadPolicy` and `Downloads`

| State | Code |
|---|---|
| `torrent`, `late` | the clients: what each torrent does, commands accepted and not yet applied |
| `rows`, `acts` | `download_observations`, `download_actions` |
| `mode` | dry-run mode and `max_attempts` |
| `lock`, `pc`, `req`, `put` | execution lock; where each cycle and each request is, its request, the update it is about to write |
| `heard`, `todo` | what a cycle has listed; the torrents it has still to pause, taken in the order of the rows |
| `sent`, `stuck` | history variables: commands sent per action; running records whose settlement could not be written |

`control()` goes `Claim`, `Enter` (the lock), `Count`, `Look`, `Save`, `PreRead`, `Command`, `Verify` and `Save` again, each a
step; the writes and RPCs fail; a crash keeps `rows` and `acts`; the start runs
`recover_running_actions`. Cycles are the policy loop and the refresh requests.

### `Configuration` and `Access`

| State | Code |
|---|---|
| `disk` | schema, configuration row and accounts in SQLite |
| `legacy`, `sidecar` | `runtime-config.json`, the copies that the upgrade leaves |
| `boot` | how far the lifespan of the process is: opened, migrated, loaded, saved, up |
| `mem`, `run` | `RuntimeConfigurationService._config`, `ServiceRuntime.config` |
| `asked`, `drift` | history variables: what administrators last asked to go live; a write failed since |
| `states`, `issued` | outstanding SSO states, oldest first |
| `reqs`, `sessions` | SSO requests between their awaits, live sessions |

Handlers run on one event loop and interleave only where the provider is awaited, so
every other handler is one action. Left out: login throttling, password hashing, CSRF, the inside of token
validation.

### `Storage` and `CleanupCandidates`

| State (`Storage`) | Code |
|---|---|
| `config`, `disk`, `folders` | runtime configuration; what Arr reports of mounts, and of root folders: reported as inaccessible, not listed, or neither (`storage.py:159` rejects only `accessible is False`, a missing flag counts as accessible) |
| `task`, `current`, `forced` | collections, `_collection_task`, `_manual_collection_task` |
| `snap`, `cached`, `since` | `_snapshot` with its topology, its age, the age of the last manual refresh |
| `call` | each caller: what it waits for, what it was answered |
| `proof` | history variable: how long ago a collection saw each root not reported inaccessible and with enough space, or no longer listed |

Time passes in ticks (`Tick`); an age saturates where no comparison tells it from an older one.

| State (`CleanupCandidates`) | Code |
|---|---|
| `library`, `accounts`, `played`, `listed`, `grabs`, `rows` | the world: Jellyfin, its users and plays, Arr titles and their history, stored torrents |
| `pc`, `detail` | where the request is; whether it asks for one item |
| `items`, `scope`, `heard`, `catalog`, `target`, `todo`, `history`, `partial` | what it has read so far |
| `advice` | its answer |
| `before` | history variable: accounts and plays when it began |

The world changes between any two reads; each read may fail, be truncated or be malformed.

## 3. Runs

| Run | Instance | Question |
|---|---|---|
| `jobs_crash` | 2 jobs, own keys, 2 attempts, history of 1, 1 crash, 1 failed write; or a finished job, its call repeated, and a new job that prunes it | `WriteAhead`, `AttemptBudget`, `NoJobForgotten`, `NoReplay`, `FinishedIsFinal`, and the refinement `ImplementsLifecycle` |
| `deliveries` | 3 deliveries of 2 events in opposite orders, 1 crash, 1 failed call; or 2 jobs, own keys, 2 attempts, 1 crash; fairness of both | `MarkerTellsFate`, `OnlySafeReplays`, `DeliveriesEnd`; `ViewIsDurable`, `EveryJobEnds` |
| `jobs_replay` | 1 key submitted twice | the first finding below: `FinishedIsFinal` fails |
| `batches_crash` | 2 batches of 2 children, own keys, history of 1, 1 pending parent, 1 crash, 1 failed call, fairness; or a refused batch, its call repeated; or a new batch while the history is over its limit | `RunOnce`, `AheadOfChild`, `QueueBounded`, `ChildIsFinal`, `EveryBatchEnds` |
| `requests` | access: 2 identities, 2 SSO requests, 1 edit, 1 failed write, 2 crashes, 2 older configurations; or 3 submissions of jobs with one key, one of them for another deletion, batches claiming the key, 1 crash; or 3 submissions of batches with one key, one of them for another batch, jobs claiming keys, or 2 of them while the history is over its limit, 1 crash, 1 failed call | `NothingArmsItself`, `RuntimeIsConfig`, `SomeoneAdministers`, `UpgradeIsReversible`; `KeyOwnsOneJob`; `KeyOwnsOneBatch` |
| `removal` | 2 clients, adapters mixed from all four, 2 hashes, nested data paths, 2 attempts, 1 user action, 1 failed RPC | `NoSiblingHit`, `ReadyMeansSettled`, `ResultsAreTrue` |
| `cascade` | a film library, a show with shared files and packs, a clean show; 2 attempts, 2 troubles | `CompletedIsDone`, `RetryTouchedNothing`, `TorrentsFirst`, `ScopeKept`, `PresentMeansUntouched`, `SourceLast`, `DryRunBinds` |
| `cascade_shared` | the clean show beside a series that shares a torrent with it, 1 attempt | a finding: `OwnTorrentsOnly` fails |
| `cascade_packs` | the clean show, 1 attempt | a finding: `FilesLast` fails |
| `cascade_switch` | the clean show, 1 attempt, 1 switch of the mode | a finding: `DryRunTouchesNothing` fails |
| `downloads` | 2 clients sharing a hash, 2 cycles, 1 operator, 1 key; 2 of a user action, a failure and a crash | `SentOnce`, `RunningIsRun`, `ManagedIsUnique`, `PolicyStaysInScope` |
| `read_models` | storage: 2 profiles on nested mounts, 2 callers, 3 calls; candidates: 2 items, 3 titles, 3 users, 2 clients with one hash | `HealthyIsProven`, `AnswersAreCurrent`, `NeverWatchedIsProven`, `EligibleIsProven` |

The budgets `CrashBudget`, `FaultBudget`,
`UserBudget`, `TroubleBudget`, `EditBudget`, `WriteFaults`, `Attempts`, `AttemptBudget`, `CycleBudget`, `CallBudget` and `StateBudget`
are bounds of the exploration, guards of the environment's actions and of nothing else. All other
constants are the code's own parameters, made small.

Why these bounds are enough to be interesting:

* **Jobs.** Two jobs are needed for a history of one to overflow and for pruning, dismissal and the worker to work on
  different jobs at once; two attempts let a job be retried and also exhaust its
  attempts; one crash can fall between any two steps, and the recovery after it runs
  to its end; one failed write can hit the progress writer or a save of the worker, inside the lock or after it
  (`WriterFails`, `LockedSaveFails`, `WorkerDies`). A failed write of recovery, of a submission or of a prune is not in the
  model of jobs (batches have them: `BootFails`, `SubmitFails`). Three calls on one key are needed for a winner, an equal loser and a
  conflicting loser.
* **Batches.** Two children give a batch one child
  that ran and one that is still queued when a crash or a failure comes, and
  every mixed verdict; a bound of one pending parent is reached by the first of two calls. A submission has history to prune only
  while two finished batches are visible: `LongHistory` of `batches_crash` and the second beginning of the batches in `requests`
  (`BatchesInit`) are such states, reachable from `Init` with more submissions than TLC can afford.
* **Repeated calls.** Under a repeated key an unfinished job or batch can run twice (first finding below), so the runs
  of what a crash may do have a key for each. One call repeats another all the same: that of a job which has finished
  (`jobs_crash`) or of a batch with nothing left to run (`RepeatedCall` of `batches_crash`), whose stale row it loads and installs while the
  row is pruned or finalized. The races for a key are the subject of `requests`.
* **Webhooks.** Three deliveries of one event give a processing, a
  redelivery during it and one after it; the opposite orders of the payloads make
  deliveries wait for each other's events.
* **Removal.** Two clients are what a conflict needs: the same hash in both, or two torrents
  on one path or on nested ones. A second attempt is what a half-failed first one leads to. One user action can fall
  between the evidence and the act; one failure can hit any RPC. The mixes pair each adapter with
  one of another kind; the policies pair immediate removal with keeping and with deferral. `MaxScopes` is reached and not exceeded: an inventory above it is treated as a failed one.
* **Cascade.** The film library has one film in two Radarr instances, a torrent two films were grabbed with, and events that
  are ambiguous, contradict themselves or name nothing; the shared show
  has a file of two episodes across seasons and a pack behind it;
  on the clean show an attempt can complete, and Sonarr no longer lists one of its episodes, which a pack was grabbed for, too. Two attempts make a retry, two troubles a
  failure and a change by somebody else. Two series that share a torrent are in the library of `cascade_shared`.
* **Downloads.** The user can add the hash of the one client to the other, a conflict of ownership; two cycles
  overlap and retry (with one or two attempts allowed), and an operator acts between their steps.
* **Access.** A single kept state (`StateCap` = 1) is evicted by the second one; two crashes interrupt an upgrade and its
  repetition. The two requests of SSO are interchangeable, and so are the two equal submissions of a job or a batch: symmetry is
  sound for a run of safety properties, none of which names one of them.
* **Runs of several components.** In `deliveries`, `requests` and `read_models` a variable says which component is explored;
  the others stay in an initial state (in `deliveries` the job service is up and without a job then, so that nothing fair is
  enabled in it). What one takes from another, the lock and the claims on keys, is an action of its own environment.
* **Read models.** Storage and candidates share no state and never call each other: the one run
  explores the steps of each with the other at rest, and since the properties are about one of
  them each, their product would show nothing more. The delays keep the order of the code's (10 < 60 < 120 seconds).
  Three users against a cap of two, two records of a title against a cap of two and one title against a history cap of one
  make every truncation happen. The callers of storage are interchangeable.

Deadlock is checked for jobs, batches and webhooks: other holders can always take and leave their lock, so
what it excludes is a lock that is never given back. The other specifications stop when their budgets are used, so their
configurations, and that of `requests`, say `CHECK_DEADLOCK FALSE`.

### Fairness

Fairness is stated for jobs, batches and webhooks; the other modules are about safety only.
`asyncio` runs every ready task, so each step of the worker, of the writer, of a
submission and of `start()` is weakly fair; timers expire; runners return; the
other holders of the lock leave it. `asyncio.Lock` wakes its waiters in order, so taking
the lock is strongly fair; for webhooks the weaker statement is enough that a lock which is free again and again is
taken by some delivery again and again. A history has finitely many submissions or deliveries, so `EveryJobEnds` and `DeliveriesEnd` say that
from some moment on none is unfinished. Nothing says that a client calls again: `EveryJobEnds`
therefore assumes writes that succeed (`FaultBudget = 0`), as a worker killed by
a failed final save is only replaced by the next `start()`, and it assumes that a
process that crashed is started again. A crash, a failure, a new submission or a
dismissal is never required to happen. `EveryBatchEnds` says the same of batches, in behaviours in which no call
failed, because a batch whose save fails in `_fail_unexpected_batch` is
only repaired by the next process.

### Findings

Each is a run that TLC ends with the behaviour described.

**A stale copy replaces the live job** (`application/deletion_jobs.py:352-361`, run
`jobs_replay`). A repeated submission reads the ledger before the first one put
its job into `_jobs`, loads the row in a thread, and then stores that copy over the
object that exists by then. The copy is `queued`; `start()` schedules it, and a job
that finished is run again. The plan is verified anew before anything is
deleted, which limits the damage to what the fresh plan still covers.
The other runs on what happens to jobs give each job its own key for that reason, and repeat
the call of a finished job at most: `FinishedIsFinal`, and so the lifecycle, holds only then.

**The torrent of another series goes** (`application/strategies.py:911`, `application/safety.py:66-81`, run
`cascade_shared`). `docs/SAFETY.md:30-36`: "The operation fails closed and records a structured skip when [...] a
torrent/file spans material outside the requested movie, series, season, or episode range". The strategies for Sonarr load the
history of the one series and judge a torrent by it; a torrent that was grabbed for a second series, too, is
removed without a skip (`OwnTorrentsOnly`). For films `verify_download_ownership` asks every Radarr. `ScopeKept`
therefore says of a torrent that all the code asks about it is named.

**A series goes while a pack stays behind, unrecorded** (`application/strategies.py:923-935`, run `cascade_packs`).
The same lines of `docs/SAFETY.md` name packs, and `docs/SAFETY.md:66` says that "Blocked targets retain all dependent
Arr/Seerr/Jellyfin data". A pack that also holds an episode Sonarr no longer lists is noted as `pack_torrent`, with the
files behind it, but a series event looks at `hashes_to_delete` only and deletes the series with its files; the pack is
neither removed nor recorded as kept (`FilesLast`). Seasons and episodes do keep such files, which is what
`TorrentsFirst` says of them.

**An attempt that began dry deletes the item in Jellyfin** (`application/manual_deletion.py:390`, run
`cascade_switch`). `docs/SAFETY.md:12-14`: a dry run "does not invoke a downstream mutation". The
strategy keeps the mode it captured, `execute()` asks again before it decides about the source item. Switched off in
between, the mode no longer protects the item, although the cascade before it was all dry (`DryRunTouchesNothing`). What
the code keeps is `DryRunBinds`: such an attempt changes nothing in Arr, Seerr, the clients and the records of retention, and nobody
deletes the item while the configuration says dry-run.

### Observations

These are in the models, met while writing them. Where one differs from what a document says, its line is given; the
checked properties allow for each of them.

Jobs and batches:

* `start()`, called by every preview and submission, schedules each active job, a running one
  too; when its attempt fails, the retry begins at once, before its `next_retry_at`
  (`deletion_jobs.py:259-261`, `583-585`).
* The stale copy of the finding exists for batches as well
  (`deletion_batches.py:264-271`): when two submissions of one request share a key, a child runs a second time
  (`RunOnce` fails), and the reopened batch exceeds the bound on the queue.
* `_finalize` makes a batch terminal in memory before it saves it; a submission that prunes in between
  deletes its row, and the save inserts it again (`deletion_batches.py:467-477`, `513-515`).
* An exception while pruning older history after the final save of a batch reaches
  `_fail_unexpected_batch` (`deletion_batches.py:359-362`), which stores the finished
  batch as failed. The outcomes of its children stay (`ChildIsFinal`).
* A submission that awaits the pruning of older history looks at its children again afterwards. When a `start()`
  has handed its batch to the worker meanwhile, both may finalize it; a child that the worker refused can then be stored as
  blocked by the submission and, when the worker's own save fails, as failed. `ChildIsFinal` allows that one change.

Torrent removal:

* The checks of Transmission and Deluge compare directories only, and qBittorrent's precedes its
  removal call. A torrent its user moves in between is removed where it is now: `NoSiblingHit` excepts just that case.
* When an rTorrent call fails after `d.close`, the torrent stays closed, and
  every later attempt refuses it as `torrent_closed`.
* All clients act on one snapshot of evidence; one failed inventory makes every
  torrent of the attempt `ownership_unverifiable`, which the job service does not retry.

Cascade:

* `docs/SAFETY.md:161` says that safety skips are not marked complete; a webhook's result that holds a skip next to
  a deletion is a success (`application/results.py:74-91`) and is marked so.
* A refresh of the runtime is not under the lock: it closes clients an attempt still uses.
* Seerr is cleaned although `delete_movie` failed; a manual deletion requires a match in Seerr; an event
  with a path only cannot see that the item moved; a paged read of Jellyfin's catalogue can miss an item that moves between pages.

Downloads:

* `control()` answers `already_in_state` from the stored row, and checks its freshness but
  not its ownership (`docs/TORRENT_CLIENTS.md:58-59`, `docs/SAFETY.md`).
* Mode and policy are captured once per cycle; two refreshes may save the older listing last; an action that
  a crash leaves queued is not resumed; interruptions can push the count of attempts past the maximum.

Configuration and access:

* An import starts from the runtime's configuration, not from the service's: it drops an administrator registered since the
  runtime was last rebuilt (`api/app.py:898`), where `docs/OPERATIONS.md:191` says that the administrator is preserved.
* A crash between the migration of the database and the save of the upgraded row leaves
  a state that the next start refuses (`config_store.py:175`, `docs/ROADMAP.md:450-451`).
* `_persist()` changes memory before the save: `RuntimeIsConfig` is stated up to a failed write (`drift`).
* Of several profiles marked default the first one stays (`README.md:276-277`).
* An SSO callback authorizes with the policy captured before its awaits; registering
  an administrator under the name of an SSO viewer leaves the role a viewer's.

Read models:

* A call may join a collection begun under the previous configuration, and renders what it gets with the present
  thresholds: `AnswersAreCurrent` is stated accordingly.
* `_map_movie` answers nothing when several titles match, so the candidate is offered as known to Jellyfin only,
  where `docs/ROADMAP.md:465-468` says that an ambiguous catalogue fails closed. The manual runner refuses ambiguous titles anyway.

## 4. Proofs

All theorems hold for every set of requests, keys, deliveries, clients, torrents, users, items, roots and profiles, every payload,
policy and older configuration, and any number of attempts, edits, reads, callers, crashes and failures. They rest on the assumptions of the modules, which TLC evaluates
on every run: the budgets are naturals and `None` is not one of the other values
(`ConstantsAssumption`, `BatchAssumption`, `DownloadsAssumption`, `NoneIsNoRecord`);
a payload is a non-empty sequence of events (`PayloadAssumption`; `api/app.py:1581`
refuses an empty one); there are finitely many submissions (`BatchAssumption`); the torrents come in
a sequence of rows, and an operator's key is never one derived from a torrent (`DownloadsAssumption`); a
configuration of an older release is well typed, with distinct ids in each list (`ConfigurationAssumption`: requests carry no
id, a new profile draws a `uuid4`, `domain/config.py:270`, and an import with a repeated id is refused, `api/operations.py:107-111`),
and at least one SSO state is kept (`AccessAssumption`). `ShapesAssumption` of `Cascade` bounds what the services may report: a manual
event is of a movie, a series or a season (`manual_deletion.py:129-130`), and Arr's records are consistent, which is external: an id names one
episode, an episode file belongs to one series that lists all its episodes, a movie has no episodes, a grab is of an episode of its own series. `RecordsAssumption` adds, of Arr and
Seerr, that there are finitely many titles and media, that an id names one title, one media or one request, and that what was grabbed for an episode is of one
Sonarr knew. The torrents behind them are not bound by either: a torrent may hold several titles. `RemovalAssumption` says that there are finitely many clients and hashes, that the
targets list every client, that data lie at paths, and that the marks for an inventory that was not read, or could not be, are no inventories.
`CandidatesAssumption` says that stored torrents are rows of known clients and hashes, finitely many, and that the users are among those the
model names; `OverviewAssumption` (`StorageAssumption`) that a root has one profile and lies under listed mounts, that in every configuration the critical threshold is
below the warning threshold, and that "nothing" is no volume.

**Distinct keys.** The last six theorems of `DeletionJobs_proofs` and the last
four of `DeletionBatches_proofs` have the hypothesis `DistinctKeys`: no two submissions
carry one idempotency key. It is not an assumption about the code. A client may repeat a key, and the finding above is what
happens then: a stale copy becomes the object of the job, and the invariants below rest on there being one
object for each job or batch. With two calls on one key and one crash, TLC finds all six properties of jobs violated, and of those of batches
`RunOnce` and `ChildIsFinal`; `QueueBounded` takes a third call. `AheadOfChild` held in that instance, but its proof uses
the same invariant. The theorems on what a repeated key promises (`OneJobPerKey`,
`OneBatchPerKey`, `ClaimantsOnly`, `WriteAheadHolds`, both `TypeCorrect`) do without it.

**Own media.** One theorem of `Cascade_proofs` has a hypothesis about the services, which the libraries of the run satisfy and the
code cannot enforce. `SourceLeavesLast` takes `OwnMedia`: of the media in Seerr that an event means, no two are of one
kind. The resolver takes the first identifier that anything matches, and a media that lacks that one but agrees on another stays. On a
library with two such media TLC finds `SourceLast` violated; with them the theorem would be false.

Jobs:

* `TypeCorrect`: `TypeOK` is inductive. It is proved in parts (queues,
  worker, submissions, boot), each step against each part, since most steps disturb
  one part only.
* `ClaimantsOnly`, `OneJobPerKey`: the inductive invariant is that the ledger is
  sound (`LedgerSound`: who claims a key submitted it), that a
  submission about to insert its job owns its key (`InsertsClaimed`), and that rows,
  objects, queue entries and runs belong to claimants (`OnlyClaimantsExist`).
  `KeyOwnsOneJob` alone is not inductive: an answer is taken from what a call
  read, so what it may have read has to be bounded first.
* `WriteAheadHolds`: in addition, recovery starts when no worker runs
  (`RecoversAlone`), the snapshots that the writer holds during the mutating phase are all
  of mutating phases (`OnlyMutatingSnapshots`), and the writer is empty when the
  run goes on to its outcome (`WriterDone`). `WriteAhead` speaks of the row only, and a
  row is what the writer last saved: hence the strengthening.
* `FinishedRowsStay`: a row is saved by whoever holds the job's object, so the invariant (`OwnedInv`) says who that can be.
  The worker's object is the visible one and its job cannot be dismissed or pruned (`WorkerOwnsJob`); what is
  stored as finished is shown as such (`VisibleHasRow`), and a job in the worker's hands is not
  (`OpenWhileHeld`); what a prune or a dismissal removes has ended and stays so (`RemovesEnded`);
  nothing is served before recovery is through (`QuietUntilReady`).
* `SpentJobsRest`: a job that may have deleted something has no row and no object in a phase that
  a retry or recovery would start again (`SpentJobs`). This needs the write-ahead invariant, since a crash leaves the row only.
* `RunsAreBounded`: every record has paid for the runs its job has had, and one that can lead to another run has
  one to spare (`RunsArePaid`, `NextRunIsPaid`). `AttemptBudget` alone is not
  inductive because recovery gives an interrupted attempt back: the row and every
  pending snapshot must carry the number of the attempt they belong to (`AttemptKept`).
* `NoneIsForgotten`: inductive together with the invariants above.
* `ViewMatchesStore`: as long as no write failed, only the worker, an insertion and a prune in
  progress show something else than the store (`VisibleIsStored`). After a failed final save the two differ, which is what the
  hypothesis `faults = 0` in the statement is for; the jobs of `deliveries` have `FaultBudget <- 0` for the same reason.
* `LifecycleImplemented`: the refinement, step by step. A step moves the stage of at most the job whose row it saves or
  deletes; `StoreInv`, the conjunction of the invariants above, tells which stage that was and that
  the abstract guard holds (`StepsAsLifecycle`). It is safety of the refinement; `JobLifecycle` states no liveness.

Webhooks:

* `MarkerIsTrue`, `ReplaysAreSafe`: the invariant is that exactly the holder of
  the lock is between acquisition and release (`HolderAlone`), and that what it learnt
  from `load` and `check` still holds when it uses it (`HolderKnows`), together with
  `MarkerTellsFate`. Time alone can change a row behind the holder's back, and only from
  completed to expired.

Batches:

* `TypeCorrect`: `TypeOK` says in `ObjectType` that
  every actor finds a record where it looks for one: a visible batch, a
  batch still to recover, the object of a worker or a submission. One lemma shows that no
  step but a boot or a crash turns a record into something else (`KeptStep`), others that
  whoever starts to rely on an object has one (`MemStep`, `ActorStep`). That a repeated call
  loads a row needs that its key belongs to a batch, hence `KeyInv` in the same induction.
* `OneBatchPerKey`: a claim is for the key of its caller and never changes
  (`LedgerStep`), and a call between reading a claim and answering has compared the requests
  or owns the key (`KeyInv`).
* `NoChildRunsTwice`, `RowBeforeRun`: a batch has one object (`OneObject`); what ran is queued neither in memory nor in
  the store (`OutOfQueue`); the child at hand shows its stage in memory, and from the first save on in the store
  (`ChildAtHand`). A row may be removed meanwhile, and comes back by a later save, but only of an object that
  is further on.
* `OutcomesAreFinal`: an outcome in the store is the one in memory, but for a refusal whose save failed
  (`OutcomesKept`). A finished batch may be saved again, by whoever finalizes it twice or as failed; its children keep their outcomes.
* `QueueKeepsBound`: a batch that is unfinished in memory is unfinished in the store (`EndedFirst`), and no
  step but the transaction of `create` adds an unfinished row, so the bound it checks there is never passed.

Downloads:

* `CommandedOnce`, `RunningHasRunner`: the inductive invariant `CommandInv` ties each stage under the lock to the record. Exactly
  the holder of the lock is past its entry (`LockInv`); a call goes on with a record of its own request
  (`RecordInv`); the record is queued until the first settlement and running after it, and nothing was sent before the command
  (`StageInv`); what was sent says so (`SentInv`). `SentOnce` alone is not inductive: a record that is queued or
  failed can be tried again, so those must be known to be unsent. `RunningIsRun` needs that a failed write of a running
  record is remembered (`stuck`) until the restart that settles it.
* `ManagedOnce`: one transaction makes every old row stale and the listed ones fresh, and a torrent
  with a twin in that listing is never managed. That a listing is finite, so that "more than one" means what it
  says, comes from the finite sequence of rows.
* `PolicyInScope`: rows that say managed name hashes Arr knows, since a managed row is only ever made stale (`OwnerStep`); what a policy
  has still to pause and what it requests is in scope (`TodoStep`, `RequestStep`); no call reaches its command in dry-run mode
  (`WetStep`). A row may be newer or older than the listing the policy is decided on: `ScopeInv`
  holds of each of them.

Configuration and access:

* What a list of profiles becomes (`NormalList`, `AddedList`, `ReplacedList`, `DeletedList`, `ImportedList`) is proved
  first: ids stay distinct, and which ids are enabled afterwards. `EditStep` then says once what all five edits have in common, so
  that each invariant meets one case and not five.
* `TypeCorrect`: inductive with `LiveInv` (sessions and SSO requests need the live process). That exactly one profile of the
  live configuration is preferred follows from its being normalised, and normalising again changes nothing.
* `ArmedAsAsked`: not only the runtime but every copy it may be rebuilt from, the row on disk and the service's, arms no more
  than was asked for (`ArmInv`); a failed write leaves the copies different, so the history must not withdraw anything then.
* `RuntimeAgrees`: between save and build the row is the service's copy (`SyncInv`); a registration edits a
  normalised configuration, which is why the profiles of the runtime still agree.
* `AlwaysAdministered`: the same holds of the accounts in the backup (`RoleInv`), which a rollback restores, and no session is
  alive across one.
* `UpgradeCanBeUndone`: each stage of the start knows what its predecessors have put in the backups (`BackupInv`), although a
  crash may have come between any two of them in an earlier start.

Cascade:

* `DryRunIsDry`: an attempt in dry-run mode is never at a step that calls a mutation of Arr, Seerr or a client; the mode of the attempt is
  its own copy. The two steps that delete the item in Jellyfin ask the configuration.
* `PresentIsUntouched`: a webhook whose item has stayed gets no further than the two lookups (`Guarded`): the one by id finds it, or
  the one by provider does after it moved.
* `RetryIsHarmless`: what was changed shows in the results, as a deletion or as the failure of a call that may have had its effect
  (`Traced`), and a verdict of retry means that the results hold neither (`Repeatable`).
* `TorrentsGoFirst`: the results of the removal say what is true of each torrent while they are accounted for (`Cleared`), a torrent that is out or
  retained stays so, and what was gathered as evidence covers every torrent that the property speaks of (`Evident`).
* `CompletedMeansDone`: `CompletedIsDone` speaks of the end of an attempt, so the invariant follows all of it. Without a failure the attempt knows what it has to
  remove (`Working`: its torrents, and for a season the episodes to unmonitor and the files, or a note of why a file stays), each call asked of Arr
  is over or still to be made (`Performed`), and a result that counts as completed holds no failure (`CompletedIsFine`). That a series leaves no file behind
  rests on Arr removing the files with the title (`Together`).
* `SourceGoesLast`: the same invariant, at the step that removes the source item (`SourceStep`). It is `SourceLast` without the clause on Seerr's media
  and needs no hypothesis.
* `SourceLeavesLast`: all of `SourceLast`. Without a failure the media that was found is deleted or still to be, all the way to the
  decision about the source item (`Tidied`); that no media was found is a result that keeps the source.
* `ScopeIsKept`: what is lost is decided steps before it goes, so the invariant (`Bounded`) carries the decision to each call. The title agrees with the event
  (`Narrow`), because a resolver returns only what shares an identifier and contradicts none (`ResolveMeans`); the episodes to unmonitor and all
  episodes of the files to delete are named (`Confined`, `AnalysisConfines`); so is all that the code knows a torrent to remove was grabbed for (`Owned`), for a film by the
  question to every Radarr, for a series by the analysis; a request is deleted as a whole only while it asks for nothing but the season, however other calls
  change it in between (`SeerrScoped`, `RequestsShrink`). A title, a file, a media, a request and a torrent are then lost within the
  scope (`ArrKeepsScope`, `SeerrKeepsScope`, `RemoveKeepsScope`).

Torrent removal:

* First the analysis of `data_safety.py`, on its own. A torrent that the assessment lets go lies apart from every other
  observed torrent, in whichever client: neither place is within the other, also when the other one is only known by the directory above it
  (`SafeAlone`). That rests on what an assessment records of the inventories it was made of (`Judged`), which holds of the first one
  (`AssessJudges`) and of the one that a recheck makes with a newer inventory of one client (`RefreshJudges`). Paths are sequences of parts, "within" is to have
  as prefix (`WithinIsPrefix`).
* `SiblingsSafe`: `NoSiblingHit` looks at a step of the removal, the evidence was read many steps before, so the inductive
  invariant `RemovalInv` carries it there. Each inventory goes on to describe what its client holds, up to what its user moved and this removal
  touched (`Sighted`); the evidence judges those very inventories, except for the target that is being rechecked (`Evident`); and an
  adapter at a removing step holds only hashes that the evidence lets go, at a recorded place (`Permitted`). A removal then hits a path that
  `SafeAlone` speaks of, or the present place of a torrent that was moved (`NothingHit`, `HitStep`).
* `ResultsTrue`, `ReadySettled`: what an adapter has still to handle, or has decided to keep, is untouched (`Untouched`); all that was
  asked for is listed by it or not there (`Listed`); the results are those of adapters that are done (`Reported`); and every
  requested torrent of such an adapter is gone, moved, retained whole or behind a result that stops the cascade (`Accounted`). What each of the
  four adapters adds at its end, on every way out and after any failed RPC, is one lemma (`AdapterConcludes`). A torrent that
  an earlier attempt closed is a torrent without a known place, so that no later evidence lets it go: that is how "retained
  whole" survives half-failed attempts.

Read models:

* `NeverWatched`: an answer of a user is used long after it was given, and accounts come and go. The invariant (`EvidenceInv`): whoever
  had an account at the beginning and has it still is in scope once there is one (`Scoped`), plays are never taken back (`Kept`), an answer
  shows every play of the beginning or a gap (`Answered`), and beyond that stage everybody in scope was asked (`Asked`).
* `EligibleProven`: no invariant but the finiteness of the stored rows; what `Readiness` says is unfolded to each single torrent (`ReadinessProves`).
* `Healthy`, `Current`: a snapshot is sound when its volumes are of its topology, when without a failure it has every root that was enabled, and when
  what it calls healthy was proved within the volume's own age (`Sound`). The invariant (`OverviewInv`) says so of the stored snapshot,
  of the earlier one that a collection falls back on, and of every answer; of the collection itself it says that a root it heard to be healthy
  was proved since it began (`Underway`), and of a waiting caller which configurations it may be told of (`Waiting`). `HealthyIsProven` alone is not
  inductive: an answer is made of readings that are ticks older than the store. That time makes volumes and proofs older at
  the same rate is `SoundOlder`.
* `ViewsProven`: a behaviour of `ViewsSpec`, which the run explores, is one of each component.

Only model-checked:

* liveness (`EveryJobEnds`, `EveryBatchEnds`, `DeliveriesEnd`): fairness and `ENABLED` are beyond
  the prover.

`TypeOK` of jobs and batches and `OnlyClaimantsExist` are proved for every value of the constants, so no run
repeats them. In the other modules it types the variables for the reader; those of `Downloads`, `Access`, `TorrentRemoval` and `Storage` are proved as well.

## 5. Plan

1. `DeletionJobs` with its lifecycle, `WebhookCoordinator`, `DeletionBatches`: done, first proofs done.
2. Downloads, torrent removal, cascade, configuration and access, read models: done, model-checked.
3. Proofs of batches and jobs, the refinement included: done.
4. Proofs of `Downloads`: done.
5. Proofs of configuration and access, and of the cascade: done.
6. Proofs of torrent removal and of the read models: done.
7. The library view against the same evidence rules as the candidates.

## 6. Not modelled

* The library view and the dashboard: read-only aggregation with no claim of evidence.
* The transport of service clients (HTTP, retries of the transport, parsing): their answers are
  choices where they are called, failures included. Their control that changes other services is in `TorrentRemoval`, `Cascade` and `Downloads`.
* Routers, schemas, formatting, logging, metrics, the web interface, the activity log.
* Hybrid torrents with two hashes; login throttling, password hashing, CSRF and token validation.
* The plan hash and preview expiry in the cascade: `DeletionJobs` and `DeletionBatches` choose whether they match.
* A downstream deletion that takes effect although its call fails, for `DeletionJobs` only (`Cascade` and
  `TorrentRemoval` have it): the job service cannot know of it, and treats such a run by what its results say.
