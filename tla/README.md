# STROY: formal models and proofs

STROY is a home-design system: a FastAPI control plane on a VPS (PostgreSQL
through SQLAlchemy, Redis as a wake-up, MinIO for files), a GPU worker at home
that polls the control plane over HTTP, a React client, and a bash deploy entry
point. The rendering and language models are called from the worker; the control
plane keeps everything durable. What makes it hard to get right is not the
rendering but the state: requests of several clients and workers that overlap
without a single row lock, answers that are lost, workers that crash, and a
deploy that can break off between any two steps.

This directory holds TLA+ models of those parts, TLC configurations that check
them on small instances, and proofs (TLAPS) for every instance. Paths below are
relative to the repository, with its Python package at `src/stroy`.

## 1. The system

### Components, their state and what makes them correct

| Component | Code | State it keeps | Correct when |
|---|---|---|---|
| Job queue and leases | `src/stroy/services/jobs.py`, worker routes of `api/routes.py` | `jobs` rows: status, owner, lease id, deadline, attempt, result, error, idempotency key | one lease per job, a lost lease never comes back, outcomes belong to the lease in force, one job per key, what has ended stays ended |
| Completion side effects | `api/routes.py` (`complete_worker_job`), `services/generations.py`, `renders.py`, `quality.py`, `styles.py`, `plans.py` | manifests, diagnostics, style profiles, plan drafts | one manifest per job, one set of rows per completed attempt |
| Worker loop | `src/stroy/worker/{runtime,client,main}.py` | the claimed lease, the executor task, the renewal task, the stop flag | a lost lease stops the executor, a finished result is reported, a failure reported is one, every job ends |
| Scene revisions and variants | `services/{scenes,variants,cameras}.py` | `scene_revisions`, `design_commands`, `scene_variants` (base, head, status) | histories do not mix, no edit lost, a command takes effect once, one approved variant |
| Deploy wrapper | `deploy/vps/deploy-wrapper` | `current.json`, config and nginx files, image tags, web symlink, staged releases, database revision | the record tells what serves, a rollback restores everything, retention keeps what is needed |
| Plan drafts | `services/plans.py`, `plan/qwen_plan.py` | versioned drafts, `committed` | versions distinct, committed once |
| Design agent turn | `services/agent.py` | the job of a turn, the revisions its commands make | the scene of each command is the instruction's with the commands before it, a turn that succeeded is there to its last command |
| Progress snapshots and deviations | `services/progress.py` | the pin of a snapshot, the status of a deviation | an accepted deviation names the revision that applied it, applied once |
| Project deletion | `services/projects.py` | all rows and files of a project | nothing left, nothing created after it |
| Photo replacement and redesign | `api/routes.py`, `services/generations.py` | assets, revision, job | a job names what is there, no edit is taken back |
| Scene command engine | `domain/{commands,models}.py`, `agent/tools.py` | the entities of a scene | locks and intents respected whoever sends commands |
| Image jobs on ComfyUI | `worker/executors.py`, `services/adapters.py` | the running task, active prompts, input files on the server | a job gets its own images, leaves no prompt behind, ends |
| Products and budget | `services/{products,budget}.py` | `product_candidates`, `budget_items` | an amount has a currency, a complete report leaves nothing out |
| Sessions and login throttle | `security.py`, `api/dependencies.py` | `auth_sessions`, failures per client | a dead session stays dead, delays add up |
| Database schema | `db/models.py`, `migrations/` | the tables and their constraints | migrations build what the ORM declares, downgrades take back upgrades |
| Setup, moods, styles, attachments | `services/{setup,moods,styles}.py` | rows of their own | derived views agree with the rows |
| Fetch guard | `net/guard.py` | none (pure) | only public addresses are fetched |
| Job dispatch | `services/dispatch.py` | a Redis list | none: a lost wake-up only delays |
| Geometry, camera solving, image editing, other executors, Blender scripts | `spatial/`, `camera/`, `editing/`, `rendering/`, `blender/` | none beyond a run | numeric results |
| Release bundle tools | `scripts/deploy/*.py` | none | a bundle that verifies is complete |
| Web client | `apps/web/src` | what it last loaded | out of scope; it appears as the requests it sends |

`PROJECT.json` lists every component with its status, and under `hazards` each
place where this code is hard to test, with the properties that cover it.

### How they interact

* The **client** creates and cancels jobs, edits scenes and variants, over HTTP.
  A handler opens one `AsyncSession`: it SELECTs, decides, and its commit sends
  UPDATEs of the changed columns `WHERE id = ...`. PostgreSQL is at READ
  COMMITTED, there are no row locks and no version columns. Whatever another
  request commits between the SELECT and the commit is not seen.
* A **worker** polls `claim`, then calls `start`, `progress`, renews its lease
  every 20 s from a second asyncio task, polls `lease_status` every 2 s while the
  executor runs, uploads artifacts and calls `complete`, `fail` or `release`.
* A **completion** inserts domain rows that other services read; that of a design
  agent's job appends revisions and queues image jobs of its own.
* Several **requests commit more than once**: accepting a deviation, committing a
  draft, editing a photo, deleting a project. Each is a chain of transactions that
  others interleave with and a death cuts short.
* An **image job** of the worker talks to one ComfyUI server over HTTP: it uploads
  inputs by the name of the asset, submits a prompt, polls, and cancels by request.
* The **deploy wrapper** is called over ssh with two commands: `receive-v1`
  stages a verified bundle, `apply-v1` switches to it.

### Behaviours that are hard

Overlapping requests on one row; a check made on a loaded row whose commit comes
later; retries after a lost answer; late calls of a worker that lost its lease;
SIGTERM between any two awaits; an exception in the renewal task; two clients
editing one base; a crash between two steps of a deploy; a rollback that needs
what retention removed; a request that dies between two of its commits; a stop that
races the submission of a prompt; a patch that meets another patch of one row; a
schema that has to agree with seventeen migrations, up and down.

## 2. Modules

| Module | Models | Uses |
|---|---|---|
| `LeaseService` | abstract: what leasing promises | |
| `JobQueue` | every handler on `jobs` as load and commit | `INSTANCE LeaseService` as the refinement |
| `WorkerLoop` | `run_once`, `run_forever`, the renewal task, faults | `EXTENDS JobQueue` (composition) |
| `BranchService` | abstract: what the variants of a scene promise | |
| `SceneHistory` | canonical history, variants | `INSTANCE BranchService` as the refinement |
| `ReleaseService` | abstract: what a deploy promises a reader of `current.json` | |
| `DeployWrapper` | `receive-v1` and `apply-v1` with failures and crashes | `INSTANCE ReleaseService` as the refinement |
| `Workflows` | requests that commit several times: deviations, drafts, agent turns, photo edits, image jobs, deletion | its revisions abstract `SceneHistory`, its jobs `JobQueue` |
| `Schema` | the migrations, the ORM's tables, the cascade of a deletion | |
| `Sessions` | login throttle and sessions against the clock | |
| `SceneCommands` | the command engine, by sender | |
| `ImageRuntime` | `ComfyUIExecutor`, `ComfyUIAdapter`, the part of `run_once` around them, the server | refines the executor that `WorkerLoop` leaves open |
| `Catalogue` | products, budget lines and the report | |
| `JobQueueProofs`, `SceneProofs`, `DeployProofs`, `RuntimeProofs` | theorems | the modules they prove about |
| `WorkerProofs` | theorems about `WorkerLoop` | `JobQueueProofs`, whose invariants hold behind the loop |
| `WorkflowProofs`, `TurnProofs` | theorems about `Workflows`: what holds of any requests; the turns of the agent and requests served one at a time | the second extends the first |
| `ServiceProofs` | theorems about `SceneCommands`, `Catalogue`, `Sessions` and `Schema`, one section each | |
| `MCJobQueue`, `MCWorkerLoop`, `MCSceneHistory`, `MCDeployWrapper` | constants and symmetry for TLC | |
| `MCServices` | the six components from `Workflows` to `Catalogue` side by side | a behavior picks one and leaves the others alone |

Each module also holds a few definitions that no specification uses: variants of
an operation with a plausible mistake in it (a guard dropped, a step left out),
placed before the operation they vary and commented as such. Putting one in the
place of the real definition makes TLC report the property it is listed with in
`PROJECT.json` (`mutants`): every property can fail.

### JobQueue

State: `job` (the table), `call` (the request each handler serves: the rows it
loaded, `seen`, and what it will commit, `new`), `granted` (history: the job a
lease id was committed on), `records` (domain rows a completion inserted, by lease).

| Code | Actions |
|---|---|
| `create_job` (`jobs.py`) | `CreateLookup`, `CreateCommit` (with `uq_jobs_idempotency`) |
| `cancel_job` | `CancelJob`, `Commit` |
| `claim_job`, `_requeue_expired` | `ClaimSweep`, `Commit`, then `ClaimJob` or `ClaimNothing`, `Commit` |
| `renew_lease`, `update_progress`, start | `Renew`, `Commit` |
| `release_job`, `fail_job` | `Release`, `Fail`, `Commit` |
| `complete_worker_job`, `complete_job` | `CompleteLoad`, `CompleteAccept` or `CompleteReject`, `Commit` |
| `persist_generation_manifest` and its likes | `RecordLookup` finds no manifest, `RecordInsert` commits one or meets the unique `job_id` |
| the clock | `Expire` |
| process or connection dies | `Abort` |

A `Commit` writes the columns whose value differs from the loaded one (`Flush`),
as the ORM does. This is the centre of the model: it is where a stale read becomes
a lost update. A deadline is none, in the future or past; the only thing the code
does with it is compare it with the clock and set it anew. `Prompt` says whether
a request may outlive a lease that is set after it loaded its row; it is FALSE
(anything may happen) wherever a property claims to hold for any overlap. A
repeated insert is counted up to `MaxRecords`. `ScanLimit` is the code's LIMIT 100.

### LeaseService, and the refinement

`LeaseService` is what a caller may rely on: a job has at most one lease id, a
grant uses an id never used for any job before, and the only other thing that
happens to a lease is that it goes. `ImplementsLeases` maps `holder` to the lease
column and `spent` to the ids that were committed. The proof is for every
interleaving of any number of requests; sessions overwrite each other's columns,
but never put an old lease id back, because a write that does not install a lease
leaves the column as it was loaded (so it is not in the UPDATE) or clears it.

### WorkerLoop

State: `wk` (per worker: where `run_once` stands, its lease, executor, renewal
task, `stray`: the leases whose executors were left running, the stop flag),
`client` (who waits for a handler's answer), `ran` (history: what came of executing
under a lease: it ended well or badly, returned something invalid, or there is no
executor for the type), and the budgets `faults` and `stops`. `Sends` and `RenewTick` start a handler of
`JobQueue`; `ServerStep` and `Answered` let it proceed and deliver its answer;
`AnswerLost`, `TimedOut`, `RequestDies`, `Crash` and the `...Unserved` actions are
the faults; `Raised` is the `except` clause of `run_once` with its `await
renew_task`, which also a refused release, a refused upload and a result that does
not validate (`UploadRefused`, `ResultInvalid`) end in, and which leaves a running
executor running (`StrayEnds` is its end). `Unsupported` is a job of a type the
worker has no executor for. `Deadline` lets a lease expire without a fault only when nobody
attends to the job, because a healthy worker renews six times within a lease.

### SceneHistory

State: `rev` (revisions in creation order: parent, command id, the base the
client named, and as history the branch), `var` (variants), `req` (requests),
`overlaps` (history: how many requests began during another). The scene itself is
left out: which revision follows which, and whose it is, does not depend on it.

| Code | Actions |
|---|---|
| `latest_revision` and its callers (`initialize_scene`, `apply_scene_command`, `upsert_camera`, `remove_camera`, `revert_scene`, `commit_draft`, `create_variant_from_current`) | `Walk` (reads the variants), `ReadTip` (reads the newest revision, decides), `WriteCanonical` or `InsertVariant` |
| `apply_variant_command`, `restore_variant_revision`, `append_variant_revision` | `BeginAppend`, `WriteAppend` |
| `fork_variant` | `Fork`, `InsertVariant` |
| `approve_variant`, status changes | `Approve`, `Patch`, `WriteStatus` |
| `delete_variant` | `BeginDelete`, `WriteDelete` |

Approximations: revisions commit in the order of their `created_at`; the two
SELECTs of `approve_variant` are one step; ids of variants are never drawn twice.

`BranchService` is what a client may rely on: an edit is made once, on one branch or
beside all of them; an open branch only gains edits that were made on it; a fork
starts with what its source held when it was asked for, or with nothing; and what
happens to one branch changes no other. `ImplementsBranches` maps an edit to a
revision, the content of a branch to the walk from the head of the variant to its
base, a branch's state to its row and status, and a copy to the walk of a request
that is about to insert a variant. What the canonical history promises is not part
of it, because overlapping requests break that (finding 3).

### DeployWrapper

State: `host` (installed config and nginx files; the config, image, web tree and
edge files that serve), `schema`, the release directories and image tags, `cur`
(`current.json`), `ap` (the apply in progress: its step, target, previous sha and
backups), `faults`, and `lapsed` (history: an apply was killed, could not write
its record, or could not complete its undo). One action per step of `apply-v1`,
in the order of the script; `EarlyFailure` is `fail_pre_transition`,
`LateFailure` is `fail_and_rollback`, the `rb_` steps are `rollback_previous`
(each may fail and the rollback goes on), `Crash` cuts anything short, and
`HostRestarts` does so too and has nginx load whatever files are installed. A step that
fails leaves nothing or half of its effect (`Half`; a directory copied in part is
`Mixed`). Pruning three directories is one action; up to `Receivers` `receive-v1`, of one sha
too, may reach the `mv` at once, and a copy that lands inside the first is not read.
The run has one at a time, as two are out of TLC's reach; the theorems hold of any
number.

`ReleaseService` is what a reader of `current.json` may rely on: what serves changes
only after a switch is announced and before its end is recorded; a release is
recorded as deployed when it serves; after a rollback the record names the release
on record before the switch, which serves again unless some deploy lapsed.
`ImplementsReleases` maps what serves to the release whose image, config, web tree and
edge files all serve (`Live`, none for a mixture), the release to go back to to
`ap.prev` from the marker to the record (`GoesBack`), and its doubt to `lapsed`. What
serves may change at one other moment: when nginx is restarted over files that a
broken-off apply had installed (`astray`).

### Workflows

State: `alive` (the project's row), `rev` (revisions in creation order: the line
they are on, what they were made for, and which changes their scene contains),
`approved`, `snap`, `dev`, `draft`, `turn` (jobs of the agent), `queued` (image
jobs), `asset` and `store` (rows and files), and `req`, the request each handler
serves with what it has read. One step is one transaction, or the reading that comes
before one.

| Code | Actions |
|---|---|
| `apply_scene_command` and its callers | `EditScene`, `Compare` (reads the scene, compares the base), `ApplyEdit` (applies the command to what was read, inserts) |
| `create_snapshot`, `soft_delete_snapshot`, `create_deviation`, `patch_deviation` | `CreateSnapshot`, `SoftDelete`, `CreateDeviation`, `PatchDeviation` then `WritePatch` |
| `accept_deviation` | `AcceptDeviation`, `Compare`, `ApplyFix`, `Accept` |
| `save_draft`, `commit_draft` | `SaveDraft`, `InsertDraft`; `CommitDraft`, `AppendSnapshot`, `MarkCommitted` |
| `design_instruction`, `apply_design_agent_result`, completion and cancellation of the job | `Instruct`, `InsertTurn`; `CompleteTurn`, `Compare` and `ApplyTurn` (once per command), `QueueGeneration`, `Preview`, `Settle`; `CancelTurn` |
| `asset_upload`, `product_import_url`, `create_black_reference_asset` | `Upload`, `ImportProduct`, `PutFile`, `InsertAsset` |
| `replacement_create`, `redesign_create` | `Replace`, `Redesign`, `PutFile`, `InsertAsset`, `Compare` (an edited object), `ReviseScene` or `ReviseNothing`, `QueueReplacement` or `QueueRedesign` |
| the routes that order an image job | `Generate`, `Render`, `Diagnose`, `AnalyzeStyle`, `AnalyzePlan`, `QueueOrder`; `JobCreate`, `QueuePayload` (any payload) |
| `delete_project` and its route | `DeleteProject`, `Cascade`, `DeleteFiles` |
| process or connection dies | `Die` |

A command is compared with the tip in one step (`Compare`) and inserted in another,
with the scene that was read in between, as in `SceneHistory`, whose walks over the
variants are left out here: a line is canonical or the variant's. Commands of a turn,
of a fix and of a replaced object all go this way. Photos that are edited by region or
redesigned, and snapshots of plans, are not compared: they come after whatever the tip
is. An image job names assets that its route has looked up (`by = "route"`), or any id
(`Missing` is that of none), as nobody looks up what the agent's references and the
payload of `job_create` name. A turn that has ended may be completed again by its
holder. Whether a completion holds the lease is an input (`holds`), because `JobQueue`
decides it. A job of several images is one with one image.

### Schema

State: `at` (how many migrations are applied), `tables` (name to required and
nullable columns, unique constraints, plain and unique indexes, foreign keys), `rows`
(which watched tables hold rows), `forked` (a revision has two children). `Up0001` to `Up0017` and
`Down0001` to `Down0017` are the migrations, `Declared` the ORM's tables,
`Remaining` the cascade of `delete_project` against the foreign keys. A column with
`unique=True, index=True` is a unique index in `Declared`, where the migrations build
a UNIQUE constraint and an index; `ChainSound` compares what is unique and what has
an index (`Serves`), not by which of the two. Types and
server defaults are left out; a migration that raises changes nothing, because
alembic runs it in a transaction.

### Sessions

State: the clock, `session` (rows), `serving` (requests with the row they read),
`attempts` (the throttle, in memory), and three histories that say when a session
was last used or logged out and when a row of failures began. `require_owner` is
`Admit` (read and decide) and `Touch` (commit the stamp); the route's body is
`Respond` or `Logout`; `Reboot` empties the throttle. Time is in whole seconds.

### SceneCommands

State: `scene` (id to entity). One action per operation of `apply_command`;
`OwnerChange`, `AgentChange` and `AcceptChange` say which operations the three senders can send: all but the
acceptance, those the agent has a tool for, and those that may be embedded in an
acceptance. Fields that no rule looks at are left out; a pose, a colour, a material
is a value.

### ImageRuntime

State: `doing` (the job the loop is at), `task` (how far `execute()` is, and its
polls), `active` (prompts that `cancel` knows), `report`, and on the server `file`,
`prompt` and `made` (which crop a prompt was made from).

| Code | Actions |
|---|---|
| `ComfyUIExecutor.execute` | `SendInputs`, `Submit`, `Submitted`, `Poll`, `Collect`, `Version` |
| a request of the adapter fails | `RequestFails` |
| `run_once`, `_cancel_executor` | `Claim`, `Report`, `StopEarly`, `Stop`, `Stopped`, `LeaseLost`, `LoopFails` |
| ComfyUI (external) | `RunPrompt`, `PromptEnds` |

Sending the inputs is one step, as nothing else can use the server's files between
them while one task runs. `excused` collects the jobs the code gives up on without
touching their prompt, `astray` the tasks the loop leaves running.

### Catalogue

State: `product`, `line`, `measure` (what the head scene yields for a takeoff),
`editing` (requests in flight). `CreateCandidate`, `PatchCandidate`,
`DeleteCandidate`, `AddItem`, `DeleteItem` are the routes; `LoadItem` and
`WriteItem` are the two halves of `patch_budget_item`, `BeginReport` and
`FinishReport` of `budget_report`, with the rows of the lines read before those of
the products; `PriceItem` is `_price_item`, `Packages` the rounding up to whole
packages, for takeoffs that have a package size. A patch names any set of fields. A
currency may be the empty string (`Unnamed`), which a product can be stored with. One
price, one quantity and one measure stand for all.

## 3. What the runs check

All bounds are in the `.cfg` files. "Pass" runs are exhaustive within them;
`queue_race` has one more bound, the constraint `Narrow` of `MCJobQueue`.

| Run | Instance | Shows |
|---|---|---|
| `queue_race` | 2 jobs (the first with a manifest), 2 workers, 2 lease ids, 1 key, 2 overlapping requests of any duration; `Narrow` bounds it to two jobs, the key and cancellations while one lease id is unused, and one job that is not cancelled once both are taken | However requests interleave: `TypeOK`, `OneJobPerKey`, `AttemptsAreClaims`, `OneManifestPerJob`, `ImplementsLeases`. With two lease ids two claims load one row and the second overwrites the first, and two completions, of one lease or of both, look for the manifest before either inserts it. Two is the number of requests every race in the code needs; the theorems hold for any number of jobs, ids and requests, without `Narrow`. |
| `queue_serial` | 2 jobs of different kinds, 2 workers with different offers, 3 lease ids, one request at a time but in any order, repeated and late | The fencing of `jobs.py` without overlap: `LeaseMatchesStatus`, `CancelledIsFinal`, `OutcomeFenced`. Three lease ids let a job be lost, re-claimed and lost again. |
| `queue_fenced` | 1 job, 2 workers, 2 overlapping requests, `Prompt` | **Violation** of `OutcomeFenced`: finding 1 below. |
| `queue_repeat` | 1 job, one request at a time | **Violation** of `CompletionIdempotent`: finding 2. |
| `loop_clean` | 1 job, 2 workers, 2 handlers, 3 lease ids, one SIGTERM or cancellation, no fault; executors may be missing and results invalid | The worker: `FailureIsReal`, `ReleasesBeforeStopping`, `FinishedWorkReported`. |
| `loop_faults` | 1 job, 2 workers, 1 handler, 3 lease ids, one fault anywhere and one stop | Liveness: `EveryJobEnds`, and `StaleWorkerStops`, which excepts an executor that a failed poll left running. |
| `scene_branches` | 3 revisions, 2 variants, 1 command id, 2 requests in flight, one overlap | `ImplementsBranches` (with it `CommandOnce`), `VariantEditsKept`, `BranchesOwned` in every interleaving; `CanonicalLinear` and `OneApproved` of requests that do not overlap. Three revisions are a base and two competing edits; two variants a fork and its source. |
| `scene_forked` | the same | **Violation** of `CanonicalNeverForks`: finding 3. |
| `deploy_apply` | 3 releases, the third with a migration, 2 kept, edge and web on the host, any 2 faults (failing steps, crashes, host restarts), one `receive-v1` at the `mv` at a time | `ImplementsReleases` (with it `RollbackRestores`), `DeployedIsLive`, `RetentionSafe` always; `BaselineKept`, `SchemaReady` unless an apply lapsed. Keeping 2 of 3 makes retention remove something; two faults are a failed step and a failed or interrupted rollback. |
| `deploy_redeploy` | the same as `deploy_apply`, no fault taken | **Violation** of `RedeployWorks`: finding 4. |
| `services` | see below | The fourteen properties of the six components side by side. |
| `project_delete` | all migrations, rows in projects, revisions, jobs, snapshots, deviations | **Violation** of `DeletionRemovesAll`: finding 5. |

The instance of `services`, and why it is enough:

* `Schema`: the whole chain, and the tables whose rows a migration or a foreign key
  asks about. `ChainSound`: the chain builds what the ORM takes for granted, and whatever
  upgrades and downgrades led to a revision, its schema is that of a fresh database.
  `LockMeansLinear`: the lock on the parent never stands over a branched history.
* `Workflows`: 2 handlers, 1 deviation, 1 turn of 2 commands, 5 revisions (two to
  begin with, so that a turn or three other edits fit), 3 assets (an upload and the
  two a replacement makes), 1 image job, 4 requests, and one mishap: a request that
  begins while another is served, or one that dies. `NothingDangles` and
  `AcceptedIsApplied` and `TurnsUnmixed` hold whatever happens; `OneAtATime`
  says what holds of requests that neither overlap nor die, and would be false
  otherwise.
* `Sessions`: 1 session, 2 requests, 1 client, and a clock that passes both the idle
  time (2) and the age (3); the delay is capped at 3, so that it doubles and then
  does not. `DeadStaysDead`, `ThrottleAddsUp`.
* `SceneCommands`: 1 entity (commands about different ones do not touch) and 1 value,
  all states, intents and locks, in every sequence. `LocksHold`.
* `ImageRuntime`: 2 jobs, of which the first may leave something to the second, a
  deadline after 1 poll, 1 failing request or lost lease. `ResultIsOwn`,
  `NoPromptLeft`, and as liveness `ExecutionEnds`.
* `Catalogue`: 1 product, also with the empty currency, 2 lines of every kind, 2
  editors, 4 requests of which 1 overlaps another: two additions, a patch and a report.
  `AmountHasCurrency` of patches that do not overlap, `ReportIsWhole` whatever overlaps.

`CHECK_DEADLOCK FALSE` is set throughout: every model may come to rest (all jobs
ended and all ids spent, all revisions used, no fault left).

### Findings

1. **A stale report can overwrite a newer attempt** (`queue_fenced`). `complete_job`
   and `fail_job` check the lease on the row as loaded; the UPDATE is keyed by the
   id alone. A report checked just before its deadline, whose commit comes after
   another worker's sweep and claim, writes its result into the newer attempt.
   `docs/worker-protocol.md:150` says a stale worker cannot.
2. **A repeated completion repeats its inserts** (`queue_repeat`). The route creates
   a style profile or plan draft before `complete_job` recognises that the job has
   already succeeded. `docs/worker-protocol.md:148` says completion is idempotent.
3. **Overlapping canonical edits fork the history** (`scene_forked`). Two edits
   against one base are both accepted, and the second hides the first: migration
   0015 dropped the constraint, and the service only reads and compares.
   `db/models.py:52` says the service layer protects the linear history.
4. **An older release cannot be re-deployed after a migration** (`deploy_redeploy`).
   `apply-v1` runs `alembic upgrade head` from the target's image, which does not
   know the database's revision. `deploy/vps/README.md:371` describes this
   re-deploy as the rollback procedure.
5. **A project with progress snapshots cannot be deleted** (`project_delete`).
   `_CHILD_TABLES` in `services/projects.py` does not name `progress_snapshots` and
   `deviations`, whose foreign keys then make PostgreSQL refuse the deletion of the
   project's row. The docstring at `services/projects.py:94` says every
   project-scoped row goes.

Weaknesses that a property excludes by name are in its comment and under `hazards`
in `PROJECT.json`; among them:

* in the queue, `_require_lease` refuses of the finished rows only a cancelled one, and a
  job that has succeeded or failed keeps its lease: a late start, progress or renewal
  makes it running again, a failure report makes a succeeded job failed;
* in the worker, one renewal that is not served makes `run_once` drop a finished result
  whose lease is in force, and after a poll that is not served the executor goes on,
  whatever becomes of its lease;
* a redesign records the scene it read when it came in as the newest revision, over an
  edit committed in between; two edits compared with one tip hide one another, also one
  that lands between two commands of a turn; a draft is committed twice after a death
  between two commits; an image job may name an asset that is not there;
* a stop during the submission of a prompt, one that meets a request error the `except`
  clause does not name, or a context that turns out malformed after the submission
  leaves the prompt on the server;
* if the host restarts between the installation of a candidate's nginx files and the
  transition marker, nginx starts over them while `current.json` says `deployed` of the
  release before;
* `add_object` takes an entity that is part of the shell and slated for removal, which
  `set_state` and `set_intent` refuse, and `remove_object` lets the agent take out an
  object whose material or transform is locked;
* two overlapping patches leave a budget amount without a currency, and a product's
  currency `""` counts as known but is not named in the report's currencies.

### Fairness

`loop_faults` and `services` assume some. In `loop_faults` a request in flight proceeds (WF on each
handler's steps: the database answers). A worker takes its own next step (WF) and
is restarted when it is down (WF: the service has a restart policy). A call it
wants to send is eventually served (SF: with one handler the slot is taken again
and again, and the API is not saturated for ever). A deadline passes (WF). An
executor need not end, and `EveryJobEnds` says so: every job ends or some executor
runs for ever. Faults are finitely many; with infinitely many nothing could be
promised.

In `services`, `ExecutionEnds` assumes that each step of an execution is taken (WF
on `Execute`): every HTTP request is answered or times out, since the client has
timeouts, and the event loop schedules every task. Of the ComfyUI server nothing is
assumed; it may never answer for a prompt, and the deadline ends the execution.

## 4. What is proved

For every number of jobs, workers, lease ids, keys, capabilities and overlapping
requests, `JobQueueProofs` (assuming only `JobQueueAssumption`, the types of the
constants, with finitely many lease ids) proves

* `TypeCorrect`: `Spec => []TypeOK`;
* `KeysUnique` (`OneJobPerKey`), `AttemptsBounded` (`AttemptsAreClaims`) and
  `ManifestsUnique` (`OneManifestPerJob`);
* `LeaseRefinement`: `Spec => ImplementsLeases`.

None of these is inductive by itself, because a commit writes what a handler
decided earlier. The inductive invariant `IInv` speaks about the calls in flight:
a call that will install a lease id (`Promised`) is the only one to know that id,
which no job has had; every other write is `Harmless`, it leaves lease, key and
attempt as loaded or clears the lease. `LeaseGranted` ties the two together: the
lease on a job was granted on that job. One lemma per handler shows that it keeps
`IInv`; `CommitKeeps` splits into harmless and granting commits; the refinement
follows step by step.

`ManifestsUnique` needs no more (`ManifestStep`): the insertion is committed only where
no manifest is, under whichever lease, so of any number of requests that have looked and
found none one inserts.

Three more are about requests served one after the other (`OneHandler`), because
they are false of requests that overlap (finding 1 is such a case): `LeasesMatch`
(`LeaseMatchesStatus`), `CancelledStays` (`CancelledIsFinal`) and `OutcomesFenced`
(`OutcomeFenced`), for any number of jobs, workers and attempts, with calls that come
late or twice. What the one request has loaded is still what the table holds, but for
a deadline that has passed meanwhile (`Current`), so a commit writes what its guard
allowed (`Allowed`), and what the guards allow keeps the four columns in agreement.

`WorkerProofs` proves in three layers

* `LoopUsesQueue`: `SpecLoop => Spec`, with any number of faults. Whatever is lost,
  a worker that serves a job has a lease id (`Shapes`), so it sends only calls the
  queue allows, and everything proved of `JobQueue` holds behind the loop.
* `Lone`, if no fault occurs (`NoFaults`: `MaxFaults = 0`, as in `loop_clean`), for any
  number of workers and overlapping requests: an executor runs only where `run_once`
  waits for it, and none is left behind. It is a step of what follows.
* `FailuresReal` (`FailureIsReal`) and `StopsRelease` (`ReleasesBeforeStopping`), if
  moreover requests are served one after the other and completions insert nothing that
  could be refused (`AllPlainJobs`). The call in flight is known to the worker that sent
  it (`Awaits`, `Presents`); a lease that was lost is not regained while no call under it
  is in flight (`LeaseNotRegained`); so a worker that is about to report a failure ran an
  executor that failed, has none or a result that is invalid, or presents a lease that is
  on no row (`Known`): it was refused a start, an upload, a release or a completion
  because of that, and will be refused the report. Both are checked with two overlapping
  requests in `loop_clean`, and hold there.

  The restriction matters for the first. With three overlapping requests
  `FailureIsReal` is false: a cancellation and the claims of two workers load one waiting
  row. The claims are committed, then the cancellation, which writes the status and
  leaves the second worker's lease. That worker's start is refused, so it goes on to
  report a failure; the first worker's start, loaded before, is committed and makes
  the row run again; and the failure is accepted, of a job no executor has run.

`SceneProofs` (from `SceneAssumption`) proves `TypeCorrect`, `CommandsOnce` and
`NoVariantEditLost` for any number of revisions, commands, variants and requests. The
strengthening says what a request that waits to be written has read (`ReadOK`: the
revisions it names exist, an append goes to the head it expects, a status is only
given to rows that exist) and that a variant without a row has no revision yet
(`BornFirst`), so that a new variant has nothing to lose. Revisions are only added,
which keeps what was read true; an append that finds the head where it expects it
makes the old head the parent of the new one.

`BranchesApart` (`BranchesOwned`) and `HistoryLinear` (`CanonicalLinear`) are about walks
up the parents. The walk is a recursive function; that it satisfies its equation, and
is the only function that does, follows from the least revision at which it would not,
as a parent comes before its child (`Walks`, `Span`). An append leaves the walks from
earlier revisions as they are. The invariant (`BInv`) says that the walk of a variant,
or of a fork in flight, holds revisions of variants only, and every revision that was
appended to the variant. `HistoryLinear` and `ApprovedOnce` (`OneApproved`) then need
that what a request read of the tip and of the statuses is still so when it writes, if
no request began during another (`Reads`, `LInv`).

`BranchRefinement` (`Spec => ImplementsBranches`) goes step by step, with the walks read
as spans (`AsSpans`). A request that writes nothing changes its own copy at most
(`RequestCopies`); a new revision lies in no older span, so an append adds one edit to
the branch it names and leaves the other branches and the copies in flight alone
(`AppendWrites`); a fork in flight opens a branch with the span it read, whatever has
been appended to its source since (`InsertOpens`). The primary key of the commands
makes ids unique (`EditAdded`).

`DeployProofs` (from `DeployAssumption`) proves `RecordIsTrue` (`DeployedIsLive`),
`RollbackComplete` (`RollbackRestores`), `BaselineHolds` (`BaselineKept`) and
`SchemaAhead` (`SchemaReady`), for any releases and migrations, any `Keep`, any
number of failing steps, and hosts with or without edge and web. The four
properties speak about the moments when something is on record, so the inductive
invariant follows the script in between: how far the apply has come says which
parts are the target's (`Forward`), which backups are the previous release's
(`Backups`), which parts a rollback without a failed step has restored
(`Restored`), that the record is true outside the switch (`Recorded`), and that
every release that runs or may be gone back to is migrated (`Migrated`).
`HalfEffect` bounds what a step that was cut short leaves behind. A host restart makes
the installed nginx files serve: between applies of which none lapsed these are those of the release on
record, and otherwise `astray` remembers it until an apply reloads nginx.

`ReleasesRefined` (`Spec => ImplementsReleases`) sorts the steps: before the switch and
after its record what serves is left alone (`Outside`), within the switch the record
is (`Inside`), and the four that write the record are the abstract steps; that what
is recorded then serves is what `Forward` and `Restored` say. It adds to the
invariant which status a switch has on record (`Announced`).

`RetentionHolds` (`RetentionSafe`) rests on a second invariant (`Retained`): a release is
published and its image loaded before it serves, the one that is applied stays staged
until it is recorded, and pruning keeps what is on record whatever its place in the
list. The lists are sequences, and what pruning keeps of them is stated by membership
(`Has`).

`WorkflowProofs` (from `WorkflowsAssumption`) proves `AcceptanceTrue`
(`AcceptedIsApplied`) and `NothingLost` (`NothingDangles`). The first rests on what a
request knows between its two commits (`Applying`) and on the fact that a project
with a snapshot, which every deviation needs, cannot be deleted (`Pinned`). The
second needs to know of every request in flight that what it will write a reference
to is there (`Inside`, in `Tied`); rows go only with the project, after which no
request can insert any (`Gone`), and if no request began during another the one that
deletes is alone (`Alone`). That the tip of a line exists is shown without
induction over the sequence: the set of its positions has a largest element, by the
least counterexample (`Newest`, with `WFMin`).

`TurnProofs` goes on with `TurnsWhole` (`TurnsUnmixed`) and `NothingTwice`
(`OneAtATime`). A request that applies the commands of a turn knows that the revision it
has come to holds the scene of the turn's base and the commands so far, and nothing else
(`Knows`), because a command is applied to the scene that was read when it was compared,
not to the tip there is when it is inserted; so a revision of the turn holds what its
number says (`InTurn`), whatever lands between two commands. For requests that
neither overlap nor die, what a request has read is still so when it writes (`Ready`),
a revision tells what it was made for (`Labelled`), and what is applied is marked as
applied, but for the one request that is about to mark it (`Marked`, `Fixed`).

About `Sessions` (from `SessionsAssumption`) `ServiceProofs` proves `StampsHonest`, `DeadForGood`
(`DeadStaysDead`) and `ThrottleHolds` (`ThrottleAddsUp`). No stamp, written or waiting
to be written, is later than the last request that was let through (`Honest`), so a
late stamp never makes a session look younger; a request writes the one column it
changed, so it never undoes a revocation. For the throttle, a client that is not
blocked has already served the sum of its delays. The sum is a recursive function
(`Held`); that it satisfies its equation is shown by the least number at which no
function could.

About `SceneCommands` it proves `EntitiesCorrect` and `LocksRespected` (`LocksHold`): each
operation changes one field of one entity (`Leaves`), so its guard is compared with what
the property asks of the other fields.

About `Catalogue` (from `CatalogueAssumption`) it proves `AmountsPriced`
(`AmountHasCurrency`): without an overlap the row a patch has loaded is still the row
when it is written (`Fresh`). And it proves `ReportsWhole` (`ReportIsWhole`), whatever
overlaps: from the types alone (`CatalogueTyped`) a line with a price has it from where
its kind has it (`LineWhole`), and the total of the lines splits into the totals of
the manual, the bought and the measured ones (`SumOfParts`). That a total does not
depend on the order in which lines are added, and that it splits, is shown by the
smallest set of lines for which it would not.

About `Schema` it proves `LockHolds` (`LockMeansLinear`): of the migrations, up and down,
only the fifteenth touches the constraints of the revisions (`Untouched`), so the lock
on the parent is in force at the first fourteen and at no later one (`ParentLocked`);
the fifteenth goes back only if the history has not branched, and no history branches
while the lock is there.

It also proves `ChainHolds` (`ChainSound`), for any tables that hold rows and any sequence
of upgrades and downgrades: the inductive invariant is that the schema is the stage of
the version it is at (`InStage`). A stage is said from where the chain ends
(`Version`: the tables as the whole chain leaves them, `Built`, without what later
migrations add and with what they take away). That these keep the same columns unique
and indexed as what `db/models.py` declares is a comparison of tables
(`BuiltServes`), and each of the seventeen migrations is compared with the difference of two stages (`StageSteps`: it takes a
stage to the next, and its downgrade takes it back or is refused). `ChainIsStages`
shows that the recursively defined `Chain` is the sequence of the stages.

Only model-checked:

* liveness (`EveryJobEnds`, `StaleWorkerStops`, `ExecutionEnds`), which needs fairness and
  ENABLED;
* `FinishedWorkReported`, and where requests overlap `FailureIsReal` and
  `ReleasesBeforeStopping`, which are proved of requests served one after the other and
  of plain jobs (`OneHandler`, `AllPlainJobs`): with two of them in `loop_clean`.

## 5. What is not modelled

The worker's registration and heartbeat (no state of the queue), progress
percentages and logs, the content of manifests and diagnostics, presigned uploads,
the Redis wake-up (its loss changes nothing), geometry, camera solving, spatial
validation, image processing and Blender scripts (real numbers and pixels, no state
beyond a run), the executors that make one call (Blender, Ollama, vision), setup,
moods, style profiles and attachments (derived views, or rows written by one
commit), the fetch guard (a list of address rules without state), the web client
(its requests are in the models), signatures and digests of bundles
(`DeployWrapper` takes the verdict).

Between modules: `Workflows` takes the tip of a line as read at once and the lease's
verdict as an input, `WorkerLoop` takes the executor as something that ends
well, badly or never; the modules `SceneHistory`, `JobQueue` and `ImageRuntime` are
what stands behind these, and no run composes them, because the product of their
state spaces is out of reach.

## 6. Plan

What would come next, in this order:

1. `ReleasesBeforeStopping` and `FinishedWorkReported` of `WorkerLoop` for requests that
   overlap, and the worker's side of the loop as an abstract specification.
2. `Workflows` over `SceneHistory` for one operation at a time, so that the walks over
   the variants and the races between commits meet.

A run is kept to one question, or to components that share no state. A property that
a theorem has settled for every instance takes no more states than its mutant needs.
