# CauSium in TLA+

Specifications of the parts of the CauSium backend (`src/backend/app`) whose
correctness depends on the order of steps: cost ingestion, the audit hash chain,
the Redis job pipeline, report exports, notifications, workspaces with their key
rings, and the way from a recommendation to an experiment. TLC checks every
module on small instances, TLAPS proves the theorems of section 5 for every
value of the constants.

    tlc -workers 2 -config CostLedgerSingle.cfg MCCostLedger
    tlapm CostLedger_proofs.tla

## 1. Inventory

The backend is a FastAPI application with Postgres, ClickHouse and Redis, and
worker loops started by the API process or by a process of their own. The three
stores share no transaction, and Postgres runs at READ COMMITTED: what a request
has read may have changed when it writes.

| Component | State | Operations | Interacts with | What is hard | What makes it correct | Module |
|---|---|---|---|---|---|---|
| `cloud_ledger` | `cost_facts` (ClickHouse), export checkpoints, sync status | `ingest_account` | connectors, ingestion worker, inline sync | two stores without a common commit, crashes, lost answers, two syncs at once | a day counts once; nothing is checkpointed unread; lost days come back | `CostLedger` |
| `connectors` (Azure) | checkpoints of the last fetch | list, parse, query API | `cloud_ledger` | unreadable exports, cumulative files, gaps when rate limited | the rows handed over cover what is deleted for them | `CostLedger` |
| `audit_chain`, checkpoint worker | events, checkpoints | append, verify, checkpoint, retention | every domain that mutates | concurrent appends, multi-statement reads | the trail is a chain; a checkpoint stands for what was verified | `AuditChain` |
| ingestion, scoring, carbon workers, `job_runtime`, dead letters | Redis lists, retry counters, account locks, `DlqMessage` | pop, handle, retry, bury, requeue, purge | `cloud_ledger`, decision engine | two loops, crash after the pop, lock without owner, failing except clause, push before commit | one ingestion per account; a job ends once; queues drain | `JobQueue` |
| `economics` exports, export worker | `ReportExportJob`, Redis list, export lock, file | create, build, reset stuck, cancel, download | Redis, file store, dead letters | the clean-up against a slow worker, stale columns of an ORM session, a lock without owner | a download is whole; an accepted export ends | `ReportExport` |
| `notifications`, realtime broker, notification worker | alerts, rules, subscriber queues, sent marks | create, dedupe, publish, select, send, mark | all domains | two transactions with one event, bounded queues, sends inside a transaction | an event is one alert; each alert goes out, once | `Notifications` |
| `workspaces`, `invites`, accounts of `auth`, `force_*` of `admin` | lifecycle, invites, accounts | transition, invite, accept, expire, revoke, create, deactivate, erase | each other | counts and states that are read, then written blindly | the quota holds; what is final stays final | `Workspace` |
| `core/security` key ring, rotation worker | ring versions, active keys, ciphertexts | encrypt, rotate in batches | every stored secret | rotations by several processes, collisions, crashes | every secret can be read; the newest key is in use | `KeyRing` |
| `experiments`, `core/policy` | experiments, approvals | create, approve, transition, update | audit chain | approvals counted before a transition that commits later; guardrails loosened meanwhile | what is risky runs with two approvals | `Experiments` |
| `core/idempotency` | request keys in Redis | claim, replay, store | handlers that insert | answers stored before the commit, Redis failing or forgetting | a key creates one row | `IdempotencyKeys` |
| `intel` execution plans | plan row and payload, calibration counts | prepare, review, schedule, hand off, track | experiments | a status stored twice, whole payloads overwritten | a plan tells one story, is handed off once and counted once | `ExecutionPlans` |
| `decision_engine`, `workflow` | opportunities, initiatives | score, change a status, create and move an initiative | ledger, scoring worker | scoring runs without a lock, initiatives that share an opportunity | one active opportunity per target; what is done is closed | `Opportunities` |
| tokens, SSO, MFA of `auth`; AWS and GCP connectors; `business_mapping`, `change_events`, `economics` reads, `executive`, `gov`, `green`, `risk_budgets`, `settings`; `dev` | rows of their own | CRUD, queries, cryptography | Postgres, ClickHouse | little that order decides | data dependent | - |
| `core`, `main.py`, periodic workers | pools, configuration, timers | commit, rollback, commands, ticks | all | failing commands | modelled as failing steps of the others | - |
| frontend, migrations, monitoring, scripts | - | - | API | - | - | - |

`PROJECT.json` lists each component with its status and what its model leaves
out, and each hazard with its line and the properties that cover it.

## 2. Modules

| Module | Models | Composed in | Proofs |
|---|---|---|---|
| `CostLedger` | ingestion of one Azure account | | `CostLedger_proofs` |
| `AuditTree` | abstract: an append-only tree rooted in genesis | | |
| `AuditChain` | audit trail and checkpoints of one organization; implements `AuditTree` | | `AuditChain_proofs` |
| `WorkQueue` | abstract: a line of jobs, the hands of workers, four ways to end | | |
| `JobQueue` | the ingestion queue, the queues behind it, locks, counters, dead letters; implements `WorkQueue` | | `JobQueue_proofs` |
| `ReportExport` | exports, their queue, lock and file, the loops, the clean-up | | `ReportExport_proofs` |
| `Notifications` | creation, publication and delivery of alerts | | `Notifications_proofs` |
| `Workspace` | lifecycle, invites and accounts of a workspace | `Tenancy` | `Tenancy_proofs` |
| `KeyRing` | the key ring of each workspace and its rotation | `Tenancy` | `Tenancy_proofs` |
| `Experiments` | experiments and their approvals | `Decisions` | `Decisions_proofs` |
| `IdempotencyKeys` | request keys around an inserting handler | `Decisions` | `Decisions_proofs` |
| `ExecutionPlans` | plans, their experiments, calibration | `Decisions` | `Decisions_proofs` |
| `Opportunities` | scoring runs, opportunities, initiatives | `Decisions` | `Opportunities_proofs` |
| `MC...` | model values and small sets for TLC | | |

Operators whose comment starts with *Mutant* or *Fault* are plausible bugs. They
are used by no specification; substituting one for the operator it imitates must
break the property that `PROJECT.json` pairs it with.

`map` in `PROJECT.json` names the lines of code behind the definitions; only
helpers of a line or two and the history are not listed.

### CostLedger

A row is identified by its day and its *version*: the day its export was
written, or `API` for rows of the query API. A cumulative export written on day
`e` covers days `1..e`. `facts` counts the copies of each row. A task steps
through `pc`:

| Step | Code | Action |
|---|---|---|
| lookback and window, checkpoint keys | `ingestion_worker.py:57-66,134-136`, `service.py:91-96` | `StartSync` |
| parse exports without a checkpoint | `azure/client.py:443-635` | `FetchBlobs` |
| query API, in chunks when rate limited | `azure/client.py:282-441` | `FetchFromApi` |
| no row from any source | `service.py:197-246` | `FetchFails` |
| clear first to last day of the batch | `service.py:764-833` | `DeleteOverlap` |
| insert, or an exception with the rows absent or present | `service.py:299-325` | `InsertCosts`, `InsertFails` |
| add checkpoints to the session | `service.py:366-393` | `SaveCheckpoints` |
| the caller commits; unique constraint; error status | `service.py:445-482` | `Commit`, `CommitConflict`, `CommitError` |
| process dies | | `Crash` |

A delete that took effect while its answer was lost, and an exception between
the insert and the checkpoints, end in the same state as `InsertFails` and have
no action of their own. `written` and `holes` are history: rows that were ever
inserted, and days that were deleted and not written back.

### AuditTree and AuditChain

Hashes are taken as collision-free, so an event is known by its `created_at` and
`prev_hash` by the `created_at` of the predecessor. `buffer[t]` holds what an
open transaction inserted and nobody else sees (READ COMMITTED). `Linked` is the
comparison `verify_chain` makes at one event. Verification, the read of the newest
event and the count are separate actions because they are separate statements.
`AuditTree` says what survives any interleaving: the trail grows, and each new
event hangs from genesis or from an older event of the trail. `TrailIsTree`
instantiates it with `tree <- committed`.

### WorkQueue and JobQueue

A worker pops a job and walks through the handler; every Redis command and
commit is a step that may fail. Inside the `try` a failure leads to `failing`;
in the `except` clause it leaves the handler and the job is lost. Ingestion jobs
carry an id, which is history (the code compares payloads), so that the fate of
a job can be stated; downstream jobs carry none. The owner stored in `lock` is
history too: the code stores "1". The inner result of an ingestion is not
looked at, as in the code, where an error result counts as a success.

`WorkQueue` says what the pipeline promises of the ingestion jobs: they are taken
in the order of the line, go back to its end only after a failed attempt, are
buried only after one, and never come back after an end. It knows no loops, phases,
locks, counters or commands. `KeepsEveryJob` instantiates it with the ids that
wait in the Redis list (`IdsInLine`) and those that ingestion loops hold
(`IdsInHands`); the history variables keep their names.

### ReportExport

| Step | Code | Action |
|---|---|---|
| commit the row, push the payload, mark a failed push | `economics/service.py:206-236`, `router.py:84-116` | `Create`, `Enqueue`, `Refuse`, `RequestDies` |
| pop, `SET NX` of the lock, drop if it is held | `workers/export_worker.py:77-97,258-279` | `Pop`, `PollTimeout`, `TakeLock` |
| running, build, write the file, completed | `export_worker.py:99-184`, `export_runtime.py:51-55,259-358` | `StartBuild`, `BuildArtifact`, `OpenFile`, `WriteFile`, `Complete`, `Succeed` |
| except clauses, dead letter, finally | `export_worker.py:186-255`, `job_runtime.py:70-110` | `Fail`, `RecordFailure`, `Bury`, `Release`, `Cancel`, `ReleaseAgain`, `Crash` |
| stuck exports | `export_worker.py:30-69` | `FindStuck`, `ResetStuck`, `Age` |
| dead letter queued again | `admin/service.py:155-166` | `Requeue` |

Sessions are opened with `expire_on_commit=False`, and a flush writes only the
columns whose value differs from what the session loaded. `Flush` does that:
`session[w]` is a loop's copy of the row, so a column the clean-up has reset can
survive a worker's commit. `abandoned`, `undone` and `unlocked` are history: a
handler or payload lost, an export reset although it was not running, a lock
deleted by a loop that had lost it. The artifact is named after the export, so
two builds write one file.

### Notifications

A *writer* is a transaction that reports one event; the alert it inserts bears
its name. It asks the rule of the category (`ReadRule`, `AddRule`), looks for the
logical key (`FindByKey`) and for semantic equivalents (`FindEquivalent`),
inserts in a savepoint (`Insert`), publishes to the stream **before** the commit
(`Publish`) and commits or not (`Commit`, `Rollback`): separate statements, so
another transaction may commit between any two. The unique constraint makes an
insert wait for the open transaction that holds the key, as in Postgres. A
*deliverer* runs two transactions in turn, mail then Slack: `Select` locks rows
and skips locked ones, `Dispatch` flushes the mark and sends, `CommitBatch`
commits all marks of a batch, `AbortBatch` loses them. `outcome` is history and
says what has become of each alert on each channel. Recipients and the result of
one mail are not told apart, as the worker marks an alert either way.

### Workspace and KeyRing (Tenancy)

Each request of `Workspace` is a transaction in two steps: its `...Begin` reads
the rows and takes every early return of the handler, its `...Commit` writes
without looking again, because no row is locked or versioned. The exception is
the unique e-mail (`AddressTaken`). `overlapped` is history: requests that hold
a row another one has written since. `KeyRing` treats the read of the newest key
and the commit of the ciphertext as two steps (`EncryptBegin`, `EncryptCommit`),
a rotation as the selection of due keys, one step for each key and a commit that
fails as a whole when a version exists by now (`RotateSelect`, `RotateKey`,
`RotateCommit`, `RotateConflict`, `RotateCrash`).

### Experiments, IdempotencyKeys, ExecutionPlans, Opportunities (Decisions)

`Experiments` separates the check of a transition or an approval from its
commit; updates of the guardrails ask no policy. `IdempotencyKeys` follows one
request through `prepare_request`, the flush of the handler, `store_response`
and the commit of `get_db` behind it; each call to Redis may fail and is then
skipped, as in the code, and each loss is counted in `outages`.
`ExecutionPlans` stores the status of a plan twice, as column and in the payload
(`status`, `shown`), and every request writes the payload it made of what it
read; `contested` is the history of requests that overwrote a row they had not
read. In `Opportunities` a scoring run reads the active rows (`ScoreBegin`) and
writes all of its decisions at its end (`ScoreCommit`), and an initiative
resolves its opportunity in the transaction that makes it done. What a target is
worth is left out: a run lists any set of targets. `alike` says that the dedupe
keys of all targets coincide, which happens (section 4, observations).

### The two compositions

The parts of `Tenancy` and of `Decisions` share no row. A run over the product
of their states would say nothing more than runs over each, so the composition
takes a sum: a variable chosen initially (`part`, `side`) says whose steps are
taken, and one run explores every part completely. `Decisions` also says what a
part starts with: owners vary only when the experiments move, `alike` only when
scoring runs do. The opportunities have two turns, with the bound on the part that
is not in question in each: `OneDesk` (scoring runs overlap, one request on one
initiative beside them) and `OneOpportunity` (initiatives overlap on one
opportunity that one run found, no status is changed by hand). `TenantIsBoth` and
`ComposesAll` prove that the compositions implement the specification of each of
their parts, so the parts' theorems hold of what is checked. They are stated for the
parts' own specifications, without these bounds.

## 3. Runs

| Run | Expect | Question |
|---|---|---|
| `CostLedgerSingle` | pass | With one task at a time and an export that overwrites its predecessor: does a day ever count twice, does a day vanish without a known failure? |
| `CostLedgerTwo` | pass | With two tasks and every export kept: is an export ever checkpointed unread, do duplicates build up? |
| `CostLedgerRace` | violation | Is the delete before the insert enough for two tasks? No. |
| `CostLedgerHeal` | violation | Does the next sync repair a failed insert? Not always. |
| `AuditChain` | pass | What holds of the trail and its checkpoints under concurrency? |
| `AuditChainFork` | violation | Is the committed trail a chain? Not with two concurrent appends. |
| `JobQueue` | pass | Are the lock, the counters and the dead letters sound; is the ingestion queue the abstract work queue; does the pipeline come to rest? |
| `JobQueueRetry` | violation | Is a failed job always retried or buried? Not with two loops. |
| `ReportExport` | pass | Is a download whole, can an export be built twice at once, is one ever forgotten, does each end? |
| `Notifications` | pass | Which duplicates of an alert can be stored, is one ever marked undispatched or dispatched twice, does the stream show the newest, does every alert go out? |
| `Tenancy` | pass | How far can overlapping requests exceed a quota or undo what is final; is every secret readable, however rotations overlap? |
| `Decisions` | pass | Do approvals reach the run, do keys create once, is a plan handed off and counted once, is there one active opportunity per target and is it closed when its initiative is done? |

Many properties name an exception, because the code does not rule it out: "unless
two requests overlapped", "unless a loop deleted the lock of another one". They
say that nothing else breaks the rule, and the exception is history that only the
overlap, the crash or the lost command writes.

### Bounds

- `MaxDay` 3 (4 for `CostLedgerHeal`, 2 with two tasks). Three days allow a
  batch with a gap between two covered days and a second export that overlaps
  the first. Lookbacks 7, 2 and 90 of the code are scaled to `MinLookback` 1,
  `Buffer` 1 and `MaxLookback` 2 or 3, so that windows shorter than, equal to
  and longer than the data occur.
- `MaxNow` 4 timestamps, shared by events and checkpoints: two transactions can
  fork, commit in either order and be followed by another event or checkpoint.
  `KeepLast` {0, 2} covers the clamp to 1 and a retention that keeps more.
- `JobQueue`: `MaxJobs` 2, `MaxRequeues` 1, `MaxRetries` 3: two identical
  payloads share a counter, a job can reach the dead letter queue and come back.
  The run uses one downstream queue; `JobQueueRetry` both.
- `ReportExport`: one export, two loops, `MaxRequeues` 3. Exports share only the
  list, and it takes several payloads of *one* export for loops to meet. Three
  requeues make four payloads: one that failed, two in hands and one behind.
  `LockOutlivesBuild` is TRUE: no build takes longer than the lock lives.
- `Notifications`: two reports of six kinds of pairs (one key, two keys with one
  signature, a windowed signature, a session that is never saved, two activity
  events with one rule), two deliverers, `BatchSize` and `StreamLimit` 1 so that
  both limits are met, `MaxAborts` 1.
- `Tenancy`: four accounts and addresses with a quota of 2 and two requests, one
  more than the bound of `WithinQuota` allows; one invite. Two organizations, two
  rotators, one writer, `Batch` 2, `MaxVersion` 3, `MaxCrashes` 1: two rotations
  can collide, a batch can span two workspaces, a ring can be rotated twice.
- `Decisions`: one experiment, three people, two requests; three rows, two
  senders, two keys, `MaxOutages` 1; one plan, two experiments, two requests,
  `MaxTurns` 2; three opportunities, two targets, two scoring runs at a time and
  `MaxRuns` 3, two initiatives, two requests, `MaxPatches` 1.

Writers, checkpoint runs, ledger tasks, requests, rotators, organizations,
accounts other than the owner's, opportunities and targets are interchangeable,
and `SYMMETRY` is declared for them where only safety is checked.

Deadlock checking is off where the system may stop: `JobQueue`, `ReportExport`
and `Notifications` rest when the bounded work is done, the rings of `Tenancy` are
full at `MaxVersion`, and in `Decisions` the bounded rows, keys and runs are used
up.

### Fairness

Liveness is checked for the three modules with loops, and only the loops' own
steps are fair.

- `JobQueue` (`QueuesDrain`, `LockIsFreed`): the loops poll for ever and each
  await returns, so every worker's `Pop` and `Handle` are weakly fair, and Redis
  expires keys, so `ExpireLock` is. Which of `Handle`'s outcomes happens is left
  open: failures may repeat for ever. That is why `QueuesDrain` names its
  exception. The retry key is deleted before the downstream pushes
  (`ingestion_worker.py:169,178`), so a job whose push fails each time starts
  from zero each time.
- `ReportExport` (`ExportsEnd`): `Pop` and `Build` of each loop and `Serve` of
  each request, which ends. Timeouts, the ageing of rows, the clean-up's scan and
  the expiry of locks are not fair.
- `Notifications` (`AlertsGoOut`): `Deliver` of each worker, which polls every 30
  seconds. One fair step is any step of the round.

New work, requeues, crashes, failures and aborts are never fair.

## 4. Findings

| Run | Statement in the repository | What the code does |
|---|---|---|
| `CostLedgerRace` | "Even if occurs, result is idempotent" (`docs/incidents/azure-cost-duplication-resolution.md:184`) | delete, delete, insert, insert; inline syncs take no lock |
| `CostLedgerHeal` | "Self-healing: if insert fails after delete, the next sync cycle re-ingests" (`README.md:1094`) | a failed sync shortens the next window (`service.py:317`) |
| `AuditChainFork` | "Each event contains the SHA-256 hash of the previous event" (`docs/security-whitepaper.md:163`) | two transactions read the same newest event (`audit_chain/service.py:126`) |
| `JobQueueRetry` | a message that fails three times goes to the DLQ (`README.md:739`) | the retry is queued while the lock is held (`ingestion_worker.py:184,242`) and dropped by another loop (`:101-103`) |

Two ingestion loops exist in the shipped configuration: `startup-worker.sh` sets
`INGESTION_PROCESS=true`, which bypasses the gate that an API process may hold.

Observations that have no run of their own:

- Exports that are kept, not overwritten, put one day into a batch several times:
  all unread exports go into one batch (`azure/client.py:526`) and the delete does
  not look inside it. `CopiesBoundedByWorkers` bounds the copies of one *version*
  of a day; several versions of a day can be in the table at once.
- The savings plan group and the reservation group of one subscription have the
  same dedupe key, so every scoring run dismisses one of the two
  (`decision_engine/service.py:1715-1733` and the loop at `:174`). `OneActivePerTarget`
  is stated for keys that tell targets apart (`~alike`).
- A request whose handler failed leaves its idempotency key claimed: repetitions
  are refused as in progress for 24 hours (`core/idempotency.py:41`), where
  `README.md:873` promises a replay.
- `experiments/service.py:231` iterates over the tuple that `list` returns.

## 5. Proofs

All theorems hold for any constants that satisfy the named assumption of the
module, unless a further assumption is stated.

**CostLedger_proofs.** `TypeCorrect` is inductive as it stands.
`CheckpointsAreLoaded` needs to follow an export through a sync:
`CheckpointInv` says that a fetched export has a row for the first day of the
window (so the insert writes at least one of its rows), that an inserted batch
is loaded, and that open sessions hold loaded exports only.
`SingleTaskNoDuplicate` assumes `OneTask` and `~Retained`; `SingleInv` adds that
a batch has one version and that its days are empty between delete and insert.
`DaysAccountedFor` strengthens `MissingDaysExplained` with what a deleting task
owes. `CopiesAreBounded` counts: the copies of a row plus the tasks that still
owe an insert of its day never exceed the number of tasks, because a delete
that makes a task owe also empties the day.

**AuditChain_proofs.** The invariant under `ImplementsTree` says that what a
transaction has read is genesis, committed or its own, and older than the clock;
commits then keep the tree rooted. `OnlyForksBreak` is a minimal-counterexample
argument on timestamps: in a tree without two children of one parent the
predecessor of every event is the one before it. `BrokenForever` follows since
forks stay in a set that only grows. `SerialTrailIsChain` assumes one writer.
`CheckpointsCover` carries the verified set through the three reads.
`NewestKept` needs an invariant on runs that are about to delete: they listed the
checkpoints a moment ago, and other runs have committed since. `Outlived` says that
whatever such a run has doomed is older than some checkpoint that is stored or that
its own commit brings. Another run can delete that one too, but then something newer
still outlives it.

**JobQueue_proofs.** `TypeCorrect` includes that a job only reaches queues and
workers that can handle it. `OneIngester` assumes `LockOutlivesJob`; its
invariant is that a worker inside the handler is the owner of its account's
lock. That is what makes the unconditional delete in the `finally` clause sound.

`JobsAreKept` rests on `InOnePlace`: the ids handed out so far are split between
the line, the hands of busy ingesters and the four ends (settled, skipped,
buried, lost), no two of these share an id (`EndsApart`, `LineApart`,
`HandsApart`) and none is missing (`NoneMissing`). One lemma per kind of move
(a job enters the line, is taken, returned, ends) keeps it; the loops behind the
ingestion move no ingestion job. `PlacesAreCounted` derives
from it that of the sets `EachJobOnce` counts two are empty and one a singleton.

`ImplementsWorkQueue` is the refinement. `IngesterMoves` and `FollowerMoves` sort the
seventeen steps of a loop into five moves (nothing, taken, failed, returned, ended);
`MovesImplement` maps each to an action of `WorkQueue` or to a stutter, with lemmas on
the ids of a sequence (`IdsOfAppend`, `IdsOfTail`) for the line and with
`HandsApart` for the hands: an id leaves them with its worker because no other
worker has it. `HandsFailed` is the one further invariant: by the time a failure is
counted, it is on record.

**Tenancy_proofs.** `RingStaysSound`: the versions of a ring have no gap, the
newest is active, what a rotation has added continues the ring it read, and a
request that encrypts holds a version of the ring or will create the first. A rotation
that clashes changes nothing, and one that does not clash adds a newer active key
than all it retires. `QuotaNearlyKept` counts the active accounts together with
the open requests that will add one: each was begun below the quota, and no more
requests are open than there are. `FinalStaysFinal` keeps what a request that nobody
overtook has read: its invite is still pending, its workspace not archived.

`ActiveKeysAreCounted` is an equation, so its invariant is one as well: what a
rotation has retired of a workspace and what it has made have one cardinality
(`Paired`), and they are keys of the ring. When it commits, the keys still active
are replaced one for one and the others are those that `doubled` counts
(lemma `Replaced`). `MembersTypeCorrect` needs that two commits never give one
address to two accounts, which `AddressTaken` decides at the commit
(`Accounts`), and that whoever is invited has an address (`Addressed`).
`RingTypeCorrect` and `MembersTypeCorrect` give `TenancyTypeCorrect`.

**Notifications_proofs.** The variables fall into three parts that different actors
write, and each part has an invariant of its own. For the writers, `Shape` ties a
phase to what has been inserted, `Together` records that transactions open at one
time overlap, and `Apart` is the heart of `EventStoredOnce`: a writer that is *past
its search* saw no committed alert of its event, so one that is committed now
overlapped with it or is too far away in time. `Given` is `AnswerIsStored` from the moment
of the answer on. For the stream, `NewestStays` follows from the way a full queue
is shifted. For the mail, batches are disjoint, an alert in a batch
lacks the mark of its channel, and an alert was dispatched if and only if its mark
is committed or flushed (`Mail`): `DispatchedOnce` and `MarksAreTrue` are two
readings of that equation.

**ReportExport_proofs.** `ExportsAreKept` needs no lock: it follows what a loop still
owes when it is about to let go of an export (`Kept`: the row has ended, or the
export is excused), that the session of a builder holds the status it committed
(`SessionRuns`, for otherwise its flush could drop a column) and that nothing mentions
an export before its request (`Unborn`). `OneBuilderAtATime` and `DownloadsAreWhole`
assume `LockOutlivesBuild`. A loop inside a handler has the lock, unless a loop
deleted it that no longer owned it (`LockHeld`), so two of them are the same loop; with
one builder, a row is not completed while its file is being written (`Whole`).

**Decisions_proofs.** It holds the proofs about experiments, keys, plans and their
composition. `LabTypeCorrect`, `KeysTypeCorrect` and `PlansTypeCorrect` are the parts'
types; `DecisionsTypeCorrect` puts them together by `ComposesAll`.

`DualApproval`: approvals are never the owner's, and an experiment that is risky and
runs, *or is about to run* under a transition that was authorized, has two of them
or is `raised`. The second half is what makes the
invariant inductive, since the commit does not look again.

`CreateOnce` counts the rows born under a key together with
those that requests are inserting under it: they are no more than the outages of the
key, and one while it is claimed. It also follows the stored answer to a committed
row, a request that has answered, or a phantom.

`CallsOK` says what a request holds that nobody overtook (the row as
it is now) and what any request holds (a gated row is blocked or rejected).
`PlansConsistent` follows with `OneStory` for plans nobody contested, `CountedOnce`
with the further fact that a result which differs from the tracked one, in the
experiment or in a synchronisation on its way, has a turn of its own to be
counted for.

**Opportunities_proofs.** `Evolves` is a fact about every step: stored rows stay, with their
target, and become active again only in a way the history records.
`DoneStaysClosed` adds that no two requests create one initiative and that a
move to done which leaves the opportunity alone read it closed. `OneActiveRow` adds
that a run nobody overtook has read every active row (`ReadCovers`); its inserts
are one per missing target, since a surjection between finite sets of one size is
one-to-one.

**Assumptions.** Those of the modules (`...Assumption`, evaluated by TLC in every
run): `Request` is finite and not empty, `Opp` is finite, bounds are natural
numbers, markers such as `None` and `Absent` are no rows. Beyond them,
`LockOutlivesJob` for `OneIngester`, `LockOutlivesBuild` for `OneBuilderAtATime` and
`DownloadsAreWhole`, `OneTask` and `~Retained` for `SingleTaskNoDuplicate`, one writer
for `SerialTrailIsChain`.

## 6. Model-checked only, and not modelled

Every invariant and every safety property of the steps that a passing run checks is
also a theorem. Only model-checked is liveness (`QueuesDrain`, `LockIsFreed`,
`ExportsEnd`, `AlertsGoOut`), since fairness and ENABLED are out of the prover's
reach; so is induction over recursive data, which no module needs. `SelfHeals`,
`CommittedChainValid` and `RetryIsNotSkipped` are false and have no theorem, and
`NoDuplicateCost` has one for one task at a time only. The bounds on counters
(`MaxJobs`, `MaxAborts`, ...) are constants of the theorems, which hold for every
value of them.

Not modelled inside the modelled components:

- ingestion: several subscriptions of an account; the AWS and GCP branches of the
  ledger; event, recommendation, inventory, usage and carbon rows, account creation
  and credentials; freshness of a day (versions exist, an order of their figures is
  not a property);
- audit chain: clock skew between hosts beyond late commits;
- job pipeline: the process gate (any number of loops may run) and the alert of a
  finished sync in the worker;
- exports: the layout of the documents and the expiry of a download;
- notifications: read marks, statuses, preferences, changes of a rule, the Slack
  configuration;
- tenancy: support sessions, seeding and reports of the administration; the
  ciphers, and the fallback for secrets under the global key;
- decisions: measurement runs, roles and session age, conflicts and checklists of
  plans, scores and evidence of opportunities, comments and the board.

Not modelled at all, and why: tokens, passwords, SSO and multi-factor codes are
cryptography and access control; the AWS and GCP connectors are remote reads
without a state of their own; business mapping, change events, economics reads,
executive, gov, green, risk budgets and settings are CRUD of single rows or
aggregate queries; the other periodic workers are timers around one call;
infrastructure appears as failing steps of the others; development fixtures,
migrations, frontend, monitoring and scripts have no protocol. They are most of the
lines of the backend, which is why the share of lines with a definition is small.

## 7. What comes next

1. Proofs: abstract specifications of delivery (an alert is open, in a batch, or
   handled on each channel) and of the export loop, refined as the queue and the
   trail are.
2. `CostLedger` with several subscriptions, the branches without an overlap
   delete, and the freshness of a day as a property.
3. The process gate of the ingestion loop, and the composition of `JobQueue` with
   the result of `CostLedger`.
4. Support sessions and measurement runs.
