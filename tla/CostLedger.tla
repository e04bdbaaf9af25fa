----------------------------- MODULE CostLedger -----------------------------
(***************************************************************************)
(* The ingestion of one Azure account's cost exports into the ClickHouse   *)
(* table cost_facts (backend/app/domains/cloud_ledger/service.py with the  *)
(* export reader of backend/app/domains/connectors/azure/client.py).       *)
(*                                                                         *)
(* A Cost Management export written on day e is cumulative: it has one row *)
(* for every day 1..e of the month.  A synchronisation reads the exports   *)
(* it has no checkpoint for, deletes the rows of the days it is about to   *)
(* write, inserts the new rows and records the checkpoints.  ClickHouse    *)
(* and Postgres share no transaction: the delete and the insert take       *)
(* effect at once, the checkpoints and the account's status only when the  *)
(* caller commits.                                                         *)
(***************************************************************************)
EXTENDS Naturals, FiniteSets

CONSTANTS
    Worker,         \* the tasks that may run a synchronisation of the account
    MaxDay,         \* bound: days of the month that are modelled
    MinLookback,    \* fewest days a job looks back (7 in the code)
    Buffer,         \* days added to the gap since the last sync (2 in the code)
    MaxLookback,    \* most days a job looks back (90 in the code)
    ManualLookback, \* the lookbacks a user asks for
    Retained        \* TRUE: the container keeps every export;
                    \* FALSE: each export overwrites the one before

ASSUME CostLedgerAssumption ==
    /\ IsFiniteSet(Worker)
    /\ MaxDay \in Nat \ {0}
    /\ MinLookback \in Nat /\ Buffer \in Nat /\ MaxLookback \in Nat
    /\ ManualLookback \subseteq Nat
    /\ Retained \in BOOLEAN

Day     == 1..MaxDay
API     == 0                \* the version of rows the query API returned
Version == {API} \cup Day   \* a row's version: the day its export was written

VARIABLES
    today,       \* the current day of the month
    blobs,       \* exports in the container, by the day they were written
    facts,       \* cost_facts: number of copies of each (day, version) row
    checkpoints, \* BlobIngestionCheckpoint rows, committed
    lastSync,    \* CloudAccount.last_sync_at, 0 for never
    status,      \* CloudAccount.status
    pc,          \* where each task is in ingest_account
    lo, hi,      \* the window a task reads, first and last day
    known,       \* the checkpoint keys a task read when it started
    batch,       \* the versions of the rows a task has fetched
    gaps,        \* days of its window the query API did not answer for
    newKeys,     \* checkpoints a task has added to its open session
    seen,        \* history: the days rows were ever inserted for
    loaded,      \* history: the versions of which rows were ever inserted
    holes,       \* history: days a task deleted and failed to write back
    contested,   \* history: days of a task's batch that another task wrote
                 \* since this one's delete
    overlaid     \* history: days that rows were inserted for on top of others

dbVars    == <<checkpoints, lastSync, status>>
envVars   == <<today, blobs>>
localVars == <<lo, hi, known>>
overlap   == <<contested, overlaid>>
history   == <<seen, loaded, holes, overlap>>
vars      == <<today, blobs, facts, checkpoints, lastSync, status, pc, lo, hi,
               known, batch, gaps, newKeys, seen, loaded, holes, contested,
               overlaid>>

Phase == {"idle", "started", "fetched", "deleted", "inserted", "saved", "failed"}

TypeOK ==
    /\ today \in Day
    /\ blobs \subseteq Day
    /\ facts \in [Day \X Version -> Nat]
    /\ checkpoints \subseteq Day
    /\ lastSync \in {0} \cup Day
    /\ status \in {"pending", "active", "error"}
    /\ pc \in [Worker -> Phase]
    /\ lo \in [Worker -> Day]
    /\ hi \in [Worker -> Day]
    /\ known \in [Worker -> SUBSET Day]
    /\ batch \in [Worker -> SUBSET Version]
    /\ gaps \in [Worker -> SUBSET Day]
    /\ newKeys \in [Worker -> SUBSET Day]
    /\ seen \subseteq Day
    /\ loaded \subseteq Version
    /\ holes \subseteq Day
    /\ contested \in [Worker -> SUBSET Day]
    /\ overlaid \subseteq Day

Init ==
    /\ today = 1
    /\ blobs = {}
    /\ facts = [row \in Day \X Version |-> 0]
    /\ checkpoints = {}
    /\ lastSync = 0
    /\ status = "pending"
    /\ pc = [w \in Worker |-> "idle"]
    /\ lo = [w \in Worker |-> 1]
    /\ hi = [w \in Worker |-> 1]
    /\ known = [w \in Worker |-> {}]
    /\ batch = [w \in Worker |-> {}]
    /\ gaps = [w \in Worker |-> {}]
    /\ newKeys = [w \in Worker |-> {}]
    /\ seen = {}
    /\ loaded = {}
    /\ holes = {}
    /\ contested = [w \in Worker |-> {}]
    /\ overlaid = {}

-----------------------------------------------------------------------------
(***************************************************************************)
(* The environment: days pass, Azure writes exports.                       *)
(***************************************************************************)

NextDay ==
    /\ today < MaxDay
    /\ today' = today + 1
    /\ UNCHANGED <<blobs, facts, dbVars, pc, localVars, batch, gaps, newKeys, history>>

Export ==
    /\ today \notin blobs
    /\ blobs' = IF Retained THEN blobs \cup {today} ELSE {today}
    /\ UNCHANGED <<today, facts, dbVars, pc, localVars, batch, gaps, newKeys, history>>

-----------------------------------------------------------------------------
(***************************************************************************)
(* The lookback of a scheduled job grows with the gap since the last sync, *)
(* whatever the outcome of that sync was.                                  *)
(***************************************************************************)

AtLeast(x, bound) == IF x < bound THEN bound ELSE x
AtMost(x, bound)  == IF x > bound THEN bound ELSE x

PeriodicLookback ==
    IF lastSync = 0 THEN MaxLookback
    ELSE AtLeast(AtMost((today - lastSync) + Buffer, MaxLookback), MinLookback)

\* The rows a fetched version holds for a window: export e covers days 1..e,
\* the query API the whole window but for its gaps.
Covers(w, v, d) ==
    \/ v = API /\ d \notin gaps[w]
    \/ v # API /\ d <= v

BatchDays(w) == {d \in lo[w]..hi[w] : \E v \in batch[w] : Covers(w, v, d)}

RowsOf(w, d, v) ==
    IF v \in batch[w] /\ d \in lo[w]..hi[w] /\ Covers(w, v, d) THEN 1 ELSE 0

\* The days from the first to the last of some days, of those of a batch.
Hull(days) == {d \in Day : \E first, last \in days : first <= d /\ d <= last}

Span(w) == Hull(BatchDays(w))

Present(d) == \E v \in Version : facts[<<d, v>>] > 0

-----------------------------------------------------------------------------
(***************************************************************************)
(* ingest_account, step by step.                                           *)
(***************************************************************************)

\* The job computes its window and the session reads the checkpoint keys.
StartSync(w) ==
    /\ pc[w] = "idle"
    /\ \E lookback \in {PeriodicLookback} \cup ManualLookback :
           lo' = [lo EXCEPT ![w] = IF lookback < today THEN today - lookback ELSE 1]
    /\ hi' = [hi EXCEPT ![w] = today]
    /\ known' = [known EXCEPT ![w] = checkpoints]
    /\ pc' = [pc EXCEPT ![w] = "started"]
    /\ UNCHANGED <<envVars, facts, dbVars, batch, gaps, newKeys, history>>

\* Exports the task would parse: not checkpointed, with a row in the window.
\* One written after the window was computed is among them.
Candidates(w) == {e \in blobs \ known[w] : lo[w] <= e}

\* Every listed export whose download and parse succeed goes into one batch;
\* one that fails is skipped and stays without a checkpoint.
FetchBlobs(w) ==
    /\ pc[w] = "started"
    /\ \E readable \in SUBSET Candidates(w) \ {{}} :
           batch' = [batch EXCEPT ![w] = readable]
    /\ pc' = [pc EXCEPT ![w] = "fetched"]
    /\ UNCHANGED <<envVars, facts, dbVars, localVars, gaps, newKeys, history>>

\* No export gave a row (none new, none readable, or the listing failed):
\* the rows come from the Cost Management query API.  When it is rate limited
\* the window is asked for in chunks, and a chunk that fails is left out.
FetchFromApi(w) ==
    /\ pc[w] = "started"
    /\ batch' = [batch EXCEPT ![w] = {API}]
    /\ \E missing \in SUBSET (lo[w]..hi[w]) \ {lo[w]..hi[w]} :
           gaps' = [gaps EXCEPT ![w] = missing]
    /\ pc' = [pc EXCEPT ![w] = "fetched"]
    /\ UNCHANGED <<envVars, facts, dbVars, localVars, newKeys, history>>

\* No source gave a row.  With no event either the sync is an error; with
\* events it goes on without cost rows, and deletes and inserts nothing.
FetchFails(w) ==
    /\ pc[w] = "started"
    /\ \E next \in {"failed", "inserted"} : pc' = [pc EXCEPT ![w] = next]
    /\ batch' = [batch EXCEPT ![w] = {}]
    /\ UNCHANGED <<envVars, facts, dbVars, localVars, gaps, newKeys, history>>

Without(days) ==
    [row \in Day \X Version |-> IF row[1] \in days THEN 0 ELSE facts[row]]

\* What the delete of a span puts an end to.  The two variables follow the
\* order of the tasks' steps, not the rows of the table.
EndOverlap(w, span) ==
    /\ contested' = [u \in Worker |-> IF u = w THEN {} ELSE contested[u] \ span]
    /\ overlaid' = overlaid \ span

\* Mutants of DeleteOverlap: the batch has no subscription id and the delete
\* is skipped; only the newest day is cleared; the whole window is cleared.
DeleteDays(w, days) ==
    /\ pc[w] = "fetched"
    /\ facts' = Without(days)
    /\ EndOverlap(w, Span(w))
    /\ pc' = [pc EXCEPT ![w] = "deleted"]
    /\ UNCHANGED <<envVars, dbVars, localVars, batch, gaps, newKeys, seen, loaded, holes>>

DeleteSkipped(w) == DeleteDays(w, {})

DeleteNewestDay(w) ==
    DeleteDays(w, {d \in BatchDays(w) : \A c \in BatchDays(w) : c <= d})

DeleteWindow(w) == DeleteDays(w, lo[w]..hi[w])

\* _delete_azure_cost_overlap: the days from the first to the last of the
\* batch are cleared, its gaps included.  If the command fails nothing is
\* inserted.
DeleteOverlap(w) ==
    /\ pc[w] = "fetched"
    /\ \/ /\ facts' = Without(Span(w))
          /\ holes' = holes \cup ((Span(w) \ BatchDays(w)) \cap seen)
          /\ EndOverlap(w, Span(w))
          /\ pc' = [pc EXCEPT ![w] = "deleted"]
       \/ /\ pc' = [pc EXCEPT ![w] = "failed"]
          /\ UNCHANGED <<facts, holes, overlap>>
    /\ UNCHANGED <<envVars, dbVars, localVars, batch, gaps, newKeys, seen, loaded>>

AfterInsert(w) ==
    [row \in Day \X Version |-> facts[row] + RowsOf(w, row[1], row[2])]

\* The days of which a batch holds the rows of more than one version.
Stacked(w) ==
    {d \in BatchDays(w) : \E u, v \in batch[w] : u # v /\ Covers(w, u, d) /\ Covers(w, v, d)}

\* The rows reach the table: on top of those of another task, if one wrote
\* the day since this task's delete, and all those of the batch at once.
RowsArrive(w) ==
    /\ facts' = AfterInsert(w)
    /\ seen' = seen \cup BatchDays(w)
    /\ loaded' = loaded \cup {v \in batch[w] : \E d \in lo[w]..hi[w] : Covers(w, v, d)}
    /\ holes' = holes \ BatchDays(w)
    /\ overlaid' = overlaid \cup (BatchDays(w) \cap (contested[w] \cup Stacked(w)))
    /\ contested' = [u \in Worker |->
                       CASE u = w -> {}
                         [] u # w /\ pc[u] = "deleted" ->
                              contested[u] \cup (BatchDays(u) \cap BatchDays(w))
                         [] OTHER -> contested[u]]

InsertCosts(w) ==
    /\ pc[w] = "deleted"
    /\ RowsArrive(w)
    /\ pc' = [pc EXCEPT ![w] = "inserted"]
    /\ UNCHANGED <<envVars, dbVars, localVars, batch, gaps, newKeys>>

\* Mutant: an insert that fails is logged and the sync goes on.
InsertErrorIgnored(w) ==
    /\ pc[w] = "deleted"
    /\ pc' = [pc EXCEPT ![w] = "inserted"]
    /\ UNCHANGED <<envVars, facts, dbVars, localVars, batch, gaps, newKeys, history>>

\* insert_rows raises.  The rows are absent, or they are there and only the
\* answer was lost.
InsertFails(w) ==
    /\ pc[w] = "deleted"
    /\ pc' = [pc EXCEPT ![w] = "failed"]
    /\ \/ /\ holes' = holes \cup (BatchDays(w) \cap seen)
          /\ contested' = [contested EXCEPT ![w] = {}]
          /\ UNCHANGED <<facts, seen, loaded, overlaid>>
       \/ RowsArrive(w)
    /\ UNCHANGED <<envVars, dbVars, localVars, batch, gaps, newKeys>>

\* Mutant: the rows of the query API get a checkpoint too.
SaveEveryKey(w) ==
    /\ pc[w] = "inserted"
    /\ newKeys' = [newKeys EXCEPT ![w] = batch[w] \ checkpoints]
    /\ pc' = [pc EXCEPT ![w] = "saved"]
    /\ UNCHANGED <<envVars, facts, dbVars, localVars, batch, gaps, history>>

\* The keys are read again and the missing ones added to the session.
SaveCheckpoints(w) ==
    /\ pc[w] = "inserted"
    /\ newKeys' = [newKeys EXCEPT ![w] = (batch[w] \ {API}) \ checkpoints]
    /\ pc' = [pc EXCEPT ![w] = "saved"]
    /\ UNCHANGED <<envVars, facts, dbVars, localVars, batch, gaps, history>>

Finish(w) ==
    /\ pc' = [pc EXCEPT ![w] = "idle"]
    /\ batch' = [batch EXCEPT ![w] = {}]
    /\ gaps' = [gaps EXCEPT ![w] = {}]
    /\ newKeys' = [newKeys EXCEPT ![w] = {}]
    /\ contested' = [contested EXCEPT ![w] = {}]
    /\ UNCHANGED <<envVars, facts, localVars, seen, loaded, overlaid>>

\* The caller commits.  The steps after the checkpoints (recommendations,
\* inventory, usage) may have raised: the status is then error and the
\* checkpoints are committed all the same.
Commit(w) ==
    /\ pc[w] = "saved"
    /\ newKeys[w] \cap checkpoints = {}
    /\ checkpoints' = checkpoints \cup newKeys[w]
    /\ lastSync' = today
    /\ status' \in {"active", "error"}
    /\ Finish(w)
    /\ UNCHANGED holes

\* Another task committed one of the keys first: the unique constraint rolls
\* the session back, the exception leaves ingest_account.  That task's commit
\* has set the status, so the handler of an inline sync leaves it alone.
CommitConflict(w) ==
    /\ pc[w] = "saved"
    /\ newKeys[w] \cap checkpoints # {}
    /\ Finish(w)
    /\ UNCHANGED <<dbVars, holes>>

\* ingest_account returned an error result; its caller commits it.
CommitError(w) ==
    /\ pc[w] = "failed"
    /\ lastSync' = today
    /\ status' = "error"
    /\ Finish(w)
    /\ UNCHANGED <<checkpoints, holes>>

\* The handler of an inline sync, for an exception that left ingest_account:
\* an account that is still pending becomes an error.
MarkPending ==
    /\ status = "pending"
    /\ status' = "error"
    /\ lastSync' = today
    /\ UNCHANGED checkpoints

\* The process dies or an exception leaves ingest_account: the open session is
\* lost, cost_facts is not.
Crash(w) ==
    /\ pc[w] # "idle"
    /\ holes' = IF pc[w] = "deleted" THEN holes \cup (BatchDays(w) \cap seen)
                ELSE holes
    /\ Finish(w)
    /\ MarkPending \/ UNCHANGED dbVars

Sync(w) ==
    \/ StartSync(w)
    \/ FetchBlobs(w)
    \/ FetchFromApi(w)
    \/ FetchFails(w)
    \/ DeleteOverlap(w)
    \/ InsertCosts(w)
    \/ InsertFails(w)
    \/ SaveCheckpoints(w)
    \/ Commit(w)
    \/ CommitConflict(w)
    \/ CommitError(w)
    \/ Crash(w)

Next ==
    \/ NextDay
    \/ Export
    \/ \E w \in Worker : Sync(w)

Spec == Init /\ [][Next]_vars

-----------------------------------------------------------------------------
(***************************************************************************)
(* Properties.                                                             *)
(***************************************************************************)

CountedTwice(d) ==
    \E v \in Version :
        \/ facts[<<d, v>>] > 1
        \/ \E u \in Version \ {v} : facts[<<d, u>>] > 0 /\ facts[<<d, v>>] > 0

\* A day's cost is counted once: no two rows of cost_facts, of the same or of
\* different exports, are for the same day.  This is what the delete before
\* the insert is for (cloud_ledger/service.py, _delete_azure_cost_overlap).
NoDuplicateCost == \A d \in Day : ~CountedTwice(d)

\* What the delete does achieve, with any number of tasks and with exports
\* that are kept: a day is counted twice exactly when its last rows came from a
\* batch with several exports of it, or came after another task had written it
\* between this one's delete and its insert, and no sync has deleted it since.
\* No retry, crash, lost answer, gap or change of source counts a day twice.
DuplicatesExplained == \A d \in Day : CountedTwice(d) <=> d \in overlaid

\* A checkpoint is only ever committed for an export whose rows reached
\* cost_facts, however the tasks interleave, crash or lose answers: an export
\* is never skipped for good without having been read.
CheckpointedMeansLoaded == checkpoints \subseteq loaded

\* A day that was once in cost_facts is missing only while some task is
\* between its delete and its insert, because such a task failed there, or
\* because the query API left a gap inside a batch: the delete never clears a
\* day outside the span of the rows that replace it.
MissingDaysExplained ==
    \A d \in seen :
        \/ Present(d)
        \/ d \in holes
        \/ \E w \in Worker : pc[w] = "deleted" /\ d \in BatchDays(w)

\* Concurrent tasks can write a day twice, but the damage does not build up:
\* each insert follows its own task's delete, so a row never has more copies
\* than there are tasks, however often the account is synchronised.
CopiesBoundedByWorkers ==
    \A d \in Day : \A v \in Version : facts[<<d, v>>] <= Cardinality(Worker)

\* "If insert fails after delete, the next sync cycle re-ingests": once a sync
\* commits the checkpoint of an export, no day that export covers is a hole.
SelfHeals ==
    [][checkpoints' # checkpoints
         => \A d \in holes : \A e \in checkpoints' \ checkpoints : d > e]_vars

=============================================================================
