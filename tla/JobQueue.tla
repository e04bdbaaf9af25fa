------------------------------ MODULE JobQueue ------------------------------
(***************************************************************************)
(* The Redis job pipeline: ingestion jobs, the scoring and carbon jobs an  *)
(* ingestion queues, the retry counters, the per-account lock and the dead *)
(* letter queue (backend/app/workers: ingestion_worker, scoring_worker,    *)
(* carbon_sync_worker, job_runtime; admin/service.py requeue_dlq).         *)
(*                                                                         *)
(* A worker pops one job and handles it to the end.  Every Redis command   *)
(* and every commit is a step of its own, and any of them may fail: inside *)
(* the handler's try that counts as a failed attempt, in its except clause *)
(* the exception leaves the handler and the job is gone.                   *)
(***************************************************************************)
EXTENDS Naturals, Sequences, FiniteSets

CONSTANTS
    Ingester,    \* processes that run the ingestion loop
    Follower,    \* processes that run the loops of the downstream queues
    Account,
    Payload,     \* bodies of ingestion jobs: an account and a lookback
    AccountOf,   \* the account of each body
    Downstream,  \* the queues an ingestion feeds, in order
    MaxRetries,  \* attempts before a job is dead (3 in the code)
    MaxJobs,     \* bound: ingestion jobs that are queued, the requeued ones included
    MaxRequeues, \* bound: dead letters that are queued again
    LockOutlivesJob \* TRUE: no ingestion takes longer than LOCK_TTL

Free == "free"

ASSUME JobQueueAssumption ==
    /\ AccountOf \in [Payload -> Account]
    /\ Downstream \in Seq({"scoring", "carbon"})
    /\ MaxRetries \in Nat \ {0} /\ MaxJobs \in Nat /\ MaxRequeues \in Nat
    /\ LockOutlivesJob \in BOOLEAN
    /\ Ingester \cap Follower = {} /\ Free \notin Ingester

Worker == Ingester \cup Follower
Queue  == {"ingestion"} \cup {Downstream[i] : i \in DOMAIN Downstream}
Body   == Payload \cup Account
NoJob  == [id |-> 0, body |-> "none"]

VARIABLES
    queue,    \* the Redis lists, the next job to pop first
    retries,  \* the retry:<queue>:<payload> counters
    lock,     \* ingestion:lock of each account; the owner is history
    dlq,      \* DlqMessage rows: queue, body, status; equal rows are one
    pc,       \* where each worker is
    from,     \* the queue each worker has popped its job from
    job,      \* the job each worker holds
    attempts, \* the value each worker's INCR returned
    pushed,   \* how many downstream queues each worker has fed
    requeues, \* dead letters queued again so far
    queued,   \* history: ingestion jobs queued so far, their ids are 1..queued
    failed,   \* history: ids that failed an attempt
    settled,  \* history: ids that were completed
    skipped,  \* history: ids dropped because the account was locked
    buried,   \* history: ids moved to the dead letter queue
    lost      \* history: ids lost to a crash, a failed command, a gone account

workerVars == <<pc, from, job, attempts, pushed>>
ends       == <<settled, skipped, buried, lost>>
history    == <<requeues, queued, failed, ends>>
vars == <<queue, retries, lock, dlq, pc, from, job, attempts, pushed, requeues,
          queued, failed, settled, skipped, buried, lost>>

Phase == {"idle", "taken", "working", "committed", "feeding", "failing",
          "counted", "dead", "release"}

\* An ingestion queue holds bodies, the queues behind it account references.
BodiesOf(q) == IF q = "ingestion" THEN Payload ELSE Account
JobsOf(q)   == [id : IF q = "ingestion" THEN 1..MaxJobs ELSE {0}, body : BodiesOf(q)]
Job         == UNION {JobsOf(q) : q \in Queue}
QueuesOf(w) == IF w \in Ingester THEN {"ingestion"} ELSE Queue \ {"ingestion"}

\* Only ingestion takes the account's lock.
Locks(w) == from[w] = "ingestion"

RedisTyped ==
    /\ queue \in [Queue -> Seq(Job)]
    /\ \A q \in Queue : queue[q] \in Seq(JobsOf(q))
    /\ retries \in [Queue \X Body -> Nat]
    /\ lock \in [Account -> {Free} \cup Ingester]

DlqTyped ==
    /\ dlq \subseteq [queue : Queue, body : Body, status : {"open", "requeued"}]
    /\ \A m \in dlq : m.body \in BodiesOf(m.queue)

WorkersTyped ==
    /\ pc \in [Worker -> Phase]
    /\ from \in [Worker -> Queue]
    /\ job \in [Worker -> Job \cup {NoJob}]
    /\ \A w \in Worker : pc[w] # "idle" =>
           from[w] \in QueuesOf(w) /\ job[w] \in JobsOf(from[w])
    /\ \A w \in Worker : pc[w] \in {"feeding", "release"} => Locks(w)
    /\ attempts \in [Worker -> Nat]
    /\ pushed \in [Worker -> 0..Len(Downstream)]

HistoryTyped ==
    /\ requeues \in 0..MaxRequeues
    /\ queued \in 0..MaxJobs
    /\ failed \cup settled \cup skipped \cup buried \cup lost \subseteq 1..MaxJobs

\* Every job is in a queue, and in the hands of a worker, that can handle it;
\* ingestion bodies never reach the queues behind it, nor the other way round.
TypeOK == RedisTyped /\ DlqTyped /\ WorkersTyped /\ HistoryTyped

Init ==
    /\ queue = [q \in Queue |-> <<>>]
    /\ retries = [k \in Queue \X Body |-> 0]
    /\ lock = [a \in Account |-> Free]
    /\ dlq = {}
    /\ pc = [w \in Worker |-> "idle"]
    /\ from = [w \in Worker |-> "ingestion"]
    /\ job = [w \in Worker |-> NoJob]
    /\ attempts = [w \in Worker |-> 0]
    /\ pushed = [w \in Worker |-> 0]
    /\ requeues = 0 /\ queued = 0 /\ failed = {}
    /\ settled = {} /\ skipped = {} /\ buried = {} /\ lost = {}

-----------------------------------------------------------------------------
Key(w)        == <<from[w], job[w].body>>
LockOf(w)     == AccountOf[job[w].body]
Push(q, j)    == queue' = [queue EXCEPT ![q] = Append(@, j)]
Goto(w, next) == pc' = [pc EXCEPT ![w] = next]
IdsOf(w)      == {job[w].id} \ {0}

\* Workers inside the handler's try, its except or its finally clause.
Inside(w) == pc[w] \notin {"idle", "taken"}

Rest(w) ==
    /\ Goto(w, "idle")
    /\ from' = [from EXCEPT ![w] = "ingestion"]
    /\ job' = [job EXCEPT ![w] = NoJob]
    /\ attempts' = [attempts EXCEPT ![w] = 0]
    /\ pushed' = [pushed EXCEPT ![w] = 0]

\* The handler returns: a worker with the lock still has to delete it.
Return(w) ==
    \/ ~Locks(w) /\ Rest(w)
    \/ /\ Locks(w)
       /\ Goto(w, "release")
       /\ attempts' = [attempts EXCEPT ![w] = 0]
       /\ pushed' = [pushed EXCEPT ![w] = 0]
       /\ UNCHANGED <<from, job>>

\* enqueue_periodic_sync_jobs, trigger_sync: a job for an account is queued.
Enqueue ==
    /\ queued < MaxJobs
    /\ queued' = queued + 1
    /\ \E p \in Payload : Push("ingestion", [id |-> queued + 1, body |-> p])
    /\ UNCHANGED <<retries, lock, dlq, workerVars, requeues, failed, ends>>

\* requeue_dlq: the payload is pushed whatever the status of the message; the
\* new status is committed afterwards, or that commit fails.
RequeueDlq(m) ==
    /\ requeues < MaxRequeues
    /\ requeues' = requeues + 1
    /\ IF m.queue = "ingestion"
       THEN /\ queued < MaxJobs
            /\ Push("ingestion", [id |-> queued + 1, body |-> m.body])
            /\ queued' = queued + 1
       ELSE /\ Push(m.queue, [id |-> 0, body |-> m.body])
            /\ UNCHANGED queued
    /\ \/ dlq' = (dlq \ {m}) \cup {[m EXCEPT !.status = "requeued"]}
       \/ UNCHANGED dlq
    /\ UNCHANGED <<retries, lock, workerVars, failed, ends>>

\* _run_dlq_cleanup, for messages past the retention.
PurgeDlq ==
    /\ dlq' = {m \in dlq : m.status = "open"}
    /\ dlq' # dlq
    /\ UNCHANGED <<queue, retries, lock, workerVars, history>>

-----------------------------------------------------------------------------
(***************************************************************************)
(* One job in the hands of a worker.                                       *)
(***************************************************************************)

Pop(w) ==
    /\ pc[w] = "idle"
    /\ \E q \in QueuesOf(w) :
           /\ queue[q] # <<>>
           /\ queue' = [queue EXCEPT ![q] = Tail(@)]
           /\ job' = [job EXCEPT ![w] = Head(queue[q])]
           /\ from' = [from EXCEPT ![w] = q]
    /\ Goto(w, "taken")
    /\ UNCHANGED <<retries, lock, dlq, attempts, pushed, history>>

\* The handler starts; ingestion takes its lock with SET NX EX.
Begin(w) ==
    /\ pc[w] = "taken"
    /\ Locks(w) => lock[LockOf(w)] = Free
    /\ lock' = IF Locks(w) THEN [lock EXCEPT ![LockOf(w)] = w] ELSE lock
    /\ Goto(w, "working")
    /\ UNCHANGED <<queue, retries, dlq, from, job, attempts, pushed, history>>

\* Mutant: the skip is inside the try, whose finally deletes the lock.
SkipInsideTry(w) ==
    /\ pc[w] = "taken" /\ Locks(w) /\ lock[LockOf(w)] # Free
    /\ skipped' = skipped \cup IdsOf(w)
    /\ Goto(w, "release")
    /\ UNCHANGED <<queue, retries, lock, dlq, from, job, attempts, pushed, requeues,
                   queued, failed, settled, buried, lost>>

\* The account is being ingested: the job is dropped.
SkipLocked(w) ==
    /\ pc[w] = "taken" /\ Locks(w) /\ lock[LockOf(w)] # Free
    /\ skipped' = skipped \cup IdsOf(w)
    /\ Rest(w)
    /\ UNCHANGED <<queue, retries, lock, dlq, requeues,
                   queued, failed, settled, buried, lost>>

\* The account does not exist or belongs to another organization.
AccountGone(w) ==
    /\ pc[w] = "working"
    /\ lost' = lost \cup IdsOf(w)
    /\ Return(w)
    /\ UNCHANGED <<queue, retries, lock, dlq, requeues,
                   queued, failed, settled, skipped, buried>>

\* ingest_account (or scoring, or the carbon sync) returned and is committed.
WorkCommits(w) ==
    /\ pc[w] = "working"
    /\ Goto(w, "committed")
    /\ UNCHANGED <<queue, retries, lock, dlq, from, job, attempts, pushed, history>>

\* The retry key is deleted; a downstream job ends there.
ClearRetries(w) ==
    /\ pc[w] = "committed"
    /\ retries' = [retries EXCEPT ![Key(w)] = 0]
    /\ IF Locks(w) THEN Goto(w, "feeding") /\ UNCHANGED <<from, job, attempts, pushed>>
                   ELSE Rest(w)
    /\ UNCHANGED <<queue, lock, dlq, history>>

\* Mutant: the downstream queue gets the ingestion job itself.
FeedRawPayload(w) ==
    /\ pc[w] = "feeding" /\ pushed[w] < Len(Downstream)
    /\ Push(Downstream[pushed[w] + 1], job[w])
    /\ pushed' = [pushed EXCEPT ![w] = @ + 1]
    /\ UNCHANGED <<retries, lock, dlq, pc, from, job, attempts, history>>

\* The next downstream queue gets a job for the account.
FeedNext(w) ==
    /\ pc[w] = "feeding" /\ pushed[w] < Len(Downstream)
    /\ Push(Downstream[pushed[w] + 1], [id |-> 0, body |-> LockOf(w)])
    /\ pushed' = [pushed EXCEPT ![w] = @ + 1]
    /\ UNCHANGED <<retries, lock, dlq, pc, from, job, attempts, history>>

Complete(w) ==
    /\ pc[w] = "feeding" /\ pushed[w] = Len(Downstream)
    /\ settled' = settled \cup IdsOf(w)
    /\ Return(w)
    /\ UNCHANGED <<queue, retries, lock, dlq, requeues,
                   queued, failed, skipped, buried, lost>>

\* The try raised an exception.
Raise(w) ==
    /\ failed' = failed \cup IdsOf(w)
    /\ Goto(w, "failing")
    /\ UNCHANGED <<queue, retries, lock, dlq, from, job, attempts, pushed, requeues,
                   queued, ends>>

\* In the work, in its commit, in the alert, in the delete of the retry key.
WorkFails(w) == pc[w] \in {"working", "committed"} /\ Raise(w)

\* In the push to a downstream queue, when the retry key is already deleted.  That
\* the last push takes effect and only its answer is lost is left out: the queue
\* then gets its job twice, as the first of two does when the second push fails.
FeedFails(w) == pc[w] = "feeding" /\ pushed[w] < Len(Downstream) /\ Raise(w)

CountFailure(w) ==
    /\ pc[w] = "failing"
    /\ retries' = [retries EXCEPT ![Key(w)] = @ + 1]
    /\ attempts' = [attempts EXCEPT ![w] = retries'[Key(w)]]
    /\ Goto(w, "counted")
    /\ UNCHANGED <<queue, lock, dlq, from, job, pushed, history>>

\* Mutant: the counter is deleted when the retry is scheduled.
RetryAndForget(w) ==
    /\ pc[w] = "counted" /\ attempts[w] < MaxRetries
    /\ Push(from[w], job[w])
    /\ retries' = [retries EXCEPT ![Key(w)] = 0]
    /\ Return(w)
    /\ UNCHANGED <<lock, dlq, history>>

\* Mutant: a retry is still scheduled by the attempt that is also the last.
RetryOnceMore(w) ==
    /\ pc[w] = "counted" /\ attempts[w] <= MaxRetries
    /\ Push(from[w], job[w])
    /\ \/ attempts[w] < MaxRetries /\ Return(w)
       \/ /\ attempts[w] = MaxRetries
          /\ attempts' = [attempts EXCEPT ![w] = MaxRetries + 1]
          /\ UNCHANGED <<pc, from, job, pushed>>
    /\ UNCHANGED <<retries, lock, dlq, history>>

\* The job is queued again.  If the answer of the push is lost the exception
\* leaves the handler, to the same end: the job is queued, the lock deleted.
Retry(w) ==
    /\ pc[w] = "counted" /\ attempts[w] < MaxRetries
    /\ Push(from[w], job[w])
    /\ Return(w)
    /\ UNCHANGED <<retries, lock, dlq, history>>

\* push_to_dlq in a session of its own, committed.
MoveToDlq(w) ==
    /\ pc[w] = "counted" /\ attempts[w] >= MaxRetries
    /\ dlq' = dlq \cup {[queue |-> from[w], body |-> job[w].body, status |-> "open"]}
    /\ buried' = buried \cup IdsOf(w)
    /\ Goto(w, "dead")
    /\ UNCHANGED <<queue, retries, lock, from, job, attempts, pushed, requeues, queued,
                   failed, settled, skipped, lost>>

\* The retry key is deleted; mail and Slack come after it.
Bury(w) ==
    /\ pc[w] = "dead"
    /\ retries' = [retries EXCEPT ![Key(w)] = 0]
    /\ Return(w)
    /\ UNCHANGED <<queue, lock, dlq, history>>

\* A Redis command or the commit of the except clause fails, or the lock
\* command before the try: the exception reaches the loop, which goes on.
HandlerFails(w) ==
    /\ \/ pc[w] = "taken" /\ Rest(w)
       \/ pc[w] \in {"failing", "counted", "dead"} /\ Return(w)
    /\ lost' = IF pc[w] = "dead" THEN lost ELSE lost \cup IdsOf(w)
    /\ UNCHANGED <<queue, retries, lock, dlq, requeues,
                   queued, failed, settled, skipped, buried>>

\* finally: the key is deleted whoever owns it, or the delete fails.
ReleaseLock(w) ==
    /\ pc[w] = "release"
    /\ \/ lock' = [lock EXCEPT ![LockOf(w)] = Free]
       \/ UNCHANGED lock
    /\ Rest(w)
    /\ UNCHANGED <<queue, retries, dlq, history>>

\* The process dies with its job; the lock stays until it expires.
Crash(w) ==
    /\ pc[w] # "idle"
    /\ lost' = IF pc[w] \in {"dead", "release"} THEN lost ELSE lost \cup IdsOf(w)
    /\ Rest(w)
    /\ UNCHANGED <<queue, retries, lock, dlq, requeues,
                   queued, failed, settled, skipped, buried>>

\* Mutant: the lock is set without EX.
NeverExpires(a) == FALSE /\ lock[a] # Free /\ UNCHANGED vars

\* LOCK_TTL runs out.
ExpireLock(a) ==
    /\ lock[a] # Free
    /\ LockOutlivesJob => ~(Inside(lock[a]) /\ LockOf(lock[a]) = a)
    /\ lock' = [lock EXCEPT ![a] = Free]
    /\ UNCHANGED <<queue, retries, dlq, workerVars, history>>

\* What the event loop of a process does once it has a job.
Handle(w) ==
    \/ Begin(w)
    \/ SkipLocked(w)
    \/ AccountGone(w)
    \/ WorkCommits(w)
    \/ ClearRetries(w)
    \/ FeedNext(w)
    \/ Complete(w)
    \/ WorkFails(w)
    \/ FeedFails(w)
    \/ CountFailure(w)
    \/ Retry(w)
    \/ MoveToDlq(w)
    \/ Bury(w)
    \/ HandlerFails(w)
    \/ ReleaseLock(w)

Next ==
    \/ Enqueue
    \/ \E m \in dlq : RequeueDlq(m)
    \/ PurgeDlq
    \/ \E w \in Worker : Pop(w) \/ Handle(w) \/ Crash(w)
    \/ \E a \in Account : ExpireLock(a)

\* The loops poll their queues and every await returns; Redis expires keys.
Fairness ==
    /\ \A w \in Worker : WF_vars(Pop(w)) /\ WF_vars(Handle(w))
    /\ \A a \in Account : WF_vars(ExpireLock(a))

Spec == Init /\ [][Next]_vars /\ Fairness

-----------------------------------------------------------------------------
(***************************************************************************)
(* Properties.                                                             *)
(***************************************************************************)

\* "Distributed lock to prevent duplicate ingestion": unless a lock expires
\* under its job, no two jobs ingest an account at the same time, although
\* whoever ends deletes the key without looking at its owner.
OneIngestionPerAccount ==
    \A w, u \in Ingester :
        Inside(w) /\ Inside(u) /\ LockOf(w) = LockOf(u) => w = u

Waiting(i) == {k \in DOMAIN queue["ingestion"] : queue["ingestion"][k].id = i}
Holding(i) == {w \in Ingester : job[w].id = i /\ pc[w] \notin {"idle", "dead", "release"}}
Ended(i)   == {set \in {<<"settled", settled>>, <<"skipped", skipped>>,
                        <<"buried", buried>>, <<"lost", lost>>} : i \in set[2]}

\* Retries neither multiply nor swallow a job: it waits once, or is in one
\* worker's hands, or has ended in exactly one way.
EachJobOnce ==
    \A i \in 1..queued :
        Cardinality(Waiting(i)) + Cardinality(Holding(i)) + Cardinality(Ended(i)) = 1

IdsInLine  == [k \in DOMAIN queue["ingestion"] |-> queue["ingestion"][k].id]
IdsInHands == {job[w].id : w \in {u \in Ingester : pc[u] \notin {"idle", "dead", "release"}}}

Pipeline == INSTANCE WorkQueue WITH line <- IdsInLine, hands <- IdsInHands

\* However the loops, the retries, the requeued dead letters, the failing commands
\* and the crashes interleave, the ingestion queue is such a work queue: a job is
\* nowhere twice, none disappears without an end, only a failed one is tried again
\* or buried, and none is handed out again after its end.
KeepsEveryJob == Pipeline!Spec

\* "Mensagens que falham 3x sao movidas para DLQ" (README.md:739): a job that
\* failed is tried again until it succeeds or is dead; it is not dropped as a
\* duplicate of itself.
RetryIsNotSkipped == failed \cap skipped = {}

\* The counters end the retries: once nothing new is queued every queue drains,
\* however jobs fail, save for one loop.  The counter is deleted before the
\* downstream pushes, so a job whose push never succeeds is tried for ever.
QueuesDrain ==
    \/ <>[](\A q \in Queue : queue[q] = <<>>)
    \/ \E w \in Ingester : []<><<FeedFails(w)>>_vars

\* No lock blocks an account for ever, whatever happens to its owner.
LockIsFreed == \A a \in Account : lock[a] # Free ~> lock[a] = Free

=============================================================================
