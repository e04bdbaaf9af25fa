--------------------------- MODULE JobQueue_proofs ---------------------------
(***************************************************************************)
(* Theorems about the job pipeline, for any number of loops, accounts,     *)
(* bodies, downstream queues and jobs: every job stays in queues and hands *)
(* that can handle it, none is multiplied or swallowed, the ingestion      *)
(* queue with its loops implements the abstract work queue, and the        *)
(* account lock excludes a second ingestion as long as no ingestion        *)
(* outlives its lock.                                                      *)
(***************************************************************************)
EXTENDS JobQueue, FiniteSetTheorems, SequenceTheorems, TLAPS

-----------------------------------------------------------------------------
(***************************************************************************)
(* Facts about jobs and queues.                                            *)
(***************************************************************************)

\* What a queue holds is a job, and its body can be counted and buried.
LEMMA JobTypes ==
    ASSUME NEW q \in Queue, NEW j \in JobsOf(q)
    PROVE  /\ j \in Job /\ j.body \in BodiesOf(q) /\ j.body \in Body
           /\ j.id = 0 \/ j.id \in 1..MaxJobs
<1>1. j \in Job
  BY DEF Job
<1>2. j.body \in BodiesOf(q) /\ (j.id = 0 \/ j.id \in 1..MaxJobs)
  BY DEF JobsOf
<1>3. BodiesOf(q) \subseteq Body
  BY DEF BodiesOf, Body
<1> QED
  BY <1>1, <1>2, <1>3

\* A downstream queue is a queue other than the ingestion queue.
LEMMA DownstreamQueues ==
    ASSUME NEW i \in DOMAIN Downstream
    PROVE  Downstream[i] \in Queue \ {"ingestion"}
<1>1. Downstream \in Seq({"scoring", "carbon"})
  BY JobQueueAssumption
<1>2. Downstream[i] \in {"scoring", "carbon"}
  BY <1>1
<1> QED
  BY <1>2 DEF Queue

\* A push of a job that fits its queue keeps every queue well formed.
LEMMA PushTyped ==
    ASSUME RedisTyped, NEW q \in Queue, NEW j \in JobsOf(q), Push(q, j)
    PROVE  /\ queue' \in [Queue -> Seq(Job)]
           /\ \A r \in Queue : queue'[r] \in Seq(JobsOf(r))
<1>1. queue \in [Queue -> Seq(Job)] /\ \A r \in Queue : queue[r] \in Seq(JobsOf(r))
  BY DEF RedisTyped
<1>2. j \in Job
  BY JobTypes
<1>3. Append(queue[q], j) \in Seq(Job)
  BY <1>1, <1>2
<1>4. Append(queue[q], j) \in Seq(JobsOf(q))
  BY <1>1
<1>5. queue' = [queue EXCEPT ![q] = Append(queue[q], j)]
  BY DEF Push
<1>6. queue' \in [Queue -> Seq(Job)]
  BY <1>1, <1>3, <1>5
<1>7. ASSUME NEW r \in Queue PROVE queue'[r] \in Seq(JobsOf(r))
  <2>1. CASE r = q
    BY <2>1, <1>1, <1>4, <1>5
  <2>2. CASE r # q
    BY <2>2, <1>1, <1>5
  <2> QED
    BY <2>1, <2>2
<1> QED
  BY <1>6, <1>7

\* A worker that rests, or goes on to delete its lock, is well formed.
LEMMA RestTyped ==
    ASSUME WorkersTyped, NEW w \in Worker, Rest(w)
    PROVE  WorkersTyped'
<1>1. "ingestion" \in Queue /\ "idle" \in Phase /\ 0 \in 0..Len(Downstream)
  <2>1. Len(Downstream) \in Nat
    BY JobQueueAssumption
  <2> QED
    BY <2>1 DEF Queue, Phase
<1>2. pc' \in [Worker -> Phase] /\ from' \in [Worker -> Queue]
  BY <1>1 DEF WorkersTyped, Rest, Goto
<1>3. job' \in [Worker -> Job \cup {NoJob}]
  BY DEF WorkersTyped, Rest
<1>4. attempts' \in [Worker -> Nat] /\ pushed' \in [Worker -> 0..Len(Downstream)]
  BY <1>1 DEF WorkersTyped, Rest
<1>5. ASSUME NEW u \in Worker, pc'[u] # "idle"
      PROVE  /\ pc'[u] = pc[u] /\ from'[u] = from[u] /\ job'[u] = job[u]
  BY <1>5 DEF WorkersTyped, Rest, Goto
<1>6. \A u \in Worker : pc'[u] # "idle" =>
          from'[u] \in QueuesOf(u) /\ job'[u] \in JobsOf(from'[u])
  BY <1>5 DEF WorkersTyped
<1>7. \A u \in Worker : pc'[u] \in {"feeding", "release"} => from'[u] = "ingestion"
  BY <1>5 DEF WorkersTyped, Locks
<1> QED
  BY <1>2, <1>3, <1>4, <1>6, <1>7 DEF WorkersTyped, Locks

\* A worker that only moves to another phase keeps its job and its queue.
LEMMA StayTyped ==
    ASSUME WorkersTyped, NEW w \in Worker, NEW next \in Phase \ {"idle"}, pc[w] # "idle",
           next \in {"feeding", "release"} => Locks(w),
           Goto(w, next), from' = from, job' = job,
           attempts' \in [Worker -> Nat], pushed' \in [Worker -> 0..Len(Downstream)]
    PROVE  WorkersTyped'
<1>1. pc' \in [Worker -> Phase]
  BY DEF WorkersTyped, Goto
<1>2. \A u \in Worker : pc'[u] = IF u = w THEN next ELSE pc[u]
  BY DEF WorkersTyped, Goto
<1>3. \A u \in Worker : pc'[u] # "idle" =>
          from'[u] \in QueuesOf(u) /\ job'[u] \in JobsOf(from'[u])
  BY <1>2 DEF WorkersTyped
<1>4. \A u \in Worker : pc'[u] \in {"feeding", "release"} => from'[u] = "ingestion"
  BY <1>2 DEF WorkersTyped, Locks
<1> QED
  BY <1>1, <1>3, <1>4 DEF WorkersTyped, Locks

\* A handler that returns leaves its worker well formed.
LEMMA ReturnTyped ==
    ASSUME WorkersTyped, NEW w \in Worker, pc[w] # "idle", Return(w)
    PROVE  WorkersTyped'
<1>1. CASE ~Locks(w)
  <2>1. Rest(w)
    BY <1>1 DEF Return
  <2> QED
    BY <2>1, RestTyped
<1>2. CASE Locks(w)
  <2>1. /\ Goto(w, "release") /\ from' = from /\ job' = job
        /\ attempts' = [attempts EXCEPT ![w] = 0] /\ pushed' = [pushed EXCEPT ![w] = 0]
    BY <1>2 DEF Return
  <2>2. attempts' \in [Worker -> Nat]
    BY <2>1 DEF WorkersTyped
  <2>3. pushed' \in [Worker -> 0..Len(Downstream)]
    BY <2>1, JobQueueAssumption DEF WorkersTyped
  <2>4. "release" \in Phase \ {"idle"}
    BY DEF Phase
  <2> QED
    BY <2>1, <2>2, <2>3, <2>4, <1>2, StayTyped
<1> QED
  BY <1>1, <1>2

\* The ids a busy worker holds are ids of ingestion jobs.
LEMMA HeldIds ==
    ASSUME WorkersTyped, NEW w \in Worker, pc[w] # "idle"
    PROVE  IdsOf(w) \subseteq 1..MaxJobs
<1>1. from[w] \in Queue /\ job[w] \in JobsOf(from[w])
  BY DEF WorkersTyped
<1>2. job[w].id = 0 \/ job[w].id \in 1..MaxJobs
  BY <1>1, JobTypes
<1> QED
  BY <1>2 DEF IdsOf

-----------------------------------------------------------------------------
(***************************************************************************)
(* Type correctness, one part of TypeOK at a time.                         *)
(***************************************************************************)

\* Begin is one of the actions that change a worker; so is every action below.
LEMMA WorkersStep ==
    ASSUME TypeOK, [Next]_vars
    PROVE  WorkersTyped'
<1> USE DEF TypeOK
<1>1. CASE UNCHANGED vars \/ Enqueue \/ PurgeDlq \/ (\E m \in dlq : RequeueDlq(m))
               \/ (\E a \in Account : ExpireLock(a))
  <2>1. UNCHANGED workerVars
    BY <1>1 DEF vars, workerVars, Enqueue, PurgeDlq, RequeueDlq, ExpireLock
  <2> QED
    BY <2>1 DEF workerVars, WorkersTyped, Locks
<1>2. ASSUME NEW w \in Worker, Pop(w) PROVE WorkersTyped'
  <2>1. PICK q \in QueuesOf(w) :
          /\ queue[q] # <<>>
          /\ job' = [job EXCEPT ![w] = Head(queue[q])]
          /\ from' = [from EXCEPT ![w] = q]
    BY <1>2 DEF Pop
  <2>2. q \in Queue
    BY <2>1 DEF QueuesOf, Queue
  <2>3. Head(queue[q]) \in JobsOf(q)
    BY <2>1, <2>2 DEF RedisTyped
  <2>4. Head(queue[q]) \in Job
    BY <2>2, <2>3, JobTypes
  <2>5. pc' = [pc EXCEPT ![w] = "taken"] /\ UNCHANGED <<attempts, pushed>>
    BY <1>2 DEF Pop, Goto
  <2>6. pc' \in [Worker -> Phase] /\ from' \in [Worker -> Queue]
    BY <2>1, <2>2, <2>5 DEF WorkersTyped, Phase
  <2>7. job' \in [Worker -> Job \cup {NoJob}]
    BY <2>1, <2>4 DEF WorkersTyped
  <2>8. ASSUME NEW u \in Worker, pc'[u] # "idle"
        PROVE  from'[u] \in QueuesOf(u) /\ job'[u] \in JobsOf(from'[u])
    <3>1. CASE u = w
      BY <3>1, <2>1, <2>2, <2>3 DEF WorkersTyped
    <3>2. CASE u # w
      BY <3>2, <2>8, <2>1, <2>5 DEF WorkersTyped
    <3> QED
      BY <3>1, <3>2
  <2>9. \A u \in Worker : pc'[u] \in {"feeding", "release"} => from'[u] = "ingestion"
    BY <2>1, <2>5 DEF WorkersTyped, Locks
  <2> QED
    BY <2>5, <2>6, <2>7, <2>8, <2>9 DEF WorkersTyped, Locks
<1>3. ASSUME NEW w \in Worker, Begin(w) PROVE WorkersTyped'
  BY <1>3, StayTyped DEF Begin, Phase, WorkersTyped
<1>4. ASSUME NEW w \in Worker, SkipLocked(w) PROVE WorkersTyped'
  BY <1>4, RestTyped DEF SkipLocked
<1>5. ASSUME NEW w \in Worker, AccountGone(w) PROVE WorkersTyped'
  BY <1>5, ReturnTyped DEF AccountGone
<1>6. ASSUME NEW w \in Worker, WorkCommits(w) PROVE WorkersTyped'
  BY <1>6, StayTyped DEF WorkCommits, Phase, WorkersTyped
<1>7. ASSUME NEW w \in Worker, ClearRetries(w) PROVE WorkersTyped'
  <2>1. CASE Locks(w)
    BY <2>1, <1>7, StayTyped DEF ClearRetries, Phase, WorkersTyped
  <2>2. CASE ~Locks(w)
    BY <2>2, <1>7, RestTyped DEF ClearRetries
  <2> QED
    BY <2>1, <2>2
<1>8. ASSUME NEW w \in Worker, FeedNext(w) PROVE WorkersTyped'
  <2>1. Len(Downstream) \in Nat
    BY JobQueueAssumption
  <2>2. /\ pc[w] = "feeding" /\ pushed[w] < Len(Downstream)
        /\ pushed' = [pushed EXCEPT ![w] = @ + 1]
        /\ UNCHANGED <<pc, from, job, attempts>>
    BY <1>8 DEF FeedNext
  <2>3. pushed[w] \in 0..Len(Downstream)
    BY DEF WorkersTyped
  <2>4. pushed[w] + 1 \in 0..Len(Downstream)
    BY <2>1, <2>2, <2>3
  <2>5. pushed' \in [Worker -> 0..Len(Downstream)]
    BY <2>2, <2>4 DEF WorkersTyped
  <2> QED
    BY <2>2, <2>5 DEF WorkersTyped, Locks
<1>9. ASSUME NEW w \in Worker, Complete(w) PROVE WorkersTyped'
  BY <1>9, ReturnTyped DEF Complete
<1>10. ASSUME NEW w \in Worker, WorkFails(w) \/ FeedFails(w) PROVE WorkersTyped'
  BY <1>10, StayTyped DEF WorkFails, FeedFails, Raise, Phase, WorkersTyped
<1>11. ASSUME NEW w \in Worker, CountFailure(w) PROVE WorkersTyped'
  <2>1. /\ pc[w] = "failing" /\ Goto(w, "counted")
        /\ retries' = [retries EXCEPT ![Key(w)] = @ + 1]
        /\ attempts' = [attempts EXCEPT ![w] = retries'[Key(w)]]
        /\ UNCHANGED <<from, job, pushed>>
    BY <1>11 DEF CountFailure
  <2>2. Key(w) \in Queue \X Body
    BY <2>1, JobTypes DEF WorkersTyped, Key
  <2>3. retries'[Key(w)] \in Nat
    BY <2>1, <2>2 DEF RedisTyped
  <2>4. attempts' \in [Worker -> Nat]
    BY <2>1, <2>3 DEF WorkersTyped
  <2>5. pushed' \in [Worker -> 0..Len(Downstream)]
    BY <2>1 DEF WorkersTyped
  <2>6. "counted" \in Phase \ {"idle"}
    BY DEF Phase
  <2> QED
    BY <2>1, <2>4, <2>5, <2>6, StayTyped
<1>12. ASSUME NEW w \in Worker, Retry(w) PROVE WorkersTyped'
  BY <1>12, ReturnTyped DEF Retry
<1>13. ASSUME NEW w \in Worker, MoveToDlq(w) PROVE WorkersTyped'
  BY <1>13, StayTyped DEF MoveToDlq, Phase, WorkersTyped
<1>14. ASSUME NEW w \in Worker, Bury(w) PROVE WorkersTyped'
  BY <1>14, ReturnTyped DEF Bury
<1>15. ASSUME NEW w \in Worker, HandlerFails(w) PROVE WorkersTyped'
  <2>1. CASE pc[w] = "taken" /\ Rest(w)
    BY <2>1, RestTyped
  <2>2. CASE pc[w] \in {"failing", "counted", "dead"} /\ Return(w)
    BY <2>2, ReturnTyped
  <2> QED
    BY <1>15, <2>1, <2>2 DEF HandlerFails
<1>16. ASSUME NEW w \in Worker, ReleaseLock(w) PROVE WorkersTyped'
  BY <1>16, RestTyped DEF ReleaseLock
<1>17. ASSUME NEW w \in Worker, Crash(w) PROVE WorkersTyped'
  BY <1>17, RestTyped DEF Crash
<1> QED
  BY <1>1, <1>2, <1>3, <1>4, <1>5, <1>6, <1>7, <1>8, <1>9, <1>10, <1>11, <1>12, <1>13,
     <1>14, <1>15, <1>16, <1>17 DEF Next, Handle

\* Pops and pushes keep every queue well formed, and Redis its keys.
LEMMA RedisStep ==
    ASSUME TypeOK, [Next]_vars
    PROVE  RedisTyped'
<1> USE DEF TypeOK
<1>1. ASSUME UNCHANGED queue PROVE /\ queue' \in [Queue -> Seq(Job)]
                                   /\ \A q \in Queue : queue'[q] \in Seq(JobsOf(q))
  BY <1>1 DEF RedisTyped
<1>2. ASSUME NEW k \in Queue \X Body, retries' = [retries EXCEPT ![k] = 0]
             \/ retries' = [retries EXCEPT ![k] = @ + 1]
      PROVE  retries' \in [Queue \X Body -> Nat]
  BY <1>2 DEF RedisTyped
<1>3. ASSUME NEW w \in Worker, pc[w] # "idle" PROVE Key(w) \in Queue \X Body
  BY <1>3, JobTypes DEF WorkersTyped, Key
<1>4. ASSUME NEW w \in Worker, pc[w] # "idle", Locks(w)
      PROVE  /\ w \in Ingester /\ LockOf(w) \in Account /\ job[w].body \in Payload
  <2>1. from[w] \in QueuesOf(w) /\ job[w] \in JobsOf("ingestion")
    BY <1>4 DEF WorkersTyped, Locks
  <2>2. w \in Ingester
    BY <2>1, <1>4 DEF QueuesOf, Locks
  <2>3. job[w].body \in Payload
    BY <2>1 DEF JobsOf, BodiesOf
  <2> QED
    BY <2>2, <2>3, JobQueueAssumption DEF LockOf
<1>5. CASE UNCHANGED <<queue, retries, lock>>
  BY <1>5, <1>1 DEF RedisTyped
<1>6. CASE Enqueue
  <2>1. PICK p \in Payload : Push("ingestion", [id |-> queued + 1, body |-> p])
    BY <1>6 DEF Enqueue
  <2>2. queued + 1 \in 1..MaxJobs
    BY <1>6, JobQueueAssumption DEF Enqueue, HistoryTyped
  <2>3. "ingestion" \in Queue /\ [id |-> queued + 1, body |-> p] \in JobsOf("ingestion")
    BY <2>2 DEF Queue, JobsOf, BodiesOf
  <2> QED
    BY <2>1, <2>3, <1>6, PushTyped DEF Enqueue, RedisTyped
<1>7. ASSUME NEW m \in dlq, RequeueDlq(m) PROVE RedisTyped'
  <2>1. m.queue \in Queue /\ m.body \in BodiesOf(m.queue)
    BY DEF DlqTyped
  <2>2. CASE m.queue = "ingestion"
    <3>1. queued + 1 \in 1..MaxJobs
      BY <1>7, <2>2, JobQueueAssumption DEF RequeueDlq, HistoryTyped
    <3>2. [id |-> queued + 1, body |-> m.body] \in JobsOf("ingestion")
      BY <2>1, <2>2, <3>1 DEF JobsOf
    <3>3. Push("ingestion", [id |-> queued + 1, body |-> m.body])
      BY <1>7, <2>2 DEF RequeueDlq
    <3> QED
      BY <3>2, <3>3, <2>1, <2>2, <1>7, PushTyped DEF RequeueDlq, RedisTyped
  <2>3. CASE m.queue # "ingestion"
    <3>1. [id |-> 0, body |-> m.body] \in JobsOf(m.queue)
      BY <2>1, <2>3 DEF JobsOf
    <3>2. Push(m.queue, [id |-> 0, body |-> m.body])
      BY <1>7, <2>3 DEF RequeueDlq
    <3> QED
      BY <3>1, <3>2, <2>1, <1>7, PushTyped DEF RequeueDlq, RedisTyped
  <2> QED
    BY <2>2, <2>3
<1>8. ASSUME NEW w \in Worker, Pop(w) PROVE RedisTyped'
  <2>1. PICK q \in QueuesOf(w) :
          queue[q] # <<>> /\ queue' = [queue EXCEPT ![q] = Tail(queue[q])]
    BY <1>8 DEF Pop
  <2>2. q \in Queue
    BY <2>1 DEF QueuesOf, Queue
  <2>3. Tail(queue[q]) \in Seq(Job) /\ Tail(queue[q]) \in Seq(JobsOf(q))
    BY <2>1, <2>2 DEF RedisTyped
  <2>4. queue' \in [Queue -> Seq(Job)]
    BY <2>1, <2>2, <2>3 DEF RedisTyped
  <2>5. ASSUME NEW r \in Queue PROVE queue'[r] \in Seq(JobsOf(r))
    <3>1. CASE r = q
      BY <3>1, <2>1, <2>2, <2>3 DEF RedisTyped
    <3>2. CASE r # q
      BY <3>2, <2>1, <2>2 DEF RedisTyped
    <3> QED
      BY <3>1, <3>2
  <2> QED
    BY <2>4, <2>5, <1>8 DEF Pop, RedisTyped
<1>9. ASSUME NEW w \in Worker, Begin(w) PROVE RedisTyped'
  <2>1. CASE Locks(w)
    BY <2>1, <1>9, <1>4, <1>1 DEF Begin, RedisTyped
  <2>2. CASE ~Locks(w)
    BY <2>2, <1>9, <1>1 DEF Begin, RedisTyped
  <2> QED
    BY <2>1, <2>2
<1>10. ASSUME NEW w \in Worker, ClearRetries(w) \/ Bury(w) \/ CountFailure(w)
       PROVE  RedisTyped'
  <2>1. /\ pc[w] # "idle" /\ UNCHANGED <<queue, lock>>
        /\ \/ retries' = [retries EXCEPT ![Key(w)] = 0]
           \/ retries' = [retries EXCEPT ![Key(w)] = @ + 1]
    BY <1>10 DEF ClearRetries, Bury, CountFailure
  <2>2. retries' \in [Queue \X Body -> Nat]
    BY <2>1, <1>2, <1>3
  <2> QED
    BY <2>1, <2>2, <1>1 DEF RedisTyped
<1>11. ASSUME NEW w \in Worker, FeedNext(w) PROVE RedisTyped'
  <2>1. /\ pc[w] = "feeding" /\ pushed[w] < Len(Downstream)
        /\ Push(Downstream[pushed[w] + 1], [id |-> 0, body |-> LockOf(w)])
        /\ UNCHANGED <<retries, lock>>
    BY <1>11 DEF FeedNext
  <2>2. pushed[w] + 1 \in DOMAIN Downstream
    BY <2>1, JobQueueAssumption DEF WorkersTyped
  <2>3. Downstream[pushed[w] + 1] \in Queue \ {"ingestion"}
    BY <2>2, DownstreamQueues
  <2>4. LockOf(w) \in Account
    BY <2>1, <1>4 DEF WorkersTyped
  <2>5. [id |-> 0, body |-> LockOf(w)] \in JobsOf(Downstream[pushed[w] + 1])
    BY <2>3, <2>4 DEF JobsOf, BodiesOf
  <2> QED
    BY <2>1, <2>3, <2>5, PushTyped DEF RedisTyped
<1>12. ASSUME NEW w \in Worker, Retry(w) PROVE RedisTyped'
  <2>1. from[w] \in Queue /\ job[w] \in JobsOf(from[w]) /\ Push(from[w], job[w])
    BY <1>12 DEF Retry, WorkersTyped
  <2> QED
    BY <2>1, <1>12, PushTyped DEF Retry, RedisTyped
<1>13. ASSUME NEW a \in Account, lock' = [lock EXCEPT ![a] = Free] \/ UNCHANGED lock,
              UNCHANGED <<queue, retries>>
       PROVE  RedisTyped'
  BY <1>13, <1>1 DEF RedisTyped
<1>14. ASSUME NEW w \in Worker, ReleaseLock(w) PROVE RedisTyped'
  <2>1. pc[w] # "idle" /\ Locks(w)
    BY <1>14 DEF ReleaseLock, WorkersTyped
  <2>2. LockOf(w) \in Account
    BY <2>1, <1>4
  <2> QED
    BY <1>14, <2>2, <1>13 DEF ReleaseLock
<1>15. ASSUME NEW a \in Account, ExpireLock(a) PROVE RedisTyped'
  BY <1>15, <1>13 DEF ExpireLock
<1>16. ASSUME NEW w \in Worker,
              \/ SkipLocked(w) \/ AccountGone(w) \/ WorkCommits(w) \/ Complete(w)
              \/ WorkFails(w) \/ FeedFails(w) \/ MoveToDlq(w) \/ HandlerFails(w) \/ Crash(w)
       PROVE  RedisTyped'
  <2>1. UNCHANGED <<queue, retries, lock>>
    BY <1>16 DEF SkipLocked, AccountGone, WorkCommits, Complete, WorkFails, FeedFails,
                 Raise, MoveToDlq, HandlerFails, Crash
  <2> QED
    BY <2>1, <1>5
<1>17. CASE PurgeDlq \/ UNCHANGED vars
  BY <1>17, <1>5 DEF PurgeDlq, vars
<1> QED
  BY <1>6, <1>7, <1>8, <1>9, <1>10, <1>11, <1>12, <1>14, <1>15, <1>16, <1>17
  DEF Next, Handle

\* Dead letters keep the queue they came from.
LEMMA DlqStep ==
    ASSUME TypeOK, [Next]_vars
    PROVE  DlqTyped'
<1> USE DEF TypeOK
<1>1. CASE UNCHANGED dlq
  BY <1>1 DEF DlqTyped
<1>2. ASSUME NEW m \in dlq, RequeueDlq(m) PROVE DlqTyped'
  <2>1. CASE dlq' = (dlq \ {m}) \cup {[m EXCEPT !.status = "requeued"]}
    <3>1. m \in [queue : Queue, body : Body, status : {"open", "requeued"}]
          /\ m.body \in BodiesOf(m.queue)
      BY DEF DlqTyped
    <3>2. [m EXCEPT !.status = "requeued"] =
              [queue |-> m.queue, body |-> m.body, status |-> "requeued"]
      BY <3>1
    <3> QED
      BY <2>1, <3>1, <3>2 DEF DlqTyped
  <2>2. CASE UNCHANGED dlq
    BY <2>2, <1>1
  <2> QED
    BY <1>2, <2>1, <2>2 DEF RequeueDlq
<1>3. CASE PurgeDlq
  BY <1>3 DEF PurgeDlq, DlqTyped
<1>4. ASSUME NEW w \in Worker, MoveToDlq(w) PROVE DlqTyped'
  <2>1. from[w] \in Queue /\ job[w] \in JobsOf(from[w])
    BY <1>4 DEF MoveToDlq, WorkersTyped
  <2>2. job[w].body \in BodiesOf(from[w]) /\ job[w].body \in Body
    BY <2>1, JobTypes
  <2> QED
    BY <1>4, <2>1, <2>2 DEF MoveToDlq, DlqTyped
<1>5. CASE Enqueue \/ (\E w \in Worker : Pop(w) \/ Crash(w)) \/ (\E a \in Account : ExpireLock(a))
  <2>1. UNCHANGED dlq
    BY <1>5 DEF Enqueue, Pop, Crash, ExpireLock
  <2> QED
    BY <2>1, <1>1
<1>6. ASSUME NEW w \in Worker, Handle(w), ~MoveToDlq(w) PROVE UNCHANGED dlq
  BY <1>6 DEF Handle, Begin, SkipLocked, AccountGone, WorkCommits, ClearRetries, FeedNext,
              Complete, WorkFails, FeedFails, Raise, CountFailure, Retry, Bury, HandlerFails,
              ReleaseLock
<1>7. CASE UNCHANGED vars
  BY <1>7, <1>1 DEF vars
<1> QED
  BY <1>1, <1>2, <1>3, <1>4, <1>5, <1>6, <1>7 DEF Next

\* Only ids of jobs that were queued enter the history.
LEMMA HistoryStep ==
    ASSUME TypeOK, [Next]_vars
    PROVE  HistoryTyped'
<1> USE DEF TypeOK
<1>1. CASE UNCHANGED <<requeues, queued, failed, ends>>
  BY <1>1 DEF HistoryTyped, ends
<1>2. CASE Enqueue
  BY <1>2, JobQueueAssumption DEF Enqueue, HistoryTyped, ends
<1>3. ASSUME NEW m \in dlq, RequeueDlq(m) PROVE HistoryTyped'
  BY <1>3, JobQueueAssumption DEF RequeueDlq, HistoryTyped, ends
<1>4. ASSUME NEW w \in Worker, pc[w] # "idle",
             UNCHANGED <<requeues, queued>>,
             failed' \subseteq failed \cup IdsOf(w), settled' \subseteq settled \cup IdsOf(w),
             skipped' \subseteq skipped \cup IdsOf(w), buried' \subseteq buried \cup IdsOf(w),
             lost' \subseteq lost \cup IdsOf(w)
      PROVE  HistoryTyped'
  <2>1. IdsOf(w) \subseteq 1..MaxJobs
    BY <1>4, HeldIds
  <2> QED
    BY <1>4, <2>1 DEF HistoryTyped
<1>5. ASSUME NEW w \in Worker, SkipLocked(w) \/ AccountGone(w) \/ Complete(w) \/ MoveToDlq(w)
                                \/ WorkFails(w) \/ FeedFails(w)
      PROVE  HistoryTyped'
  BY <1>5, <1>4 DEF SkipLocked, AccountGone, Complete, MoveToDlq, WorkFails, FeedFails, Raise, ends
<1>6. ASSUME NEW w \in Worker, HandlerFails(w) \/ Crash(w) PROVE HistoryTyped'
  BY <1>6, <1>4 DEF HandlerFails, Crash
<1>7. ASSUME NEW w \in Worker,
             \/ Pop(w) \/ Begin(w) \/ WorkCommits(w) \/ ClearRetries(w) \/ FeedNext(w)
             \/ CountFailure(w) \/ Retry(w) \/ Bury(w) \/ ReleaseLock(w)
      PROVE  HistoryTyped'
  <2>1. UNCHANGED history
    BY <1>7 DEF Pop, Begin, WorkCommits, ClearRetries, FeedNext, CountFailure, Retry, Bury,
                ReleaseLock
  <2> QED
    BY <2>1, <1>1 DEF history
<1>8. CASE PurgeDlq \/ (\E a \in Account : ExpireLock(a)) \/ UNCHANGED vars
  BY <1>8, <1>1 DEF PurgeDlq, ExpireLock, history, ends, vars
<1> QED
  BY <1>2, <1>3, <1>5, <1>6, <1>7, <1>8 DEF Next, Handle

\* TypeOK holds in every state: no job reaches a queue or a worker that cannot
\* handle it, whatever fails, expires, is retried or is queued again.
THEOREM TypeCorrect == Spec => []TypeOK
<1>1. Init => TypeOK
  <2> SUFFICES ASSUME Init PROVE TypeOK
    OBVIOUS
  <2>1. RedisTyped
    BY DEF Init, RedisTyped
  <2>2. DlqTyped /\ HistoryTyped
    BY JobQueueAssumption DEF Init, DlqTyped, HistoryTyped
  <2>3. WorkersTyped
    <3>1. Len(Downstream) \in Nat
      BY JobQueueAssumption
    <3> QED
      BY <3>1 DEF Init, WorkersTyped, Phase, Queue, Locks
  <2> QED
    BY <2>1, <2>2, <2>3 DEF TypeOK
<1>2. TypeOK /\ [Next]_vars => TypeOK'
  BY RedisStep, DlqStep, WorkersStep, HistoryStep DEF TypeOK
<1> QED
  BY <1>1, <1>2, PTL DEF Spec

-----------------------------------------------------------------------------
(***************************************************************************)
(* The account lock.                                                       *)
(***************************************************************************)

\* The strengthening: the lock of an account under ingestion names the worker
\* that ingests it.  The code deletes the key without comparing owners; this
\* is why that is harmless while no lock expires under its job.
LockHeld == \A w \in Ingester : Inside(w) => lock[LockOf(w)] = w

\* An ingester that holds a job holds an ingestion job.
LEMMA IngesterJobs ==
    ASSUME WorkersTyped, NEW w \in Ingester, pc[w] # "idle"
    PROVE  Locks(w) /\ LockOf(w) \in Account
<1>1. w \in Worker
  BY DEF Worker
<1>2. from[w] = "ingestion" /\ job[w] \in JobsOf("ingestion")
  BY <1>1 DEF WorkersTyped, QueuesOf
<1> QED
  BY <1>2, JobQueueAssumption DEF Locks, JobsOf, BodiesOf, LockOf

\* Every step keeps the locks with their owners.
LEMMA LockStep ==
    ASSUME LockOutlivesJob, TypeOK, LockHeld, [Next]_vars
    PROVE  LockHeld'
<1> USE DEF TypeOK
<1>1. ASSUME UNCHANGED lock,
             \A u \in Ingester : Inside(u)' => Inside(u) /\ job'[u] = job[u]
      PROVE  LockHeld'
  BY <1>1 DEF LockHeld, LockOf
<1>2. ASSUME NEW w \in Worker, NEW a \in Account, Locks(w), LockOf(w) = a, Inside(w), w \in Ingester,
             NEW u \in Ingester, u # w, Inside(u)
      PROVE  LockOf(u) # a
  BY <1>2 DEF LockHeld
<1>3. ASSUME NEW w \in Worker, Rest(w) \/ (pc[w] # "taken" /\ Return(w))
      PROVE  \A u \in Ingester : Inside(u)' => (pc[w] # "idle" => Inside(u)) /\ job'[u] = job[u]
  <2>1. Ingester \subseteq Worker
    BY DEF Worker
  <2> QED
    BY <1>3, <2>1 DEF Rest, Return, Goto, Inside, WorkersTyped
<1>4. ASSUME NEW w \in Worker, Begin(w) PROVE LockHeld'
  <2>1. \A u \in Ingester : u # w => (Inside(u)' = Inside(u) /\ LockOf(u)' = LockOf(u))
    BY <1>4 DEF Begin, Goto, Inside, WorkersTyped, LockOf
  <2>2. CASE Locks(w)
    <3>1. pc[w] = "taken" /\ lock[LockOf(w)] = Free /\ lock' = [lock EXCEPT ![LockOf(w)] = w]
          /\ job' = job
      BY <2>2, <1>4 DEF Begin
    <3>2. w \in Ingester
      BY <3>1, <2>2 DEF WorkersTyped, QueuesOf, Locks
    <3>3. LockOf(w) \in Account
      BY <3>1, <3>2, IngesterJobs
    <3>4. ASSUME NEW u \in Ingester, Inside(u)' PROVE lock'[LockOf(u)'] = u
      <4>1. CASE u = w
        BY <4>1, <3>1, <3>3 DEF RedisTyped, LockOf
      <4>2. CASE u # w
        <5>1. lock[LockOf(u)] = u /\ LockOf(u)' = LockOf(u)
          BY <4>2, <3>4, <2>1 DEF LockHeld
        <5>2. LockOf(u) # LockOf(w)
          BY <5>1, <3>1, JobQueueAssumption
        <5>3. LockOf(u) \in Account
          BY <3>4, <4>2, <2>1, IngesterJobs DEF Inside
        <5> QED
          BY <5>1, <5>2, <5>3, <3>1, <3>3 DEF RedisTyped
      <4> QED
        BY <4>1, <4>2
    <3> QED
      BY <3>4 DEF LockHeld
  <2>3. CASE ~Locks(w)
    <3>1. w \notin Ingester
      BY <2>3, <1>4, IngesterJobs DEF Begin
    <3>2. UNCHANGED lock
      BY <2>3, <1>4 DEF Begin
    <3> QED
      BY <3>1, <3>2, <2>1 DEF LockHeld
  <2> QED
    BY <2>2, <2>3
<1>5. ASSUME NEW w \in Worker, ReleaseLock(w) PROVE LockHeld'
  <2>1. pc[w] = "release" /\ Rest(w) /\ Inside(w) /\ Locks(w)
    BY <1>5 DEF ReleaseLock, Inside, WorkersTyped
  <2>2. w \in Ingester
    BY <2>1 DEF WorkersTyped, QueuesOf, Locks
  <2>3. LockOf(w) \in Account
    BY <2>1, <2>2, IngesterJobs DEF Inside
  <2>4. ASSUME NEW u \in Ingester, Inside(u)' PROVE lock'[LockOf(u)'] = u
    <3>1. u # w
      <4>1. pc'[w] = "idle"
        BY <2>1 DEF Rest, Goto, WorkersTyped
      <4> QED
        BY <4>1, <2>4 DEF Inside
    <3>2. Inside(u) /\ LockOf(u)' = LockOf(u)
      BY <2>4, <3>1, <2>1, <1>3 DEF LockOf
    <3>3. LockOf(u) # LockOf(w) /\ lock[LockOf(u)] = u
      BY <3>1, <3>2, <2>1, <2>2, <2>3, <1>2 DEF LockHeld
    <3>4. LockOf(u) \in Account
      BY <3>2, IngesterJobs DEF Inside
    <3> QED
      BY <1>5, <3>2, <3>3, <3>4, <2>3 DEF ReleaseLock, RedisTyped
  <2> QED
    BY <2>4 DEF LockHeld
<1>6. ASSUME NEW a \in Account, ExpireLock(a) PROVE LockHeld'
  <2>1. /\ lock[a] # Free /\ ~(Inside(lock[a]) /\ LockOf(lock[a]) = a)
        /\ lock' = [lock EXCEPT ![a] = Free] /\ UNCHANGED <<pc, job>>
    BY <1>6 DEF ExpireLock, workerVars
  <2>2. ASSUME NEW u \in Ingester, Inside(u)' PROVE lock'[LockOf(u)'] = u
    <3>1. Inside(u) /\ LockOf(u)' = LockOf(u) /\ lock[LockOf(u)] = u
      BY <2>1, <2>2 DEF Inside, LockOf, LockHeld
    <3>2. LockOf(u) # a /\ LockOf(u) \in Account
      BY <3>1, <2>1, IngesterJobs DEF Inside
    <3> QED
      BY <3>1, <3>2, <2>1 DEF RedisTyped
  <2> QED
    BY <2>2 DEF LockHeld
<1>7. ASSUME NEW w \in Worker, Pop(w) PROVE LockHeld'
  <2>1. \A u \in Ingester : Inside(u)' => Inside(u) /\ job'[u] = job[u]
    BY <1>7 DEF Pop, Goto, Inside, WorkersTyped
  <2> QED
    BY <2>1, <1>7, <1>1 DEF Pop
<1>8. ASSUME NEW w \in Worker, SkipLocked(w) \/ Crash(w) PROVE LockHeld'
  BY <1>8, <1>1, <1>3 DEF SkipLocked, Crash
<1>9. ASSUME NEW w \in Worker, AccountGone(w) \/ Complete(w) \/ Retry(w) \/ Bury(w)
      PROVE  LockHeld'
  BY <1>9, <1>1, <1>3 DEF AccountGone, Complete, Retry, Bury
<1>10. ASSUME NEW w \in Worker, HandlerFails(w) PROVE LockHeld'
  BY <1>10, <1>1, <1>3 DEF HandlerFails
<1>11. ASSUME NEW w \in Worker, ClearRetries(w) PROVE LockHeld'
  <2>1. CASE Locks(w)
    <3>1. pc[w] = "committed" /\ Goto(w, "feeding") /\ UNCHANGED <<job, lock>>
      BY <2>1, <1>11 DEF ClearRetries
    <3>2. \A u \in Ingester : Inside(u)' => Inside(u) /\ job'[u] = job[u]
      BY <3>1 DEF Goto, Inside, WorkersTyped
    <3> QED
      BY <3>1, <3>2, <1>1
  <2>2. CASE ~Locks(w)
    BY <2>2, <1>11, <1>1, <1>3 DEF ClearRetries
  <2> QED
    BY <2>1, <2>2
<1>12. ASSUME NEW w \in Worker, WorkCommits(w) \/ FeedNext(w) \/ WorkFails(w) \/ FeedFails(w)
                                 \/ CountFailure(w) \/ MoveToDlq(w)
       PROVE  LockHeld'
  <2>1. Inside(w) /\ (UNCHANGED pc \/ \E next \in Phase : Goto(w, next))
    BY <1>12 DEF WorkCommits, FeedNext, WorkFails, FeedFails, Raise, CountFailure, MoveToDlq,
                 Inside, Phase
  <2>3. \A u \in Ingester : Inside(u)' => Inside(u)
    BY <2>1 DEF Goto, Inside, WorkersTyped, Worker
  <2>2. UNCHANGED <<job, lock>>
    BY <1>12 DEF WorkCommits, FeedNext, WorkFails, FeedFails, Raise, CountFailure, MoveToDlq
  <2> QED
    BY <2>2, <2>3, <1>1
<1>13. CASE Enqueue \/ PurgeDlq \/ (\E m \in dlq : RequeueDlq(m)) \/ UNCHANGED vars
  <2>1. UNCHANGED <<pc, job, lock>>
    BY <1>13 DEF Enqueue, PurgeDlq, RequeueDlq, vars, workerVars
  <2> QED
    BY <2>1, <1>1 DEF Inside
<1> QED
  BY <1>4, <1>5, <1>6, <1>7, <1>8, <1>9, <1>10, <1>11, <1>12, <1>13 DEF Next, Handle

\* As long as no ingestion outlives its lock, no account is ingested by two
\* loops at once, however many loops run and whatever crashes or fails.
THEOREM OneIngester ==
    ASSUME LockOutlivesJob
    PROVE  Spec => []OneIngestionPerAccount
<1>1. Init => LockHeld
  BY DEF Init, LockHeld, Inside, Worker
<1>2. TypeOK /\ LockHeld /\ [Next]_vars => LockHeld'
  BY LockStep
<1>3. LockHeld => OneIngestionPerAccount
  BY DEF LockHeld, OneIngestionPerAccount
<1> QED
  BY <1>1, <1>2, <1>3, TypeCorrect, PTL DEF Spec

-----------------------------------------------------------------------------
(***************************************************************************)
(* No job is multiplied or swallowed.                                      *)
(***************************************************************************)

\* The ingestion jobs that wait, in order.
Line == queue["ingestion"]

\* A worker whose job has not ended.
Busy(w) == pc[w] \notin {"idle", "dead", "release"}

Over == settled \cup skipped \cup buried \cup lost

EndsApart ==
    /\ settled \cap skipped = {} /\ settled \cap buried = {} /\ settled \cap lost = {}
    /\ skipped \cap buried = {} /\ skipped \cap lost = {} /\ buried \cap lost = {}
    /\ Over \subseteq 1..queued

LineApart ==
    /\ \A k, l \in DOMAIN Line : Line[k].id = Line[l].id => k = l
    /\ \A k \in DOMAIN Line : Line[k].id \in (1..queued) \ Over

HandsApart ==
    /\ \A w, u \in Ingester : Busy(w) /\ Busy(u) /\ job[w].id = job[u].id => w = u
    /\ \A w \in Ingester : Busy(w) => job[w].id \in (1..queued) \ Over
    /\ \A w \in Ingester, k \in DOMAIN Line : Busy(w) => Line[k].id # job[w].id

NoneMissing ==
    \A i \in (1..queued) \ Over :
        \/ \E k \in DOMAIN Line : Line[k].id = i
        \/ \E w \in Ingester : Busy(w) /\ job[w].id = i

\* Every job that was queued is in one place: the line, the hands of a worker, or
\* one of the four ways to end.
InOnePlace == EndsApart /\ LineApart /\ HandsApart /\ NoneMissing

\* An invariant on places says what EachJobOnce counts.
LEMMA PlacesAreCounted ==
    ASSUME TypeOK, InOnePlace
    PROVE  EachJobOnce
<1> SUFFICES ASSUME NEW i \in 1..queued
             PROVE  Cardinality(Waiting(i)) + Cardinality(Holding(i)) + Cardinality(Ended(i)) = 1
  BY DEF EachJobOnce
<1>0. Cardinality({}) = 0 /\ \A x : Cardinality({x}) = 1
  BY FS_EmptySet, FS_Singleton
<1>1. CASE i \in Over
  <2>1. Waiting(i) = {}
    BY <1>1 DEF Waiting, InOnePlace, LineApart, Line
  <2>2. Holding(i) = {}
    BY <1>1 DEF Holding, InOnePlace, HandsApart, Busy
  <2>3. \E x : Ended(i) = {x}
    <3>1. CASE i \in settled
      <4>1. i \notin skipped /\ i \notin buried /\ i \notin lost
        BY <3>1 DEF InOnePlace, EndsApart
      <4>2. Ended(i) = {<<"settled", settled>>}
        BY <3>1, <4>1 DEF Ended
      <4> QED
        BY <4>2
    <3>2. CASE i \in skipped
      <4>1. i \notin settled /\ i \notin buried /\ i \notin lost
        BY <3>2 DEF InOnePlace, EndsApart
      <4>2. Ended(i) = {<<"skipped", skipped>>}
        BY <3>2, <4>1 DEF Ended
      <4> QED
        BY <4>2
    <3>3. CASE i \in buried
      <4>1. i \notin settled /\ i \notin skipped /\ i \notin lost
        BY <3>3 DEF InOnePlace, EndsApart
      <4>2. Ended(i) = {<<"buried", buried>>}
        BY <3>3, <4>1 DEF Ended
      <4> QED
        BY <4>2
    <3>4. CASE i \in lost
      <4>1. i \notin settled /\ i \notin skipped /\ i \notin buried
        BY <3>4 DEF InOnePlace, EndsApart
      <4>2. Ended(i) = {<<"lost", lost>>}
        BY <3>4, <4>1 DEF Ended
      <4> QED
        BY <4>2
    <3> QED
      BY <1>1, <3>1, <3>2, <3>3, <3>4 DEF Over
  <2>4. Cardinality(Waiting(i)) = 0 /\ Cardinality(Holding(i)) = 0 /\ Cardinality(Ended(i)) = 1
    BY <1>0, <2>1, <2>2, <2>3
  <2> QED
    BY <2>4
<1>2. CASE i \notin Over
  <2>1. Ended(i) = {}
    BY <1>2 DEF Ended, Over
  <2>2. CASE \E k \in DOMAIN Line : Line[k].id = i
    <3>1. PICK k \in DOMAIN Line : Line[k].id = i
      BY <2>2
    <3>2. Waiting(i) = {k}
      BY <3>1 DEF Waiting, InOnePlace, LineApart, Line
    <3>3. Holding(i) = {}
      BY <3>1 DEF Holding, InOnePlace, HandsApart, Busy
    <3>4. Cardinality(Waiting(i)) = 1 /\ Cardinality(Holding(i)) = 0 /\ Cardinality(Ended(i)) = 0
      BY <1>0, <2>1, <3>2, <3>3
    <3> QED
      BY <3>4
  <2>3. CASE \E w \in Ingester : Busy(w) /\ job[w].id = i
    <3>1. PICK w \in Ingester : Busy(w) /\ job[w].id = i
      BY <2>3
    <3>2. Waiting(i) = {}
      BY <3>1 DEF Waiting, InOnePlace, HandsApart, Line
    <3>3. Holding(i) = {w}
      BY <3>1 DEF Holding, InOnePlace, HandsApart, Busy
    <3>4. Cardinality(Waiting(i)) = 0 /\ Cardinality(Holding(i)) = 1 /\ Cardinality(Ended(i)) = 0
      BY <1>0, <2>1, <3>2, <3>3
    <3> QED
      BY <3>4
  <2> QED
    BY <1>2, <2>2, <2>3 DEF InOnePlace, NoneMissing
<1> QED
  BY <1>1, <1>2

\* Nothing that EachJobOnce looks at has changed.
LEMMA PlacesKept ==
    ASSUME InOnePlace, UNCHANGED <<Line, queued, ends>>,
           \A w \in Ingester : Busy(w)' = Busy(w) /\ (Busy(w) => job'[w] = job[w])
    PROVE  InOnePlace'
<1>1. UNCHANGED <<Line, queued, settled, skipped, buried, lost>>
  BY DEF ends
<1>2. UNCHANGED Over
  BY <1>1 DEF Over
<1>3. EndsApart'
  BY <1>1, <1>2 DEF InOnePlace, EndsApart
<1>4. LineApart'
  BY <1>1, <1>2 DEF InOnePlace, LineApart
<1>5. HandsApart'
  BY <1>1, <1>2 DEF InOnePlace, HandsApart
<1>6. NoneMissing'
  BY <1>1, <1>2 DEF InOnePlace, NoneMissing
<1> QED
  BY <1>3, <1>4, <1>5, <1>6 DEF InOnePlace

\* A new id joins the line.
LEMMA PlacesGrow ==
    ASSUME TypeOK, InOnePlace, UNCHANGED <<pc, job, ends>>, queued' = queued + 1,
           NEW j, j.id = queued + 1, Line' = Append(Line, j)
    PROVE  InOnePlace'
<1>1. Line \in Seq(JobsOf("ingestion")) /\ queued \in Nat
  BY JobQueueAssumption DEF TypeOK, RedisTyped, HistoryTyped, Line, Queue
<1>2. /\ DOMAIN Line = 1..Len(Line) /\ Len(Line) \in Nat
      /\ DOMAIN Line' = 1..(Len(Line) + 1)
      /\ \A k \in DOMAIN Line : Line'[k] = Line[k]
      /\ Line'[Len(Line) + 1] = j
  BY <1>1
<1>3. UNCHANGED <<settled, skipped, buried, lost, Over>>
  BY DEF ends, Over
<1>4. \A w \in Ingester : Busy(w)' = Busy(w) /\ job'[w] = job[w]
  BY DEF Busy
<1>5. /\ 1..queued \subseteq 1..queued' /\ queued + 1 \in 1..queued'
      /\ queued + 1 \notin 1..queued /\ \A i \in 1..queued' : i \in 1..queued \/ i = queued + 1
  BY <1>1
<1>6. EndsApart'
  BY <1>3, <1>5 DEF InOnePlace, EndsApart
<1>7. LineApart'
  <2>1. \A k \in DOMAIN Line' : k \in DOMAIN Line \/ k = Len(Line) + 1
    BY <1>2
  <2>2. queued + 1 \notin Over
    BY <1>5 DEF InOnePlace, EndsApart
  <2> QED
    BY <1>2, <1>3, <1>5, <2>1, <2>2 DEF InOnePlace, LineApart
<1>8. HandsApart'
  <2>1. \A k \in DOMAIN Line' : k \in DOMAIN Line \/ k = Len(Line) + 1
    BY <1>2
  <2> QED
    BY <1>2, <1>3, <1>4, <1>5, <2>1 DEF InOnePlace, HandsApart
<1>9. NoneMissing'
  <2>1. DOMAIN Line \subseteq DOMAIN Line' /\ Len(Line) + 1 \in DOMAIN Line'
    BY <1>2
  <2> QED
    BY <1>2, <1>3, <1>4, <1>5, <2>1 DEF InOnePlace, NoneMissing
<1> QED
  BY <1>6, <1>7, <1>8, <1>9 DEF InOnePlace

\* The first of the line gets into the hands of an idle worker.
LEMMA PlacesTaken ==
    ASSUME TypeOK, InOnePlace, UNCHANGED <<queued, ends>>, NEW w \in Ingester,
           ~Busy(w), Busy(w)', Line # <<>>, job'[w] = Head(Line), Line' = Tail(Line),
           \A u \in Ingester \ {w} : Busy(u)' = Busy(u) /\ job'[u] = job[u]
    PROVE  InOnePlace'
<1>1. Line \in Seq(JobsOf("ingestion"))
  BY DEF TypeOK, RedisTyped, Line, Queue
<1>2. /\ DOMAIN Line = 1..Len(Line) /\ Len(Line) \in Nat /\ 1 \in DOMAIN Line
      /\ DOMAIN Line' = 1..(Len(Line) - 1)
      /\ \A k \in DOMAIN Line' : Line'[k] = Line[k + 1] /\ k + 1 \in DOMAIN Line /\ k + 1 # 1
      /\ job'[w] = Line[1]
  <2>1. DOMAIN Line = 1..Len(Line) /\ Len(Line) \in Nat /\ Len(Line) # 0
    BY <1>1
  <2>2. Len(Line') = Len(Line) - 1 /\ DOMAIN Line' = 1..(Len(Line) - 1)
    BY <1>1, <2>1
  <2>3. \A k \in DOMAIN Line' : Line'[k] = Line[k + 1]
    BY <1>1, <2>1, <2>2
  <2>4. \A k \in DOMAIN Line' : k + 1 \in DOMAIN Line /\ k + 1 # 1
    BY <2>1, <2>2
  <2>5. job'[w] = Line[1]
    BY <1>1
  <2> QED
    BY <2>1, <2>2, <2>3, <2>4, <2>5
<1>3. \A k, l \in DOMAIN Line' : k + 1 = l + 1 => k = l
  BY <1>2
<1>4. \A k \in DOMAIN Line : k = 1 \/ (k - 1 \in DOMAIN Line' /\ Line'[k - 1] = Line[k])
  BY <1>2
<1>5. UNCHANGED <<settled, skipped, buried, lost, Over>>
  BY DEF ends, Over
<1>6. EndsApart'
  BY <1>5 DEF InOnePlace, EndsApart
<1>7. LineApart'
  BY <1>2, <1>3, <1>5 DEF InOnePlace, LineApart
<1>8. HandsApart'
  BY <1>2, <1>5 DEF InOnePlace, HandsApart, LineApart
<1>9. ASSUME NEW i \in (1..queued) \ Over
      PROVE  \/ \E k \in DOMAIN Line' : Line'[k].id = i
             \/ \E u \in Ingester : Busy(u)' /\ job'[u].id = i
  <2>1. CASE \E k \in DOMAIN Line : Line[k].id = i
    <3>1. PICK k \in DOMAIN Line : Line[k].id = i
      BY <2>1
    <3>2. CASE k = 1
      BY <3>1, <3>2, <1>2
    <3>3. CASE k # 1
      <4>1. k - 1 \in DOMAIN Line' /\ Line'[k - 1] = Line[k]
        BY <3>3, <1>4
      <4> QED
        BY <3>1, <4>1
    <3> QED
      BY <3>2, <3>3
  <2>2. CASE \E u \in Ingester : Busy(u) /\ job[u].id = i
    BY <2>2
  <2> QED
    BY <2>1, <2>2 DEF InOnePlace, NoneMissing
<1>10. NoneMissing'
  BY <1>5, <1>9 DEF NoneMissing
<1> QED
  BY <1>6, <1>7, <1>8, <1>10 DEF InOnePlace

\* The job of a busy worker ends in one of the four ways.
LEMMA PlacesEnd ==
    ASSUME TypeOK, InOnePlace, UNCHANGED <<Line, queued>>, NEW w \in Ingester,
           Busy(w), ~Busy(w)', NEW i, i = job[w].id,
           \A u \in Ingester \ {w} : Busy(u)' = Busy(u) /\ job'[u] = job[u],
           \/ settled' = settled \cup {i} /\ UNCHANGED <<skipped, buried, lost>>
           \/ skipped' = skipped \cup {i} /\ UNCHANGED <<settled, buried, lost>>
           \/ buried' = buried \cup {i} /\ UNCHANGED <<settled, skipped, lost>>
           \/ lost' = lost \cup {i} /\ UNCHANGED <<settled, skipped, buried>>
    PROVE  InOnePlace'
<1>1. Over' = Over \cup {i}
  BY DEF Over
<1>2. i \in 1..queued /\ i \notin Over
  BY DEF InOnePlace, HandsApart
<1>3. EndsApart'
  <2>1. i \notin settled /\ i \notin skipped /\ i \notin buried /\ i \notin lost
    BY <1>2 DEF Over
  <2> QED
    BY <1>1, <1>2, <2>1 DEF InOnePlace, EndsApart
<1>4. LineApart'
  BY <1>1 DEF InOnePlace, LineApart, HandsApart
<1>5. HandsApart'
  BY <1>1 DEF InOnePlace, HandsApart
<1>6. NoneMissing'
  BY <1>1 DEF InOnePlace, NoneMissing
<1> QED
  BY <1>3, <1>4, <1>5, <1>6 DEF InOnePlace

\* The job of a busy worker goes back to the end of the line.
LEMMA PlacesReturned ==
    ASSUME TypeOK, InOnePlace, UNCHANGED <<queued, ends>>, NEW w \in Ingester,
           Busy(w), ~Busy(w)', Line' = Append(Line, job[w]),
           \A u \in Ingester \ {w} : Busy(u)' = Busy(u) /\ job'[u] = job[u]
    PROVE  InOnePlace'
<1>1. Line \in Seq(JobsOf("ingestion"))
  BY DEF TypeOK, RedisTyped, Line, Queue
<1>2. /\ DOMAIN Line = 1..Len(Line) /\ Len(Line) \in Nat
      /\ DOMAIN Line' = 1..(Len(Line) + 1)
      /\ \A k \in DOMAIN Line : Line'[k] = Line[k]
      /\ Line'[Len(Line) + 1] = job[w]
  BY <1>1
<1>3. /\ \A k \in DOMAIN Line' : k \in DOMAIN Line \/ k = Len(Line) + 1
      /\ DOMAIN Line \subseteq DOMAIN Line' /\ Len(Line) + 1 \in DOMAIN Line'
  BY <1>2
<1>4. UNCHANGED <<settled, skipped, buried, lost, Over>>
  BY DEF ends, Over
<1>5. EndsApart'
  BY <1>4 DEF InOnePlace, EndsApart
<1>6. LineApart'
  BY <1>2, <1>3, <1>4 DEF InOnePlace, LineApart, HandsApart
<1>7. HandsApart'
  BY <1>2, <1>3, <1>4 DEF InOnePlace, HandsApart
<1>8. NoneMissing'
  BY <1>2, <1>3, <1>4 DEF InOnePlace, NoneMissing
<1> QED
  BY <1>5, <1>6, <1>7, <1>8 DEF InOnePlace

\* Resting, or going on to the lock, frees the hands of a worker and no other.
LEMMA HandsFreed ==
    ASSUME WorkersTyped, NEW w \in Worker, pc[w] # "idle", Rest(w) \/ Return(w)
    PROVE  /\ ~Busy(w)'
           /\ \A u \in Worker \ {w} : Busy(u)' = Busy(u) /\ job'[u] = job[u]
  BY DEF WorkersTyped, Rest, Return, Goto, Busy

\* A worker that goes from phase to phase with its job keeps it in its hands.
LEMMA HandsKept ==
    ASSUME WorkersTyped, NEW w \in Worker, NEW next \in Phase, Goto(w, next), job' = job,
           Busy(w), next \notin {"idle", "dead", "release"}
    PROVE  \A u \in Worker : Busy(u)' = Busy(u) /\ job'[u] = job[u]
  BY DEF WorkersTyped, Goto, Busy

\* An ingester that is not idle holds one ingestion job.
LEMMA IngesterHolds ==
    ASSUME TypeOK, NEW w \in Ingester, pc[w] # "idle"
    PROVE  /\ w \in Worker /\ from[w] = "ingestion" /\ Locks(w)
           /\ IdsOf(w) = {job[w].id}
<1>1. w \in Worker
  BY DEF Worker
<1>2. from[w] = "ingestion" /\ job[w] \in JobsOf("ingestion")
  BY <1>1 DEF TypeOK, WorkersTyped, QueuesOf
<1>3. job[w].id \in 1..MaxJobs
  BY <1>2 DEF JobsOf
<1>4. job[w].id # 0
  BY <1>3, JobQueueAssumption
<1> QED
  BY <1>1, <1>2, <1>4 DEF IdsOf, Locks

\* The other workers serve other queues, with jobs that have no id.
LEMMA FollowerHolds ==
    ASSUME TypeOK, NEW w \in Worker \ Ingester, pc[w] # "idle"
    PROVE  /\ from[w] \in Queue \ {"ingestion"} /\ ~Locks(w) /\ IdsOf(w) = {}
<1>1. from[w] \in Queue \ {"ingestion"} /\ job[w] \in JobsOf(from[w])
  BY DEF TypeOK, WorkersTyped, QueuesOf
<1>2. job[w].id = 0
  BY <1>1 DEF JobsOf
<1> QED
  BY <1>1, <1>2 DEF IdsOf, Locks

\* What the steps of the ingestion loops do to the ingestion jobs.
SameHands  == \A u \in Ingester : Busy(u)' = Busy(u) /\ (Busy(u) => job'[u] = job[u])
OthersSame(w) == \A u \in Ingester \ {w} : Busy(u)' = Busy(u) /\ job'[u] = job[u]

NothingMoves == SameHands /\ UNCHANGED <<Line, queued, failed, ends>>

JobTaken(w) ==
    /\ ~Busy(w) /\ Busy(w)' /\ OthersSame(w)
    /\ Line # <<>> /\ job'[w] = Head(Line) /\ Line' = Tail(Line)
    /\ UNCHANGED <<queued, failed, ends>>

JobFails(w) ==
    /\ Busy(w) /\ SameHands /\ failed' = failed \cup {job[w].id}
    /\ UNCHANGED <<Line, queued, ends>>

JobReturned(w) ==
    /\ pc[w] = "counted" /\ Busy(w) /\ ~Busy(w)' /\ OthersSame(w)
    /\ Line' = Append(Line, job[w])
    /\ UNCHANGED <<queued, failed, ends>>

JobEnds(w) ==
    /\ Busy(w) /\ ~Busy(w)' /\ OthersSame(w)
    /\ \/ settled' = settled \cup {job[w].id} /\ UNCHANGED <<skipped, buried, lost>>
       \/ skipped' = skipped \cup {job[w].id} /\ UNCHANGED <<settled, buried, lost>>
       \/ /\ pc[w] = "counted" /\ buried' = buried \cup {job[w].id}
          /\ UNCHANGED <<settled, skipped, lost>>
       \/ lost' = lost \cup {job[w].id} /\ UNCHANGED <<settled, skipped, buried>>
    /\ UNCHANGED <<Line, queued, failed>>

\* What a loop behind the ingestion does moves no ingestion job.
LEMMA FollowerMoves ==
    ASSUME TypeOK, NEW w \in Worker \ Ingester, Pop(w) \/ Handle(w) \/ Crash(w)
    PROVE  NothingMoves
<1>0. WorkersTyped /\ queue \in [Queue -> Seq(Job)] /\ "ingestion" \in Queue
  BY DEF TypeOK, RedisTyped, Queue
<1>1. SameHands
  <2>1. \A u \in Worker \ {w} : pc'[u] = pc[u] /\ job'[u] = job[u]
    BY <1>0 DEF Pop, Handle, Crash, Begin, SkipLocked, AccountGone, WorkCommits, ClearRetries,
      FeedNext, Complete, WorkFails, FeedFails, Raise, CountFailure, Retry, MoveToDlq, Bury,
      HandlerFails, ReleaseLock, Rest, Return, Goto, WorkersTyped
  <2> QED
    BY <2>1 DEF Busy, Worker, SameHands
<1>2. CASE Pop(w)
  <2>1. PICK q \in QueuesOf(w) : queue' = [queue EXCEPT ![q] = Tail(@)]
    BY <1>2 DEF Pop
  <2>2. q # "ingestion" /\ UNCHANGED <<queued, failed, ends>>
    BY <2>1, <1>2 DEF QueuesOf, Pop, history, ends
  <2>3. UNCHANGED Line
    BY <1>0, <2>1, <2>2 DEF Line
  <2> QED
    BY <1>1, <2>2, <2>3 DEF NothingMoves
<1>3. CASE Handle(w) \/ Crash(w)
  <2>1. pc[w] # "idle"
    BY <1>3 DEF Crash, Handle, Begin, SkipLocked, AccountGone, WorkCommits, ClearRetries,
      FeedNext, Complete, WorkFails, FeedFails, Raise, CountFailure, Retry, MoveToDlq, Bury,
      HandlerFails, ReleaseLock
  <2>2. from[w] \in Queue \ {"ingestion"} /\ ~Locks(w) /\ IdsOf(w) = {}
    BY <2>1, FollowerHolds
  <2>3. ~FeedNext(w)
    BY <1>0, <2>2 DEF FeedNext, WorkersTyped, Locks
  <2>4. queued' = queued /\ failed' = failed /\ ends' = ends
    BY <1>3, <2>2, <2>3 DEF Crash, Handle, Begin, SkipLocked, AccountGone, WorkCommits,
      ClearRetries, Complete, WorkFails, FeedFails, Raise, CountFailure, Retry, MoveToDlq,
      Bury, HandlerFails, ReleaseLock, history, ends
  <2>5. queue' = queue \/ queue' = [queue EXCEPT ![from[w]] = Append(@, job[w])]
    BY <1>3, <2>3 DEF Crash, Handle, Begin, SkipLocked, AccountGone, WorkCommits,
      ClearRetries, Complete, WorkFails, FeedFails, Raise, CountFailure, Retry, MoveToDlq,
      Bury, HandlerFails, ReleaseLock, Push
  <2>6. UNCHANGED Line
    BY <1>0, <2>2, <2>5 DEF Line
  <2> QED
    BY <1>1, <2>4, <2>6 DEF NothingMoves
<1> QED
  BY <1>2, <1>3

\* What the ingestion loop does with a job moves it to one other place at most.
LEMMA IngesterMoves ==
    ASSUME TypeOK, NEW w \in Ingester, Pop(w) \/ Handle(w) \/ Crash(w)
    PROVE  NothingMoves \/ JobTaken(w) \/ JobFails(w) \/ JobReturned(w) \/ JobEnds(w)
<1>0. /\ WorkersTyped /\ w \in Worker /\ Ingester \subseteq Worker
      /\ queue \in [Queue -> Seq(Job)] /\ "ingestion" \in Queue
  BY DEF TypeOK, RedisTyped, Queue, Worker
<1>1. ASSUME UNCHANGED <<Line, queued, failed, settled, skipped, buried, lost>>,
             \A u \in Worker : Busy(u)' = Busy(u) /\ (Busy(u) => job'[u] = job[u])
      PROVE  NothingMoves
  BY <1>0, <1>1 DEF ends, NothingMoves, SameHands
<1>2. ASSUME UNCHANGED <<Line, queued, failed>>, Busy(w), Rest(w) \/ Return(w),
             \/ settled' = settled \cup IdsOf(w) /\ UNCHANGED <<skipped, buried, lost>>
             \/ skipped' = skipped \cup IdsOf(w) /\ UNCHANGED <<settled, buried, lost>>
             \/ lost' = lost \cup IdsOf(w) /\ UNCHANGED <<settled, skipped, buried>>
      PROVE  JobEnds(w)
  <2>1. pc[w] # "idle"
    BY <1>2 DEF Busy
  <2>2. IdsOf(w) = {job[w].id}
    BY <2>1, IngesterHolds
  <2>3. ~Busy(w)' /\ OthersSame(w)
    BY <1>0, <1>2, <2>1, HandsFreed DEF OthersSame
  <2> QED
    BY <1>2, <2>2, <2>3 DEF JobEnds
<1>3. CASE Pop(w)
  <2>1. /\ pc[w] = "idle" /\ queue["ingestion"] # <<>>
        /\ queue' = [queue EXCEPT !["ingestion"] = Tail(@)]
        /\ job' = [job EXCEPT ![w] = Head(queue["ingestion"])]
        /\ Goto(w, "taken") /\ UNCHANGED <<queued, failed, ends>>
    BY <1>3 DEF Pop, QueuesOf, history
  <2>2. Line # <<>> /\ Line' = Tail(Line) /\ job'[w] = Head(Line)
    BY <1>0, <2>1 DEF Line, WorkersTyped
  <2>3. ~Busy(w) /\ Busy(w)' /\ OthersSame(w)
    BY <1>0, <2>1 DEF Busy, Goto, WorkersTyped, OthersSame
  <2> QED
    BY <2>1, <2>2, <2>3 DEF JobTaken
<1>4. CASE Begin(w) \/ WorkCommits(w) \/ WorkFails(w) \/ FeedFails(w) \/ CountFailure(w)
  <2>1. /\ Busy(w) /\ job' = job
        /\ \E next \in Phase : Goto(w, next) /\ next \notin {"idle", "dead", "release"}
    BY <1>4 DEF Begin, WorkCommits, WorkFails, FeedFails, Raise, CountFailure, Busy, Phase
  <2>2. /\ UNCHANGED <<queue, queued, settled, skipped, buried, lost>>
        /\ failed' = failed \/ failed' = failed \cup IdsOf(w)
    BY <1>4 DEF Begin, WorkCommits, WorkFails, FeedFails, Raise, CountFailure, history, ends
  <2>3. \A u \in Worker : Busy(u)' = Busy(u) /\ job'[u] = job[u]
    BY <1>0, <2>1, HandsKept
  <2>4. IdsOf(w) = {job[w].id}
    BY <2>1, IngesterHolds DEF Busy
  <2>5. CASE failed' = failed
    BY <1>1, <2>2, <2>3, <2>5 DEF Line
  <2>6. CASE failed' = failed \cup IdsOf(w)
    BY <1>0, <2>1, <2>2, <2>3, <2>4, <2>6 DEF JobFails, SameHands, Line, ends
  <2> QED
    BY <2>2, <2>5, <2>6
<1>5. CASE ClearRetries(w)
  <2>1. pc[w] = "committed" /\ UNCHANGED <<queue, queued, failed, settled, skipped, buried, lost>>
    BY <1>5 DEF ClearRetries, history, ends
  <2>2. Goto(w, "feeding") /\ job' = job
    BY <1>5, <2>1, IngesterHolds DEF ClearRetries
  <2>3. \A u \in Worker : Busy(u)' = Busy(u) /\ job'[u] = job[u]
    BY <1>0, <2>1, <2>2, HandsKept DEF Busy, Phase
  <2> QED
    BY <1>1, <2>1, <2>3 DEF Line
<1>6. CASE FeedNext(w)
  <2>1. /\ pushed[w] + 1 \in DOMAIN Downstream
        /\ \E j : Push(Downstream[pushed[w] + 1], j)
        /\ UNCHANGED <<pc, job, queued, failed, settled, skipped, buried, lost>>
    BY <1>0, <1>6, JobQueueAssumption DEF FeedNext, WorkersTyped, history, ends
  <2>2. Downstream[pushed[w] + 1] # "ingestion"
    BY <2>1, DownstreamQueues
  <2>3. UNCHANGED Line
    BY <1>0, <2>1, <2>2 DEF Push, Line
  <2> QED
    BY <1>1, <2>1, <2>3 DEF Busy
<1>7. CASE SkipLocked(w) \/ AccountGone(w) \/ Complete(w)
  BY <1>7, <1>2 DEF SkipLocked, AccountGone, Complete, Busy, Line
<1>8. CASE HandlerFails(w) \/ Crash(w)
  <2>1. /\ Rest(w) \/ Return(w)
        /\ UNCHANGED <<queue, queued, failed, settled, skipped, buried>>
        /\ pc[w] # "idle"
    BY <1>8 DEF HandlerFails, Crash
  <2>2. CASE Busy(w)
    <3>1. lost' = lost \cup IdsOf(w)
      BY <1>8, <2>2 DEF HandlerFails, Crash, Busy
    <3> QED
      BY <2>1, <2>2, <3>1, <1>2 DEF Line
  <2>3. CASE ~Busy(w)
    <3>1. UNCHANGED lost
      BY <1>8, <2>3 DEF HandlerFails, Crash, Busy
    <3>2. ~Busy(w)' /\ \A u \in Worker \ {w} : Busy(u)' = Busy(u) /\ job'[u] = job[u]
      BY <1>0, <2>1, HandsFreed
    <3> QED
      BY <2>1, <2>3, <3>1, <3>2, <1>1 DEF Line, Busy
  <2> QED
    BY <2>2, <2>3
<1>9. CASE Retry(w)
  <2>1. /\ pc[w] = "counted" /\ Push(from[w], job[w]) /\ Return(w)
        /\ UNCHANGED <<queued, failed, ends>>
    BY <1>9 DEF Retry, history
  <2>2. Busy(w) /\ from[w] = "ingestion"
    BY <2>1, IngesterHolds DEF Busy
  <2>3. Line' = Append(Line, job[w])
    BY <1>0, <2>1, <2>2 DEF Push, Line
  <2>4. ~Busy(w)' /\ OthersSame(w)
    BY <1>0, <2>1, HandsFreed DEF OthersSame
  <2> QED
    BY <2>1, <2>2, <2>3, <2>4 DEF JobReturned
<1>10. CASE MoveToDlq(w)
  <2>1. /\ pc[w] = "counted" /\ Goto(w, "dead") /\ buried' = buried \cup IdsOf(w)
        /\ UNCHANGED <<queue, job, queued, failed, settled, skipped, lost>>
    BY <1>10 DEF MoveToDlq
  <2>2. IdsOf(w) = {job[w].id}
    BY <2>1, IngesterHolds
  <2>3. Busy(w) /\ ~Busy(w)' /\ OthersSame(w)
    BY <1>0, <2>1 DEF Busy, Goto, WorkersTyped, OthersSame
  <2> QED
    BY <2>1, <2>2, <2>3 DEF JobEnds, Line
<1>11. CASE Bury(w) \/ ReleaseLock(w)
  <2>1. /\ Rest(w) \/ Return(w)
        /\ UNCHANGED <<queue, queued, failed, settled, skipped, buried, lost>>
        /\ pc[w] \in {"dead", "release"}
    BY <1>11 DEF Bury, ReleaseLock, history, ends
  <2>2. ~Busy(w)' /\ \A u \in Worker \ {w} : Busy(u)' = Busy(u) /\ job'[u] = job[u]
    BY <1>0, <2>1, HandsFreed
  <2> QED
    BY <2>1, <2>2, <1>1 DEF Line, Busy
<1> QED
  BY <1>3, <1>4, <1>5, <1>6, <1>7, <1>8, <1>9, <1>10, <1>11 DEF Handle

\* However a worker's step moves a job, it leaves each job in one place.
LEMMA MovesKeepPlaces ==
    ASSUME TypeOK, InOnePlace,
           \/ NothingMoves
           \/ \E w \in Ingester : JobTaken(w) \/ JobFails(w) \/ JobReturned(w) \/ JobEnds(w)
    PROVE  InOnePlace'
<1>1. CASE NothingMoves
  BY <1>1, PlacesKept DEF NothingMoves, SameHands
<1>2. ASSUME NEW w \in Ingester, JobTaken(w) PROVE InOnePlace'
  BY <1>2, PlacesTaken DEF JobTaken, OthersSame
<1>3. ASSUME NEW w \in Ingester, JobFails(w) PROVE InOnePlace'
  BY <1>3, PlacesKept DEF JobFails, SameHands
<1>4. ASSUME NEW w \in Ingester, JobReturned(w) PROVE InOnePlace'
  BY <1>4, PlacesReturned DEF JobReturned, OthersSame
<1>5. ASSUME NEW w \in Ingester, JobEnds(w) PROVE InOnePlace'
  BY <1>5, PlacesEnd DEF JobEnds, OthersSame
<1> QED
  BY <1>1, <1>2, <1>3, <1>4, <1>5

\* Every step leaves each job in one place.
LEMMA PlacesStep ==
    ASSUME TypeOK, InOnePlace, [Next]_vars
    PROVE  InOnePlace'
<1>0. queue \in [Queue -> Seq(Job)] /\ "ingestion" \in Queue
  BY DEF TypeOK, RedisTyped, Queue
<1>1. ASSUME UNCHANGED <<queue, queued, ends, pc, job>> PROVE InOnePlace'
  BY <1>1, PlacesKept DEF Line, Busy
<1>2. CASE Enqueue
  <2>1. PICK p \in Payload : Push("ingestion", [id |-> queued + 1, body |-> p])
    BY <1>2 DEF Enqueue
  <2>2. Line' = Append(Line, [id |-> queued + 1, body |-> p])
    BY <1>0, <2>1 DEF Push, Line
  <2>3. UNCHANGED <<pc, job, ends>> /\ queued' = queued + 1
    BY <1>2 DEF Enqueue, workerVars
  <2> QED
    BY <2>2, <2>3, PlacesGrow
<1>3. ASSUME NEW m \in dlq, RequeueDlq(m) PROVE InOnePlace'
  <2>1. UNCHANGED <<pc, job, ends>>
    BY <1>3 DEF RequeueDlq, workerVars
  <2>2. CASE m.queue = "ingestion"
    <3>1. Push("ingestion", [id |-> queued + 1, body |-> m.body]) /\ queued' = queued + 1
      BY <1>3, <2>2 DEF RequeueDlq
    <3>2. Line' = Append(Line, [id |-> queued + 1, body |-> m.body])
      BY <1>0, <3>1 DEF Push, Line
    <3> QED
      BY <2>1, <3>1, <3>2, PlacesGrow
  <2>3. CASE m.queue # "ingestion"
    <3>1. Push(m.queue, [id |-> 0, body |-> m.body]) /\ UNCHANGED queued
      BY <1>3, <2>3 DEF RequeueDlq
    <3>2. queue' = [queue EXCEPT ![m.queue] = Append(@, [id |-> 0, body |-> m.body])]
      BY <3>1 DEF Push
    <3>3. UNCHANGED Line
      BY <1>0, <2>3, <3>2 DEF Line
    <3> QED
      BY <2>1, <3>1, <3>3, PlacesKept DEF Busy
  <2> QED
    BY <2>2, <2>3
<1>4. CASE PurgeDlq \/ (\E a \in Account : ExpireLock(a)) \/ UNCHANGED vars
  <2>1. UNCHANGED <<queue, queued, ends, pc, job>>
    BY <1>4 DEF PurgeDlq, ExpireLock, vars, workerVars, history, ends
  <2> QED
    BY <2>1, <1>1
<1>5. ASSUME NEW w \in Worker, Pop(w) \/ Handle(w) \/ Crash(w) PROVE InOnePlace'
  BY <1>5, IngesterMoves, FollowerMoves, MovesKeepPlaces
<1> QED
  BY <1>2, <1>3, <1>4, <1>5 DEF Next

\* So at every moment each job is in one place.
LEMMA PlacesAlways == Spec => []InOnePlace
<1>1. Init => InOnePlace
  <2> SUFFICES ASSUME Init PROVE InOnePlace
    OBVIOUS
  <2>1. Line = <<>> /\ Over = {} /\ queued = 0 /\ \A w \in Ingester : ~Busy(w)
    BY DEF Init, Line, Over, Busy, Queue, Worker
  <2> QED
    BY <2>1 DEF Init, InOnePlace, EndsApart, LineApart, HandsApart, NoneMissing
<1>2. TypeOK /\ InOnePlace /\ [Next]_vars => InOnePlace'
  BY PlacesStep
<1> QED
  BY <1>1, <1>2, TypeCorrect, PTL DEF Spec

\* Retries, requeues, skips, crashes and failing commands neither multiply nor
\* swallow an ingestion job, whatever the number of loops and jobs.
THEOREM JobsAreKept == Spec => []EachJobOnce
<1>1. TypeOK /\ InOnePlace => EachJobOnce
  BY PlacesAreCounted
<1> QED
  BY <1>1, TypeCorrect, PlacesAlways, PTL

-----------------------------------------------------------------------------
(***************************************************************************)
(* The pipeline implements the abstract work queue.                        *)
(***************************************************************************)

\* The id of a job whose attempt failed is recorded before anything is done
\* about the failure.
HandsFailed == \A w \in Ingester : pc[w] \in {"failing", "counted"} => job[w].id \in failed

LEMMA FailedStep ==
    ASSUME TypeOK, HandsFailed, [Next]_vars
    PROVE  HandsFailed'
<1>0. WorkersTyped /\ Ingester \subseteq Worker
  BY DEF TypeOK, Worker
<1>1. failed \subseteq failed'
  BY DEF Next, vars, Enqueue, RequeueDlq, PurgeDlq, ExpireLock, Pop, Crash, Handle, Begin,
    SkipLocked, AccountGone, WorkCommits, ClearRetries, FeedNext, Complete, WorkFails,
    FeedFails, Raise, CountFailure, Retry, MoveToDlq, Bury, HandlerFails, ReleaseLock, history
<1>2. ASSUME NEW u \in Ingester, UNCHANGED <<pc[u], job[u]>>,
             pc'[u] \in {"failing", "counted"}
      PROVE  job'[u].id \in failed'
  BY <1>1, <1>2 DEF HandsFailed
<1>3. CASE UNCHANGED <<pc, job>>
  BY <1>2, <1>3 DEF HandsFailed
<1>4. ASSUME NEW w \in Worker, Pop(w) \/ Handle(w) \/ Crash(w) PROVE HandsFailed'
  <2> SUFFICES ASSUME NEW u \in Ingester, pc'[u] \in {"failing", "counted"}
               PROVE  job'[u].id \in failed'
    BY DEF HandsFailed
  <2>1. CASE u # w
    <3>1. pc'[u] = pc[u] /\ job'[u] = job[u]
      BY <1>0, <1>4, <2>1 DEF Pop, Handle, Crash, Begin, SkipLocked, AccountGone, WorkCommits,
        ClearRetries, FeedNext, Complete, WorkFails, FeedFails, Raise, CountFailure, Retry,
        MoveToDlq, Bury, HandlerFails, ReleaseLock, Rest, Return, Goto, WorkersTyped
    <3> QED
      BY <3>1, <1>2
  <2>2. CASE u = w
    <3>1. \/ pc[w] # "idle" /\ (WorkFails(w) \/ FeedFails(w))
          \/ CountFailure(w)
          \/ FeedNext(w)
      BY <1>0, <1>4, <2>2 DEF Pop, Handle, Crash, Begin, SkipLocked, AccountGone, WorkCommits,
        ClearRetries, Complete, WorkFails, FeedFails, Retry, MoveToDlq, Bury, HandlerFails,
        ReleaseLock, Rest, Return, Goto, WorkersTyped
    <3>2. CASE pc[w] # "idle" /\ (WorkFails(w) \/ FeedFails(w))
      <4>1. failed' = failed \cup IdsOf(w) /\ job' = job
        BY <3>2 DEF WorkFails, FeedFails, Raise
      <4>2. IdsOf(w) = {job[w].id}
        BY <2>2, <3>2, IngesterHolds
      <4> QED
        BY <2>2, <4>1, <4>2
    <3>3. CASE CountFailure(w)
      <4>1. pc[w] = "failing" /\ job' = job
        BY <3>3 DEF CountFailure
      <4> QED
        BY <2>2, <4>1, <1>1 DEF HandsFailed
    <3>4. CASE FeedNext(w)
      BY <2>2, <3>4, <1>2 DEF FeedNext
    <3> QED
      BY <3>1, <3>2, <3>3, <3>4
  <2> QED
    BY <2>1, <2>2
<1> QED
  BY <1>3, <1>4 DEF Next, vars, Enqueue, RequeueDlq, PurgeDlq, ExpireLock, workerVars

\* A function on 1..n is a sequence of length n.
LEMMA SequenceOf ==
    ASSUME NEW n \in Nat, NEW S, NEW f \in [1..n -> S]
    PROVE  f \in Seq(S) /\ Len(f) = n
<1>1. f \in Seq(S)
  BY SeqDef
<1> QED
  BY <1>1

\* The ids of a sequence of jobs.
Ids(s) == [k \in DOMAIN s |-> s[k].id]

LEMMA IdsTyped ==
    ASSUME NEW s \in Seq(JobsOf("ingestion"))
    PROVE  /\ Ids(s) \in Seq(1..MaxJobs) /\ Len(Ids(s)) = Len(s)
           /\ \A k \in 1..Len(s) : Ids(s)[k] = s[k].id
<1>1. /\ DOMAIN s = 1..Len(s) /\ Len(s) \in Nat
      /\ \A k \in 1..Len(s) : s[k] \in JobsOf("ingestion")
  OBVIOUS
<1>2. \A k \in 1..Len(s) : s[k].id \in 1..MaxJobs
  BY <1>1 DEF JobsOf
<1>3. Ids(s) = [k \in 1..Len(s) |-> s[k].id]
  BY <1>1 DEF Ids
<1>4. Ids(s) \in [1..Len(s) -> 1..MaxJobs]
  BY <1>2, <1>3
<1>5. Ids(s) \in Seq(1..MaxJobs) /\ Len(Ids(s)) = Len(s)
  BY <1>1, <1>4, SequenceOf
<1> QED
  BY <1>3, <1>5

LEMMA IdsOfAppend ==
    ASSUME NEW s \in Seq(JobsOf("ingestion")), NEW j \in JobsOf("ingestion")
    PROVE  Ids(Append(s, j)) = Append(Ids(s), j.id)
<1> DEFINE t == Append(s, j)
<1>1. /\ t \in Seq(JobsOf("ingestion")) /\ Len(t) = Len(s) + 1 /\ Len(s) \in Nat
      /\ \A k \in 1..Len(s) : t[k] = s[k]
      /\ t[Len(s) + 1] = j
  OBVIOUS
<1> HIDE DEF t
<1>2. /\ Ids(s) \in Seq(1..MaxJobs) /\ Len(Ids(s)) = Len(s)
      /\ \A k \in 1..Len(s) : Ids(s)[k] = s[k].id
  BY IdsTyped
<1>3. /\ Ids(t) \in Seq(1..MaxJobs) /\ Len(Ids(t)) = Len(s) + 1
      /\ \A k \in 1..(Len(s) + 1) : Ids(t)[k] = t[k].id
  BY <1>1, IdsTyped
<1>4. j.id \in 1..MaxJobs
  BY DEF JobsOf
<1>5. /\ Append(Ids(s), j.id) \in Seq(1..MaxJobs) /\ Len(Append(Ids(s), j.id)) = Len(s) + 1
      /\ \A k \in 1..Len(s) : Append(Ids(s), j.id)[k] = s[k].id
      /\ Append(Ids(s), j.id)[Len(s) + 1] = j.id
  BY <1>2, <1>4, AppendProperties
<1>6. \A k \in 1..(Len(s) + 1) : Ids(t)[k] = Append(Ids(s), j.id)[k]
  <2> SUFFICES ASSUME NEW k \in 1..(Len(s) + 1) PROVE Ids(t)[k] = Append(Ids(s), j.id)[k]
    OBVIOUS
  <2>1. k \in 1..Len(s) \/ k = Len(s) + 1
    BY <1>1
  <2> QED
    BY <2>1, <1>1, <1>3, <1>5
<1>7. Ids(t) = Append(Ids(s), j.id)
  BY <1>3, <1>5, <1>6, SeqEqual
<1> QED
  BY <1>7 DEF t

LEMMA IdsOfTail ==
    ASSUME NEW s \in Seq(JobsOf("ingestion")), s # <<>>
    PROVE  /\ Ids(s) # <<>> /\ Head(Ids(s)) = Head(s).id
           /\ Ids(Tail(s)) = Tail(Ids(s))
<1> DEFINE t == Tail(s)
<1>1. /\ t \in Seq(JobsOf("ingestion")) /\ Len(t) = Len(s) - 1
      /\ Len(s) \in Nat /\ Len(s) > 0
      /\ \A k \in 1..(Len(s) - 1) : t[k] = s[k + 1]
  OBVIOUS
<1> HIDE DEF t
<1>2. /\ Ids(s) \in Seq(1..MaxJobs) /\ Len(Ids(s)) = Len(s)
      /\ \A k \in 1..Len(s) : Ids(s)[k] = s[k].id
  BY IdsTyped
<1>3. /\ Ids(t) \in Seq(1..MaxJobs) /\ Len(Ids(t)) = Len(s) - 1
      /\ \A k \in 1..(Len(s) - 1) : Ids(t)[k] = t[k].id
  BY <1>1, IdsTyped
<1>4. Ids(s) # <<>> /\ Head(Ids(s)) = Head(s).id
  BY <1>1, <1>2
<1>5. /\ Tail(Ids(s)) \in Seq(1..MaxJobs) /\ Len(Tail(Ids(s))) = Len(s) - 1
      /\ \A k \in 1..(Len(s) - 1) : Tail(Ids(s))[k] = Ids(s)[k + 1]
  BY <1>2, <1>4, HeadTailProperties
<1>6. \A k \in 1..(Len(s) - 1) : Ids(t)[k] = Tail(Ids(s))[k]
  BY <1>1, <1>2, <1>3, <1>5
<1>7. Ids(t) = Tail(Ids(s))
  BY <1>3, <1>5, <1>6, SeqEqual
<1> QED
  BY <1>4, <1>7 DEF t

\* What the two mapped variables are, in the terms of the moves.
LEMMA Mapped ==
    ASSUME TypeOK
    PROVE  /\ Line \in Seq(JobsOf("ingestion"))
           /\ IdsInLine = Ids(Line) /\ IdsInLine' = Ids(Line')
           /\ IdsInHands = {job[w].id : w \in {u \in Ingester : Busy(u)}}
           /\ IdsInHands' = {job'[w].id : w \in {u \in Ingester : Busy(u)'}}
           /\ \A w \in Ingester : Busy(w) => job[w] \in JobsOf("ingestion")
<1>1. Line \in Seq(JobsOf("ingestion"))
  BY DEF TypeOK, RedisTyped, Line, Queue
<1>2. \A w \in Ingester : Busy(w) => job[w] \in JobsOf("ingestion")
  BY DEF TypeOK, WorkersTyped, QueuesOf, Busy, Worker
<1> QED
  BY <1>1, <1>2 DEF IdsInLine, IdsInHands, Ids, Line, Busy

\* A step that moves nothing keeps the hands; a job that leaves the hands of its
\* worker leaves them all, for no other worker has it.
LEMMA HandsMapped ==
    ASSUME TypeOK, InOnePlace
    PROVE  /\ SameHands => IdsInHands' = IdsInHands
           /\ \A w \in Ingester :
                  /\ Busy(w) => job[w].id \in IdsInHands
                  /\ OthersSame(w) /\ ~Busy(w) /\ Busy(w)' =>
                         IdsInHands' = IdsInHands \cup {job'[w].id}
                  /\ OthersSame(w) /\ Busy(w) /\ ~Busy(w)' =>
                         IdsInHands' = IdsInHands \ {job[w].id}
<1> DEFINE In  == {u \in Ingester : Busy(u)}
           In1 == {u \in Ingester : Busy(u)'}
<1>1. IdsInHands = {job[u].id : u \in In} /\ IdsInHands' = {job'[u].id : u \in In1}
  BY Mapped
<1>2. SameHands => IdsInHands' = IdsInHands
  BY <1>1 DEF SameHands
<1>3. ASSUME NEW w \in Ingester, Busy(w) PROVE job[w].id \in IdsInHands
  BY <1>1, <1>3
<1>4. ASSUME NEW w \in Ingester, OthersSame(w), ~Busy(w), Busy(w)'
      PROVE  IdsInHands' = IdsInHands \cup {job'[w].id}
  <2>1. In1 = In \cup {w} /\ w \notin In
    BY <1>4 DEF OthersSame
  <2>2. \A u \in In : job'[u].id = job[u].id
    BY <1>4, <2>1 DEF OthersSame
  <2> QED
    BY <1>1, <2>1, <2>2
<1>5. ASSUME NEW w \in Ingester, OthersSame(w), Busy(w), ~Busy(w)'
      PROVE  IdsInHands' = IdsInHands \ {job[w].id}
  <2>1. In1 = In \ {w}
    BY <1>5 DEF OthersSame
  <2>2. \A u \in In \ {w} : job'[u].id = job[u].id
    BY <1>5 DEF OthersSame
  <2>3. \A u \in In \ {w} : job[u].id # job[w].id
    BY <1>5 DEF InOnePlace, HandsApart
  <2> QED
    BY <1>1, <2>1, <2>2, <2>3
<1> QED
  BY <1>2, <1>3, <1>4, <1>5

\* Each move of a job is a step of the abstract queue, or none of its steps.
LEMMA MovesImplement ==
    ASSUME TypeOK, TypeOK', InOnePlace, HandsFailed,
           \/ NothingMoves
           \/ \E w \in Ingester : JobTaken(w) \/ JobFails(w) \/ JobReturned(w) \/ JobEnds(w)
    PROVE  Pipeline!Next \/ UNCHANGED Pipeline!vars
<1> USE DEF ends
<1>0. /\ IdsInLine = Ids(Line) /\ IdsInLine' = Ids(Line')
      /\ Line \in Seq(JobsOf("ingestion"))
      /\ \A w \in Ingester : Busy(w) => /\ job[w] \in JobsOf("ingestion")
                                        /\ job[w].id \in 1..queued
                                        /\ job[w].id \in IdsInHands
  BY Mapped, HandsMapped DEF InOnePlace, HandsApart
<1>1. CASE NothingMoves
  <2>1. UNCHANGED <<IdsInLine, IdsInHands, queued, failed, settled, skipped, buried, lost>>
    BY <1>0, <1>1, HandsMapped DEF NothingMoves
  <2> QED
    BY <2>1 DEF Pipeline!vars, Pipeline!ended
<1>2. ASSUME NEW w \in Ingester, JobTaken(w) PROVE Pipeline!Next
  <2>1. IdsInHands' = IdsInHands \cup {Head(Line).id}
    BY <1>2, HandsMapped DEF JobTaken
  <2>2. /\ IdsInLine # <<>> /\ Head(IdsInLine) = Head(Line).id
        /\ IdsInLine' = Tail(IdsInLine)
    BY <1>0, <1>2, IdsOfTail DEF JobTaken
  <2>3. Pipeline!Take
    BY <2>1, <2>2, <1>2 DEF JobTaken, Pipeline!Take, Pipeline!ended
  <2> QED
    BY <2>3 DEF Pipeline!Next
<1>3. ASSUME NEW w \in Ingester, JobFails(w) PROVE Pipeline!Next
  <2>1. UNCHANGED <<IdsInLine, IdsInHands>>
    BY <1>0, <1>3, HandsMapped DEF JobFails
  <2>2. Pipeline!Fail(job[w].id)
    BY <2>1, <1>0, <1>3 DEF JobFails, Pipeline!Fail, Pipeline!ended
  <2> QED
    BY <2>2, <1>0, <1>3 DEF JobFails, Pipeline!Next
<1>4. ASSUME NEW w \in Ingester, JobReturned(w) PROVE Pipeline!Next
  <2>1. job[w].id \in IdsInHands \cap failed
    BY <1>0, <1>4 DEF JobReturned, HandsFailed
  <2>2. IdsInHands' = IdsInHands \ {job[w].id}
    BY <1>4, HandsMapped DEF JobReturned
  <2>3. IdsInLine' = Append(IdsInLine, job[w].id)
    BY <1>0, <1>4, IdsOfAppend DEF JobReturned
  <2>4. Pipeline!GiveBack(job[w].id)
    BY <2>1, <2>2, <2>3, <1>4 DEF JobReturned, Pipeline!GiveBack, Pipeline!ended
  <2> QED
    BY <2>4, <1>0, <1>4 DEF JobReturned, Pipeline!Next
<1>5. ASSUME NEW w \in Ingester, JobEnds(w) PROVE Pipeline!Next
  <2>1. job[w].id \in IdsInHands /\ UNCHANGED IdsInLine
    BY <1>0, <1>5 DEF JobEnds
  <2>2. IdsInHands' = IdsInHands \ {job[w].id}
    BY <1>5, HandsMapped DEF JobEnds
  <2>3. pc[w] = "counted" => job[w].id \in failed
    BY DEF HandsFailed
  <2>4. Pipeline!End(job[w].id)
    BY <2>1, <2>2, <2>3, <1>5 DEF JobEnds, Pipeline!End
  <2> QED
    BY <2>4, <1>0, <1>5 DEF JobEnds, Pipeline!Next
<1> QED
  BY <1>1, <1>2, <1>3, <1>4, <1>5

\* So is each step of the system.
LEMMA StepImplements ==
    ASSUME TypeOK, TypeOK', InOnePlace, HandsFailed, [Next]_vars
    PROVE  [Pipeline!Next]_(Pipeline!vars)
<1> USE DEF ends
<1>0. queue \in [Queue -> Seq(Job)] /\ "ingestion" \in Queue
  BY DEF TypeOK, RedisTyped, Queue
<1>1. ASSUME UNCHANGED <<Line, queued, failed, ends, pc, job>> PROVE NothingMoves
  BY <1>1 DEF NothingMoves, SameHands, Busy
<1>2. ASSUME NEW j, j.id = queued + 1, Line' = Append(Line, j), queued' = queued + 1,
             UNCHANGED <<failed, ends, pc, job>>
      PROVE  Pipeline!Next
  <2>1. Line \in Seq(JobsOf("ingestion")) /\ Line' \in Seq(JobsOf("ingestion"))
    BY DEF TypeOK, RedisTyped, Line, Queue
  <2>2. j \in JobsOf("ingestion")
    <3>1. Len(Line) + 1 \in 1..Len(Line') /\ Line'[Len(Line) + 1] = j
      BY <1>2, <2>1
    <3> QED
      BY <2>1, <3>1
  <2>3. IdsInLine' = Append(IdsInLine, queued + 1)
    BY <1>2, <2>1, <2>2, IdsOfAppend, Mapped
  <2>4. UNCHANGED IdsInHands
    BY <1>2, HandsMapped DEF SameHands, Busy
  <2>5. Pipeline!Add
    BY <1>2, <2>3, <2>4 DEF Pipeline!Add, Pipeline!ended
  <2> QED
    BY <2>5 DEF Pipeline!Next
<1>3. CASE Enqueue
  <2>1. PICK p \in Payload : Push("ingestion", [id |-> queued + 1, body |-> p])
    BY <1>3 DEF Enqueue
  <2>2. Line' = Append(Line, [id |-> queued + 1, body |-> p])
    BY <1>0, <2>1 DEF Push, Line
  <2>3. UNCHANGED <<failed, ends, pc, job>> /\ queued' = queued + 1
    BY <1>3 DEF Enqueue, workerVars
  <2> QED
    BY <2>2, <2>3, <1>2
<1>4. ASSUME NEW m \in dlq, RequeueDlq(m) PROVE [Pipeline!Next]_(Pipeline!vars)
  <2>1. UNCHANGED <<failed, ends, pc, job>>
    BY <1>4 DEF RequeueDlq, workerVars
  <2>2. CASE m.queue = "ingestion"
    <3>1. Push("ingestion", [id |-> queued + 1, body |-> m.body]) /\ queued' = queued + 1
      BY <1>4, <2>2 DEF RequeueDlq
    <3>2. Line' = Append(Line, [id |-> queued + 1, body |-> m.body])
      BY <1>0, <3>1 DEF Push, Line
    <3> QED
      BY <2>1, <3>1, <3>2, <1>2
  <2>3. CASE m.queue # "ingestion"
    <3>1. Push(m.queue, [id |-> 0, body |-> m.body]) /\ UNCHANGED queued
      BY <1>4, <2>3 DEF RequeueDlq
    <3>2. queue' = [queue EXCEPT ![m.queue] = Append(@, [id |-> 0, body |-> m.body])]
      BY <3>1 DEF Push
    <3>3. UNCHANGED Line
      BY <1>0, <2>3, <3>2 DEF Line
    <3>4. NothingMoves
      BY <2>1, <3>1, <3>3, <1>1
    <3> QED
      BY <3>4, MovesImplement
  <2> QED
    BY <2>2, <2>3
<1>5. CASE PurgeDlq \/ (\E a \in Account : ExpireLock(a)) \/ UNCHANGED vars
  <2>1. UNCHANGED <<Line, queued, failed, ends, pc, job>>
    BY <1>5 DEF PurgeDlq, ExpireLock, vars, workerVars, history, Line
  <2> QED
    BY <2>1, <1>1, MovesImplement
<1>6. ASSUME NEW w \in Worker, Pop(w) \/ Handle(w) \/ Crash(w)
      PROVE  [Pipeline!Next]_(Pipeline!vars)
  BY <1>6, IngesterMoves, FollowerMoves, MovesImplement
<1> QED
  BY <1>3, <1>4, <1>5, <1>6, <1>2 DEF Next

\* However many loops, jobs, bodies and downstream queues there are, the ingestion
\* queue with its workers implements the work queue: first come first served, back
\* to the line only after a failure, never again after an end.
THEOREM ImplementsWorkQueue == Spec => KeepsEveryJob
<1>1. Init => HandsFailed /\ Pipeline!Init
  <2> SUFFICES ASSUME Init PROVE HandsFailed /\ Pipeline!Init
    OBVIOUS
  <2>1. Line = <<>> /\ \A w \in Ingester : pc[w] = "idle"
    BY DEF Init, Line, Queue, Worker
  <2>2. IdsInLine = <<>> /\ IdsInHands = {}
    BY <2>1 DEF IdsInLine, IdsInHands, Line
  <2> QED
    BY <2>1, <2>2 DEF Init, HandsFailed, Pipeline!Init
<1>2. TypeOK /\ HandsFailed /\ [Next]_vars => HandsFailed'
  BY FailedStep
<1>3. TypeOK /\ TypeOK' /\ InOnePlace /\ HandsFailed /\ [Next]_vars
          => [Pipeline!Next]_(Pipeline!vars)
  BY StepImplements
<1> QED
  BY <1>1, <1>2, <1>3, TypeCorrect, PlacesAlways, PTL DEF Spec, KeepsEveryJob, Pipeline!Spec

=============================================================================
