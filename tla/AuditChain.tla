----------------------------- MODULE AuditChain -----------------------------
(***************************************************************************)
(* The audit trail of one organization (backend/app/domains/audit_chain).  *)
(*                                                                         *)
(* A request appends events in its own database transaction: it reads the  *)
(* newest event, hashes it into a new one and inserts that.  Postgres runs *)
(* at READ COMMITTED, so a transaction sees what others committed before   *)
(* each statement, and its own rows.  verify_chain walks the events in the *)
(* order of created_at.  A checkpoint signs the newest hash and the number *)
(* of events of a chain that verified.                                     *)
(*                                                                         *)
(* A hash is collision-free, so an event is known by its created_at, and   *)
(* its prev_hash by the created_at of the event it was taken from.  The    *)
(* clocks of all processes agree and no two events share a created_at.     *)
(***************************************************************************)
EXTENDS Naturals, FiniteSets

CONSTANTS
    Writer,       \* transactions that append events
    Checkpointer, \* runs of the checkpoint worker and of the checkpoint API
    KeepLast,     \* values of keep_last the retention is called with
    MaxNow        \* bound: timestamps that are handed out

ASSUME AuditChainAssumption ==
    MaxNow \in Nat /\ KeepLast \subseteq Nat

VARIABLES
    now,         \* the clock
    committed,   \* audit_chain_events that are committed
    buffer,      \* events each open transaction has inserted
    latest,      \* the newest event each writer has read for its next append
    reading,     \* the writers between reading the newest event and inserting
    checkpoints, \* audit_chain_checkpoints that are committed
    draft,       \* checkpoints each open run has inserted
    doomed,      \* checkpoints each open run has deleted
    head,        \* the newest event each run has read
    verified,    \* history: the events each run has verified
    pc           \* where each checkpoint run is

chainVars == <<committed, buffer, latest, reading>>
runVars   == <<checkpoints, draft, doomed, head, verified, pc>>
vars == <<now, committed, buffer, latest, reading, checkpoints, draft, doomed,
          head, verified, pc>>

Genesis    == 0
Stamp      == 1..MaxNow
Event      == [at : Stamp, prev : {Genesis} \cup Stamp]
Checkpoint == [at : Stamp, latest : {Genesis} \cup Stamp, count : Nat,
               covers : SUBSET Stamp]

Stamps(S) == {e.at : e \in S}

Newest(S) ==
    IF S = {} THEN Genesis
    ELSE CHOOSE s \in Stamps(S) : \A r \in Stamps(S) : r <= s

TypeOK ==
    /\ now \in 1..(MaxNow + 1)
    /\ committed \subseteq Event
    /\ buffer \in [Writer -> SUBSET Event]
    /\ latest \in [Writer -> {Genesis} \cup Stamp]
    /\ reading \subseteq Writer
    /\ checkpoints \subseteq Checkpoint
    /\ draft \in [Checkpointer -> SUBSET Checkpoint]
    /\ doomed \in [Checkpointer -> SUBSET Checkpoint]
    /\ head \in [Checkpointer -> {Genesis} \cup Stamp]
    /\ verified \in [Checkpointer -> SUBSET Stamp]
    /\ pc \in [Checkpointer ->
                 {"idle", "refused", "verified", "headRead", "created", "cleaned"}]

Init ==
    /\ now = 1
    /\ committed = {}
    /\ buffer = [t \in Writer |-> {}]
    /\ latest = [t \in Writer |-> Genesis]
    /\ reading = {}
    /\ checkpoints = {}
    /\ draft = [c \in Checkpointer |-> {}]
    /\ doomed = [c \in Checkpointer |-> {}]
    /\ head = [c \in Checkpointer |-> Genesis]
    /\ verified = [c \in Checkpointer |-> {}]
    /\ pc = [c \in Checkpointer |-> "idle"]

-----------------------------------------------------------------------------
(***************************************************************************)
(* append_event, inside the transaction of a request.                      *)
(***************************************************************************)

Visible(t) == committed \cup buffer[t]

\* Mutant: the newest event of any transaction, committed or not.
ReadLatestDirty(t) ==
    /\ t \notin reading /\ now <= MaxNow
    /\ latest' = [latest EXCEPT ![t] = Newest(UNION {Visible(u) : u \in Writer})]
    /\ reading' = reading \cup {t}
    /\ UNCHANGED <<now, committed, buffer, runVars>>

\* _latest_for_org
ReadLatest(t) ==
    /\ t \notin reading /\ now <= MaxNow
    /\ latest' = [latest EXCEPT ![t] = Newest(Visible(t))]
    /\ reading' = reading \cup {t}
    /\ UNCHANGED <<now, committed, buffer, runVars>>

\* The event takes its created_at and is flushed; no other transaction sees it.
InsertEvent(t) ==
    /\ t \in reading /\ now <= MaxNow
    /\ buffer' = [buffer EXCEPT ![t] = @ \cup {[at |-> now, prev |-> latest[t]]}]
    /\ now' = now + 1
    /\ reading' = reading \ {t}
    /\ UNCHANGED <<committed, latest, runVars>>

CommitWriter(t) ==
    /\ t \notin reading /\ buffer[t] # {}
    /\ committed' = committed \cup buffer[t]
    /\ buffer' = [buffer EXCEPT ![t] = {}]
    /\ UNCHANGED <<now, latest, reading, runVars>>

\* The request fails after any of its statements.
RollbackWriter(t) ==
    /\ t \in reading \/ buffer[t] # {}
    /\ buffer' = [buffer EXCEPT ![t] = {}]
    /\ reading' = reading \ {t}
    /\ UNCHANGED <<now, committed, latest, runVars>>

-----------------------------------------------------------------------------
(***************************************************************************)
(* verify_chain: walking S by created_at, each event carries the hash of   *)
(* the one before it, the first one that of genesis.                       *)
(***************************************************************************)

\* Mutants: any known event will do as predecessor; only the newest event is
\* looked at.
LinkedAnywhere(S, e) == e.prev \in {Genesis} \cup Stamps(S)

LinkedIfNewest(S, e) ==
    e.at = Newest(S) => \A f \in S : f.at < e.at => f.at <= e.prev

Linked(S, e) ==
    /\ e.prev \in {Genesis} \cup Stamps(S)
    /\ e.prev < e.at
    /\ \A f \in S : f.at < e.at => f.at <= e.prev

ChainValid(S) == \A e \in S : Linked(S, e)

-----------------------------------------------------------------------------
(***************************************************************************)
(* Checkpoints.  The verification, the read of the newest event and the    *)
(* count are three statements, and events are committed between them.      *)
(***************************************************************************)

VerifyChain(c) ==
    /\ pc[c] = "idle" /\ now <= MaxNow
    /\ IF ChainValid(committed)
       THEN /\ pc' = [pc EXCEPT ![c] = "verified"]
            /\ verified' = [verified EXCEPT ![c] = Stamps(committed)]
       ELSE /\ pc' = [pc EXCEPT ![c] = "refused"]
            /\ UNCHANGED verified
    /\ UNCHANGED <<now, chainVars, checkpoints, draft, doomed, head>>

\* Mutant: the oldest event is taken for the newest.
ReadOldest(c) ==
    /\ pc[c] = "verified"
    /\ head' = [head EXCEPT ![c] =
                  IF committed = {} THEN Genesis
                  ELSE CHOOSE s \in Stamps(committed) : \A r \in Stamps(committed) : s <= r]
    /\ pc' = [pc EXCEPT ![c] = "headRead"]
    /\ UNCHANGED <<now, chainVars, checkpoints, draft, doomed, verified>>

ReadHead(c) ==
    /\ pc[c] = "verified"
    /\ head' = [head EXCEPT ![c] = Newest(committed)]
    /\ pc' = [pc EXCEPT ![c] = "headRead"]
    /\ UNCHANGED <<now, chainVars, checkpoints, draft, doomed, verified>>

\* Mutant: the newest event, read before, is not counted.
CreateCheckpointOffByOne(c) ==
    /\ pc[c] = "headRead" /\ now <= MaxNow
    /\ draft' = [draft EXCEPT ![c] =
                   {[at |-> now, latest |-> head[c],
                     count |-> Cardinality(committed) - 1, covers |-> verified[c]]}]
    /\ now' = now + 1
    /\ pc' = [pc EXCEPT ![c] = "created"]
    /\ UNCHANGED <<chainVars, checkpoints, doomed, head, verified>>

\* The count is read and the signed snapshot inserted.
CreateCheckpoint(c) ==
    /\ pc[c] = "headRead" /\ now <= MaxNow
    /\ draft' = [draft EXCEPT ![c] =
                   {[at |-> now, latest |-> head[c],
                     count |-> Cardinality(committed), covers |-> verified[c]]}]
    /\ now' = now + 1
    /\ pc' = [pc EXCEPT ![c] = "created"]
    /\ UNCHANGED <<chainVars, checkpoints, doomed, head, verified>>

\* Mutant: list_checkpoints in ascending order; the oldest are kept.
KeepOldest(S, n) == {k \in S : Cardinality({j \in S : j.at < k.at}) < n}

\* The n newest checkpoints of S.
Keep(S, n) == {k \in S : Cardinality({j \in S : j.at > k.at}) < n}

\* cleanup_checkpoints: called by the worker after it created or skipped a
\* checkpoint, and by the API on its own.
\* list_checkpoints reads at most 5000 rows; the model has far fewer.
CleanupCheckpoints(c) ==
    /\ pc[c] \in {"idle", "refused", "created"}
    /\ \E keepLast \in KeepLast :
           LET listed == checkpoints \cup draft[c]
               kept   == Keep(listed, IF keepLast < 1 THEN 1 ELSE keepLast)
           IN  doomed' = [doomed EXCEPT ![c] = listed \ kept]
    /\ pc' = [pc EXCEPT ![c] = "cleaned"]
    /\ UNCHANGED <<now, chainVars, checkpoints, draft, head, verified>>

EndRun(c) ==
    /\ pc' = [pc EXCEPT ![c] = "idle"]
    /\ draft' = [draft EXCEPT ![c] = {}]
    /\ doomed' = [doomed EXCEPT ![c] = {}]
    /\ head' = [head EXCEPT ![c] = Genesis]
    /\ verified' = [verified EXCEPT ![c] = {}]
    /\ UNCHANGED <<now, chainVars>>

CommitRun(c) ==
    /\ pc[c] \in {"created", "cleaned"}
    /\ checkpoints' = (checkpoints \cup draft[c]) \ doomed[c]
    /\ EndRun(c)

\* The run is refused, fails, or its process dies.
AbandonRun(c) ==
    /\ pc[c] # "idle"
    /\ EndRun(c)
    /\ UNCHANGED checkpoints

Write(t) ==
    \/ ReadLatest(t)
    \/ InsertEvent(t)
    \/ CommitWriter(t)
    \/ RollbackWriter(t)

Run(c) ==
    \/ VerifyChain(c)
    \/ ReadHead(c)
    \/ CreateCheckpoint(c)
    \/ CleanupCheckpoints(c)
    \/ CommitRun(c)
    \/ AbandonRun(c)

Next ==
    \/ \E t \in Writer : Write(t)
    \/ \E c \in Checkpointer : Run(c)

Spec == Init /\ [][Next]_vars

-----------------------------------------------------------------------------
(***************************************************************************)
(* Properties.                                                             *)
(***************************************************************************)

Tree == INSTANCE AuditTree WITH tree <- committed

\* However the transactions interleave, the committed trail only grows, and an
\* event never carries the hash of one that was rolled back or not committed
\* yet (append_event reads only what is committed or its own).
TrailIsTree == Tree!Spec

\* "Each event contains the SHA-256 hash of the previous event": the committed
\* trail verifies (docs/security-whitepaper.md:163).
CommittedChainValid == ChainValid(committed)

\* A failed verification has exactly one cause, two events that carry the hash
\* of the same predecessor: gaps and late commits alone never fail it.
InvalidMeansFork ==
    ChainValid(committed)
        <=> \A e, f \in committed : e.prev = f.prev => e = f

\* Once a verification fails, every later one fails: no later event, and no
\* late commit of an older one, hides a fork.
BrokenStaysBroken == [][~ChainValid(committed) => ~ChainValid(committed')]_committed

\* A signed checkpoint stands for at least what was verified: its newest hash
\* is not older than any verified event and its count not smaller, although
\* the three were read by separate statements.
CheckpointCoversVerified ==
    \A k \in checkpoints :
        /\ k.covers \subseteq Stamps(committed)
        /\ \A s \in k.covers : s <= k.latest
        /\ Cardinality(k.covers) <= k.count

\* Runs that create and clean up side by side never leave the organization
\* without its newest checkpoint: it goes only when a newer one comes.
NewestCheckpointKept ==
    [][\A k \in checkpoints : \E j \in checkpoints' : j.at >= k.at]_checkpoints

=============================================================================
