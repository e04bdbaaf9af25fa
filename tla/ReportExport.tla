---------------------------- MODULE ReportExport ----------------------------
(***************************************************************************)
(* Report exports: a row in Postgres, a payload in a Redis list, a lock,   *)
(* a file, and the loops that build the file (economics/router.py,         *)
(* economics/service.py, workers/export_worker.py, export_runtime.py).     *)
(*                                                                         *)
(* The sessions are SQLAlchemy sessions with expire_on_commit=False: a     *)
(* flush writes only the columns whose value in the session changed, so a  *)
(* column that somebody else wrote in between can survive the flush.       *)
(***************************************************************************)
EXTENDS Naturals, Sequences, FiniteSets

CONSTANTS
    Export,
    Worker,      \* processes that run the export loop
    MaxRequeues, \* bound: times a dead letter is queued again
    LockOutlivesBuild \* TRUE: no build takes longer than LOCK_TTL

Free   == "free"
NoWork == "none"

ASSUME ReportExportAssumption ==
    /\ MaxRequeues \in Nat
    /\ LockOutlivesBuild \in BOOLEAN
    /\ Free \notin Worker /\ NoWork \notin Export

VARIABLES
    row,       \* report_export_jobs, as committed
    queue,     \* economics:reports:queue
    lock,      \* economics:reports:lock of each export; the owner is history
    file,      \* the artifact on disk; its name is the export's id
    dead,      \* exports with a DlqMessage
    request,   \* where the POST that creates each export is
    pc,        \* where each loop is
    work,      \* the export each loop has popped
    session,   \* each loop's copy of the row
    scanned,   \* exports each clean-up has found stuck
    requeues,  \* dead letters queued again so far
    abandoned, \* history: exports whose payload or handler was lost
    undone,    \* history: exports reset although they were not running
    unlocked   \* history: exports whose lock was deleted by a loop that had given it up

dbVars   == <<row, dead>>
loopVars == <<pc, work, session, scanned>>
history  == <<abandoned, undone, unlocked>>
vars == <<row, queue, lock, file, dead, request, pc, work, session, scanned,
          requeues, abandoned, undone, unlocked>>

Status == {"absent", "queued", "running", "completed", "failed"}

\* started: started_at is null, younger, or older than STUCK_JOB_TIMEOUT_MINUTES.
Row == [status : Status, started : {"never", "recent", "old"},
        error : BOOLEAN, path : BOOLEAN]

NoRow == [status |-> "absent", started |-> "never", error |-> FALSE, path |-> FALSE]

\* A loop inside the handler's try, its except and its finally clause.
Trying    == {"locked", "loaded", "building", "saving", "writing", "completing",
              "committed"}
Excepting == {"failing", "recording", "burying"}
Holding   == Trying \cup Excepting \cup {"finally", "cancelled"}
Phase     == {"idle", "popped", "resetting", "swept"} \cup Holding

TypeOK ==
    /\ row \in [Export -> Row]
    /\ queue \in Seq(Export)
    /\ lock \in [Export -> Worker \cup {Free}]
    /\ file \in [Export -> {"none", "partial", "whole"}]
    /\ dead \subseteq Export
    /\ request \in [Export -> {"new", "pushing", "refusing", "done"}]
    /\ pc \in [Worker -> Phase]
    /\ work \in [Worker -> Export \cup {NoWork}]
    /\ \A w \in Worker : work[w] = NoWork <=> pc[w] \in {"idle", "resetting", "swept"}
    /\ session \in [Worker -> Row]
    /\ scanned \in [Worker -> SUBSET Export]
    /\ requeues \in 0..MaxRequeues
    /\ abandoned \subseteq Export /\ undone \subseteq Export /\ unlocked \subseteq Export

Init ==
    /\ row = [e \in Export |-> NoRow]
    /\ queue = <<>>
    /\ lock = [e \in Export |-> Free]
    /\ file = [e \in Export |-> "none"]
    /\ dead = {}
    /\ request = [e \in Export |-> "new"]
    /\ pc = [w \in Worker |-> "swept"]
    /\ work = [w \in Worker |-> NoWork]
    /\ session = [w \in Worker |-> NoRow]
    /\ scanned = [w \in Worker |-> {}]
    /\ requeues = 0
    /\ abandoned = {} /\ undone = {} /\ unlocked = {}

-----------------------------------------------------------------------------
(* The ORM.                                                                *)

\* What a flush of `new` leaves in the table when the session had loaded `old`.
Flush(current, old, new) ==
    [c \in DOMAIN current |-> IF new[c] # old[c] THEN new[c] ELSE current[c]]

\* started_at keeps its first value until somebody sets it to null.
Started(r) == IF r.started = "never" THEN "recent" ELSE r.started

MarkRunning(r)   == [r EXCEPT !.status = "running", !.started = Started(r),
                              !.error = FALSE]
MarkCompleted(r) == [r EXCEPT !.status = "completed", !.started = Started(r),
                              !.error = FALSE, !.path = TRUE]
MarkFailed(r)    == [r EXCEPT !.status = "failed", !.started = Started(r),
                              !.error = TRUE]

-----------------------------------------------------------------------------
(* The request that creates an export, and the administrator.              *)

\* The row is committed before the payload is pushed.
Create(e) ==
    /\ request[e] = "new"
    /\ row' = [row EXCEPT ![e] = [NoRow EXCEPT !.status = "queued"]]
    /\ request' = [request EXCEPT ![e] = "pushing"]
    /\ UNCHANGED <<queue, lock, file, dead, loopVars, requeues, history>>

\* The push may fail, and also take effect without its answer coming back.
Enqueue(e) ==
    /\ request[e] = "pushing"
    /\ \E pushed, answered \in BOOLEAN :
           /\ answered => pushed
           /\ queue' = IF pushed THEN Append(queue, e) ELSE queue
           /\ request' = [request EXCEPT ![e] = IF answered THEN "done" ELSE "refusing"]
    /\ UNCHANGED <<dbVars, lock, file, loopVars, requeues, history>>

\* The same session still holds the row as it was created.
Refuse(e) ==
    /\ request[e] = "refusing"
    /\ LET created == [NoRow EXCEPT !.status = "queued"]
       IN  row' = [row EXCEPT ![e] = Flush(@, created, MarkFailed(created))]
    /\ request' = [request EXCEPT ![e] = "done"]
    /\ UNCHANGED <<queue, lock, file, dead, loopVars, requeues, history>>

\* The process ends, or the commit of the refusal fails.
RequestDies(e) ==
    /\ request[e] \in {"pushing", "refusing"}
    /\ request' = [request EXCEPT ![e] = "done"]
    /\ abandoned' = abandoned \cup {e}
    /\ UNCHANGED <<dbVars, queue, lock, file, loopVars, requeues, undone, unlocked>>

\* requeue_dlq pushes the payload again; the message can be requeued once more.
Requeue(e) ==
    /\ e \in dead /\ requeues < MaxRequeues
    /\ queue' = Append(queue, e)
    /\ requeues' = requeues + 1
    /\ UNCHANGED <<dbVars, lock, file, request, loopVars, history>>

-----------------------------------------------------------------------------
(* The export loop.                                                        *)

Goto(w, phase) ==
    /\ pc' = [pc EXCEPT ![w] = phase]
    /\ UNCHANGED <<work, scanned>>

Leave(w, phase) ==
    /\ pc' = [pc EXCEPT ![w] = phase]
    /\ work' = [work EXCEPT ![w] = NoWork]
    /\ session' = [session EXCEPT ![w] = NoRow]
    /\ scanned' = [scanned EXCEPT ![w] = {}]

Rest(w) == Leave(w, "idle")

\* The session of w flushes new values of its row and commits.
Save(w, new) ==
    LET e     == work[w]
        saved == Flush(row[e], session[w], new)
    IN  /\ row' = [row EXCEPT ![e] = saved]
        /\ session' = [session EXCEPT ![w] = saved]

Pop(w) ==
    /\ pc[w] \in {"idle", "swept"} /\ queue # <<>>
    /\ queue' = Tail(queue)
    /\ work' = [work EXCEPT ![w] = Head(queue)]
    /\ pc' = [pc EXCEPT ![w] = "popped"]
    /\ UNCHANGED <<dbVars, lock, file, request, session, scanned, requeues, history>>

\* BRPOP returns without a payload.
PollTimeout(w) ==
    /\ pc[w] = "swept" /\ queue = <<>>
    /\ Rest(w)
    /\ UNCHANGED <<dbVars, queue, lock, file, request, requeues, history>>

\* Somebody else is building or has the payload of e.
SharedWithOther(e, w) == \E v \in Worker \ {w} : work[v] = e

\* Mutant: SET without NX.
SeizeLock(w) ==
    /\ pc[w] = "popped"
    /\ lock' = [lock EXCEPT ![work[w]] = w]
    /\ Goto(w, "locked")
    /\ UNCHANGED <<dbVars, queue, file, request, session, requeues, history>>

\* SET NX: the lock is taken, or the payload is dropped because it is held, or
\* the command fails outside of the try (and may have set the lock).
TakeLock(w) ==
    LET e == work[w]
    IN  /\ pc[w] = "popped"
        /\ \/ /\ lock[e] = Free
              /\ lock' = [lock EXCEPT ![e] = w]
              /\ Goto(w, "locked")
              /\ UNCHANGED <<session, abandoned>>
           \/ /\ lock[e] # Free
              /\ abandoned' = IF SharedWithOther(e, w) THEN abandoned ELSE abandoned \cup {e}
              /\ Rest(w)
              /\ UNCHANGED lock
           \/ /\ \/ UNCHANGED lock
                 \/ lock[e] = Free /\ lock' = [lock EXCEPT ![e] = w]
              /\ abandoned' = abandoned \cup {e}
              /\ Rest(w)
        /\ UNCHANGED <<dbVars, queue, file, request, requeues, undone, unlocked>>

\* Mutant: the running status is not committed before the build.
BuildUnmarked(w) ==
    /\ pc[w] = "locked"
    /\ session' = [session EXCEPT ![w] = row[work[w]]]
    /\ Goto(w, "building")
    /\ UNCHANGED <<dbVars, queue, lock, file, request, requeues, history>>

\* Load the row, whatever its status, then commit it as running.  Nothing in
\* the code deletes the row of an export, so the load finds it.
StartBuild(w) ==
    /\ \/ /\ pc[w] = "locked"
          /\ session' = [session EXCEPT ![w] = row[work[w]]]
          /\ Goto(w, "loaded")
          /\ UNCHANGED row
       \/ /\ pc[w] = "loaded"
          /\ Save(w, MarkRunning(session[w]))
          /\ Goto(w, "building")
    /\ UNCHANGED <<queue, lock, file, dead, request, requeues, history>>

\* Accounts, ledger, opportunities, governance and emissions are read and the
\* document is laid out in memory.
BuildArtifact(w) ==
    /\ pc[w] = "building"
    /\ Goto(w, "saving")
    /\ UNCHANGED <<dbVars, queue, lock, file, request, session, requeues, history>>

\* write_bytes truncates the file first.
OpenFile(w) ==
    /\ pc[w] = "saving"
    /\ file' = [file EXCEPT ![work[w]] = "partial"]
    /\ Goto(w, "writing")
    /\ UNCHANGED <<dbVars, queue, lock, request, session, requeues, history>>

WriteFile(w) ==
    /\ pc[w] = "writing"
    /\ file' = [file EXCEPT ![work[w]] = "whole"]
    /\ Goto(w, "completing")
    /\ UNCHANGED <<dbVars, queue, lock, request, session, requeues, history>>

Complete(w) ==
    /\ pc[w] = "completing"
    /\ Save(w, MarkCompleted(session[w]))
    /\ Goto(w, "committed")
    /\ UNCHANGED <<queue, lock, file, dead, request, requeues, history>>

\* The retry key is deleted, still inside the try.
Succeed(w) ==
    /\ pc[w] = "committed"
    /\ Goto(w, "finally")
    /\ UNCHANGED <<dbVars, queue, lock, file, request, session, requeues, history>>

\* An exception anywhere in the try.
Fail(w) ==
    /\ pc[w] \in Trying
    /\ Goto(w, "failing")
    /\ UNCHANGED <<dbVars, queue, lock, file, request, session, requeues, history>>

\* Mutant: a failed export is only logged and buried.
RecordNothing(w) ==
    /\ pc[w] = "failing"
    /\ Goto(w, "burying")
    /\ UNCHANGED <<dbVars, queue, lock, file, request, session, requeues, history>>

\* Mutant: a failed export is queued again, as before the fix that
\* docs/REPORTS_EXPORT_FIX.md describes.
RetryFailure(w) ==
    /\ pc[w] = "failing"
    /\ row' = [row EXCEPT ![work[w]].status = "queued"]
    /\ queue' = Append(queue, work[w])
    /\ Goto(w, "finally")
    /\ UNCHANGED <<lock, file, dead, request, session, requeues, history>>

\* The except clause loads the row in a new session, then commits it as failed;
\* when either fails, only the log knows.
RecordFailure(w) ==
    /\ \/ /\ pc[w] = "failing"
          /\ session' = [session EXCEPT ![w] = row[work[w]]]
          /\ Goto(w, "recording")
          /\ UNCHANGED <<row, abandoned>>
       \/ /\ pc[w] = "recording"
          /\ Save(w, MarkFailed(session[w]))
          /\ Goto(w, "burying")
          /\ UNCHANGED abandoned
       \/ /\ pc[w] \in {"failing", "recording"}
          /\ abandoned' = abandoned \cup {work[w]}
          /\ Goto(w, "finally")
          /\ UNCHANGED <<row, session>>
    /\ UNCHANGED <<queue, lock, file, dead, request, requeues, undone, unlocked>>

\* The dead letter has a commit of its own.
Bury(w) ==
    /\ pc[w] = "burying"
    /\ \/ dead' = dead \cup {work[w]}
       \/ UNCHANGED dead
    /\ Goto(w, "finally")
    /\ UNCHANGED <<row, queue, lock, file, request, session, requeues, history>>

\* Mutant: the loop keeps the payload it has finished.
ReleaseOnly(w) ==
    /\ pc[w] = "finally"
    /\ lock' = [lock EXCEPT ![work[w]] = Free]
    /\ Goto(w, "idle")
    /\ UNCHANGED <<dbVars, queue, file, request, session, requeues, history>>

\* Deleting the lock does not ask whose it is; the command may fail.
Release(w) ==
    LET e == work[w]
    IN  /\ pc[w] = "finally"
        /\ \/ /\ lock' = [lock EXCEPT ![e] = Free]
              /\ unlocked' = IF lock[e] \in Worker \ {w} THEN unlocked \cup {e} ELSE unlocked
           \/ UNCHANGED <<lock, unlocked>>
        /\ Rest(w)
        /\ UNCHANGED <<dbVars, queue, file, request, requeues, abandoned, undone>>

\* Shutdown: the except clause for it deletes the lock, the finally clause
\* deletes it again.
Cancel(w) ==
    LET e == work[w]
    IN  /\ pc[w] \in Trying \ {"saving", "writing"}
        /\ lock' = [lock EXCEPT ![e] = Free]
        /\ unlocked' = IF lock[e] \in Worker \ {w} THEN unlocked \cup {e} ELSE unlocked
        /\ abandoned' = abandoned \cup {e}
        /\ Goto(w, "cancelled")
        /\ UNCHANGED <<dbVars, queue, file, request, session, requeues, undone>>

ReleaseAgain(w) ==
    LET e == work[w]
    IN  /\ pc[w] = "cancelled"
        /\ lock' = [lock EXCEPT ![e] = Free]
        /\ unlocked' = IF lock[e] \in Worker \ {w} THEN unlocked \cup {e} ELSE unlocked
        /\ Rest(w)
        /\ UNCHANGED <<dbVars, queue, file, request, requeues, abandoned, undone>>

\* The process dies; the lock stays until it expires.  A new process polls
\* ten times before its first clean-up.
Crash(w) ==
    /\ pc[w] \notin {"idle", "swept"}
    /\ abandoned' = abandoned \cup ({work[w]} \ {NoWork})
    /\ Leave(w, "swept")
    /\ UNCHANGED <<dbVars, queue, lock, file, request, requeues, undone, unlocked>>

-----------------------------------------------------------------------------
(* The clean-up of stuck exports runs in the same loops.                   *)

Stuck(e) == row[e].status = "running" /\ row[e].started = "old"

FindStuck(w) ==
    /\ pc[w] = "idle"
    /\ \E e \in Export : Stuck(e)
    /\ scanned' = [scanned EXCEPT ![w] = {e \in Export : Stuck(e)}]
    /\ pc' = [pc EXCEPT ![w] = "resetting"]
    /\ UNCHANGED <<dbVars, queue, lock, file, request, work, session, requeues, history>>

\* The update selects by id only; it may fail.  The loop polls the list before
\* it looks for stuck exports again.
ResetStuck(w) ==
    /\ pc[w] = "resetting"
    /\ \/ /\ row' = [e \in Export |-> IF e \in scanned[w]
                        THEN [row[e] EXCEPT !.status = "queued", !.started = "never",
                                            !.error = TRUE]
                        ELSE row[e]]
          /\ undone' = undone \cup {e \in scanned[w] : row[e].status # "running"}
       \/ UNCHANGED <<row, undone>>
    /\ Leave(w, "swept")
    /\ UNCHANGED <<queue, lock, file, dead, request, requeues, abandoned, unlocked>>

\* STUCK_JOB_TIMEOUT_MINUTES pass.
Age(e) ==
    /\ row[e].started = "recent"
    /\ row' = [row EXCEPT ![e].started = "old"]
    /\ session' = [w \in Worker |-> IF work[w] = e /\ session[w].started = "recent"
                        THEN [session[w] EXCEPT !.started = "old"] ELSE session[w]]
    /\ UNCHANGED <<queue, lock, file, dead, request, pc, work, scanned, requeues, history>>

ExpireLock(e) ==
    /\ lock[e] # Free
    /\ LockOutlivesBuild => \A w \in Worker : ~(work[w] = e /\ pc[w] \in Holding)
    /\ lock' = [lock EXCEPT ![e] = Free]
    /\ UNCHANGED <<dbVars, queue, file, request, loopVars, requeues, history>>

-----------------------------------------------------------------------------
Serve(e) == Enqueue(e) \/ Refuse(e)

Build(w) ==
    \/ TakeLock(w) \/ StartBuild(w) \/ BuildArtifact(w) \/ OpenFile(w) \/ WriteFile(w)
    \/ Complete(w) \/ Succeed(w) \/ Fail(w) \/ RecordFailure(w) \/ Bury(w)
    \/ Release(w) \/ ReleaseAgain(w) \/ ResetStuck(w)

Next ==
    \/ \E e \in Export : Create(e) \/ Serve(e) \/ RequestDies(e) \/ Requeue(e)
                         \/ Age(e) \/ ExpireLock(e)
    \/ \E w \in Worker : Pop(w) \/ PollTimeout(w) \/ Build(w) \/ Cancel(w)
                         \/ Crash(w) \/ FindStuck(w)

\* The loops poll for ever and every call returns; a request ends.
Fairness ==
    /\ \A e \in Export : WF_vars(Serve(e))
    /\ \A w \in Worker : WF_vars(Pop(w)) /\ WF_vars(Build(w))

Spec == Init /\ [][Next]_vars /\ Fairness

-----------------------------------------------------------------------------
Ended(e)   == row[e].status \in {"completed", "failed"}
Ready(e)   == row[e].status = "completed" /\ row[e].path
Queued(e)  == \E i \in DOMAIN queue : queue[i] = e
InHands(e) == request[e] \in {"pushing", "refusing"} \/ \E w \in Worker : work[w] = e

\* What a client may download is a whole document, although a second build of
\* the same export writes the same file (download_report_export,
\* persist_report_export_file), unless a loop deleted the lock of another one.
ReadyIsWhole == \A e \in Export : Ready(e) => file[e] = "whole" \/ e \in unlocked

\* Two loops are inside the handler of one export only after a lock was deleted
\* by a loop that no longer owned it.
OneBuilder ==
    \A v, w \in Worker :
        v # w /\ work[v] = work[w] /\ pc[v] \in Trying /\ pc[w] \in Trying
            => work[v] \in unlocked

\* An accepted export has ended, waits in the list, or is in somebody's hands.
\* The known exceptions: its handler or request died or lost a command, or the
\* clean-up reset it after it had ended.
NobodyForgotten ==
    \A e \in Export : row[e].status # "absent" =>
        Ended(e) \/ Queued(e) \/ InHands(e) \/ e \in abandoned \cup undone

\* Every accepted export ends, with the same exceptions: the list drains and the
\* loops finish what they pop.
ExportsEnd ==
    \A e \in Export : row[e].status # "absent" ~> Ended(e) \/ e \in abandoned \cup undone
=============================================================================
