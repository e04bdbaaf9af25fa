------------------------ MODULE ReportExport_proofs ------------------------
(***************************************************************************)
(* Theorems about report exports, for any number of exports, of loops and  *)
(* of dead letters queued again: an accepted export is never forgotten,    *)
(* and, as long as no build outlives its lock, two loops build one export  *)
(* only after a lock was deleted by a loop that no longer owned it, and    *)
(* what a client may download is a whole document.                         *)
(***************************************************************************)
EXTENDS ReportExport, TLAPS

-----------------------------------------------------------------------------
(***************************************************************************)
(* Facts about rows, phases and sessions.                                  *)
(***************************************************************************)

LEMMA RowFields ==
    ASSUME NEW r \in Row
    PROVE  /\ DOMAIN r = {"status", "started", "error", "path"}
           /\ r.status \in Status /\ r.started \in {"never", "recent", "old"}
           /\ r.error \in BOOLEAN /\ r.path \in BOOLEAN
BY DEF Row

\* A flush writes the columns that changed in the session, and the result is a row.
LEMMA FlushIsRow ==
    ASSUME NEW current \in Row, NEW old \in Row, NEW new \in Row
    PROVE  /\ Flush(current, old, new) \in Row
           /\ Flush(current, old, new).status =
                  IF new.status # old.status THEN new.status ELSE current.status
BY RowFields DEF Flush, Row

\* Marking a row changes its status to the one that is meant.
LEMMA MarksAreRows ==
    ASSUME NEW r \in Row
    PROVE  /\ MarkRunning(r) \in Row /\ MarkRunning(r).status = "running"
           /\ MarkCompleted(r) \in Row /\ MarkCompleted(r).status = "completed"
           /\ MarkFailed(r) \in Row /\ MarkFailed(r).status = "failed"
BY DEF Row, Status, MarkRunning, MarkCompleted, MarkFailed, Started

\* What the clean-up makes of a row.
ResetRow(r) == [r EXCEPT !.status = "queued", !.started = "never", !.error = TRUE]

LEMMA ResetIsRow ==
    ASSUME NEW r \in Row
    PROVE  ResetRow(r) \in Row /\ ResetRow(r).status = "queued"
BY DEF Row, Status, ResetRow

\* A clean-up resets what it has found, or nothing when its update fails.
LEMMA ResetFacts ==
    ASSUME TypeOK, NEW w \in Worker, ResetStuck(w)
    PROVE  /\ row' \in [Export -> Row]
           /\ undone \subseteq undone' /\ undone' \subseteq Export
           /\ \A e \in Export :
                  row'[e] = row[e] \/ (e \in scanned[w] /\ row'[e].status = "queued"
                                         /\ (row[e].status # "running" => e \in undone'))
<1>1. \/ row' = row /\ undone' = undone
      \/ /\ row' = [e \in Export |-> IF e \in scanned[w] THEN ResetRow(row[e]) ELSE row[e]]
         /\ undone' = undone \cup {e \in scanned[w] : row[e].status # "running"}
  BY DEF ResetStuck, ResetRow
<1>2. \A e \in Export : row[e] \in Row /\ ResetRow(row[e]) \in Row
                         /\ ResetRow(row[e]).status = "queued"
  BY ResetIsRow DEF TypeOK
<1>3. undone' \subseteq Export /\ undone \subseteq undone'
  BY <1>1 DEF TypeOK
<1>4. row' \in [Export -> Row]
  BY <1>1, <1>2 DEF TypeOK
<1> QED
  BY <1>1, <1>2, <1>3, <1>4

LEMMA NoRowIsRow ==
    /\ NoRow \in Row /\ NoRow.status = "absent"
    /\ [NoRow EXCEPT !.status = "queued"] \in Row
    /\ [NoRow EXCEPT !.status = "queued"].status = "queued"
BY DEF NoRow, Row, Status

\* Where a loop may be, by what it does there.
Making == {"building", "saving", "writing", "completing"}
Resting == {"idle", "resetting", "swept"}

LEMMA Phases ==
    /\ Making \subseteq Trying /\ Trying \subseteq Phase /\ Excepting \subseteq Phase
    /\ {"finally", "cancelled", "popped"} \subseteq Phase /\ Resting \subseteq Phase
    /\ \A p \in Resting : p \notin Trying \cup Excepting \cup {"finally", "cancelled", "popped"}
BY DEF Making, Resting, Trying, Excepting, Holding, Phase

\* A loop that goes on keeps its export and its scan.
LEMMA GotoFacts ==
    ASSUME TypeOK, NEW w \in Worker, NEW p \in Phase, Goto(w, p)
    PROVE  /\ pc' \in [Worker -> Phase] /\ pc'[w] = p
           /\ \A v \in Worker : v # w => pc'[v] = pc[v]
           /\ work' = work /\ scanned' = scanned
BY DEF TypeOK, Goto

\* A loop that is done with an export, or with a scan, keeps nothing of it.
LEMMA LeaveFacts ==
    ASSUME TypeOK, NEW w \in Worker, NEW p \in Phase, Leave(w, p)
    PROVE  /\ pc' \in [Worker -> Phase] /\ pc'[w] = p
           /\ work' \in [Worker -> Export \cup {NoWork}] /\ work'[w] = NoWork
           /\ session' \in [Worker -> Row]
           /\ scanned' \in [Worker -> SUBSET Export] /\ scanned'[w] = {}
           /\ \A v \in Worker : v # w =>
                  /\ pc'[v] = pc[v] /\ work'[v] = work[v]
                  /\ session'[v] = session[v] /\ scanned'[v] = scanned[v]
BY NoRowIsRow DEF TypeOK, Leave

\* A loop that is busy has an export, and one that rests has none.
LEMMA Busy ==
    ASSUME TypeOK, NEW w \in Worker, pc[w] \notin Resting
    PROVE  work[w] \in Export
BY DEF TypeOK, Resting

\* Only Age writes the session of another loop, and the status is not what it writes.
LEMMA AgeFacts ==
    ASSUME TypeOK, NEW e \in Export, Age(e)
    PROVE  /\ row' \in [Export -> Row] /\ session' \in [Worker -> Row]
           /\ \A x \in Export : row'[x].status = row[x].status
           /\ \A w \in Worker : session'[w].status = session[w].status
<1>1. row' = [row EXCEPT ![e].started = "old"] /\ row \in [Export -> Row]
  BY DEF Age, TypeOK
<1>2. row' \in [Export -> Row] /\ \A x \in Export : row'[x].status = row[x].status
  BY <1>1 DEF Row
<1>3. ASSUME NEW w \in Worker
      PROVE  session'[w] \in Row /\ session'[w].status = session[w].status
  <2>1. session[w] \in Row
    BY DEF TypeOK
  <2>2. session'[w] = [session[w] EXCEPT !.started = "old"] \/ session'[w] = session[w]
    BY DEF Age
  <2> QED
    BY <2>1, <2>2 DEF Row
<1>4. session' \in [Worker -> Row]
  BY <1>3 DEF Age
<1> QED
  BY <1>2, <1>3, <1>4

-----------------------------------------------------------------------------
(***************************************************************************)
(* Type correctness.                                                       *)
(***************************************************************************)

LEMMA TypeInit == Init => TypeOK
BY NoRowIsRow, Phases, ReportExportAssumption DEF Init, TypeOK, Resting

\* A refused request leaves a failed export, whatever a loop has written since.
LEMMA RefuseFacts ==
    ASSUME TypeOK, NEW e \in Export, Refuse(e)
    PROVE  /\ row' \in [Export -> Row] /\ row'[e].status = "failed"
           /\ \A x \in Export : x # e => row'[x] = row[x]
<1> DEFINE created == [NoRow EXCEPT !.status = "queued"]
<1>1. row' = [row EXCEPT ![e] = Flush(@, created, MarkFailed(created))]
  BY DEF Refuse
<1>2. created \in Row /\ created.status = "queued"
  BY NoRowIsRow
<1> HIDE DEF created
<1>3. MarkFailed(created) \in Row /\ MarkFailed(created).status = "failed"
  BY <1>2, MarksAreRows
<1>4. row \in [Export -> Row]
  BY DEF TypeOK
<1>5. Flush(row[e], created, MarkFailed(created)) \in Row
      /\ Flush(row[e], created, MarkFailed(created)).status = "failed"
  BY <1>2, <1>3, <1>4, FlushIsRow
<1> QED
  BY <1>1, <1>4, <1>5

\* The requests, the administrator and the expiry of a lock.
LEMMA RequestTypes ==
    ASSUME TypeOK, NEW e \in Export,
           Create(e) \/ Serve(e) \/ RequestDies(e) \/ Requeue(e) \/ Age(e) \/ ExpireLock(e)
    PROVE  TypeOK'
<1>1. CASE Create(e)
  BY <1>1, NoRowIsRow DEF TypeOK, Create, dbVars, loopVars, history
<1>2. CASE Enqueue(e)
  <2>1. queue' \in Seq(Export)
    BY <1>2 DEF Enqueue, TypeOK
  <2>2. request' \in [Export -> {"new", "pushing", "refusing", "done"}]
    BY <1>2 DEF Enqueue, TypeOK
  <2> QED
    BY <1>2, <2>1, <2>2 DEF TypeOK, Enqueue, dbVars, loopVars, history
<1>3. CASE Refuse(e)
  BY <1>3, RefuseFacts DEF TypeOK, Refuse, loopVars, history
<1>4. CASE RequestDies(e)
  BY <1>4 DEF TypeOK, RequestDies, dbVars, loopVars
<1>5. CASE Requeue(e)
  <2>1. queue' \in Seq(Export) /\ requeues' \in 0..MaxRequeues
    BY <1>5, ReportExportAssumption DEF Requeue, TypeOK
  <2> QED
    BY <1>5, <2>1 DEF TypeOK, Requeue, dbVars, loopVars, history
<1>6. CASE Age(e)
  BY <1>6, AgeFacts DEF TypeOK, Age, history
<1>7. CASE ExpireLock(e)
  BY <1>7 DEF TypeOK, ExpireLock, dbVars, loopVars, history
<1> QED
  BY <1>1, <1>2, <1>3, <1>4, <1>5, <1>6, <1>7 DEF Serve

\* What a loop's session writes and keeps is a row.
LEMMA SaveFacts ==
    ASSUME TypeOK, NEW w \in Worker, work[w] \in Export, NEW new \in Row, Save(w, new)
    PROVE  /\ row' \in [Export -> Row] /\ session' \in [Worker -> Row]
           /\ row'[work[w]].status = IF new.status # session[w].status
                                         THEN new.status ELSE row[work[w]].status
           /\ \A e \in Export : e # work[w] => row'[e] = row[e]
           /\ \A v \in Worker : v # w => session'[v] = session[v]
<1> DEFINE saved == Flush(row[work[w]], session[w], new)
<1>1. saved \in Row /\ saved.status = IF new.status # session[w].status
                                          THEN new.status ELSE row[work[w]].status
  BY FlushIsRow DEF TypeOK
<1>2. row' = [row EXCEPT ![work[w]] = saved] /\ session' = [session EXCEPT ![w] = saved]
  BY DEF Save
<1> HIDE DEF saved
<1> QED
  BY <1>1, <1>2 DEF TypeOK

\* The steps of a loop that neither take nor give up an export.
LEMMA BuildingTypes ==
    ASSUME TypeOK, NEW w \in Worker,
           \/ StartBuild(w) \/ BuildArtifact(w) \/ OpenFile(w) \/ WriteFile(w) \/ Complete(w)
           \/ Succeed(w) \/ Fail(w) \/ RecordFailure(w) \/ Bury(w) \/ Cancel(w)
    PROVE  TypeOK'
<1>1. pc[w] \in Trying \cup Excepting
  BY DEF StartBuild, BuildArtifact, OpenFile, WriteFile, Complete, Succeed, Fail, RecordFailure,
         Bury, Cancel, Trying, Excepting
<1>2. work[w] \in Export
  BY <1>1, Phases, Busy
<1>3. PICK p \in Phase \ Resting : Goto(w, p)
  BY Phases DEF StartBuild, BuildArtifact, OpenFile, WriteFile, Complete, Succeed, Fail,
         RecordFailure, Bury, Cancel, Trying, Excepting, Phase, Holding, Resting
<1>4. /\ pc' \in [Worker -> Phase] /\ work' = work /\ scanned' = scanned
      /\ \A v \in Worker : work'[v] = NoWork <=> pc'[v] \in {"idle", "resetting", "swept"}
  BY <1>1, <1>3, GotoFacts, Phases DEF TypeOK, Resting
<1>5. queue' = queue /\ request' = request /\ requeues' = requeues
  BY DEF StartBuild, BuildArtifact, OpenFile, WriteFile, Complete, Succeed, Fail, RecordFailure,
         Bury, Cancel
<1>6. row' \in [Export -> Row] /\ session' \in [Worker -> Row]
  <2>1. row \in [Export -> Row] /\ session \in [Worker -> Row]
    BY DEF TypeOK
  <2>2. CASE StartBuild(w)
    BY <2>1, <2>2, <1>2, MarksAreRows, SaveFacts DEF StartBuild
  <2>3. CASE Complete(w)
    BY <2>1, <2>3, <1>2, MarksAreRows, SaveFacts DEF Complete
  <2>4. CASE RecordFailure(w)
    BY <2>1, <2>4, <1>2, MarksAreRows, SaveFacts DEF RecordFailure
  <2>5. CASE row' = row /\ session' = session
    BY <2>1, <2>5
  <2> QED
    BY <2>2, <2>3, <2>4, <2>5
       DEF BuildArtifact, OpenFile, WriteFile, Succeed, Fail, Bury, Cancel, dbVars
<1>7. lock' \in [Export -> Worker \cup {Free}]
  BY DEF TypeOK, StartBuild, BuildArtifact, OpenFile, WriteFile, Complete, Succeed, Fail,
         RecordFailure, Bury, Cancel
<1>8. file' \in [Export -> {"none", "partial", "whole"}]
  BY DEF TypeOK, StartBuild, BuildArtifact, OpenFile, WriteFile, Complete, Succeed, Fail,
         RecordFailure, Bury, Cancel
<1>9. dead' \subseteq Export
  BY <1>2 DEF TypeOK, StartBuild, BuildArtifact, OpenFile, WriteFile, Complete, Succeed, Fail,
         RecordFailure, Bury, Cancel, dbVars
<1>10. abandoned' \subseteq Export /\ undone' \subseteq Export /\ unlocked' \subseteq Export
  BY <1>2 DEF TypeOK, StartBuild, BuildArtifact, OpenFile, WriteFile, Complete, Succeed, Fail,
         RecordFailure, Bury, Cancel, history
<1> QED
  BY <1>4, <1>5, <1>6, <1>7, <1>8, <1>9, <1>10 DEF TypeOK

\* The steps of a loop that take or give up an export, and those of the clean-up.
LEMMA TurnTypes ==
    ASSUME TypeOK, NEW w \in Worker,
           \/ Pop(w) \/ PollTimeout(w) \/ TakeLock(w) \/ Release(w) \/ ReleaseAgain(w)
           \/ Crash(w) \/ FindStuck(w) \/ ResetStuck(w)
    PROVE  TypeOK'
<1> USE Phases DEF Resting
<1>1. CASE Pop(w)
  <2>1. queue \in Seq(Export) /\ queue # <<>>
    BY <1>1 DEF TypeOK, Pop
  <2>2. Head(queue) \in Export /\ Tail(queue) \in Seq(Export)
    BY <2>1
  <2>3. Head(queue) # NoWork
    BY <2>2, ReportExportAssumption
  <2> QED
    BY <1>1, <2>2, <2>3 DEF TypeOK, Pop, dbVars, history
<1>2. CASE PollTimeout(w)
  BY <1>2, LeaveFacts DEF TypeOK, PollTimeout, Rest, dbVars, history
<1>3. CASE TakeLock(w)
  <2>1. work[w] \in Export /\ pc[w] = "popped"
    BY <1>3, Busy DEF TakeLock
  <2>2. /\ lock' \in [Export -> Worker \cup {Free}] /\ abandoned' \subseteq Export
        /\ UNCHANGED <<dbVars, queue, file, request, requeues, undone, unlocked>>
    BY <1>3, <2>1 DEF TakeLock, TypeOK
  <2>3. CASE Goto(w, "locked") /\ session' = session
    <3>1. "locked" \in Phase
      BY DEF Phase, Holding, Trying
    <3>2. /\ pc' \in [Worker -> Phase] /\ pc'[w] = "locked" /\ work' = work /\ scanned' = scanned
          /\ \A v \in Worker : v # w => pc'[v] = pc[v]
      BY <2>3, <3>1, GotoFacts
    <3>3. \A v \in Worker : work'[v] = NoWork <=> pc'[v] \in {"idle", "resetting", "swept"}
      BY <2>1, <3>2, ReportExportAssumption DEF TypeOK
    <3> QED
      BY <2>2, <2>3, <3>2, <3>3 DEF TypeOK, dbVars
  <2>4. CASE Rest(w)
    <3>1. "idle" \in Phase
      OBVIOUS
    <3>2. /\ pc' \in [Worker -> Phase] /\ pc'[w] = "idle"
          /\ work' \in [Worker -> Export \cup {NoWork}] /\ work'[w] = NoWork
          /\ session' \in [Worker -> Row] /\ scanned' \in [Worker -> SUBSET Export]
          /\ \A v \in Worker : v # w => pc'[v] = pc[v] /\ work'[v] = work[v]
      BY <2>4, <3>1, LeaveFacts DEF Rest
    <3>3. \A v \in Worker : work'[v] = NoWork <=> pc'[v] \in {"idle", "resetting", "swept"}
      BY <3>2 DEF TypeOK
    <3> QED
      BY <2>2, <3>2, <3>3 DEF TypeOK, dbVars
  <2> QED
    BY <1>3, <2>3, <2>4 DEF TakeLock
<1>4. CASE Release(w) \/ ReleaseAgain(w)
  <2>1. work[w] \in Export
    BY <1>4, Busy DEF Release, ReleaseAgain
  <2>2. lock' \in [Export -> Worker \cup {Free}] /\ unlocked' \subseteq Export
    BY <1>4, <2>1 DEF Release, ReleaseAgain, TypeOK
  <2>3. Rest(w) /\ UNCHANGED <<dbVars, queue, file, request, requeues, abandoned, undone>>
    BY <1>4 DEF Release, ReleaseAgain
  <2> QED
    BY <2>2, <2>3, LeaveFacts DEF TypeOK, Rest, dbVars
<1>5. CASE Crash(w)
  BY <1>5, LeaveFacts DEF TypeOK, Crash, dbVars
<1>6. CASE FindStuck(w)
  BY <1>6 DEF TypeOK, FindStuck, dbVars, history
<1>7. CASE ResetStuck(w)
  <2>1. "swept" \in Phase /\ Leave(w, "swept")
    BY <1>7 DEF ResetStuck
  <2>2. /\ pc' \in [Worker -> Phase] /\ pc'[w] = "swept"
        /\ work' \in [Worker -> Export \cup {NoWork}] /\ work'[w] = NoWork
        /\ session' \in [Worker -> Row] /\ scanned' \in [Worker -> SUBSET Export]
        /\ \A v \in Worker : v # w => pc'[v] = pc[v] /\ work'[v] = work[v]
    BY <2>1, LeaveFacts
  <2>3. \A v \in Worker : work'[v] = NoWork <=> pc'[v] \in {"idle", "resetting", "swept"}
    BY <2>2 DEF TypeOK
  <2>4. UNCHANGED <<queue, lock, file, dead, request, requeues, abandoned, unlocked>>
    BY <1>7 DEF ResetStuck
  <2> QED
    BY <1>7, <2>2, <2>3, <2>4, ResetFacts DEF TypeOK
<1> QED
  BY <1>1, <1>2, <1>3, <1>4, <1>5, <1>6, <1>7

LEMMA TypeStep ==
    ASSUME TypeOK, [Next]_vars
    PROVE  TypeOK'
<1>1. CASE UNCHANGED vars
  BY <1>1 DEF vars, loopVars, TypeOK
<1> QED
  BY <1>1, RequestTypes, BuildingTypes, TurnTypes DEF Next, Build

\* TypeOK: rows, files, locks and loops keep their types, and a loop has an export
\* exactly while it handles one: whatever a flush merges is a row.
THEOREM TypeCorrect == Spec => []TypeOK
<1>1. TypeOK /\ [Next]_vars => TypeOK'
  BY TypeStep
<1> QED
  BY <1>1, TypeInit, PTL DEF Spec

-----------------------------------------------------------------------------
(***************************************************************************)
(* Nobody is forgotten.  A loop gives up an export only when the export    *)
(* has ended, or is a known exception, or is built by another loop, which  *)
(* will end it: Held, which no step makes false.                           *)
(***************************************************************************)

Settled(e) == Ended(e) \/ e \in abandoned \cup undone

\* A loop that will end its export, or give it up as a known exception: a status that
\* its session already holds is not written, so it must hold another one.
Sure(w) ==
    \/ pc[w] \in Making /\ session[w].status # "completed"
    \/ pc[w] = "failing"
    \/ pc[w] = "recording" /\ session[w].status # "failed"

InWorks(e) == \E w \in Worker : work[w] = e /\ Sure(w)
Held(e)    == Settled(e) \/ InWorks(e)

\* Nothing is known of an export before its request.
Unborn ==
    \A e \in Export : request[e] = "new" =>
        /\ row[e].status = "absent" /\ e \notin dead /\ ~Queued(e)
        /\ \A w \in Worker : work[w] # e /\ e \notin scanned[w]

\* What a loop knows that has begun to build its export.
Begun == Making \cup {"failing", "recording", "committed", "burying", "finally"}
Kept ==
    \A w \in Worker :
        /\ pc[w] = "cancelled" => work[w] \in abandoned
        /\ pc[w] \in Begun => Held(work[w])

KeptInv == TypeOK /\ Unborn /\ Kept /\ NobodyForgotten

LEMMA KeptInit == Init => KeptInv
<1> SUFFICES ASSUME Init PROVE KeptInv
  OBVIOUS
<1>1. /\ \A e \in Export : row[e].status = "absent" /\ ~Queued(e) /\ e \notin dead
      /\ \A w \in Worker : pc[w] = "swept" /\ work[w] = NoWork /\ scanned[w] = {}
      /\ NoWork \notin Export
  BY NoRowIsRow, ReportExportAssumption DEF Init, Queued
<1>2. Unborn /\ Kept /\ NobodyForgotten
  BY <1>1 DEF Unborn, Kept, NobodyForgotten, Begun, Making
<1> QED
  BY <1>2, TypeInit DEF KeptInv

\* What the steps of a loop that builds have in common: they write no row but that
\* of their export, and end it, or are sure to, or leave its status as it is.
LEMMA BuildEffects ==
    ASSUME TypeOK, NEW w \in Worker,
           \/ StartBuild(w) \/ BuildArtifact(w) \/ OpenFile(w) \/ WriteFile(w) \/ Complete(w)
           \/ Succeed(w) \/ Fail(w) \/ RecordFailure(w) \/ Bury(w) \/ Cancel(w)
    PROVE  /\ work[w] \in Export
           /\ work' = work /\ scanned' = scanned /\ queue' = queue /\ request' = request
           /\ \A v \in Worker : v # w => pc'[v] = pc[v] /\ session'[v] = session[v]
           /\ \A e \in Export : e # work[w] => row'[e] = row[e]
           /\ abandoned \subseteq abandoned' /\ undone' = undone
           /\ dead' \subseteq dead \cup {work[w]}
           /\ pc'[w] = "cancelled" => work[w] \in abandoned'
           /\ \/ Sure(w)' \/ Settled(work[w])'
              \/ /\ ~Sure(w) /\ row'[work[w]].status = row[work[w]].status
                 /\ pc[w] \in Begun \/ pc'[w] = "loaded"
<1>1. pc[w] \in Trying \cup Excepting
  BY DEF StartBuild, BuildArtifact, OpenFile, WriteFile, Complete, Succeed, Fail, RecordFailure,
         Bury, Cancel, Trying, Excepting
<1>2. work[w] \in Export /\ row \in [Export -> Row] /\ session \in [Worker -> Row]
  BY <1>1, Phases, Busy DEF TypeOK
<1>3. /\ pc \in [Worker -> Phase] /\ work' = work /\ scanned' = scanned
      /\ queue' = queue /\ request' = request
      /\ \A v \in Worker : v # w => pc'[v] = pc[v]
  BY DEF TypeOK, StartBuild, BuildArtifact, OpenFile, WriteFile, Complete, Succeed, Fail,
         RecordFailure, Bury, Cancel, Goto
<1>4. abandoned \subseteq abandoned' /\ undone' = undone /\ dead' \subseteq dead \cup {work[w]}
  BY DEF StartBuild, BuildArtifact, OpenFile, WriteFile, Complete, Succeed, Fail,
         RecordFailure, Bury, Cancel, dbVars, history
<1>5. CASE StartBuild(w) /\ pc[w] = "locked"
  <2>1. /\ row' = row /\ pc'[w] = "loaded"
        /\ session' = [session EXCEPT ![w] = row[work[w]]]
    BY <1>3, <1>5 DEF StartBuild, Goto
  <2> QED
    BY <1>2, <1>3, <1>4, <1>5, <2>1 DEF Sure, Making
<1>6. CASE StartBuild(w) /\ pc[w] = "loaded"
  <2>1. pc'[w] = "building" /\ Save(w, MarkRunning(session[w]))
    BY <1>3, <1>6 DEF StartBuild, Goto
  <2>2. MarkRunning(session[w]) \in Row /\ MarkRunning(session[w]).status = "running"
    BY <1>2, MarksAreRows
  <2>3. /\ \A e \in Export : e # work[w] => row'[e] = row[e]
        /\ \A v \in Worker : v # w => session'[v] = session[v]
    BY <1>2, <2>1, <2>2, SaveFacts
  <2>4. session'[w] = row'[work[w]]
    BY <1>2, <2>1 DEF Save
  <2>5. Sure(w)' \/ Settled(work[w])'
    BY <1>3, <2>1, <2>4 DEF Sure, Making, Settled, Ended
  <2> QED
    BY <1>2, <1>3, <1>4, <2>1, <2>3, <2>5
<1>7. CASE BuildArtifact(w) \/ OpenFile(w) \/ WriteFile(w)
  <2>1. pc[w] \in Making /\ pc'[w] \in Making /\ row' = row /\ session' = session
    BY <1>3, <1>7 DEF BuildArtifact, OpenFile, WriteFile, Goto, Making, dbVars
  <2>2. Sure(w)' \/ (~Sure(w) /\ pc[w] \in Begun)
    BY <2>1 DEF Sure, Begun, Making
  <2> QED
    BY <1>2, <1>3, <1>4, <2>1, <2>2 DEF Making
<1>8. CASE Complete(w)
  <2>1. pc[w] = "completing" /\ pc'[w] = "committed" /\ Save(w, MarkCompleted(session[w]))
    BY <1>3, <1>8 DEF Complete, Goto
  <2>2. MarkCompleted(session[w]) \in Row /\ MarkCompleted(session[w]).status = "completed"
    BY <1>2, MarksAreRows
  <2>3. /\ row'[work[w]].status = IF session[w].status # "completed"
                                      THEN "completed" ELSE row[work[w]].status
        /\ \A e \in Export : e # work[w] => row'[e] = row[e]
        /\ \A v \in Worker : v # w => session'[v] = session[v]
    BY <1>2, <2>1, <2>2, SaveFacts
  <2>4. Sure(w) <=> session[w].status # "completed"
    BY <2>1 DEF Sure, Making
  <2>5. pc[w] \in Begun
    BY <2>1 DEF Begun, Making
  <2> QED
    BY <1>2, <1>3, <1>4, <2>1, <2>3, <2>4, <2>5 DEF Settled, Ended
<1>9. CASE Succeed(w) \/ Bury(w)
  <2>1. /\ pc[w] \in {"committed", "burying"} /\ pc'[w] = "finally"
        /\ row' = row /\ session' = session
    BY <1>3, <1>9 DEF Succeed, Bury, Goto, dbVars
  <2>2. ~Sure(w) /\ pc[w] \in Begun
    BY <2>1 DEF Sure, Begun, Making
  <2> QED
    BY <1>2, <1>3, <1>4, <2>1, <2>2
<1>10. CASE Fail(w)
  <2>1. pc'[w] = "failing" /\ row' = row /\ session' = session
    BY <1>3, <1>10 DEF Fail, Goto, dbVars
  <2> QED
    BY <1>2, <1>3, <1>4, <2>1 DEF Sure
<1>11. CASE RecordFailure(w)
  <2>1. CASE /\ pc'[w] = "recording" /\ row' = row
             /\ session' = [session EXCEPT ![w] = row[work[w]]]
    <3>1. Sure(w)' \/ Settled(work[w])'
      BY <1>2, <1>3, <2>1 DEF Sure, Settled, Ended
    <3> QED
      BY <1>2, <1>3, <1>4, <2>1, <3>1
  <2>2. CASE /\ pc[w] = "recording" /\ pc'[w] = "burying"
             /\ Save(w, MarkFailed(session[w]))
    <3>1. MarkFailed(session[w]) \in Row /\ MarkFailed(session[w]).status = "failed"
      BY <1>2, MarksAreRows
    <3>2. /\ row'[work[w]].status = IF session[w].status # "failed"
                                        THEN "failed" ELSE row[work[w]].status
          /\ \A e \in Export : e # work[w] => row'[e] = row[e]
          /\ \A v \in Worker : v # w => session'[v] = session[v]
      BY <1>2, <2>2, <3>1, SaveFacts
    <3>3. pc[w] \in Begun /\ (Sure(w) <=> session[w].status # "failed")
      BY <2>2 DEF Sure, Begun, Making
    <3> QED
      BY <1>2, <1>3, <1>4, <2>2, <3>2, <3>3 DEF Settled, Ended
  <2>3. CASE /\ pc'[w] = "finally" /\ work[w] \in abandoned' /\ row' = row
             /\ session' = session
    BY <1>2, <1>3, <1>4, <2>3 DEF Settled
  <2> QED
    BY <1>3, <1>11, <2>1, <2>2, <2>3 DEF RecordFailure, Goto
<1>12. CASE Cancel(w)
  <2>1. pc'[w] = "cancelled" /\ work[w] \in abandoned' /\ row' = row /\ session' = session
    BY <1>3, <1>12 DEF Cancel, Goto, dbVars
  <2> QED
    BY <1>2, <1>3, <1>4, <2>1 DEF Settled
<1>13. StartBuild(w) => pc[w] \in {"locked", "loaded"}
  BY DEF StartBuild
<1> QED
  BY <1>5, <1>6, <1>7, <1>8, <1>9, <1>10, <1>11, <1>12, <1>13

LEMMA BuildKeeps ==
    ASSUME KeptInv, NEW w \in Worker,
           \/ StartBuild(w) \/ BuildArtifact(w) \/ OpenFile(w) \/ WriteFile(w) \/ Complete(w)
           \/ Succeed(w) \/ Fail(w) \/ RecordFailure(w) \/ Bury(w) \/ Cancel(w)
    PROVE  Unborn' /\ Kept' /\ NobodyForgotten'
<1> USE DEF KeptInv
<1>1. /\ work[w] \in Export
      /\ work' = work /\ scanned' = scanned /\ queue' = queue /\ request' = request
      /\ \A v \in Worker : v # w => pc'[v] = pc[v] /\ session'[v] = session[v]
      /\ \A e \in Export : e # work[w] => row'[e] = row[e]
      /\ abandoned \subseteq abandoned' /\ undone' = undone
      /\ dead' \subseteq dead \cup {work[w]}
      /\ pc'[w] = "cancelled" => work[w] \in abandoned'
      /\ \/ Sure(w)' \/ Settled(work[w])'
         \/ /\ ~Sure(w) /\ row'[work[w]].status = row[work[w]].status
            /\ pc[w] \in Begun \/ pc'[w] = "loaded"
  BY BuildEffects
<1>2. Unborn'
  BY <1>1 DEF Unborn, Queued
<1>3. \A v \in Worker : v # w => (Sure(v)' <=> Sure(v))
  BY <1>1 DEF Sure
<1>4. ASSUME NEW e \in Export, Held(e), e # work[w]
      PROVE  Held(e)'
  BY <1>1, <1>3, <1>4 DEF Held, Settled, Ended, InWorks
<1>5. ASSUME Held(work[w]) PROVE Held(work[w])'
  <2>1. CASE Sure(w)'
    BY <2>1, <1>1 DEF Held, InWorks
  <2>2. CASE Settled(work[w])'
    BY <2>2 DEF Held
  <2>3. CASE ~Sure(w) /\ row'[work[w]].status = row[work[w]].status
    <3>1. CASE Settled(work[w])
      BY <2>3, <3>1, <1>1 DEF Held, Settled, Ended
    <3>2. CASE InWorks(work[w])
      BY <2>3, <3>2, <1>1, <1>3 DEF Held, InWorks
    <3> QED
      BY <3>1, <3>2, <1>5 DEF Held
  <2> QED
    BY <2>1, <2>2, <2>3, <1>1
<1>6. Kept'
  <2> SUFFICES ASSUME NEW v \in Worker
               PROVE  /\ pc'[v] = "cancelled" => work'[v] \in abandoned'
                      /\ pc'[v] \in Begun => Held(work[v])'
    BY <1>1 DEF Kept
  <2>1. CASE v = w
    <3>1. ASSUME pc'[w] \in Begun PROVE Held(work[w])'
      <4>1. CASE Sure(w)' \/ Settled(work[w])'
        BY <4>1, <1>1 DEF Held, InWorks
      <4>2. CASE pc[w] \in Begun
        BY <4>2, <1>5 DEF Kept
      <4> QED
        BY <3>1, <4>1, <4>2, <1>1 DEF Begun, Making
    <3> QED
      BY <2>1, <3>1, <1>1
  <2>2. CASE v # w
    <3>1. pc'[v] \in Begun => work[v] \in Export
      BY <2>2, <1>1, Busy DEF Resting, Begun, Making
    <3> QED
      BY <2>2, <3>1, <1>1, <1>4, <1>5 DEF Kept
  <2> QED
    BY <2>1, <2>2
<1>7. NobodyForgotten'
  <2> SUFFICES ASSUME NEW e \in Export, row'[e].status # "absent"
               PROVE  Held(e)' \/ Queued(e)' \/ InHands(e)'
    BY DEF NobodyForgotten, Held, Settled, InWorks, InHands
  <2>1. CASE e = work[w]
    BY <2>1, <1>1 DEF InHands
  <2>2. CASE e # work[w]
    <3>1. Held(e) \/ Queued(e) \/ InHands(e)
      BY <2>2, <1>1 DEF NobodyForgotten, Held, Settled
    <3> QED
      BY <2>2, <3>1, <1>1, <1>4 DEF Queued, InHands
  <2> QED
    BY <2>1, <2>2
<1> QED
  BY <1>2, <1>6, <1>7

\* What the steps have in common with which a loop takes or gives up an export, or
\* cleans up: whatever it gives up is held, or shared, or a known exception.
LEMMA TurnEffects ==
    ASSUME KeptInv, NEW w \in Worker,
           \/ Pop(w) \/ PollTimeout(w) \/ TakeLock(w) \/ Release(w) \/ ReleaseAgain(w)
           \/ Crash(w) \/ FindStuck(w) \/ ResetStuck(w)
    PROVE  /\ request' = request /\ dead' = dead
           /\ \A v \in Worker : v # w =>
                  /\ pc'[v] = pc[v] /\ work'[v] = work[v]
                  /\ session'[v] = session[v] /\ scanned'[v] = scanned[v]
           /\ pc'[w] \in {"idle", "swept", "resetting", "popped", "locked"}
           /\ abandoned \subseteq abandoned' /\ undone \subseteq undone'
           /\ \A e \in Export : row'[e] = row[e] \/ (e \in scanned[w] /\ row'[e].status = "queued"
                                    /\ (row[e].status # "running" => e \in undone'))
           /\ \A e \in scanned'[w] : e \in scanned[w] \/ row[e].status = "running"
           /\ work'[w] \in {NoWork, work[w]} \/ Queued(work'[w])
           /\ \A e \in Export : /\ Queued(e)' => Queued(e)
                                /\ Queued(e) => Queued(e)' \/ work'[w] = e
           /\ pc[w] \in Making \cup {"failing", "recording"} => work[w] \in abandoned'
           /\ work'[w] = work[w] \/ work[w] = NoWork \/ work[w] \in abandoned'
                \/ Held(work[w]) \/ \E v \in Worker : v # w /\ work[v] = work[w]
<1> USE DEF KeptInv
<1>1. /\ pc \in [Worker -> Phase] /\ work \in [Worker -> Export \cup {NoWork}]
      /\ session \in [Worker -> Row] /\ scanned \in [Worker -> SUBSET Export]
      /\ queue \in Seq(Export)
  BY DEF TypeOK
<1>2. CASE Pop(w)
  <2>1. /\ pc[w] \in {"idle", "swept"} /\ queue # <<>> /\ queue' = Tail(queue)
        /\ work' = [work EXCEPT ![w] = Head(queue)] /\ pc' = [pc EXCEPT ![w] = "popped"]
        /\ UNCHANGED <<row, dead, request, session, scanned, abandoned, undone>>
    BY <1>2 DEF Pop, dbVars, history
  <2>2. work[w] = NoWork
    BY <2>1 DEF TypeOK
  <2>3. \A e \in Export : /\ Queued(e)' => Queued(e)
                          /\ Queued(e) => Queued(e)' \/ Head(queue) = e
    <3>1. ASSUME NEW e \in Export, Queued(e)' PROVE Queued(e)
      <4>1. PICK i \in DOMAIN Tail(queue) : Tail(queue)[i] = e
        BY <3>1, <2>1 DEF Queued
      <4>2. i + 1 \in DOMAIN queue /\ queue[i + 1] = e
        BY <4>1, <2>1, <1>1
      <4> QED
        BY <4>2 DEF Queued
    <3>2. ASSUME NEW e \in Export, Queued(e), Head(queue) # e PROVE Queued(e)'
      <4>1. PICK i \in DOMAIN queue : queue[i] = e
        BY <3>2 DEF Queued
      <4>2. i # 1 /\ i \in 1..Len(queue)
        BY <4>1, <3>2, <1>1
      <4>3. i - 1 \in DOMAIN Tail(queue) /\ Tail(queue)[i - 1] = e
        BY <4>1, <4>2, <2>1, <1>1
      <4> QED
        BY <4>3, <2>1 DEF Queued
    <3> QED
      BY <3>1, <3>2
  <2>4. Queued(Head(queue))
    BY <2>1, <1>1 DEF Queued
  <2>5. pc[w] \notin Making \cup {"failing", "recording"} /\ pc'[w] = "popped" /\ work'[w] = Head(queue)
        /\ \A v \in Worker : v # w => pc'[v] = pc[v] /\ work'[v] = work[v]
    BY <2>1, <1>1 DEF Making
  <2> QED
    BY <2>1, <2>2, <2>3, <2>4, <2>5
<1>3. CASE FindStuck(w)
  <2>1. /\ pc[w] = "idle" /\ scanned' = [scanned EXCEPT ![w] = {e \in Export : Stuck(e)}]
        /\ pc' = [pc EXCEPT ![w] = "resetting"]
        /\ UNCHANGED <<row, dead, queue, request, work, session, abandoned, undone>>
    BY <1>3 DEF FindStuck, dbVars, history
  <2> QED
    BY <2>1, <1>1 DEF Stuck, Queued, Making
<1>4. CASE Goto(w, "locked") /\ TakeLock(w)
  <2>1. /\ pc[w] = "popped" /\ pc' = [pc EXCEPT ![w] = "locked"]
        /\ UNCHANGED <<row, dead, queue, request, work, scanned, undone>>
    BY <1>4 DEF TakeLock, Goto, dbVars
  <2>2. session' = session /\ abandoned \subseteq abandoned'
    BY <1>4, <2>1, <1>1 DEF TakeLock, Rest, Leave
  <2> QED
    BY <2>1, <2>2, <1>1 DEF Queued, Making
<1>5. CASE /\ \E p \in {"idle", "swept"} : Leave(w, p)
           /\ PollTimeout(w) \/ TakeLock(w) \/ Release(w) \/ ReleaseAgain(w) \/ Crash(w)
              \/ ResetStuck(w)
  <2>1. PICK p \in {"idle", "swept"} : Leave(w, p)
    BY <1>5
  <2>2. p \in Phase
    BY Phases DEF Resting
  <2>3. /\ pc'[w] = p /\ work'[w] = NoWork /\ scanned'[w] = {}
        /\ \A v \in Worker : v # w =>
               /\ pc'[v] = pc[v] /\ work'[v] = work[v]
               /\ session'[v] = session[v] /\ scanned'[v] = scanned[v]
    BY <2>1, <2>2, LeaveFacts
  <2>4. request' = request /\ dead' = dead /\ queue' = queue
    BY <1>5 DEF PollTimeout, TakeLock, Release, ReleaseAgain, Crash, ResetStuck, dbVars
  <2>5. \A e \in Export : Queued(e)' <=> Queued(e)
    BY <2>4 DEF Queued
  <2>6. abandoned \subseteq abandoned'
    BY <1>5 DEF PollTimeout, TakeLock, Release, ReleaseAgain, Crash, ResetStuck, history
  <2>7. undone \subseteq undone'
        /\ \A e \in Export : row'[e] = row[e] \/ (e \in scanned[w] /\ row'[e].status = "queued"
                                 /\ (row[e].status # "running" => e \in undone'))
    <3>1. CASE ResetStuck(w)
      BY <3>1, ResetFacts
    <3>2. CASE row' = row /\ undone' = undone
      BY <3>2
    <3> QED
      BY <1>5, <3>1, <3>2 DEF PollTimeout, TakeLock, Release, ReleaseAgain, Crash, dbVars, history
  <2>8. pc[w] \in Making \cup {"failing", "recording"} => work[w] \in abandoned'
    <3>1. ASSUME pc[w] \in Making \cup {"failing", "recording"} PROVE Crash(w) /\ work[w] \in Export
      BY <3>1, <1>5, Busy
         DEF PollTimeout, TakeLock, Release, ReleaseAgain, ResetStuck, Making, Resting
    <3>2. work[w] \in Export /\ Crash(w) => work[w] \in abandoned'
      BY ReportExportAssumption DEF Crash
    <3> QED
      BY <3>1, <3>2
  <2>9. work[w] = NoWork \/ work[w] \in abandoned'
          \/ Held(work[w]) \/ \E v \in Worker : v # w /\ work[v] = work[w]
    <3>1. CASE PollTimeout(w) \/ ResetStuck(w)
      BY <3>1 DEF PollTimeout, ResetStuck, TypeOK
    <3>2. CASE TakeLock(w)
      <4>1. \/ abandoned' = IF SharedWithOther(work[w], w) THEN abandoned
                            ELSE abandoned \cup {work[w]}
            \/ abandoned' = abandoned \cup {work[w]}
            \/ Goto(w, "locked") /\ pc[w] = "popped"
        BY <3>2 DEF TakeLock
      <4>2. ~Goto(w, "locked")
        BY <2>3, <1>1 DEF Goto
      <4> QED
        BY <4>1, <4>2 DEF SharedWithOther
    <3>3. CASE Release(w)
      BY <3>3 DEF Release, Kept, Begun
    <3>4. CASE ReleaseAgain(w)
      BY <3>4, <2>6 DEF ReleaseAgain, Kept
    <3>5. CASE Crash(w)
      BY <3>5 DEF Crash
    <3> QED
      BY <3>1, <3>2, <3>3, <3>4, <3>5, <1>5
  <2> QED
    BY <2>3, <2>4, <2>5, <2>6, <2>7, <2>8, <2>9
<1> QED
  BY <1>2, <1>3, <1>4, <1>5 DEF PollTimeout, TakeLock, Release, ReleaseAgain, Crash, ResetStuck, Rest

LEMMA TurnKeeps ==
    ASSUME KeptInv, NEW w \in Worker,
           \/ Pop(w) \/ PollTimeout(w) \/ TakeLock(w) \/ Release(w) \/ ReleaseAgain(w)
           \/ Crash(w) \/ FindStuck(w) \/ ResetStuck(w)
    PROVE  Unborn' /\ Kept' /\ NobodyForgotten'
<1> USE DEF KeptInv
<1>1. /\ request' = request /\ dead' = dead
      /\ \A v \in Worker : v # w =>
             /\ pc'[v] = pc[v] /\ work'[v] = work[v]
             /\ session'[v] = session[v] /\ scanned'[v] = scanned[v]
      /\ pc'[w] \in {"idle", "swept", "resetting", "popped", "locked"}
      /\ abandoned \subseteq abandoned' /\ undone \subseteq undone'
      /\ \A e \in Export : row'[e] = row[e] \/ (e \in scanned[w] /\ row'[e].status = "queued"
                               /\ (row[e].status # "running" => e \in undone'))
      /\ \A e \in scanned'[w] : e \in scanned[w] \/ row[e].status = "running"
      /\ work'[w] \in {NoWork, work[w]} \/ Queued(work'[w])
      /\ \A e \in Export : /\ Queued(e)' => Queued(e)
                           /\ Queued(e) => Queued(e)' \/ work'[w] = e
      /\ pc[w] \in Making \cup {"failing", "recording"} => work[w] \in abandoned'
      /\ work'[w] = work[w] \/ work[w] = NoWork \/ work[w] \in abandoned'
           \/ Held(work[w]) \/ \E v \in Worker : v # w /\ work[v] = work[w]
  BY TurnEffects
<1>2. Unborn'
  <2> SUFFICES ASSUME NEW e \in Export, request[e] = "new"
               PROVE  /\ row'[e].status = "absent" /\ e \notin dead' /\ ~Queued(e)'
                      /\ \A v \in Worker : work'[v] # e /\ e \notin scanned'[v]
    BY <1>1 DEF Unborn
  <2>1. /\ row[e].status = "absent" /\ e \notin dead /\ ~Queued(e) /\ e # NoWork
        /\ \A v \in Worker : work[v] # e /\ e \notin scanned[v]
    BY ReportExportAssumption DEF Unborn
  <2>2. row'[e] = row[e] /\ e \notin scanned'[w]
    BY <1>1, <2>1
  <2>3. work'[w] # e
    BY <1>1, <2>1
  <2> QED
    BY <1>1, <2>1, <2>2, <2>3
<1>4. ASSUME NEW e \in Export, Held(e)
      PROVE  Held(e)'
  <2>1. CASE Settled(e)
    BY <2>1, <1>1 DEF Held, Settled, Ended
  <2>2. CASE InWorks(e)
    <3>1. PICK v \in Worker : work[v] = e /\ Sure(v)
      BY <2>2 DEF InWorks
    <3>2. CASE v = w
      BY <3>1, <3>2, <1>1 DEF Held, Settled, Sure
    <3>3. CASE v # w
      BY <3>1, <3>3, <1>1 DEF Held, InWorks, Sure
    <3> QED
      BY <3>2, <3>3
  <2> QED
    BY <1>4, <2>1, <2>2 DEF Held
<1>5. Kept'
  <2> SUFFICES ASSUME NEW v \in Worker
               PROVE  /\ pc'[v] = "cancelled" => work'[v] \in abandoned'
                      /\ pc'[v] \in Begun => Held(work[v])'
    BY DEF Kept
  <2>1. CASE v = w
    BY <2>1, <1>1 DEF Begun, Making
  <2>2. CASE v # w
    <3>1. pc'[v] = "cancelled" => work'[v] \in abandoned'
      BY <2>2, <1>1 DEF Kept
    <3>2. ASSUME pc'[v] \in Begun PROVE Held(work[v])'
      <4>1. PICK e \in Export : e = work[v] /\ e = work'[v]
        BY <2>2, <3>2, <1>1, Busy DEF Resting, Begun, Making
      <4>2. Held(e)
        BY <4>1, <2>2, <3>2, <1>1 DEF Kept
      <4>3. Held(e)'
        BY <4>2, <1>4
      <4> QED
        BY <4>1, <4>3 DEF Held, Settled, Ended, InWorks
    <3> QED
      BY <3>1, <3>2
  <2> QED
    BY <2>1, <2>2
<1>6. NobodyForgotten'
  <2> SUFFICES ASSUME NEW e \in Export, row'[e].status # "absent"
               PROVE  Held(e)' \/ Queued(e)' \/ InHands(e)'
    BY DEF NobodyForgotten, Held, Settled, InWorks, InHands
  <2>1. CASE Held(e)
    BY <2>1, <1>4
  <2>2. CASE Queued(e)
    BY <2>2, <1>1 DEF InHands
  <2>3. CASE request[e] \in {"pushing", "refusing"}
    BY <2>3, <1>1 DEF InHands
  <2>4. CASE \E v \in Worker : work[v] = e
    <3>1. CASE \E v \in Worker : v # w /\ work[v] = e
      BY <3>1, <1>1 DEF InHands
    <3>2. CASE work[w] = e /\ ~\E v \in Worker : v # w /\ work[v] = e
      <4>1. e # NoWork
        BY ReportExportAssumption
      <4>2. work'[w] = e \/ e \in abandoned' \/ Held(e)
        BY <3>2, <4>1, <1>1
      <4> QED
        BY <4>2, <1>4 DEF InHands, Held, Settled
    <3> QED
      BY <2>4, <3>1, <3>2
  <2>5. CASE row[e].status = "absent"
    BY <2>5, <1>1 DEF Held, Settled
  <2> QED
    BY <2>1, <2>2, <2>3, <2>4, <2>5 DEF NobodyForgotten, Held, Settled, InHands
<1> QED
  BY <1>2, <1>5, <1>6

\* A payload that is pushed joins those that wait.
LEMMA AppendQueued ==
    ASSUME TypeOK, NEW x \in Export, queue' = Append(queue, x)
    PROVE  /\ Queued(x)' /\ \A e \in Export : e # x => (Queued(e)' <=> Queued(e))
<1>1. queue \in Seq(Export)
  BY DEF TypeOK
<1>2. /\ DOMAIN queue' = 1..Len(queue) + 1 /\ queue'[Len(queue) + 1] = x
      /\ \A i \in 1..Len(queue) : queue'[i] = queue[i]
      /\ DOMAIN queue = 1..Len(queue) /\ Len(queue) \in Nat
  BY <1>1
<1>3. Queued(x)'
  BY <1>2 DEF Queued
<1>4. ASSUME NEW e \in Export, e # x PROVE Queued(e)' <=> Queued(e)
  <2>1. Queued(e) => Queued(e)'
    BY <1>2 DEF Queued
  <2>2. ASSUME NEW i \in DOMAIN queue', queue'[i] = e PROVE i \in DOMAIN queue /\ queue[i] = e
    <3>1. i \in 1..Len(queue)
      BY <2>2, <1>2, <1>4
    <3> QED
      BY <3>1, <2>2, <1>2
  <2> QED
    BY <2>1, <2>2 DEF Queued
<1> QED
  BY <1>3, <1>4

\* The requests and the administrator: a created export stays in the hands of its
\* request until it is pushed, refused or lost.
LEMMA RequestKeeps ==
    ASSUME KeptInv, NEW x \in Export,
           Create(x) \/ Serve(x) \/ RequestDies(x) \/ Requeue(x) \/ Age(x) \/ ExpireLock(x)
    PROVE  Unborn' /\ Kept' /\ NobodyForgotten'
<1> USE DEF KeptInv
<1>1. /\ pc' = pc /\ work' = work /\ scanned' = scanned /\ dead' = dead /\ undone' = undone
      /\ abandoned \subseteq abandoned'
  BY DEF Create, Serve, Enqueue, Refuse, RequestDies, Requeue, Age, ExpireLock, dbVars, loopVars,
         history
<1>2. /\ \A w \in Worker : session'[w].status = session[w].status
      /\ \A e \in Export :
             \/ row'[e].status = row[e].status
             \/ /\ e = x /\ request[e] = "new" /\ request'[e] = "pushing"
                /\ row'[e].status = "queued"
             \/ e = x /\ request[e] = "refusing" /\ row'[e].status = "failed"
  <2>1. CASE Create(x)
    BY <2>1, NoRowIsRow DEF Create, loopVars, TypeOK
  <2>2. CASE Refuse(x)
    BY <2>2, RefuseFacts DEF Refuse, loopVars
  <2>3. CASE Age(x)
    BY <2>3, AgeFacts
  <2>4. CASE row' = row /\ session' = session
    BY <2>4
  <2> QED
    BY <2>1, <2>2, <2>3, <2>4
       DEF Serve, Enqueue, RequestDies, Requeue, ExpireLock, dbVars, loopVars
<1>3. /\ \A e \in Export : e # x => (Queued(e)' <=> Queued(e)) /\ request'[e] = request[e]
      /\ Queued(x) => Queued(x)'
      /\ request'[x] # "new" \/ (request'[x] = request[x] /\ (Queued(x)' => Queued(x)))
      /\ request[x] \in {"pushing", "refusing"} =>
             \/ request'[x] \in {"pushing", "refusing"} \/ Queued(x)' \/ x \in abandoned'
             \/ row'[x].status = "failed"
  <2>1. CASE Create(x)
    BY <2>1 DEF Create, Queued, TypeOK
  <2>2. CASE Enqueue(x)
    <3>1. PICK pushed \in BOOLEAN, answered \in BOOLEAN :
              /\ answered => pushed
              /\ queue' = IF pushed THEN Append(queue, x) ELSE queue
              /\ request' = [request EXCEPT ![x] = IF answered THEN "done" ELSE "refusing"]
      BY <2>2 DEF Enqueue
    <3>2. (queue' = Append(queue, x) /\ Queued(x)' /\ \A e \in Export : e # x => (Queued(e)' <=> Queued(e)))
          \/ (queue' = queue /\ ~answered)
      BY <3>1, AppendQueued
    <3>3. queue' = queue => \A e \in Export : Queued(e)' <=> Queued(e)
      BY DEF Queued
    <3> QED
      BY <3>1, <3>2, <3>3 DEF TypeOK
  <2>3. CASE Refuse(x)
    BY <2>3, RefuseFacts DEF Refuse, Queued, TypeOK
  <2>4. CASE RequestDies(x)
    BY <2>4 DEF RequestDies, Queued, TypeOK
  <2>5. CASE Requeue(x)
    <3>1. x \in dead /\ queue' = Append(queue, x) /\ request' = request
      BY <2>5 DEF Requeue
    <3>2. request[x] # "new"
      BY <3>1 DEF Unborn
    <3> QED
      BY <3>1, <3>2, AppendQueued
  <2>6. CASE Age(x) \/ ExpireLock(x)
    BY <2>6 DEF Age, ExpireLock, Queued
  <2> QED
    BY <2>1, <2>2, <2>3, <2>4, <2>5, <2>6 DEF Serve
<1>4. Unborn'
  <2> SUFFICES ASSUME NEW e \in Export, request'[e] = "new"
               PROVE  /\ row'[e].status = "absent" /\ e \notin dead' /\ ~Queued(e)'
                      /\ \A w \in Worker : work'[w] # e /\ e \notin scanned'[w]
    BY DEF Unborn
  <2>1. request[e] = "new" /\ (Queued(e)' => Queued(e))
    BY <1>3
  <2>2. row'[e].status = row[e].status
    BY <1>2, <2>1
  <2> QED
    BY <2>1, <2>2, <1>1 DEF Unborn
<1>6. ASSUME NEW e \in Export, Held(e)
      PROVE  Held(e)'
  <2>1. InWorks(e)' <=> InWorks(e)
    BY <1>1, <1>2 DEF InWorks, Sure
  <2>2. Settled(e) => Settled(e)'
    BY <1>1, <1>2 DEF Settled, Ended, Unborn
  <2> QED
    BY <1>6, <2>1, <2>2 DEF Held
<1>7. Kept'
  <2> SUFFICES ASSUME NEW v \in Worker
               PROVE  /\ pc[v] = "cancelled" => work[v] \in abandoned'
                      /\ pc[v] \in Begun => Held(work[v])'
    BY <1>1 DEF Kept
  <2>1. pc[v] \in Begun => work[v] \in Export
    BY Busy DEF Resting, Begun, Making
  <2>2. ASSUME pc[v] \in Begun PROVE Held(work[v])'
    <3>1. PICK e \in Export : e = work[v]
      BY <2>1, <2>2
    <3>2. Held(e)'
      BY <2>2, <3>1, <1>6 DEF Kept
    <3> QED
      BY <3>1, <3>2, <1>1
  <2> QED
    BY <2>2, <1>1 DEF Kept
<1>8. NobodyForgotten'
  <2> SUFFICES ASSUME NEW e \in Export, row'[e].status # "absent"
               PROVE  Held(e)' \/ Queued(e)' \/ InHands(e)'
    BY DEF NobodyForgotten, Held, Settled, InWorks, InHands
  <2>1. CASE row[e].status = "absent"
    <3>1. request'[e] = "pushing" \/ row'[e].status = "failed"
      BY <2>1, <1>2
    <3> QED
      BY <3>1 DEF InHands, Held, Settled, Ended
  <2>2. CASE row[e].status # "absent"
    <3>1. Held(e) \/ Queued(e) \/ request[e] \in {"pushing", "refusing"}
            \/ \E w \in Worker : work[w] = e
      BY <2>2 DEF NobodyForgotten, Held, Settled, InHands
    <3>2. CASE Held(e)
      BY <3>2, <1>6
    <3>3. CASE Queued(e)
      BY <3>3, <1>3
    <3>4. CASE request[e] \in {"pushing", "refusing"}
      BY <3>4, <1>3 DEF InHands, Held, Settled, Ended
    <3>5. CASE \E w \in Worker : work[w] = e
      BY <3>5, <1>1 DEF InHands
    <3> QED
      BY <3>1, <3>2, <3>3, <3>4, <3>5
  <2> QED
    BY <2>1, <2>2
<1> QED
  BY <1>4, <1>7, <1>8

LEMMA KeptStep ==
    ASSUME KeptInv, [Next]_vars
    PROVE  KeptInv'
<1>1. TypeOK'
  BY TypeStep DEF KeptInv
<1>2. CASE UNCHANGED vars
  BY <1>1, <1>2 DEF vars, KeptInv, Unborn, Kept, NobodyForgotten, Held, Settled, Ended,
                    InWorks, Sure, Queued, InHands, loopVars
<1>3. ASSUME NEW e \in Export,
             Create(e) \/ Serve(e) \/ RequestDies(e) \/ Requeue(e) \/ Age(e) \/ ExpireLock(e)
      PROVE  KeptInv'
  BY <1>1, <1>3, RequestKeeps DEF KeptInv
<1>4. ASSUME NEW w \in Worker,
             Pop(w) \/ PollTimeout(w) \/ Build(w) \/ Cancel(w) \/ Crash(w) \/ FindStuck(w)
      PROVE  Unborn' /\ Kept' /\ NobodyForgotten'
  BY <1>4, BuildKeeps, TurnKeeps DEF Build
<1> QED
  BY <1>1, <1>2, <1>3, <1>4 DEF Next, KeptInv

\* NobodyForgotten: an accepted export has ended, waits in the list or is in somebody's
\* hands, but for a handler or request that died or lost a command, and for a clean-up
\* that reset an export which had ended.  It needs no lock: who drops a payload because
\* the lock is held leaves the export to the holder.
THEOREM ExportsAreKept == Spec => []NobodyForgotten
<1>1. KeptInv => NobodyForgotten
  BY DEF KeptInv
<1>2. KeptInv /\ [Next]_vars => KeptInv'
  BY KeptStep
<1> QED
  BY <1>1, <1>2, KeptInit, PTL DEF Spec

-----------------------------------------------------------------------------
(***************************************************************************)
(* One builder, one whole file, as long as no build outlives its lock.     *)
(***************************************************************************)

\* A loop whose handler has the lock, and has not begun to delete it.
Inside == Trying \cup Excepting \cup {"finally"}

\* It still has it, unless a loop deleted it that had given it up.
LockHeld == \A w \in Worker : pc[w] \in Inside => lock[work[w]] = w \/ work[w] \in unlocked

\* While one loop builds, the row is not completed; it is completed when the file is
\* whole.
Whole ==
    /\ \A w \in Worker : work[w] \notin unlocked =>
           /\ pc[w] = "loaded" /\ session[w].status = "running" =>
                  row[work[w]].status # "completed"
           /\ pc[w] \in Making => row[work[w]].status # "completed"
           /\ pc[w] = "completing" => file[work[w]] = "whole"
    /\ \A e \in Export \ unlocked : row[e].status = "completed" => file[e] = "whole"

LEMMA InsidePhases ==
    /\ Trying \subseteq Inside /\ Excepting \subseteq Inside /\ Making \subseteq Inside
    /\ "finally" \in Inside /\ Inside \subseteq Holding
    /\ {"idle", "resetting", "swept", "popped", "cancelled"} \cap Inside = {}
BY DEF Inside, Making, Trying, Excepting, Holding

LEMMA OneInside ==
    ASSUME LockHeld, NEW v \in Worker, NEW w \in Worker, v # w, work[v] = work[w],
           pc[v] \in Inside, pc[w] \in Inside
    PROVE  work[v] \in unlocked
BY DEF LockHeld

LEMMA LockInit == Init => LockHeld /\ Whole
<1> SUFFICES ASSUME Init PROVE LockHeld /\ Whole
  OBVIOUS
<1>1. /\ \A w \in Worker : pc[w] = "swept" /\ "swept" \notin Inside /\ "swept" \notin Making
      /\ \A e \in Export : row[e].status = "absent"
  BY InsidePhases, NoRowIsRow DEF Init, Making
<1> QED
  BY <1>1 DEF LockHeld, Whole

\* A history of deleted locks only grows.
LEMMA UnlockedGrows == [Next]_vars => unlocked \subseteq unlocked'
BY DEF Next, vars, Create, Serve, Enqueue, Refuse, RequestDies, Requeue, Age, ExpireLock, Pop,
       PollTimeout, Build, TakeLock, StartBuild, BuildArtifact, OpenFile, WriteFile, Complete,
       Succeed, Fail, RecordFailure, Bury, Release, ReleaseAgain, ResetStuck, Cancel, Crash,
       FindStuck, history

\* A loop takes a lock that is free; another loop's lock is deleted only with a trace
\* in `unlocked`, or by its expiry, which no build lives to see.
LEMMA LockStep ==
    ASSUME LockOutlivesBuild, TypeOK, LockHeld, [Next]_vars
    PROVE  LockHeld'
<1> SUFFICES ASSUME NEW v \in Worker, pc'[v] \in Inside
             PROVE  lock'[work'[v]] = v \/ work'[v] \in unlocked'
  BY DEF LockHeld
<1>1. /\ pc \in [Worker -> Phase] /\ work \in [Worker -> Export \cup {NoWork}]
      /\ lock \in [Export -> Worker \cup {Free}] /\ Free \notin Worker
      /\ unlocked \subseteq unlocked'
  BY UnlockedGrows, ReportExportAssumption DEF TypeOK
<1>2. ASSUME NEW w \in Worker, pc'[w] \notin Inside \/ (pc[w] \in Inside /\ work'[w] = work[w]),
             \A u \in Worker : u # w => pc'[u] = pc[u] /\ work'[u] = work[u]
      PROVE  pc[v] \in Inside /\ work'[v] = work[v]
  BY <1>2
<1>3. ASSUME pc[v] \in Inside PROVE work[v] \in Export
  BY <1>3, InsidePhases, Busy DEF Resting
<1>4. ASSUME NEW e \in Export, ExpireLock(e)
      PROVE  lock'[work'[v]] = v \/ work'[v] \in unlocked'
  <2>1. pc[v] \in Inside /\ work'[v] = work[v] /\ pc[v] \in Holding
    BY <1>4, InsidePhases DEF ExpireLock, loopVars
  <2>2. work[v] # e
    BY <1>4, <2>1 DEF ExpireLock
  <2>3. lock'[work[v]] = lock[work[v]]
    BY <1>1, <1>3, <1>4, <2>1, <2>2 DEF ExpireLock
  <2> QED
    BY <1>1, <2>1, <2>3 DEF LockHeld
<1>5. ASSUME NEW w \in Worker, TakeLock(w)
      PROVE  lock'[work'[v]] = v \/ work'[v] \in unlocked'
  <2>1. pc[w] = "popped" /\ work[w] \in Export
    BY <1>5, Busy DEF TakeLock, Resting
  <2>2. /\ lock' = lock \/ (lock[work[w]] = Free /\ lock' = [lock EXCEPT ![work[w]] = w])
        /\ \A u \in Worker : u # w => pc'[u] = pc[u] /\ work'[u] = work[u]
    BY <1>5, <1>1 DEF TakeLock, Goto, Rest, Leave
  <2>3. \/ pc'[w] = "locked" /\ work'[w] = work[w] /\ lock' = [lock EXCEPT ![work[w]] = w]
        \/ pc'[w] = "idle"
    BY <1>5, <1>1 DEF TakeLock, Goto, Rest, Leave
  <2>4. CASE v = w
    <3>1. pc'[w] # "idle"
      BY <2>4, InsidePhases
    <3> QED
      BY <2>1, <2>3, <2>4, <3>1, <1>1
  <2>5. CASE v # w
    <3>1. pc[v] \in Inside /\ work'[v] = work[v] /\ work[v] \in Export
      BY <2>2, <2>5, <1>3
    <3>2. lock[work[v]] = v => lock'[work[v]] = v
      BY <2>2, <3>1, <1>1
    <3> QED
      BY <3>1, <3>2, <1>1 DEF LockHeld
  <2> QED
    BY <2>4, <2>5
<1>6. ASSUME NEW w \in Worker, Release(w) \/ ReleaseAgain(w) \/ Cancel(w)
      PROVE  lock'[work'[v]] = v \/ work'[v] \in unlocked'
  <2>1. work[w] \in Export
    BY <1>6, Busy DEF Release, ReleaseAgain, Cancel, Trying, Resting
  <2>2. /\ pc'[w] \in {"idle", "cancelled"}
        /\ \A u \in Worker : u # w => pc'[u] = pc[u] /\ work'[u] = work[u]
    BY <1>6, <1>1 DEF Release, ReleaseAgain, Cancel, Goto, Rest, Leave
  <2>3. v # w
    BY <2>2, InsidePhases
  <2>4. pc[v] \in Inside /\ work'[v] = work[v] /\ work[v] \in Export
    BY <2>2, <2>3, <1>3
  <2>5. \/ lock' = lock
        \/ /\ lock' = [lock EXCEPT ![work[w]] = Free]
           /\ unlocked' = IF lock[work[w]] \in Worker \ {w}
                              THEN unlocked \cup {work[w]} ELSE unlocked
    BY <1>6 DEF Release, ReleaseAgain, Cancel
  <2>6. CASE lock[work[v]] = v
    BY <2>3, <2>4, <2>5, <2>6, <1>1
  <2>7. CASE lock[work[v]] # v
    BY <2>4, <2>7, <1>1 DEF LockHeld
  <2> QED
    BY <2>6, <2>7
<1>7. ASSUME lock' = lock, pc[v] \in Inside, work'[v] = work[v]
      PROVE  lock'[work'[v]] = v \/ work'[v] \in unlocked'
  BY <1>1, <1>7 DEF LockHeld
<1>8. ASSUME NEW e \in Export,
             Create(e) \/ Serve(e) \/ RequestDies(e) \/ Requeue(e) \/ Age(e)
      PROVE  lock' = lock /\ pc' = pc /\ work' = work
  BY <1>8 DEF Create, Serve, Enqueue, Refuse, RequestDies, Requeue, Age, dbVars, loopVars
<1>9. ASSUME NEW w \in Worker,
             \/ Pop(w) \/ PollTimeout(w) \/ ResetStuck(w) \/ Crash(w) \/ FindStuck(w)
      PROVE  lock' = lock /\ pc[v] \in Inside /\ work'[v] = work[v]
  <2>1. /\ lock' = lock /\ pc'[w] \in {"popped", "idle", "swept", "resetting"}
        /\ \A u \in Worker : u # w => pc'[u] = pc[u] /\ work'[u] = work[u]
    BY <1>9, <1>1 DEF Pop, PollTimeout, ResetStuck, Crash, FindStuck, Rest, Leave
  <2>2. pc'[w] \notin Inside
    BY <2>1, InsidePhases
  <2> QED
    BY <2>1, <2>2
<1>10. ASSUME NEW w \in Worker,
              \/ StartBuild(w) \/ BuildArtifact(w) \/ OpenFile(w) \/ WriteFile(w) \/ Complete(w)
              \/ Succeed(w) \/ Fail(w) \/ RecordFailure(w) \/ Bury(w)
       PROVE  lock' = lock /\ pc[v] \in Inside /\ work'[v] = work[v]
  <2>1. /\ lock' = lock /\ work' = work
        /\ \A u \in Worker : u # w => pc'[u] = pc[u]
    BY <1>10, <1>1 DEF StartBuild, BuildArtifact, OpenFile, WriteFile, Complete, Succeed, Fail,
                       RecordFailure, Bury, Goto
  <2>2. pc[w] \in Inside
    BY <1>10 DEF StartBuild, BuildArtifact, OpenFile, WriteFile, Complete, Succeed, Fail,
                 RecordFailure, Bury, Inside, Trying, Excepting
  <2> QED
    BY <2>1, <2>2
<1>11. UNCHANGED vars => lock' = lock /\ pc' = pc /\ work' = work
  BY DEF vars
<1> QED
  BY <1>4, <1>5, <1>6, <1>7, <1>8, <1>9, <1>10, <1>11 DEF Next, Build

\* Only the loop inside writes the file, and it completes the row when that is whole.
LEMMA WholeStep ==
    ASSUME KeptInv, LockHeld, Whole, [Next]_vars
    PROVE  Whole'
<1> USE DEF KeptInv
<1>1. unlocked \subseteq unlocked' /\ pc \in [Worker -> Phase] /\ file \in [Export -> {"none", "partial", "whole"}]
  BY UnlockedGrows DEF TypeOK
<1>2. \A w \in Worker : pc[w] \in Making \cup {"loaded"} => work[w] \in Export
  BY Busy DEF Making, Resting
\* Steps that neither write the file nor complete a row.
<1>3. ASSUME file' = file,
             \A e \in Export : row'[e].status = "completed" => row[e].status = "completed",
             \A v \in Worker : pc'[v] = "loaded" /\ session'[v].status = "running" =>
                 /\ work'[v] = work[v] /\ work[v] \in Export
                 /\ \/ pc[v] = "loaded" /\ session[v].status = "running"
                    \/ row'[work[v]].status # "completed",
             \A v \in Worker : pc'[v] \in Making =>
                 /\ work'[v] = work[v] /\ work[v] \in Export
                 /\ \/ pc[v] \in Making \/ work[v] \in unlocked'
                    \/ row'[work[v]].status # "completed"
                 /\ pc'[v] = "completing" => pc[v] = "completing"
      PROVE  Whole'
  BY <1>1, <1>3 DEF Whole, Making
<1>4. ASSUME NEW x \in Export,
             Create(x) \/ Serve(x) \/ RequestDies(x) \/ Requeue(x) \/ Age(x) \/ ExpireLock(x)
      PROVE  Whole'
  <2>1. file' = file /\ pc' = pc /\ work' = work
        /\ \A v \in Worker : session'[v].status = session[v].status
    BY <1>4, AgeFacts
       DEF Create, Serve, Enqueue, Refuse, RequestDies, Requeue, Age, ExpireLock, dbVars, loopVars
  <2>2. \A e \in Export : row'[e].status = "completed" => row[e].status = "completed"
    <3>1. CASE Create(x)
      BY <3>1, NoRowIsRow DEF Create, TypeOK
    <3>2. CASE Refuse(x)
      BY <3>2, RefuseFacts
    <3>3. CASE Age(x)
      BY <3>3, AgeFacts
    <3>4. CASE row' = row
      BY <3>4
    <3> QED
      BY <1>4, <3>1, <3>2, <3>3, <3>4 DEF Serve, Enqueue, RequestDies, Requeue, ExpireLock, dbVars
  <2> QED
    BY <2>1, <2>2, <1>2, <1>3
<1>5. ASSUME NEW w \in Worker,
             \/ Pop(w) \/ PollTimeout(w) \/ TakeLock(w) \/ Release(w) \/ ReleaseAgain(w)
             \/ Crash(w) \/ FindStuck(w) \/ ResetStuck(w)
      PROVE  Whole'
  <2>1. /\ \A v \in Worker : v # w =>
               pc'[v] = pc[v] /\ work'[v] = work[v] /\ session'[v] = session[v]
        /\ pc'[w] \notin Making \cup {"loaded"}
        /\ \A e \in Export : row'[e] = row[e] \/ row'[e].status = "queued"
    BY <1>5, TurnEffects DEF Making
  <2>2. file' = file
    BY <1>5 DEF Pop, PollTimeout, TakeLock, Release, ReleaseAgain, Crash, FindStuck, ResetStuck
  <2> QED
    BY <2>1, <2>2, <1>2, <1>3
<1>6. ASSUME NEW w \in Worker,
             \/ StartBuild(w) \/ BuildArtifact(w) \/ Succeed(w) \/ Fail(w) \/ RecordFailure(w)
             \/ Bury(w) \/ Cancel(w)
      PROVE  Whole'
  <2>1. /\ work[w] \in Export /\ work' = work
        /\ \A v \in Worker : v # w => pc'[v] = pc[v] /\ session'[v] = session[v]
        /\ \A e \in Export : e # work[w] => row'[e] = row[e]
    BY <1>6, BuildEffects
  <2>2. file' = file
    BY <1>6 DEF StartBuild, BuildArtifact, Succeed, Fail, RecordFailure, Bury, Cancel
  <2>3. CASE StartBuild(w) /\ pc[w] = "locked"
    <3>1. /\ row' = row /\ pc'[w] = "loaded"
          /\ session'[w] = row[work[w]]
      BY <1>1, <2>3 DEF StartBuild, Goto, TypeOK
    <3> QED
      BY <2>1, <2>2, <3>1, <1>2, <1>3 DEF Making
  <2>4. CASE StartBuild(w) /\ pc[w] = "loaded"
    <3>1. pc'[w] = "building" /\ Save(w, MarkRunning(session[w]))
      BY <1>1, <2>4 DEF StartBuild, Goto
    <3>2. MarkRunning(session[w]) \in Row /\ MarkRunning(session[w]).status = "running"
      BY MarksAreRows DEF TypeOK
    <3>3. row'[work[w]].status = IF session[w].status # "running"
                                     THEN "running" ELSE row[work[w]].status
      BY <2>1, <3>1, <3>2, SaveFacts
    <3>4. work[w] \in unlocked' \/ row'[work[w]].status # "completed"
      BY <1>1, <2>4, <3>3 DEF Whole
    <3>5. \A e \in Export : row'[e].status = "completed" => row[e].status = "completed"
      BY <2>1, <3>3
    <3> QED
      BY <2>1, <2>2, <3>1, <3>4, <3>5, <1>2, <1>3 DEF Making
  <2>5. CASE RecordFailure(w)
    <3>1. pc'[w] \in {"recording", "burying", "finally"}
      BY <1>1, <2>5 DEF RecordFailure, Goto
    <3>2. MarkFailed(session[w]) \in Row /\ MarkFailed(session[w]).status = "failed"
      BY MarksAreRows DEF TypeOK
    <3>3. \/ row' = row
          \/ row'[work[w]].status = IF session[w].status # "failed"
                                        THEN "failed" ELSE row[work[w]].status
      BY <2>1, <2>5, <3>2, SaveFacts DEF RecordFailure
    <3>4. \A e \in Export : row'[e].status = "completed" => row[e].status = "completed"
      BY <2>1, <3>3
    <3> QED
      BY <2>1, <2>2, <3>1, <3>4, <1>2, <1>3 DEF Making
  <2>6. CASE BuildArtifact(w) \/ Succeed(w) \/ Fail(w) \/ Bury(w) \/ Cancel(w)
    <3>1. /\ row' = row /\ pc'[w] # "loaded"
          /\ pc'[w] \in Making => pc[w] \in Making /\ pc'[w] # "completing"
      BY <1>1, <2>6 DEF BuildArtifact, Succeed, Fail, Bury, Cancel, Goto, Making, dbVars
    <3> QED
      BY <2>1, <2>2, <3>1, <1>2, <1>3
  <2> QED
    BY <1>6, <2>3, <2>4, <2>5, <2>6 DEF StartBuild
<1>7. ASSUME NEW w \in Worker, OpenFile(w) \/ WriteFile(w)
      PROVE  Whole'
  <2>1. /\ work[w] \in Export /\ work' = work /\ row' = row /\ unlocked' = unlocked
        /\ pc[w] \in Making /\ pc'[w] \in Making /\ pc[w] # "completing"
        /\ session' = session
        /\ \A v \in Worker : v # w => pc'[v] = pc[v]
    BY <1>1, <1>2, <1>7 DEF OpenFile, WriteFile, Goto, Making, dbVars, history
  <2>2. /\ \A e \in Export : e # work[w] => file'[e] = file[e]
        /\ pc'[w] = "completing" => file'[work[w]] = "whole"
    BY <1>1, <1>7, <2>1 DEF OpenFile, WriteFile, Goto
  <2>3. ASSUME NEW v \in Worker, v # w, work[v] = work[w], pc[v] \in Making
        PROVE  work[w] \in unlocked
    BY <2>1, <2>3, OneInside, InsidePhases
  <2>4. work[w] \notin unlocked => row[work[w]].status # "completed"
    BY <2>1 DEF Whole
  <2> QED
    BY <2>1, <2>2, <2>3, <2>4, <1>2 DEF Whole, Making
<1>8. ASSUME NEW w \in Worker, Complete(w)
      PROVE  Whole'
  <2>1. /\ work[w] \in Export /\ work' = work
        /\ \A v \in Worker : v # w => pc'[v] = pc[v] /\ session'[v] = session[v]
        /\ \A e \in Export : e # work[w] => row'[e] = row[e]
    BY <1>8, BuildEffects
  <2>2. pc[w] = "completing" /\ pc'[w] = "committed" /\ file' = file /\ unlocked' = unlocked
    BY <1>1, <1>8 DEF Complete, Goto, history
  <2>3. ASSUME NEW v \in Worker, v # w, work[v] = work[w], pc[v] \in Making \cup {"loaded"}
        PROVE  work[w] \in unlocked
    <3>1. pc[w] \in Making /\ "loaded" \in Inside
      BY <2>2 DEF Making, Inside, Trying
    <3> QED
      BY <3>1, <2>3, OneInside, InsidePhases
  <2>4. work[w] \notin unlocked => file[work[w]] = "whole"
    BY <2>2 DEF Whole
  <2> QED
    BY <2>1, <2>2, <2>3, <2>4, <1>2 DEF Whole, Making
<1>9. CASE UNCHANGED vars
  BY <1>9 DEF vars, loopVars, Whole
<1> QED
  BY <1>4, <1>5, <1>6, <1>7, <1>8, <1>9 DEF Next, Build

\* OneBuilder: as long as no build outlives its lock, two loops are inside the handler
\* of one export only after a loop deleted a lock it no longer owned.
THEOREM OneBuilderAtATime ==
    ASSUME LockOutlivesBuild
    PROVE  Spec => []OneBuilder
<1>1. LockHeld => OneBuilder
  BY OneInside, InsidePhases DEF OneBuilder
<1>2. TypeOK /\ LockHeld /\ [Next]_vars => TypeOK' /\ LockHeld'
  BY TypeStep, LockStep
<1> QED
  BY <1>1, <1>2, TypeInit, LockInit, PTL DEF Spec

\* ReadyIsWhole: under the same assumption, what a client may download is a whole
\* document, although a second build of an export writes the same file.
THEOREM DownloadsAreWhole ==
    ASSUME LockOutlivesBuild
    PROVE  Spec => []ReadyIsWhole
<1>1. Whole => ReadyIsWhole
  BY DEF Whole, ReadyIsWhole, Ready
<1>2. KeptInv /\ LockHeld /\ Whole /\ [Next]_vars => KeptInv' /\ LockHeld' /\ Whole'
  <2>1. KeptInv => TypeOK
    BY DEF KeptInv
  <2> QED
    BY <2>1, KeptStep, LockStep, WholeStep
<1> QED
  BY <1>1, <1>2, KeptInit, LockInit, PTL DEF Spec
=============================================================================
