------------------------- MODULE CostLedger_proofs -------------------------
(***************************************************************************)
(* Theorems about CostLedger, for every set of tasks, every number of days *)
(* and every lookback.                                                     *)
(***************************************************************************)
EXTENDS CostLedger, FiniteSetTheorems, TLAPS

\* A sync looks back to a day of the month, whatever lookback it was given.
LEMMA LookbackDay ==
    ASSUME NEW t \in Day, NEW n \in Nat
    PROVE  /\ (IF n < t THEN t - n ELSE 1) \in Day
           /\ (IF n < t THEN t - n ELSE 1) <= t
BY CostLedgerAssumption, SMT DEF Day

LEMMA LookbackIsNat == TypeOK => PeriodicLookback \in Nat
BY CostLedgerAssumption, SMT DEF TypeOK, PeriodicLookback, AtLeast, AtMost, Day

LEMMA BatchDayType == ASSUME TypeOK, NEW w \in Worker PROVE BatchDays(w) \subseteq Day
BY CostLedgerAssumption, SMT DEF TypeOK, BatchDays, Covers, Day

\* A batch lies within its span.
LEMMA BatchInSpan ==
    ASSUME TypeOK, NEW w \in Worker
    PROVE  BatchDays(w) \subseteq Span(w)
<1> SUFFICES ASSUME NEW d \in BatchDays(w) PROVE d \in Span(w)
  OBVIOUS
<1>1. d \in Day /\ d <= d
  BY CostLedgerAssumption DEF TypeOK, BatchDays, Day
<1> QED
  BY <1>1 DEF Span, Hull

LEMMA RowCount ==
    ASSUME NEW w \in Worker, NEW d \in Day, NEW v \in Version
    PROVE  RowsOf(w, d, v) \in {0, 1}
BY DEF RowsOf

-----------------------------------------------------------------------------
LEMMA InitTypeOK == Init => TypeOK
BY CostLedgerAssumption, SMT DEF Init, TypeOK, Day, Phase

LEMMA ArriveTypeOK ==
    ASSUME TypeOK, NEW w \in Worker, RowsArrive(w)
    PROVE  /\ facts' \in [Day \X Version -> Nat]
           /\ seen' \subseteq Day /\ loaded' \subseteq Version
           /\ holes' \subseteq Day
           /\ contested' \in [Worker -> SUBSET Day] /\ overlaid' \subseteq Day
<1>1. \A row \in Day \X Version : facts[row] + RowsOf(w, row[1], row[2]) \in Nat
  <2> SUFFICES ASSUME NEW row \in Day \X Version
               PROVE  facts[row] + RowsOf(w, row[1], row[2]) \in Nat
    OBVIOUS
  <2>1. row[1] \in Day /\ row[2] \in Version
    OBVIOUS
  <2>2. RowsOf(w, row[1], row[2]) \in {0, 1}
    BY <2>1, RowCount
  <2>3. facts[row] \in Nat
    BY DEF TypeOK
  <2> QED
    BY <2>2, <2>3
<1>2. \A u \in Worker : BatchDays(u) \subseteq Day
  BY BatchDayType
<1>3. facts' \in [Day \X Version -> Nat]
  BY <1>1 DEF RowsArrive, AfterInsert
<1>4. seen' \subseteq Day /\ loaded' \subseteq Version /\ holes' \subseteq Day
  BY <1>2 DEF RowsArrive, TypeOK
<1>5. contested' \in [Worker -> SUBSET Day] /\ overlaid' \subseteq Day
  BY <1>2 DEF RowsArrive, TypeOK
<1> QED
  BY <1>3, <1>4, <1>5

LEMMA NextTypeOK == TypeOK /\ [Next]_vars => TypeOK'
<1> SUFFICES ASSUME TypeOK, [Next]_vars PROVE TypeOK'
  OBVIOUS
<1> USE DEF envVars, dbVars, localVars, history, overlap
<1>1. CASE NextDay
  BY <1>1, CostLedgerAssumption DEF NextDay, TypeOK, Day
<1>2. CASE Export
  BY <1>2 DEF Export, TypeOK
<1>3. ASSUME NEW w \in Worker, Sync(w) PROVE TypeOK'
  <2> USE <1>3
  <2>1. CASE StartSync(w)
    <3>1. lo' \in [Worker -> Day]
      BY <2>1, LookbackDay, LookbackIsNat, CostLedgerAssumption DEF StartSync, TypeOK
    <3> QED
      BY <3>1, <2>1 DEF StartSync, TypeOK, Phase
  <2>2. CASE FetchBlobs(w)
    BY <2>2 DEF FetchBlobs, Candidates, TypeOK, Phase, Version
  <2>3. CASE FetchFromApi(w)
    <3>1. \A d \in lo[w]..hi[w] : d \in Day
      BY CostLedgerAssumption DEF TypeOK, Day
    <3>2. PICK missing \in SUBSET (lo[w]..hi[w]) : gaps' = [gaps EXCEPT ![w] = missing]
      BY <2>3 DEF FetchFromApi
    <3>3. gaps' \in [Worker -> SUBSET Day]
      BY <3>1, <3>2 DEF TypeOK
    <3> QED
      BY <2>3, <3>3 DEF FetchFromApi, TypeOK, Phase, Version
  <2>4. CASE FetchFails(w)
    BY <2>4 DEF FetchFails, TypeOK, Phase
  <2>5. CASE DeleteOverlap(w)
    <3>1. facts' \in [Day \X Version -> Nat]
      BY <2>5 DEF DeleteOverlap, Without, TypeOK
    <3>2. holes' \subseteq Day
      BY <2>5 DEF DeleteOverlap, Without, TypeOK
    <3>3. contested' \in [Worker -> SUBSET Day] /\ overlaid' \subseteq Day
      BY <2>5 DEF DeleteOverlap, Without, EndOverlap, TypeOK
    <3> QED
      BY <3>1, <3>2, <3>3, <2>5 DEF DeleteOverlap, Without, TypeOK, Phase
  <2>6. CASE InsertCosts(w)
    BY <2>6, ArriveTypeOK DEF InsertCosts, TypeOK, Phase
  <2>7. CASE InsertFails(w)
    <3>1. CASE RowsArrive(w)
      BY <2>7, <3>1, ArriveTypeOK DEF InsertFails, TypeOK, Phase
    <3>2. CASE ~RowsArrive(w)
      BY <2>7, <3>2 DEF InsertFails, TypeOK, Phase
    <3> QED
      BY <3>1, <3>2
  <2>8. CASE SaveCheckpoints(w)
    BY <2>8 DEF SaveCheckpoints, TypeOK, Phase, Version
  <2>9. CASE Commit(w)
    BY <2>9 DEF Commit, Finish, TypeOK, Phase
  <2>10. CASE CommitConflict(w)
    BY <2>10 DEF CommitConflict, Finish, TypeOK, Phase
  <2>11. CASE CommitError(w)
    BY <2>11 DEF CommitError, Finish, TypeOK, Phase
  <2>12. CASE Crash(w)
    BY <2>12 DEF Crash, Finish, MarkPending, TypeOK, Phase
  <2> QED
    BY <2>1, <2>2, <2>3, <2>4, <2>5, <2>6, <2>7, <2>8, <2>9, <2>10, <2>11,
       <2>12 DEF Sync
<1>4. CASE UNCHANGED vars
  BY <1>4 DEF vars, TypeOK
<1> QED
  BY <1>1, <1>2, <1>3, <1>4 DEF Next

\* The state of the ingestion keeps its types, for every instance.
THEOREM TypeCorrect == Spec => []TypeOK
BY InitTypeOK, NextTypeOK, PTL DEF Spec

-----------------------------------------------------------------------------
(***************************************************************************)
(* A checkpoint is only committed for an export that reached cost_facts.   *)
(* The invariant follows an export from the batch, where it has a row for  *)
(* the first day of the window, over the insert to the open session and    *)
(* the table.                                                              *)
(***************************************************************************)

BatchInWindow(w) == \A e \in batch[w] \ {API} : lo[w] <= e

CheckpointInv ==
    /\ CheckpointedMeansLoaded
    /\ \A w \in Worker :
           /\ lo[w] <= hi[w]
           /\ pc[w] \in {"fetched", "deleted"} => BatchInWindow(w)
           /\ pc[w] = "inserted" => batch[w] \ {API} \subseteq loaded
           /\ newKeys[w] \subseteq loaded

\* The insert of a batch in its window writes a row of each of its exports.
LEMMA InsertLoadsBatch ==
    ASSUME TypeOK, NEW w \in Worker, lo[w] <= hi[w], BatchInWindow(w), RowsArrive(w)
    PROVE  /\ batch[w] \ {API} \subseteq loaded'
           /\ loaded \subseteq loaded'
<1>1. ASSUME NEW e \in batch[w] \ {API} PROVE e \in loaded'
  <2>1. e \in Version /\ lo[w] \in Day
    BY DEF TypeOK
  <2>2. lo[w] \in lo[w]..hi[w] /\ Covers(w, e, lo[w])
    BY <1>1 DEF BatchInWindow, TypeOK, Day, Covers
  <2> QED
    BY <1>1, <2>2 DEF RowsArrive
<1>2. loaded \subseteq loaded'
  BY DEF RowsArrive
<1> QED
  BY <1>1, <1>2

LEMMA NextCheckpointInv == TypeOK /\ CheckpointInv /\ [Next]_vars => CheckpointInv'
<1> SUFFICES ASSUME TypeOK, CheckpointInv, [Next]_vars PROVE CheckpointInv'
  OBVIOUS
<1> USE DEF envVars, dbVars, localVars, history, overlap, CheckpointedMeansLoaded
<1>1. CASE NextDay
  BY <1>1 DEF NextDay, CheckpointInv, BatchInWindow
<1>2. CASE Export
  BY <1>2 DEF Export, CheckpointInv, BatchInWindow
<1>3. ASSUME NEW w \in Worker, Sync(w) PROVE CheckpointInv'
  <2> USE <1>3
  <2>1. CASE StartSync(w)
    <3>1. PICK n \in {PeriodicLookback} \cup ManualLookback :
              lo' = [lo EXCEPT ![w] = IF n < today THEN today - n ELSE 1]
      BY <2>1 DEF StartSync
    <3>2. n \in Nat /\ today \in Day
      BY LookbackIsNat, CostLedgerAssumption DEF TypeOK
    <3>3. lo'[w] <= hi'[w]
      BY <2>1, <3>1, <3>2, LookbackDay DEF StartSync, TypeOK
    <3>4. \A u \in Worker : lo'[u] <= hi'[u]
      BY <2>1, <3>1, <3>3 DEF StartSync, CheckpointInv, TypeOK
    <3> QED
      BY <2>1, <3>4 DEF StartSync, CheckpointInv, BatchInWindow, TypeOK
  <2>2. CASE FetchBlobs(w)
    BY <2>2 DEF FetchBlobs, Candidates, CheckpointInv, BatchInWindow, TypeOK
  <2>3. CASE FetchFromApi(w)
    BY <2>3 DEF FetchFromApi, CheckpointInv, BatchInWindow, TypeOK
  <2>4. CASE FetchFails(w)
    BY <2>4 DEF FetchFails, CheckpointInv, BatchInWindow, TypeOK
  <2>5. CASE DeleteOverlap(w)
    BY <2>5 DEF DeleteOverlap, Without, CheckpointInv, BatchInWindow, TypeOK
  <2>6. CASE InsertCosts(w)
    <3>1. batch[w] \ {API} \subseteq loaded' /\ loaded \subseteq loaded'
      BY <2>6, InsertLoadsBatch DEF InsertCosts, CheckpointInv
    <3> QED
      BY <3>1, <2>6 DEF InsertCosts, CheckpointInv, BatchInWindow, TypeOK
  <2>7. CASE InsertFails(w)
    <3>1. loaded \subseteq loaded'
      BY <2>7 DEF InsertFails, RowsArrive
    <3> QED
      BY <3>1, <2>7 DEF InsertFails, CheckpointInv, BatchInWindow, TypeOK
  <2>8. CASE SaveCheckpoints(w)
    BY <2>8 DEF SaveCheckpoints, CheckpointInv, BatchInWindow, TypeOK
  <2>9. CASE Commit(w)
    BY <2>9 DEF Commit, Finish, CheckpointInv, BatchInWindow, TypeOK
  <2>10. CASE CommitConflict(w)
    BY <2>10 DEF CommitConflict, Finish, CheckpointInv, BatchInWindow, TypeOK
  <2>11. CASE CommitError(w)
    BY <2>11 DEF CommitError, Finish, CheckpointInv, BatchInWindow, TypeOK
  <2>12. CASE Crash(w)
    BY <2>12 DEF Crash, Finish, MarkPending, CheckpointInv, BatchInWindow, TypeOK
  <2> QED
    BY <2>1, <2>2, <2>3, <2>4, <2>5, <2>6, <2>7, <2>8, <2>9, <2>10, <2>11,
       <2>12 DEF Sync
<1>4. CASE UNCHANGED vars
  BY <1>4 DEF vars, CheckpointInv, BatchInWindow
<1> QED
  BY <1>1, <1>2, <1>3, <1>4 DEF Next

\* No export is checkpointed before its rows were inserted, whatever the
\* number of tasks and wherever they crash.
THEOREM CheckpointsAreLoaded == Spec => []CheckpointedMeansLoaded
<1>1. Init => CheckpointInv
  BY DEF Init, CheckpointInv, CheckpointedMeansLoaded
<1>2. CheckpointInv => CheckpointedMeansLoaded
  BY DEF CheckpointInv
<1> QED
  BY <1>1, <1>2, InitTypeOK, NextTypeOK, NextCheckpointInv, PTL DEF Spec

-----------------------------------------------------------------------------
(***************************************************************************)
(* A day is only lost by an insert that did not follow its delete.         *)
(***************************************************************************)

Accounted(d) ==
    \/ Present(d)
    \/ d \in holes
    \/ \E w \in Worker : pc[w] = "deleted" /\ d \in BatchDays(w)

\* A step that keeps a day's rows, the holes and the other tasks' batches, and
\* in which w is not between delete and insert, keeps the days accounted for.
LEMMA KeepsAccounted ==
    ASSUME TypeOK, MissingDaysExplained, NEW w \in Worker,
           pc[w] # "deleted",
           UNCHANGED <<facts, seen>>, holes \subseteq holes',
           \A u \in Worker \ {w} :
               /\ pc'[u] = pc[u] /\ batch'[u] = batch[u]
               /\ lo'[u] = lo[u] /\ hi'[u] = hi[u] /\ gaps'[u] = gaps[u]
    PROVE  MissingDaysExplained'
<1> SUFFICES ASSUME NEW d \in seen PROVE Accounted(d)'
  BY DEF MissingDaysExplained, Accounted
<1>1. Accounted(d)
  BY DEF MissingDaysExplained, Accounted
<1>2. CASE Present(d)
  BY <1>2 DEF Present, Accounted
<1>3. CASE d \in holes
  BY <1>3 DEF Accounted
<1>4. CASE \E u \in Worker : pc[u] = "deleted" /\ d \in BatchDays(u)
  BY <1>4 DEF Accounted, BatchDays, Covers
<1> QED
  BY <1>1, <1>2, <1>3, <1>4 DEF Accounted

\* The rows of a batch leave none of its days empty.
LEMMA ArrivePresent ==
    ASSUME TypeOK, NEW w \in Worker, RowsArrive(w)
    PROVE  /\ \A d \in BatchDays(w) : Present(d)'
           /\ \A d \in Day : Present(d) => Present(d)'
           /\ seen' \subseteq seen \cup BatchDays(w)
           /\ \A d \in Day : d \in holes => d \in holes' \cup BatchDays(w)
<1>1. \A d \in Day : \A x \in Version :
         /\ facts'[<<d, x>>] = facts[<<d, x>>] + RowsOf(w, d, x)
         /\ facts[<<d, x>>] \in Nat
         /\ RowsOf(w, d, x) \in {0, 1}
  BY RowCount DEF RowsArrive, AfterInsert, TypeOK
<1>2. ASSUME NEW d \in BatchDays(w) PROVE Present(d)'
  <2>1. d \in Day
    BY BatchDayType
  <2>2. PICK v \in batch[w] : Covers(w, v, d)
    BY DEF BatchDays, Covers
  <2>3. v \in Version
    BY <2>2 DEF TypeOK
  <2>4. RowsOf(w, d, v) = 1
    BY <2>2 DEF RowsOf, BatchDays, Covers
  <2>5. facts'[<<d, v>>] > 0
    BY <1>1, <2>1, <2>3, <2>4
  <2> QED
    BY <2>3, <2>5 DEF Present
<1>3. ASSUME NEW d \in Day, Present(d) PROVE Present(d)'
  <2>1. PICK v \in Version : facts[<<d, v>>] > 0
    BY <1>3 DEF Present
  <2>2. facts'[<<d, v>>] > 0
    BY <1>1, <2>1
  <2> QED
    BY <2>2 DEF Present
<1>4. seen' \subseteq seen \cup BatchDays(w)
  BY DEF RowsArrive
<1> QED
  BY <1>2, <1>3, <1>4 DEF RowsArrive

LEMMA ArriveAccounted ==
    ASSUME TypeOK, MissingDaysExplained, NEW w \in Worker, RowsArrive(w),
           \A u \in Worker \ {w} : pc'[u] = pc[u],
           UNCHANGED <<lo, hi, batch, gaps>>
    PROVE  MissingDaysExplained'
<1> SUFFICES ASSUME NEW d \in seen' PROVE Accounted(d)'
  BY DEF MissingDaysExplained, Accounted
<1>1. CASE d \in BatchDays(w)
  BY <1>1, ArrivePresent DEF Accounted
<1>2. CASE d \notin BatchDays(w)
  <2>1. d \in seen /\ d \in Day
    BY <1>2, ArrivePresent DEF TypeOK
  <2>2. Accounted(d)
    BY <2>1 DEF MissingDaysExplained, Accounted
  <2>3. CASE Present(d)
    BY <2>1, <2>3, ArrivePresent DEF Accounted
  <2>4. CASE d \in holes
    BY <1>2, <2>1, <2>4, ArrivePresent DEF Accounted
  <2>5. CASE \E u \in Worker : pc[u] = "deleted" /\ d \in BatchDays(u)
    BY <1>2, <2>5 DEF Accounted, BatchDays, Covers
  <2> QED
    BY <2>2, <2>3, <2>4, <2>5 DEF Accounted
<1> QED
  BY <1>1, <1>2

\* A task that stops between delete and insert leaves its days as holes.
LEMMA StopAccounted ==
    ASSUME TypeOK, MissingDaysExplained, NEW w \in Worker,
           UNCHANGED <<facts, seen, lo, hi>>,
           holes' = holes \cup (BatchDays(w) \cap seen),
           \A u \in Worker \ {w} :
               pc'[u] = pc[u] /\ batch'[u] = batch[u] /\ gaps'[u] = gaps[u]
    PROVE  MissingDaysExplained'
<1> SUFFICES ASSUME NEW d \in seen PROVE Accounted(d)'
  BY DEF MissingDaysExplained, Accounted
<1>1. CASE d \in BatchDays(w)
  BY <1>1 DEF Accounted
<1>2. CASE d \notin BatchDays(w)
  <2>1. Accounted(d)
    BY DEF MissingDaysExplained, Accounted
  <2>2. CASE Present(d)
    BY <2>2 DEF Present, Accounted
  <2>3. CASE d \in holes
    BY <2>3 DEF Accounted
  <2>4. CASE \E u \in Worker : pc[u] = "deleted" /\ d \in BatchDays(u)
    BY <1>2, <2>4 DEF Accounted, BatchDays, Covers
  <2> QED
    BY <2>1, <2>2, <2>3, <2>4 DEF Accounted
<1> QED
  BY <1>1, <1>2

LEMMA DeleteAccounted ==
    ASSUME TypeOK, MissingDaysExplained, NEW w \in Worker, DeleteOverlap(w)
    PROVE  MissingDaysExplained'
<1> USE DEF localVars, history, overlap
<1>1. CASE pc' = [pc EXCEPT ![w] = "failed"]
  <2>1. UNCHANGED <<facts, holes>> \/ pc' = [pc EXCEPT ![w] = "deleted"]
    BY DEF DeleteOverlap, Without
  <2>2. "failed" # "deleted" /\ pc'[w] = "failed"
    BY <1>1 DEF TypeOK
  <2>3. UNCHANGED <<facts, holes>>
    BY <2>1, <2>2 DEF TypeOK
  <2> QED
    BY <1>1, <2>3, KeepsAccounted DEF DeleteOverlap, Without, TypeOK
<1>2. CASE /\ pc' = [pc EXCEPT ![w] = "deleted"]
           /\ facts' = [row \in Day \X Version |->
                           IF row[1] \in Span(w) THEN 0 ELSE facts[row]]
           /\ holes' = holes \cup ((Span(w) \ BatchDays(w)) \cap seen)
  <2> SUFFICES ASSUME NEW d \in seen PROVE Accounted(d)'
    BY DEF DeleteOverlap, Without, MissingDaysExplained, Accounted
  <2>0. \A u \in Worker : BatchDays(u)' = BatchDays(u)
    BY DEF DeleteOverlap, Without, BatchDays, Covers
  <2>1. CASE d \in BatchDays(w)
    BY <1>2, <2>0, <2>1 DEF Accounted, TypeOK
  <2>2. CASE d \in Span(w) \ BatchDays(w)
    BY <1>2, <2>2 DEF Accounted
  <2>3. CASE d \notin Span(w)
    <3>1. Accounted(d) /\ d \in Day
      BY DEF MissingDaysExplained, Accounted, TypeOK
    <3>2. CASE Present(d)
      BY <1>2, <2>3, <3>1, <3>2 DEF Present, Accounted
    <3>3. CASE d \in holes
      BY <1>2, <3>3 DEF Accounted
    <3>4. CASE \E u \in Worker : pc[u] = "deleted" /\ d \in BatchDays(u)
      BY <1>2, <2>0, <3>4 DEF Accounted, TypeOK
    <3> QED
      BY <3>1, <3>2, <3>3, <3>4 DEF Accounted
  <2> QED
    BY <2>1, <2>2, <2>3
<1> QED
  BY <1>1, <1>2 DEF DeleteOverlap, Without

LEMMA NextAccounted ==
    TypeOK /\ MissingDaysExplained /\ [Next]_vars => MissingDaysExplained'
<1> SUFFICES ASSUME TypeOK, MissingDaysExplained, [Next]_vars
             PROVE  MissingDaysExplained'
  OBVIOUS
<1> USE DEF envVars, dbVars, localVars, history, overlap
<1>1. CASE NextDay
  BY <1>1 DEF NextDay, MissingDaysExplained, Present, BatchDays, Covers
<1>2. CASE Export
  BY <1>2 DEF Export, MissingDaysExplained, Present, BatchDays, Covers
<1>3. ASSUME NEW w \in Worker, Sync(w) PROVE MissingDaysExplained'
  <2> USE <1>3
  <2>1. CASE StartSync(w)
    BY <2>1, KeepsAccounted DEF StartSync, TypeOK
  <2>2. CASE FetchBlobs(w)
    BY <2>2, KeepsAccounted DEF FetchBlobs, TypeOK
  <2>3. CASE FetchFromApi(w)
    BY <2>3, KeepsAccounted DEF FetchFromApi, TypeOK
  <2>4. CASE FetchFails(w)
    BY <2>4, KeepsAccounted DEF FetchFails, TypeOK
  <2>5. CASE DeleteOverlap(w)
    BY <2>5, DeleteAccounted
  <2>6. CASE InsertCosts(w)
    BY <2>6, ArriveAccounted DEF InsertCosts, TypeOK
  <2>7. CASE InsertFails(w)
    BY <2>7, ArriveAccounted, StopAccounted DEF InsertFails, TypeOK
  <2>8. CASE SaveCheckpoints(w)
    BY <2>8, KeepsAccounted DEF SaveCheckpoints, TypeOK
  <2>9. CASE Commit(w)
    BY <2>9, KeepsAccounted DEF Commit, Finish, TypeOK
  <2>10. CASE CommitConflict(w)
    BY <2>10, KeepsAccounted DEF CommitConflict, Finish, TypeOK
  <2>11. CASE CommitError(w)
    BY <2>11, KeepsAccounted DEF CommitError, Finish, TypeOK
  <2>12. CASE Crash(w)
    <3>1. CASE pc[w] = "deleted"
      BY <2>12, <3>1, StopAccounted DEF Crash, Finish, MarkPending, TypeOK
    <3>2. CASE pc[w] # "deleted"
      BY <2>12, <3>2, KeepsAccounted DEF Crash, Finish, MarkPending, TypeOK
    <3> QED
      BY <3>1, <3>2
  <2> QED
    BY <2>1, <2>2, <2>3, <2>4, <2>5, <2>6, <2>7, <2>8, <2>9, <2>10, <2>11,
       <2>12 DEF Sync
<1>4. CASE UNCHANGED vars
  BY <1>4 DEF vars, MissingDaysExplained, Present, BatchDays, Covers
<1> QED
  BY <1>1, <1>2, <1>3, <1>4 DEF Next

\* The delete clears no day outside the span its own insert writes back: a day
\* is only missing in between, after that task failed or died there, or in a
\* gap the query API left inside the span.
THEOREM DaysAccountedFor == Spec => []MissingDaysExplained
<1>1. Init => MissingDaysExplained
  BY DEF Init, MissingDaysExplained
<1> QED
  BY <1>1, InitTypeOK, NextTypeOK, NextAccounted, PTL DEF Spec

-----------------------------------------------------------------------------
(***************************************************************************)
(* When a day is counted twice.  A day some task is about to write is      *)
(* empty between its delete and its insert, but for the days another task  *)
(* has written in between; so rows arrive on top of others there, or where *)
(* the batch itself holds a day more than once, and nowhere else.          *)
(***************************************************************************)

OverlapInv ==
    /\ DuplicatesExplained
    /\ \A w \in Worker : pc[w] = "deleted" =>
           \A d \in BatchDays(w) : Present(d) <=> d \in contested[w]

\* A day whose rows a step leaves alone is counted as before.
LEMMA SameCount ==
    ASSUME NEW d \in Day, \A v \in Version : facts'[<<d, v>>] = facts[<<d, v>>]
    PROVE  /\ CountedTwice(d)' <=> CountedTwice(d)
           /\ Present(d)' <=> Present(d)
BY DEF CountedTwice, Present

\* A day without rows is not counted at all.
LEMMA EmptyDay ==
    ASSUME NEW d \in Day, \A v \in Version : facts[<<d, v>>] = 0
    PROVE  ~CountedTwice(d) /\ ~Present(d)
<1>1. \A v \in Version : ~(facts[<<d, v>>] > 0) /\ ~(facts[<<d, v>>] > 1)
  <2> TAKE v \in Version
  <2>1. facts[<<d, v>>] = 0
    OBVIOUS
  <2> QED
    BY <2>1
<1> QED
  BY <1>1 DEF CountedTwice, Present

\* A step that moves no row and begins no delete.
LEMMA KeepsOverlap ==
    ASSUME TypeOK, OverlapInv, UNCHANGED <<facts, overlaid>>,
           \A w \in Worker : pc'[w] = "deleted" =>
               /\ pc[w] = "deleted" /\ batch'[w] = batch[w] /\ gaps'[w] = gaps[w]
               /\ lo'[w] = lo[w] /\ hi'[w] = hi[w] /\ contested'[w] = contested[w]
    PROVE  OverlapInv'
<1>1. DuplicatesExplained'
  BY DEF OverlapInv, DuplicatesExplained, CountedTwice
<1>2. ASSUME NEW w \in Worker, pc'[w] = "deleted", NEW d \in BatchDays(w)'
      PROVE  Present(d)' <=> d \in contested'[w]
  <2>1. d \in BatchDays(w) /\ pc[w] = "deleted" /\ contested'[w] = contested[w]
    BY <1>2 DEF BatchDays, Covers
  <2> QED
    BY <2>1 DEF OverlapInv, Present
<1> QED
  BY <1>1, <1>2 DEF OverlapInv

LEMMA DeleteOverlapInv ==
    ASSUME TypeOK, OverlapInv, NEW w \in Worker, DeleteOverlap(w)
    PROVE  OverlapInv'
<1> USE DEF localVars, overlap
<1>1. CASE pc' = [pc EXCEPT ![w] = "failed"] /\ UNCHANGED <<facts, holes, overlap>>
  BY <1>1, KeepsOverlap DEF DeleteOverlap, TypeOK
<1>2. CASE /\ facts' = Without(Span(w)) /\ EndOverlap(w, Span(w))
           /\ pc' = [pc EXCEPT ![w] = "deleted"]
  <2>1. ASSUME NEW d \in Day, d \in Span(w)
        PROVE  ~CountedTwice(d)' /\ ~Present(d)'
    <3>1. \A v \in Version : facts'[<<d, v>>] = 0
      BY <1>2, <2>1 DEF Without
    <3>2. \A v \in Version : ~(facts'[<<d, v>>] > 0) /\ ~(facts'[<<d, v>>] > 1)
      <4> TAKE v \in Version
      <4>1. facts'[<<d, v>>] = 0
        BY <3>1
      <4> QED
        BY <4>1
    <3> QED
      BY <3>2 DEF CountedTwice, Present
  <2>2. ASSUME NEW d \in Day, d \notin Span(w)
        PROVE  /\ CountedTwice(d)' <=> CountedTwice(d)
               /\ Present(d)' <=> Present(d)
    <3>1. \A v \in Version : facts'[<<d, v>>] = facts[<<d, v>>]
      BY <1>2, <2>2 DEF Without
    <3> QED
      BY <3>1, SameCount
  <2>3. DuplicatesExplained'
    BY <1>2, <2>1, <2>2 DEF OverlapInv, DuplicatesExplained, EndOverlap
  <2>4. ASSUME NEW u \in Worker, pc'[u] = "deleted", NEW d \in BatchDays(u)'
        PROVE  Present(d)' <=> d \in contested'[u]
    <3>1. BatchDays(u)' = BatchDays(u)
      BY DEF DeleteOverlap, BatchDays, Covers
    <3>2. d \in BatchDays(u) /\ d \in Day
      BY <3>1, <2>4, BatchDayType
    <3>3. CASE u = w
      BY <1>2, <2>1, <3>2, <3>3, BatchInSpan DEF EndOverlap
    <3>4. CASE u # w
      <4>1. pc[u] = "deleted" /\ contested'[u] = contested[u] \ Span(w)
        BY <1>2, <2>4, <3>4 DEF EndOverlap, TypeOK
      <4>2. Present(d) <=> d \in contested[u]
        BY <3>2, <4>1 DEF OverlapInv
      <4> QED
        BY <2>1, <2>2, <3>2, <4>1, <4>2
    <3> QED
      BY <3>3, <3>4
  <2> QED
    BY <2>3, <2>4 DEF OverlapInv
<1> QED
  BY <1>1, <1>2 DEF DeleteOverlap

\* Rows arrive on top of others exactly where the histories say so.
LEMMA ArriveOverlaid ==
    ASSUME TypeOK, OverlapInv, NEW w \in Worker, pc[w] = "deleted", RowsArrive(w),
           NEW d \in Day
    PROVE  CountedTwice(d)' <=> d \in overlaid'
<1>1. \A v \in Version :
         /\ facts'[<<d, v>>] = facts[<<d, v>>] + RowsOf(w, d, v)
         /\ facts[<<d, v>>] \in Nat
         /\ RowsOf(w, d, v) \in {0, 1}
  BY RowCount DEF RowsArrive, AfterInsert, TypeOK
<1>2. overlaid' = overlaid \cup (BatchDays(w) \cap (contested[w] \cup Stacked(w)))
  BY DEF RowsArrive
<1>3. CASE d \notin BatchDays(w)
  <2>1. \A v \in Version : RowsOf(w, d, v) = 0
    BY <1>3 DEF RowsOf, BatchDays, Covers
  <2>2. \A v \in Version : facts'[<<d, v>>] = facts[<<d, v>>]
    BY <1>1, <2>1
  <2> QED
    BY <1>2, <1>3, <2>2, SameCount DEF OverlapInv, DuplicatesExplained
<1>4. CASE d \in BatchDays(w)
  <2>1. PICK v \in batch[w] : Covers(w, v, d)
    BY <1>4 DEF BatchDays, Covers
  <2>2. v \in Version /\ d \in lo[w]..hi[w] /\ batch[w] \subseteq Version
    BY <1>4, <2>1 DEF TypeOK, BatchDays, Covers
  <2>3. RowsOf(w, d, v) = 1
    BY <2>1, <2>2 DEF RowsOf
  <2>4. facts'[<<d, v>>] > 0
    BY <1>1, <2>2, <2>3
  <2>5. CASE d \in contested[w]
    <3>1. PICK u \in Version : facts[<<d, u>>] > 0
      BY <1>4, <2>5 DEF OverlapInv, Present
    <3>2. facts'[<<d, u>>] > 0
      BY <1>1, <3>1
    <3>3. u = v => facts'[<<d, v>>] > 1
      BY <1>1, <2>2, <2>3, <3>1
    <3>4. CountedTwice(d)'
      BY <2>2, <2>4, <3>1, <3>2, <3>3 DEF CountedTwice
    <3> QED
      BY <1>2, <1>4, <2>5, <3>4
  <2>6. CASE d \in Stacked(w)
    <3>1. PICK x, y \in batch[w] : x # y /\ Covers(w, x, d) /\ Covers(w, y, d)
      BY <2>6 DEF Stacked, Covers
    <3>2. RowsOf(w, d, x) = 1 /\ RowsOf(w, d, y) = 1
      BY <2>2, <3>1 DEF RowsOf
    <3>3. x \in Version /\ y \in Version
      BY <2>2, <3>1
    <3>4. facts'[<<d, x>>] > 0 /\ facts'[<<d, y>>] > 0
      BY <1>1, <3>2, <3>3
    <3>5. CountedTwice(d)'
      BY <3>1, <3>3, <3>4 DEF CountedTwice
    <3> QED
      BY <1>2, <1>4, <2>6, <3>5
  <2>7. CASE d \notin contested[w] /\ d \notin Stacked(w)
    <3>1. ~Present(d)
      BY <1>4, <2>7 DEF OverlapInv
    <3>2. \A u \in Version : facts[<<d, u>>] = 0
      BY <1>1, <3>1 DEF Present
    <3>3. ~CountedTwice(d)
      BY <3>2, EmptyDay
    <3>4. d \notin overlaid'
      BY <1>2, <2>7, <3>3 DEF OverlapInv, DuplicatesExplained
    <3>5. \A u \in Version : u # v => RowsOf(w, d, u) = 0
      BY <1>4, <2>1, <2>7 DEF RowsOf, Stacked, Covers
    <3>6. \A u \in Version : facts'[<<d, u>>] = RowsOf(w, d, u)
      BY <1>1, <3>2
    <3>7. \A u \in Version : /\ ~(facts'[<<d, u>>] > 1)
                             /\ u # v => ~(facts'[<<d, u>>] > 0)
      BY <1>1, <3>5, <3>6
    <3>8. ~CountedTwice(d)'
      BY <3>7 DEF CountedTwice
    <3> QED
      BY <3>4, <3>8
  <2> QED
    BY <2>5, <2>6, <2>7
<1> QED
  BY <1>3, <1>4

LEMMA ArriveOverlapInv ==
    ASSUME TypeOK, OverlapInv, NEW w \in Worker, pc[w] = "deleted", RowsArrive(w),
           pc'[w] # "deleted", \A u \in Worker \ {w} : pc'[u] = pc[u],
           UNCHANGED <<lo, hi, batch, gaps>>
    PROVE  OverlapInv'
<1>1. DuplicatesExplained'
  BY ArriveOverlaid DEF DuplicatesExplained
<1>2. ASSUME NEW u \in Worker, pc'[u] = "deleted", NEW d \in BatchDays(u)'
      PROVE  Present(d)' <=> d \in contested'[u]
  <2>1. u # w /\ pc[u] = "deleted"
    BY <1>2
  <2>2. d \in BatchDays(u) /\ d \in Day
    <3>1. d \in BatchDays(u)
      BY <1>2 DEF BatchDays, Covers
    <3> QED
      BY <3>1, BatchDayType
  <2>3. contested'[u] = contested[u] \cup (BatchDays(u) \cap BatchDays(w))
    BY <2>1 DEF RowsArrive
  <2>4. Present(d) <=> d \in contested[u]
    BY <2>1, <2>2 DEF OverlapInv
  <2>5. CASE d \in BatchDays(w)
    BY <2>2, <2>3, <2>5, ArrivePresent
  <2>6. CASE d \notin BatchDays(w)
    <3>1. \A v \in Version : /\ facts'[<<d, v>>] = facts[<<d, v>>] + RowsOf(w, d, v)
                             /\ facts[<<d, v>>] \in Nat
      BY <2>2 DEF RowsArrive, AfterInsert, TypeOK
    <3>2. \A v \in Version : RowsOf(w, d, v) = 0
      BY <2>6 DEF RowsOf, BatchDays, Covers
    <3>3. \A v \in Version : facts'[<<d, v>>] = facts[<<d, v>>]
      BY <3>1, <3>2
    <3> QED
      BY <2>2, <2>3, <2>4, <2>6, <3>3, SameCount
  <2> QED
    BY <2>5, <2>6
<1> QED
  BY <1>1, <1>2 DEF OverlapInv

LEMMA NextOverlapInv == TypeOK /\ OverlapInv /\ [Next]_vars => OverlapInv'
<1> SUFFICES ASSUME TypeOK, OverlapInv, [Next]_vars PROVE OverlapInv'
  OBVIOUS
<1> USE DEF envVars, dbVars, localVars, history, overlap
<1>1. CASE NextDay \/ Export \/ UNCHANGED vars
  BY <1>1, KeepsOverlap DEF NextDay, Export, vars
<1>2. ASSUME NEW w \in Worker, Sync(w) PROVE OverlapInv'
  <2>1. CASE StartSync(w)
    BY <2>1, KeepsOverlap DEF StartSync, TypeOK
  <2>2. CASE FetchBlobs(w) \/ FetchFromApi(w) \/ FetchFails(w)
    BY <2>2, KeepsOverlap DEF FetchBlobs, FetchFromApi, FetchFails, TypeOK
  <2>3. CASE DeleteOverlap(w)
    BY <2>3, DeleteOverlapInv
  <2>4. CASE InsertCosts(w)
    BY <2>4, ArriveOverlapInv DEF InsertCosts, TypeOK
  <2>5. CASE InsertFails(w)
    <3>1. CASE RowsArrive(w)
      BY <2>5, <3>1, ArriveOverlapInv DEF InsertFails, TypeOK
    <3>2. CASE ~RowsArrive(w)
      BY <2>5, <3>2, KeepsOverlap DEF InsertFails, TypeOK
    <3> QED
      BY <3>1, <3>2
  <2>6. CASE SaveCheckpoints(w)
    BY <2>6, KeepsOverlap DEF SaveCheckpoints, TypeOK
  <2>7. CASE Commit(w) \/ CommitConflict(w) \/ CommitError(w) \/ Crash(w)
    BY <2>7, KeepsOverlap DEF Commit, CommitConflict, CommitError, Crash, Finish, TypeOK
  <2> QED
    BY <1>2, <2>1, <2>2, <2>3, <2>4, <2>5, <2>6, <2>7 DEF Sync
<1> QED
  BY <1>1, <1>2 DEF Next

\* However many tasks overlap, crash, retry or lose answers, and whether or not
\* the container keeps its exports, a day is counted twice exactly when its
\* last rows came in one batch with several exports of it, or on top of those
\* of another task, and no delete has covered it since.
THEOREM DuplicatesAreExplained == Spec => []DuplicatesExplained
<1>1. Init => OverlapInv
  <2> SUFFICES ASSUME Init PROVE OverlapInv
    OBVIOUS
  <2>1. ASSUME NEW d \in Day PROVE ~CountedTwice(d)
    BY EmptyDay DEF Init
  <2> QED
    BY <2>1 DEF Init, OverlapInv, DuplicatesExplained
<1>2. OverlapInv => DuplicatesExplained
  BY DEF OverlapInv
<1> QED
  BY <1>1, <1>2, InitTypeOK, NextTypeOK, NextOverlapInv, PTL DEF Spec

-----------------------------------------------------------------------------
(***************************************************************************)
(* Copies do not build up.  The invariant counts, with the copies of a row *)
(* in the table, the tasks that have cleared its day and still owe their   *)
(* insert: a delete resets the copies, an insert turns a debt into a copy. *)
(***************************************************************************)

Owing(d) == {w \in Worker : pc[w] = "deleted" /\ d \in BatchDays(w)}

CopiesInv ==
    \A d \in Day : \A v \in Version :
        facts[<<d, v>>] + Cardinality(Owing(d)) <= Cardinality(Worker)

LEMMA SomeOfWorkers ==
    ASSUME NEW S, NEW T, S \subseteq T, T \subseteq Worker
    PROVE  /\ Cardinality(S) \in Nat /\ Cardinality(T) \in Nat
           /\ Cardinality(S) <= Cardinality(T)
<1>1. IsFiniteSet(Worker)
  BY CostLedgerAssumption
<1>2. IsFiniteSet(T)
  BY <1>1, FS_Subset
<1> QED
  BY <1>2, FS_Subset, FS_CardinalityType

\* A step that writes no row and makes no task owe an insert.
LEMMA NoNewDebt ==
    ASSUME TypeOK, CopiesInv, UNCHANGED facts,
           \A w \in Worker : pc'[w] = "deleted" =>
               /\ pc[w] = "deleted" /\ batch'[w] = batch[w] /\ gaps'[w] = gaps[w]
               /\ lo'[w] = lo[w] /\ hi'[w] = hi[w]
    PROVE  CopiesInv'
<1> SUFFICES ASSUME NEW d \in Day, NEW v \in Version
             PROVE  facts'[<<d, v>>] + Cardinality(Owing(d)') <= Cardinality(Worker)
  BY DEF CopiesInv
<1>1. Owing(d)' \subseteq Owing(d)
  BY DEF Owing, BatchDays, Covers
<1>2. /\ Cardinality(Owing(d)') \in Nat /\ Cardinality(Owing(d)) \in Nat
      /\ Cardinality(Owing(d)') <= Cardinality(Owing(d))
  BY <1>1, SomeOfWorkers DEF Owing
<1>3. /\ facts'[<<d, v>>] = facts[<<d, v>>] /\ facts[<<d, v>>] \in Nat
      /\ facts[<<d, v>>] + Cardinality(Owing(d)) <= Cardinality(Worker)
  BY DEF TypeOK, CopiesInv
<1>4. Cardinality(Worker) \in Nat
  BY SomeOfWorkers
<1> QED
  BY <1>2, <1>3, <1>4

\* An insert pays the debt of its own task.
LEMMA InsertPays ==
    ASSUME TypeOK, CopiesInv, NEW w \in Worker, pc[w] = "deleted", RowsArrive(w),
           pc'[w] # "deleted", \A u \in Worker \ {w} : pc'[u] = pc[u],
           UNCHANGED <<lo, hi, batch, gaps>>
    PROVE  CopiesInv'
<1> SUFFICES ASSUME NEW d \in Day, NEW v \in Version
             PROVE  facts'[<<d, v>>] + Cardinality(Owing(d)') <= Cardinality(Worker)
  BY DEF CopiesInv
<1>1. /\ facts'[<<d, v>>] = facts[<<d, v>>] + RowsOf(w, d, v)
      /\ facts[<<d, v>>] \in Nat /\ RowsOf(w, d, v) \in {0, 1}
  BY RowCount DEF RowsArrive, AfterInsert, TypeOK
<1>2. facts[<<d, v>>] + Cardinality(Owing(d)) <= Cardinality(Worker)
  BY DEF CopiesInv
<1>3. Owing(d)' = Owing(d) \ {w}
  BY DEF Owing, BatchDays, Covers
<1>4. IsFiniteSet(Owing(d)) /\ Cardinality(Worker) \in Nat
  BY CostLedgerAssumption, FS_Subset, SomeOfWorkers DEF Owing
<1>5. Cardinality(Owing(d)) \in Nat
  BY SomeOfWorkers DEF Owing
<1>6. CASE d \in BatchDays(w)
  <2>1. w \in Owing(d)
    BY <1>6 DEF Owing
  <2>2. Cardinality(Owing(d)') = Cardinality(Owing(d)) - 1
    BY <1>3, <1>4, <2>1, FS_RemoveElement
  <2> QED
    BY <1>1, <1>2, <1>4, <1>5, <2>2
<1>7. CASE d \notin BatchDays(w)
  <2>1. RowsOf(w, d, v) = 0 /\ Owing(d)' = Owing(d)
    BY <1>3, <1>7 DEF RowsOf, BatchDays, Owing
  <2> QED
    BY <1>1, <1>2, <2>1
<1> QED
  BY <1>6, <1>7

\* A delete leaves nothing of the days it makes its task owe.
LEMMA DeleteOwes ==
    ASSUME TypeOK, CopiesInv, NEW w \in Worker, DeleteOverlap(w)
    PROVE  CopiesInv'
<1> USE DEF localVars
<1>1. CASE pc' = [pc EXCEPT ![w] = "failed"] /\ UNCHANGED <<facts, holes>>
  BY <1>1, NoNewDebt DEF DeleteOverlap, Without, TypeOK
<1>2. CASE /\ pc' = [pc EXCEPT ![w] = "deleted"]
           /\ facts' = [row \in Day \X Version |->
                           IF row[1] \in Span(w) THEN 0 ELSE facts[row]]
  <2> SUFFICES ASSUME NEW d \in Day, NEW v \in Version
               PROVE  facts'[<<d, v>>] + Cardinality(Owing(d)') <= Cardinality(Worker)
    BY DEF CopiesInv
  <2>1. Cardinality(Owing(d)') \in Nat /\ Cardinality(Worker) \in Nat
        /\ Cardinality(Owing(d)') <= Cardinality(Worker)
    BY SomeOfWorkers DEF Owing
  <2>2. CASE d \in Span(w)
    BY <1>2, <2>1, <2>2
  <2>3. CASE d \notin Span(w)
    <3>1. \A u \in Worker : BatchDays(u)' = BatchDays(u)
      BY DEF DeleteOverlap, Without, BatchDays, Covers
    <3>2. d \notin BatchDays(w)
      BY <2>3, BatchInSpan
    <3>3. Owing(d)' = Owing(d)
      BY <1>2, <3>1, <3>2 DEF Owing, TypeOK
    <3> QED
      BY <1>2, <2>3, <3>3 DEF CopiesInv
  <2> QED
    BY <2>2, <2>3
<1> QED
  BY <1>1, <1>2 DEF DeleteOverlap, Without

LEMMA NextCopiesInv == TypeOK /\ CopiesInv /\ [Next]_vars => CopiesInv'
<1> SUFFICES ASSUME TypeOK, CopiesInv, [Next]_vars PROVE CopiesInv'
  OBVIOUS
<1> USE DEF envVars, dbVars, localVars, history, overlap
<1>1. CASE NextDay \/ Export \/ UNCHANGED vars
  BY <1>1, NoNewDebt DEF NextDay, Export, vars
<1>2. ASSUME NEW w \in Worker, Sync(w) PROVE CopiesInv'
  <2>1. CASE StartSync(w)
    BY <2>1, NoNewDebt DEF StartSync, TypeOK
  <2>2. CASE FetchBlobs(w) \/ FetchFromApi(w) \/ FetchFails(w)
    BY <2>2, NoNewDebt DEF FetchBlobs, FetchFromApi, FetchFails, TypeOK
  <2>3. CASE DeleteOverlap(w)
    BY <2>3, DeleteOwes
  <2>4. CASE InsertCosts(w)
    BY <2>4, InsertPays DEF InsertCosts, TypeOK
  <2>5. CASE InsertFails(w)
    <3>1. CASE RowsArrive(w)
      BY <2>5, <3>1, InsertPays DEF InsertFails, TypeOK
    <3>2. CASE ~RowsArrive(w)
      BY <2>5, <3>2, NoNewDebt DEF InsertFails, TypeOK
    <3> QED
      BY <3>1, <3>2
  <2>6. CASE SaveCheckpoints(w)
    BY <2>6, NoNewDebt DEF SaveCheckpoints, TypeOK
  <2>7. CASE Commit(w) \/ CommitConflict(w) \/ CommitError(w) \/ Crash(w)
    BY <2>7, NoNewDebt DEF Commit, CommitConflict, CommitError, Crash, Finish, MarkPending, TypeOK
  <2> QED
    BY <1>2, <2>1, <2>2, <2>3, <2>4, <2>5, <2>6, <2>7 DEF Sync
<1> QED
  BY <1>1, <1>2 DEF Next

\* However many tasks synchronise the account at once, and however often, no
\* row is ever in cost_facts more often than there are tasks.
THEOREM CopiesAreBounded == Spec => []CopiesBoundedByWorkers
<1>1. Init => CopiesInv
  <2> SUFFICES ASSUME Init, NEW d \in Day, NEW v \in Version
               PROVE  facts[<<d, v>>] + Cardinality(Owing(d)) <= Cardinality(Worker)
    BY DEF CopiesInv
  <2>1. facts[<<d, v>>] = 0
    BY DEF Init
  <2>2. /\ Cardinality(Owing(d)) \in Nat /\ Cardinality(Worker) \in Nat
        /\ Cardinality(Owing(d)) <= Cardinality(Worker)
    BY SomeOfWorkers DEF Owing
  <2> QED
    BY <2>1, <2>2
<1>2. TypeOK /\ CopiesInv => CopiesBoundedByWorkers
  <2> SUFFICES ASSUME TypeOK, CopiesInv, NEW d \in Day, NEW v \in Version
               PROVE  facts[<<d, v>>] <= Cardinality(Worker)
    BY DEF CopiesBoundedByWorkers
  <2>1. facts[<<d, v>>] \in Nat /\ facts[<<d, v>>] + Cardinality(Owing(d)) <= Cardinality(Worker)
    BY DEF TypeOK, CopiesInv
  <2>2. Cardinality(Owing(d)) \in Nat /\ Cardinality(Worker) \in Nat
    BY SomeOfWorkers DEF Owing
  <2> QED
    BY <2>1, <2>2
<1> QED
  BY <1>1, <1>2, InitTypeOK, NextTypeOK, NextCopiesInv, PTL DEF Spec

=============================================================================
