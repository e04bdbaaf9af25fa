------------------------ MODULE Notifications_proofs ------------------------
(***************************************************************************)
(* Theorems about alerts, for any number of transactions that report       *)
(* events, of delivery workers and of failures, and any queue length: what *)
(* a caller is given is stored, one event is stored once unless its        *)
(* reports overlapped, the stream keeps its newest event, and delivery     *)
(* neither sends an alert twice without a failure nor marks one unsent.    *)
(***************************************************************************)
EXTENDS Notifications, SequenceTheorems, TLAPS

-----------------------------------------------------------------------------
(***************************************************************************)
(* The inductive invariant: the types in three parts, by who writes the    *)
(* variables, and what each actor knows between its steps.                 *)
(***************************************************************************)

WritersTyped ==
    /\ event \in Reports
    /\ pc \in [Writer -> {"new", "ruling", "adding", "keyed", "matching", "inserting",
                          "publishing", "ending", "done", "failed"}]
    /\ alert \in [Writer -> {"absent", "pending", "committed"}]
    /\ result \in [Writer -> Writer \cup {NoAlert}]
    /\ \A w \in Writer : alert[w] = "pending" <=> w \in Active /\ result[w] = w
    /\ rule \in BOOLEAN
    /\ ruleBy \in {NoAlert} \cup Writer
    /\ ruleBy # NoAlert => ruleBy \in Active
    /\ age \in [Writer -> 0..2]
    /\ overlap \subseteq SUBSET Writer

StreamTyped ==
    /\ stream \in Seq(Writer) /\ Len(stream) <= StreamLimit
    /\ latest \in Writer \cup {NoAlert}

MailTyped ==
    /\ sent \in [Writer -> SUBSET Channel]
    /\ at \in [Deliverer -> Channel \cup {"idle", "emailed"}]
    /\ batch \in [Deliverer -> SUBSET Writer]
    /\ marked \in [Deliverer -> SUBSET Writer]
    /\ \A d \in Deliverer : marked[d] \subseteq batch[d]
    /\ aborts \in 0..MaxAborts
    /\ outcome \in [Writer -> [Channel -> Outcome]]
    /\ dispatches \in [Writer -> [Channel -> Nat]]

LEMMA TypeParts == TypeOK <=> WritersTyped /\ StreamTyped /\ MailTyped
BY DEF TypeOK, WritersTyped, StreamTyped, MailTyped

\* The phases before the insert: the writer has no alert yet.
Searching == {"new", "ruling", "adding", "keyed", "matching", "inserting"}

\* Where a writer is says what it has inserted.
Shape ==
    \A w \in Writer :
        /\ pc[w] \in Searching => result[w] = NoAlert
        /\ pc[w] = "publishing" => result[w] = w
        /\ alert[w] = "committed" <=> pc[w] = "done" /\ result[w] = w

\* Whoever was given the alert of another transaction was given a committed one.
Given ==
    \A w \in Writer :
        pc[w] \in {"ending", "done"} /\ result[w] \notin {NoAlert, w}
            => alert[result[w]] = "committed"

\* Transactions that are active now are known to overlap.
Together == \A a, b \in Active : a # b => {a, b} \in overlap

\* Past the search for equivalent alerts.
Late(w) == pc[w] = "inserting" \/ alert[w] # "absent"

SameEvent(a, w) ==
    event[a].signature = event[w].signature /\ event[a].signature # NoSignature

\* What excuses a second alert of one event.
Excused(a, w) ==
    \/ {a, w} \in overlap
    \/ event[a].signature \in Windowed /\ (age[a] > 0 \/ age[w] > 0)

\* A writer that is past its search did not see a committed alert of its event.
Apart ==
    \A a, w \in Writer :
        a # w /\ alert[a] = "committed" /\ Late(w) /\ SameEvent(a, w) => Excused(a, w)

\* An alert is in the hands of one worker, on a channel that lacks its mark; it was
\* dispatched if and only if its mark is committed or flushed.  Each failed
\* transaction pays for one more dispatch: what is open may be sent again.
Mail ==
    /\ \A d, e \in Deliverer : d # e => batch[d] \cap batch[e] = {}
    /\ \A d \in Deliverer : at[d] \notin Channel => batch[d] = {}
    /\ \A d \in Deliverer : \A a \in batch[d] : at[d] \notin sent[a]
    /\ \A a \in Writer, c \in Channel :
           outcome[a][c] = IF c \in sent[a] \/ \E d \in Deliverer : at[d] = c /\ a \in marked[d]
                               THEN "handled" ELSE "open"
    /\ \A a \in Writer, c \in Channel :
           dispatches[a][c] <= aborts + (IF outcome[a][c] = "handled" THEN 1 ELSE 0)

WriterInv == WritersTyped /\ Shape /\ Given /\ Together /\ Apart
StreamInv == StreamTyped /\ NewestReachesStream
MailInv == MailTyped /\ Mail

-----------------------------------------------------------------------------
(***************************************************************************)
(* The writers.                                                            *)
(***************************************************************************)

LEMMA WriterInit == Init => WriterInv
<1> SUFFICES ASSUME Init PROVE WriterInv
  OBVIOUS
<1>1. /\ \A w \in Writer : pc[w] = "new" /\ alert[w] = "absent" /\ result[w] = NoAlert
      /\ NoAlert \notin Writer /\ Active = {}
  BY NotificationsAssumption DEF Init, Active
<1>2. /\ event \in Reports /\ rule = FALSE /\ ruleBy = NoAlert /\ overlap = {}
      /\ pc = [w \in Writer |-> "new"] /\ alert = [w \in Writer |-> "absent"]
      /\ result = [w \in Writer |-> NoAlert] /\ age = [w \in Writer |-> 0]
  BY DEF Init
<1>3. WritersTyped
  <2>1. /\ pc \in [Writer -> {"new", "ruling", "adding", "keyed", "matching", "inserting",
                              "publishing", "ending", "done", "failed"}]
        /\ alert \in [Writer -> {"absent", "pending", "committed"}]
    BY <1>2
  <2>2. result \in [Writer -> Writer \cup {NoAlert}] /\ age \in [Writer -> 0..2]
    BY <1>2
  <2>3. rule \in BOOLEAN
    BY <1>2
  <2> QED
    BY <1>1, <1>2, <2>1, <2>2, <2>3 DEF WritersTyped
<1>4. Shape /\ Given /\ Together /\ Apart
  BY <1>1 DEF Shape, Given, Together, Apart, Late, Searching
<1> QED
  BY <1>3, <1>4 DEF WriterInv

\* A step of w that keeps the alerts, and answers w only with a committed one.
Moves(w) ==
    /\ UNCHANGED <<alert, age, event>>
    /\ \E p \in {"ruling", "adding", "keyed", "matching", "inserting", "ending", "failed"} :
           /\ pc' = [pc EXCEPT ![w] = p]
           /\ p = "failed" => result[w] # w
           /\ p = "inserting" => \A a \in Writer :
                  alert[a] = "committed" /\ SameEvent(a, w) => Excused(a, w)
    /\ \/ result' = result
       \/ /\ pc'[w] = "ending"
          /\ \E a \in Writer : alert[a] = "committed" /\ result' = [result EXCEPT ![w] = a]

\* Active writers stay known to overlap, and rows of the rule stay with one.
Accounted(w) ==
    /\ rule' \in BOOLEAN
    /\ \/ overlap' = overlap /\ pc[w] # "new"
       \/ overlap' = overlap \cup {{w, v} : v \in Active}
    /\ \/ ruleBy' = ruleBy
       \/ ruleBy' = w /\ pc'[w] # "failed"

LEMMA MovesKeeps ==
    ASSUME WriterInv, NEW w \in Writer, pc[w] \in Searching, Moves(w), Accounted(w),
           ruleBy = w => pc'[w] # "failed"
    PROVE  WriterInv'
<1> USE DEF WriterInv
<1>1. /\ pc' \in [Writer -> {"new", "ruling", "adding", "keyed", "matching", "inserting",
                             "publishing", "ending", "done", "failed"}]
      /\ \A v \in Writer : v # w => pc'[v] = pc[v]
      /\ pc'[w] \in {"ruling", "adding", "keyed", "matching", "inserting", "ending", "failed"}
  BY DEF Moves, WritersTyped
<1>2. /\ result' \in [Writer -> Writer \cup {NoAlert}]
      /\ \A v \in Writer : v # w => result'[v] = result[v]
      /\ pc'[w] # "ending" => result'[w] = result[w]
      /\ result'[w] # result[w] => result'[w] \in Writer /\ alert[result'[w]] = "committed"
  BY DEF Moves, WritersTyped
<1>3. result[w] = NoAlert /\ NoAlert # w /\ alert[w] = "absent"
  BY NotificationsAssumption DEF Shape, WritersTyped, Active, Searching
<1>4. result'[w] # w
  BY <1>2, <1>3
<1>5. alert' = alert /\ age' = age /\ event' = event
  BY DEF Moves
<1>6. \A v \in Writer : v # w => (v \in Active' <=> v \in Active)
  BY <1>1 DEF Active
<1>7. overlap \subseteq overlap' /\ overlap' \subseteq SUBSET Writer
  BY DEF Accounted, WritersTyped, Active
<1>8. ruleBy' \in {NoAlert} \cup Writer /\ (ruleBy' # NoAlert => ruleBy' \in Active')
  <2>1. CASE ruleBy' = w
    BY <2>1, <1>1 DEF Accounted, Active
  <2>2. CASE ruleBy' # w
    BY <2>2, <1>6 DEF Accounted, WritersTyped
  <2> QED
    BY <2>1, <2>2
<1>9. WritersTyped'
  <2>1. ASSUME NEW v \in Writer
        PROVE  alert'[v] = "pending" <=> v \in Active' /\ result'[v] = v
    BY <1>2, <1>3, <1>4, <1>5, <1>6 DEF WritersTyped
  <2> QED
    BY <2>1, <1>1, <1>2, <1>5, <1>7, <1>8 DEF WritersTyped, Accounted
<1>10. Shape'
  BY <1>1, <1>2, <1>3, <1>4, <1>5 DEF Shape, Searching
<1>11. Given'
  BY <1>1, <1>2, <1>3, <1>4, <1>5 DEF Given
<1>12. Together'
  <2> SUFFICES ASSUME NEW a \in Active', NEW b \in Active', a # b PROVE {a, b} \in overlap'
    BY DEF Together
  <2>1. CASE a # w /\ b # w
    BY <2>1, <1>6, <1>7 DEF Together, Active
  <2>2. CASE w \in Active
    BY <2>2, <1>6, <1>7 DEF Together, Active
  <2>3. CASE w \notin Active /\ (a = w \/ b = w)
    <3>1. pc[w] = "new"
      BY <2>3 DEF Active, Searching
    <3>2. overlap' = overlap \cup {{w, v} : v \in Active}
      BY <3>1 DEF Accounted
    <3>3. PICK v \in Active : {a, b} = {w, v}
      BY <2>3, <1>6 DEF Active
    <3> QED
      BY <3>2, <3>3
  <2> QED
    BY <2>1, <2>2, <2>3
<1>13. Apart'
  <2> SUFFICES ASSUME NEW a \in Writer, NEW v \in Writer, a # v, alert'[a] = "committed",
                      Late(v)', SameEvent(a, v)'
               PROVE  Excused(a, v)'
    BY DEF Apart
  <2>1. alert[a] = "committed" /\ SameEvent(a, v)
    BY <1>5 DEF SameEvent
  <2>2. Excused(a, v) => Excused(a, v)'
    BY <1>5, <1>7 DEF Excused
  <2>3. CASE Late(v)
    BY <2>1, <2>2, <2>3 DEF Apart
  <2>4. CASE ~Late(v)
    <3>1. v = w /\ pc'[w] = "inserting"
      BY <2>4, <1>1, <1>5 DEF Late
    <3>2. Excused(a, w)
      BY <3>1, <2>1, <1>1 DEF Moves, WritersTyped
    <3> QED
      BY <3>1, <3>2, <2>2
  <2> QED
    BY <2>3, <2>4
<1> QED
  BY <1>9, <1>10, <1>11, <1>12, <1>13

\* The steps up to the search for equivalent alerts only move the writer.
LEMMA SearchKeeps ==
    ASSUME WriterInv, NEW w \in Writer,
           Begin(w) \/ ReadRule(w) \/ AddRule(w) \/ FindByKey(w) \/ FindEquivalent(w)
    PROVE  WriterInv'
<1> USE DEF WriterInv
<1>1. rule \in BOOLEAN /\ pc \in [Writer -> Searching \cup {"publishing", "ending", "done", "failed"}]
  BY DEF WritersTyped, Searching
<1>2. pc[w] \in Searching => result[w] # w
  BY NotificationsAssumption DEF Shape
<1>3. CASE Begin(w)
  <2>1. PICK p \in {"ruling", "keyed"} : pc' = [pc EXCEPT ![w] = p]
    BY <1>3 DEF Begin, Goto
  <2>2. Moves(w) /\ Accounted(w) /\ pc[w] \in Searching /\ pc'[w] # "failed"
    BY <1>1, <1>3, <2>1 DEF Begin, Moves, Accounted, dbVars, Searching
  <2> QED
    BY <2>2, MovesKeeps
<1>4. CASE ReadRule(w)
  <2>1. PICK p \in {"adding", "keyed", "ending"} : pc' = [pc EXCEPT ![w] = p]
    BY <1>1, <1>4 DEF ReadRule, Goto
  <2>2. Moves(w) /\ Accounted(w) /\ pc[w] \in Searching /\ pc'[w] # "failed"
    BY <1>1, <1>4, <2>1 DEF ReadRule, Moves, Accounted, dbVars, Searching
  <2> QED
    BY <2>2, MovesKeeps
<1>5. CASE AddRule(w)
  <2>1. pc[w] = "adding" /\ ruleBy = NoAlert /\ ruleBy # w
    BY <1>5, NotificationsAssumption DEF AddRule
  <2>2. PICK p \in {"keyed", "ending", "failed"} :
            pc' = [pc EXCEPT ![w] = p] /\ (p = "failed" => ruleBy' = ruleBy)
    BY <1>1, <1>5 DEF AddRule, Goto
  <2>3. pc'[w] = p
    BY <1>1, <2>2
  <2>4. ruleBy' = ruleBy \/ (ruleBy' = w /\ pc'[w] # "failed")
    BY <1>1, <1>5, <2>3 DEF AddRule, Goto
  <2>5. Moves(w) /\ Accounted(w) /\ pc[w] \in Searching
    BY <1>1, <1>2, <1>5, <2>1, <2>2, <2>4 DEF AddRule, Moves, Accounted, Searching
  <2> QED
    BY <2>1, <2>5, MovesKeeps
<1>6. CASE FindByKey(w)
  <2>1. pc[w] = "keyed" /\ rule' = rule /\ ruleBy' = ruleBy /\ overlap' = overlap
    BY <1>6 DEF FindByKey, dbVars
  <2>2. Moves(w) /\ pc'[w] # "failed"
    BY <1>1, <1>6 DEF FindByKey, Moves, Return, Goto, dbVars
  <2>3. Accounted(w) /\ pc[w] \in Searching
    BY <1>1, <2>1 DEF Accounted, Searching
  <2> QED
    BY <2>2, <2>3, MovesKeeps
<1>7. CASE FindEquivalent(w)
  <2>1. pc[w] = "matching" /\ rule' = rule /\ ruleBy' = ruleBy /\ overlap' = overlap
    BY <1>7 DEF FindEquivalent, dbVars
  <2>2. Equivalent(w) = {} => \A a \in Writer :
            alert[a] = "committed" /\ SameEvent(a, w) => Excused(a, w)
    BY DEF Equivalent, SameEvent, Excused, WritersTyped
  <2>3. \A a \in Equivalent(w) : a \in Writer /\ alert[a] = "committed"
    BY DEF Equivalent
  <2>4. Moves(w) /\ pc'[w] # "failed"
    BY <1>1, <1>7, <2>2, <2>3 DEF FindEquivalent, Moves, Return, Goto, dbVars
  <2>5. Accounted(w) /\ pc[w] \in Searching
    BY <1>1, <2>1 DEF Accounted, Searching
  <2> QED
    BY <2>4, <2>5, MovesKeeps
<1> QED
  BY <1>3, <1>4, <1>5, <1>6, <1>7

\* The insert that finds no alert under its key, and the announcement of the alert.
LEMMA InsertKeeps ==
    ASSUME WriterInv, NEW w \in Writer, Insert(w)
    PROVE  WriterInv'
<1> USE DEF WriterInv
<1>1. /\ pc[w] = "inserting" /\ rule' = rule /\ ruleBy' = ruleBy /\ overlap' = overlap
      /\ age' = age /\ event' = event
  BY DEF Insert
<1>2. pc[w] \in Searching /\ rule \in BOOLEAN /\ result[w] = NoAlert /\ NoAlert # w
  BY <1>1, NotificationsAssumption DEF Searching, Shape, WritersTyped
<1>3. CASE \E a \in Writer : alert[a] = "committed" /\ Return(w, a) /\ UNCHANGED alert
  <2>1. Moves(w) /\ Accounted(w) /\ pc'[w] # "failed"
    BY <1>1, <1>2, <1>3 DEF Moves, Accounted, Return, Goto, WritersTyped
  <2> QED
    BY <1>2, <2>1, MovesKeeps
<1>4. CASE /\ alert' = [alert EXCEPT ![w] = "pending"]
           /\ result' = [result EXCEPT ![w] = w]
           /\ Goto(w, "publishing")
  <2>1. /\ alert' \in [Writer -> {"absent", "pending", "committed"}]
        /\ alert'[w] = "pending" /\ \A v \in Writer : v # w => alert'[v] = alert[v]
    BY <1>4 DEF WritersTyped
  <2>2. /\ result' \in [Writer -> Writer \cup {NoAlert}]
        /\ result'[w] = w /\ \A v \in Writer : v # w => result'[v] = result[v]
    BY <1>4 DEF WritersTyped
  <2>3. /\ pc' \in [Writer -> {"new", "ruling", "adding", "keyed", "matching", "inserting",
                               "publishing", "ending", "done", "failed"}]
        /\ pc'[w] = "publishing" /\ \A v \in Writer : v # w => pc'[v] = pc[v]
    BY <1>4 DEF WritersTyped, Goto
  <2>4. Active' = Active /\ w \in Active
    BY <1>1, <2>3 DEF Active
  <2>5. alert[w] # "committed"
    BY <1>1 DEF Shape
  <2>6. WritersTyped'
    BY <1>1, <2>1, <2>2, <2>3, <2>4 DEF WritersTyped
  <2>7. Shape'
    BY <2>1, <2>2, <2>3 DEF Shape, Searching
  <2>8. Given'
    BY <2>1, <2>2, <2>3, <2>5 DEF Given
  <2>9. Together'
    BY <1>1, <2>4 DEF Together
  <2>10. Apart'
    BY <1>1, <2>1, <2>3 DEF Apart, Late, SameEvent, Excused
  <2> QED
    BY <2>6, <2>7, <2>8, <2>9, <2>10
<1> QED
  BY <1>3, <1>4 DEF Insert

LEMMA PublishKeeps ==
    ASSUME WriterInv, NEW w \in Writer, Publish(w)
    PROVE  WriterInv'
<1> USE DEF WriterInv
<1>1. pc[w] = "publishing" /\ UNCHANGED <<dbVars, event, result, overlap>>
  BY DEF Publish
<1>2. /\ pc' \in [Writer -> {"new", "ruling", "adding", "keyed", "matching", "inserting",
                             "publishing", "ending", "done", "failed"}]
      /\ pc'[w] = "ending" /\ \A v \in Writer : v # w => pc'[v] = pc[v]
  BY DEF WritersTyped, Goto, Publish
<1>3. Active' = Active
  BY <1>1, <1>2 DEF Active
<1>4. WritersTyped'
  BY <1>1, <1>2, <1>3 DEF WritersTyped, dbVars
<1>5. Shape'
  BY <1>1, <1>2 DEF Shape, Searching, dbVars
<1>6. Given'
  BY <1>1, <1>2 DEF Given, Shape, dbVars
<1>7. Together' /\ Apart'
  BY <1>1, <1>2, <1>3 DEF Together, Apart, Late, SameEvent, Excused, dbVars
<1> QED
  BY <1>4, <1>5, <1>6, <1>7

\* A commit meets the alerts that are committed already, and those that are inserted
\* by transactions it overlapped.
LEMMA CommitKeeps ==
    ASSUME WriterInv, NEW w \in Writer, Commit(w)
    PROVE  WriterInv'
<1> USE DEF WriterInv
<1>1. pc[w] = "ending" /\ UNCHANGED <<age, event, result, overlap>>
  BY DEF Commit
<1>2. /\ pc' \in [Writer -> {"new", "ruling", "adding", "keyed", "matching", "inserting",
                             "publishing", "ending", "done", "failed"}]
      /\ pc'[w] = "done" /\ \A v \in Writer : v # w => pc'[v] = pc[v]
  BY DEF WritersTyped, Goto, Commit
<1>3. /\ alert' \in [Writer -> {"absent", "pending", "committed"}]
      /\ \A v \in Writer : v # w => alert'[v] = alert[v]
      /\ result[w] = w => alert'[w] = "committed"
      /\ result[w] # w => alert'[w] = alert[w]
  BY DEF Commit, WritersTyped
<1>4. w \in Active /\ Active' = Active \ {w}
  BY <1>1, <1>2 DEF Active
<1>5. \A v \in Writer : alert[v] = "committed" => alert'[v] = "committed"
  BY <1>3
<1>6. alert[w] # "committed" /\ (alert[w] = "pending" <=> result[w] = w)
  BY <1>1, <1>4 DEF Shape, WritersTyped
<1>7. ruleBy' \in {NoAlert} \cup Writer /\ (ruleBy' # NoAlert => ruleBy' \in Active') /\ rule' \in BOOLEAN
  BY <1>4 DEF Commit, WritersTyped
<1>8. WritersTyped'
  BY <1>1, <1>2, <1>3, <1>4, <1>6, <1>7 DEF WritersTyped
<1>9. Shape'
  BY <1>1, <1>2, <1>3, <1>6 DEF Shape, Searching
<1>10. Given'
  BY <1>1, <1>2, <1>5 DEF Given, WritersTyped
<1>11. Together'
  BY <1>1, <1>4 DEF Together
<1>12. Apart'
  <2> SUFFICES ASSUME NEW a \in Writer, NEW v \in Writer, a # v, alert'[a] = "committed",
                      Late(v)', SameEvent(a, v)'
               PROVE  Excused(a, v)'
    BY DEF Apart
  <2>1. SameEvent(a, v) /\ SameEvent(v, a) /\ Excused(a, v)' = Excused(a, v)
    BY <1>1 DEF SameEvent, Excused
  <2>2. Late(v)
    BY <1>1, <1>2, <1>3, <1>6 DEF Late
  <2>3. CASE alert[a] = "committed"
    BY <2>1, <2>2, <2>3 DEF Apart
  <2>4. CASE alert[a] # "committed"
    <3>1. a = w /\ alert[a] = "pending"
      BY <2>4, <1>3, <1>6
    <3>2. CASE v \in Active
      BY <3>1, <3>2, <2>1, <1>4 DEF Together, Excused
    <3>3. CASE v \notin Active
      <4>1. alert[v] = "committed"
        BY <2>2, <3>3 DEF Late, Active, WritersTyped
      <4>2. Excused(v, a)
        BY <4>1, <3>1, <2>1 DEF Apart, Late
      <4>3. {a, v} = {v, a} /\ event[a].signature = event[v].signature
        BY <2>1 DEF SameEvent
      <4> QED
        BY <4>2, <4>3, <2>1 DEF Excused
    <3> QED
      BY <3>2, <3>3
  <2> QED
    BY <2>3, <2>4
<1> QED
  BY <1>8, <1>9, <1>10, <1>11, <1>12

LEMMA RollbackKeeps ==
    ASSUME WriterInv, NEW w \in Writer, Rollback(w)
    PROVE  WriterInv'
<1> USE DEF WriterInv
<1>1. w \in Active /\ UNCHANGED <<rule, age, event, result, overlap>>
  BY DEF Rollback
<1>2. /\ pc' \in [Writer -> {"new", "ruling", "adding", "keyed", "matching", "inserting",
                             "publishing", "ending", "done", "failed"}]
      /\ pc'[w] = "failed" /\ \A v \in Writer : v # w => pc'[v] = pc[v]
  BY DEF WritersTyped, Goto, Rollback
<1>3. /\ alert' \in [Writer -> {"absent", "pending", "committed"}]
      /\ alert'[w] = "absent" /\ \A v \in Writer : v # w => alert'[v] = alert[v]
  BY DEF Rollback, WritersTyped
<1>4. Active' = Active \ {w}
  BY <1>1, <1>2 DEF Active
<1>5. pc[w] # "done" /\ alert[w] # "committed"
  BY <1>1 DEF Active, Shape
<1>6. ruleBy' \in {NoAlert} \cup Writer /\ (ruleBy' # NoAlert => ruleBy' \in Active')
  BY <1>4 DEF Rollback, WritersTyped
<1>7. WritersTyped'
  BY <1>1, <1>2, <1>3, <1>4, <1>6 DEF WritersTyped
<1>8. Shape' /\ Given'
  BY <1>1, <1>2, <1>3, <1>5 DEF Shape, Given, Searching, WritersTyped
<1>9. Together' /\ Apart'
  BY <1>1, <1>2, <1>3, <1>4 DEF Together, Apart, Late, SameEvent, Excused
<1> QED
  BY <1>7, <1>8, <1>9

LEMMA AgeKeeps ==
    ASSUME WriterInv, NEW a \in Writer, Age(a)
    PROVE  WriterInv'
<1> USE DEF WriterInv
<1>1. /\ UNCHANGED <<alert, rule, ruleBy, event, pc, result, overlap>>
      /\ age' \in [Writer -> 0..2] /\ \A v \in Writer : age[v] > 0 => age'[v] > 0
  BY DEF Age, WritersTyped, writerVars
<1>2. WritersTyped' /\ Shape' /\ Given' /\ Together'
  BY <1>1 DEF WritersTyped, Active, Shape, Given, Together
<1>3. Apart'
  BY <1>1 DEF Apart, Late, SameEvent, Excused
<1> QED
  BY <1>2, <1>3

LEMMA WriterStep ==
    ASSUME WriterInv, [Next]_vars
    PROVE  WriterInv'
<1>1. ASSUME NEW w \in Writer, Report(w) PROVE WriterInv'
  BY <1>1, SearchKeeps, InsertKeeps, PublishKeeps, CommitKeeps, RollbackKeeps DEF Report
<1>2. CASE UNCHANGED <<alert, rule, ruleBy, age, writerVars>>
  BY <1>2 DEF writerVars, WriterInv, WritersTyped, Active, Shape, Given, Together, Apart, Late,
              SameEvent, Excused
<1>3. ASSUME NEW d \in Deliverer, Deliver(d) \/ AbortBatch(d)
      PROVE  UNCHANGED <<alert, rule, ruleBy, age, writerVars>>
  BY <1>3 DEF Deliver, Select, SelectNone, Dispatch, CommitBatch, AbortBatch, dbVars
<1>4. ASSUME Receive \/ UNCHANGED vars
      PROVE  UNCHANGED <<alert, rule, ruleBy, age, writerVars>>
  BY <1>4 DEF Receive, vars, dbVars
<1> QED
  BY <1>1, <1>2, <1>3, <1>4, AgeKeeps DEF Next

-----------------------------------------------------------------------------
(***************************************************************************)
(* The stream of a subscriber.                                             *)
(***************************************************************************)

\* A full queue loses its head, which leaves room for one element.
LEMMA StreamPublish ==
    ASSUME StreamInv, NEW w \in Writer, Publish(w)
    PROVE  StreamInv'
<1> DEFINE rest == IF Len(stream) = StreamLimit THEN Tail(stream) ELSE stream
<1>1. stream' = Append(rest, w) /\ latest' = w
  BY DEF Publish
<1>2. stream \in Seq(Writer) /\ Len(stream) <= StreamLimit /\ StreamLimit \in Nat \ {0}
  BY NotificationsAssumption DEF StreamInv, StreamTyped
<1>3. rest \in Seq(Writer) /\ Len(rest) + 1 <= StreamLimit
  BY <1>2
<1> HIDE DEF rest
<1>4. /\ stream' \in Seq(Writer) /\ Len(stream') <= StreamLimit
      /\ Len(stream') \in DOMAIN stream' /\ stream'[Len(stream')] = w
  BY <1>1, <1>3
<1> QED
  BY <1>1, <1>4 DEF StreamInv, StreamTyped, NewestReachesStream

\* The subscriber takes the head; the newest event, if it is not that, stays.
LEMMA StreamReceive ==
    ASSUME StreamInv, Receive
    PROVE  StreamInv'
<1>1. /\ stream \in Seq(Writer) /\ stream # <<>> /\ stream' = Tail(stream)
      /\ Len(stream) <= StreamLimit /\ StreamLimit \in Nat
      /\ latest' = IF Head(stream) = latest THEN NoAlert ELSE latest
  BY NotificationsAssumption DEF StreamInv, StreamTyped, Receive
<1>2. stream' \in Seq(Writer) /\ Len(stream') <= StreamLimit
  BY <1>1
<1>3. ASSUME latest' # NoAlert
      PROVE  \E i \in DOMAIN stream' : stream'[i] = latest'
  <2>1. latest' = latest /\ Head(stream) # latest
    BY <1>1, <1>3
  <2>2. PICK i \in DOMAIN stream : stream[i] = latest
    BY <1>3, <2>1 DEF StreamInv, NewestReachesStream
  <2>3. i # 1 /\ i \in 1..Len(stream)
    BY <1>1, <2>1, <2>2
  <2>4. i - 1 \in DOMAIN stream' /\ stream'[i - 1] = stream[i]
    BY <1>1, <2>3
  <2> QED
    BY <2>1, <2>2, <2>4
<1> QED
  BY <1>1, <1>2, <1>3 DEF StreamInv, StreamTyped, NewestReachesStream

LEMMA StreamStep ==
    ASSUME StreamInv, [Next]_vars
    PROVE  StreamInv'
<1>1. CASE UNCHANGED streamVars
  BY <1>1 DEF streamVars, StreamInv, StreamTyped, NewestReachesStream
<1>2. ASSUME NEW w \in Writer, Report(w) \/ Age(w)
      PROVE  UNCHANGED streamVars \/ Publish(w)
  BY <1>2 DEF Report, Begin, ReadRule, AddRule, FindByKey, FindEquivalent, Insert, Commit,
              Rollback, Age
<1>3. ASSUME NEW d \in Deliverer, Deliver(d) \/ AbortBatch(d)
      PROVE  UNCHANGED streamVars
  BY <1>3 DEF Deliver, Select, SelectNone, Dispatch, CommitBatch, AbortBatch
<1> QED
  BY <1>1, <1>2, <1>3, StreamPublish, StreamReceive DEF Next, vars

-----------------------------------------------------------------------------
(***************************************************************************)
(* Delivery.                                                               *)
(***************************************************************************)

LEMMA MailInit == Init => MailInv
<1> SUFFICES ASSUME Init PROVE MailInv
  OBVIOUS
<1>1. /\ sent = [w \in Writer |-> {}] /\ at = [d \in Deliverer |-> "idle"]
      /\ batch = [d \in Deliverer |-> {}] /\ marked = [d \in Deliverer |-> {}]
      /\ aborts = 0 /\ outcome = [w \in Writer |-> [c \in Channel |-> "open"]]
      /\ dispatches = [w \in Writer |-> [c \in Channel |-> 0]]
      /\ MaxAborts \in Nat
  BY NotificationsAssumption DEF Init
<1>2. MailTyped
  BY <1>1 DEF MailTyped, Outcome
<1>3. Mail
  BY <1>1 DEF Mail
<1> QED
  BY <1>2, <1>3 DEF MailInv

\* A worker selects alerts that nobody holds and that lack the mark of the channel.
LEMMA SelectKeeps ==
    ASSUME MailInv, NEW d \in Deliverer, Select(d)
    PROVE  MailInv'
<1> USE DEF MailInv
<1>1. PICK c \in Channel :
          /\ at[d] \notin Channel /\ at' = [at EXCEPT ![d] = c]
          /\ \E s \in SUBSET Pending(c) : batch' = [batch EXCEPT ![d] = s]
  <2> DEFINE k == IF at[d] = "idle" THEN "email" ELSE "slack"
  <2>1. k \in Channel /\ at[d] \notin Channel
    BY DEF Select, Channel
  <2>2. at' = [at EXCEPT ![d] = k] /\ \E s \in SUBSET Pending(k) : batch' = [batch EXCEPT ![d] = s]
    BY DEF Select
  <2> QED
    BY <2>1, <2>2
<1> PICK b \in SUBSET Pending(c) : batch' = [batch EXCEPT ![d] = b]
  BY <1>1
<1>2. UNCHANGED <<sent, marked, aborts, outcome, dispatches>>
  BY DEF Select, dbVars
<1>3. batch[d] = {} /\ marked[d] = {}
  BY <1>1 DEF Mail, MailTyped
<1>4. b \subseteq Writer /\ \A a \in b : c \notin sent[a] /\ \A e \in Deliverer : a \notin batch[e]
  BY DEF Pending
<1>5. /\ at'[d] = c /\ batch'[d] = b
      /\ \A e \in Deliverer : e # d => at'[e] = at[e] /\ batch'[e] = batch[e]
  BY <1>1 DEF MailTyped
<1>6. MailTyped'
  BY <1>1, <1>2, <1>3, <1>4 DEF MailTyped
<1>7. \A a \in Writer, k \in Channel :
          (\E e \in Deliverer : at'[e] = k /\ a \in marked'[e])
            <=> \E e \in Deliverer : at[e] = k /\ a \in marked[e]
  BY <1>2, <1>3, <1>5
<1>8. Mail'
  BY <1>2, <1>4, <1>5, <1>7 DEF Mail
<1> QED
  BY <1>6, <1>8

LEMMA SelectNoneKeeps ==
    ASSUME MailInv, NEW d \in Deliverer, SelectNone(d)
    PROVE  MailInv'
<1> USE DEF MailInv
<1>1. PICK p \in {"idle", "emailed"} : at' = [at EXCEPT ![d] = p] /\ at[d] \notin Channel
  BY DEF SelectNone, Channel
<1>2. UNCHANGED <<sent, batch, marked, aborts, outcome, dispatches>>
  BY DEF SelectNone, dbVars
<1>3. MailTyped'
  BY <1>1, <1>2 DEF MailTyped
<1>4. at'[d] \notin Channel /\ \A e \in Deliverer : e # d => at'[e] = at[e]
  BY <1>1 DEF MailTyped, Channel
<1>5. batch[d] = {} /\ marked[d] = {}
  BY <1>1 DEF Mail, MailTyped
<1>6. \A a \in Writer, k \in Channel :
          (\E e \in Deliverer : at'[e] = k /\ a \in marked'[e])
            <=> \E e \in Deliverer : at[e] = k /\ a \in marked[e]
  BY <1>2, <1>4, <1>5
<1>7. Mail'
  BY <1>2, <1>4, <1>5, <1>6 DEF Mail
<1> QED
  BY <1>3, <1>7

\* The alert a worker dispatches was open: no mark is committed, and nobody else
\* holds it.
LEMMA DispatchKeeps ==
    ASSUME MailInv, NEW d \in Deliverer, Dispatch(d)
    PROVE  MailInv'
<1> USE DEF MailInv
<1>1. PICK a \in batch[d] \ marked[d] :
          marked' = [marked EXCEPT ![d] = @ \cup {a}] /\ Handle(a, at[d])
  BY DEF Dispatch
<1>2. UNCHANGED <<sent, at, batch, aborts>>
  BY DEF Dispatch, dbVars
<1>3. at[d] \in Channel /\ a \in Writer /\ at[d] \notin sent[a]
  BY DEF Mail, MailTyped
<1>4. \A e \in Deliverer : a \notin marked[e]
  BY DEF Mail, MailTyped
<1>5. outcome[a][at[d]] = "open"
  BY <1>3, <1>4 DEF Mail
<1>6. /\ outcome' = [outcome EXCEPT ![a][at[d]] = "handled"]
      /\ outcome'[a][at[d]] = "handled"
      /\ \A x \in Writer, k \in Channel : x # a \/ k # at[d] => outcome'[x][k] = outcome[x][k]
  BY <1>1, <1>3, <1>5 DEF Handle, MailTyped
<1>7. outcome' \in [Writer -> [Channel -> Outcome]]
  BY <1>3, <1>6 DEF MailTyped, Outcome
<1>8. /\ marked' \in [Deliverer -> SUBSET Writer] /\ marked'[d] = marked[d] \cup {a}
      /\ \A e \in Deliverer : e # d => marked'[e] = marked[e]
  BY <1>1, <1>3 DEF MailTyped
<1>12. /\ dispatches' \in [Writer -> [Channel -> Nat]]
       /\ dispatches'[a][at[d]] = dispatches[a][at[d]] + 1
       /\ \A x \in Writer, k \in Channel :
              x # a \/ k # at[d] => dispatches'[x][k] = dispatches[x][k]
  BY <1>1, <1>3 DEF Handle, MailTyped
<1>13. aborts \in Nat /\ \A x \in Writer, k \in Channel : dispatches[x][k] \in Nat
  BY NotificationsAssumption DEF MailTyped
<1>9. MailTyped'
  BY <1>2, <1>7, <1>8, <1>12 DEF MailTyped
<1>10. ASSUME NEW x \in Writer, NEW k \in Channel
       PROVE  outcome'[x][k] = IF k \in sent'[x] \/ \E e \in Deliverer : at'[e] = k /\ x \in marked'[e]
                                   THEN "handled" ELSE "open"
  <2>1. CASE x = a /\ k = at[d]
    BY <2>1, <1>2, <1>6, <1>8
  <2>2. CASE x # a \/ k # at[d]
    <3>1. (\E e \in Deliverer : at'[e] = k /\ x \in marked'[e])
            <=> \E e \in Deliverer : at[e] = k /\ x \in marked[e]
      BY <2>2, <1>2, <1>8
    <3> QED
      BY <2>2, <3>1, <1>2, <1>6 DEF Mail
  <2> QED
    BY <2>1, <2>2
<1>14. ASSUME NEW x \in Writer, NEW k \in Channel
       PROVE  dispatches'[x][k] <= aborts' + (IF outcome'[x][k] = "handled" THEN 1 ELSE 0)
  <2>1. CASE x = a /\ k = at[d]
    <3>1. dispatches[a][at[d]] <= aborts
      BY <1>3, <1>5, <1>13 DEF Mail
    <3> QED
      BY <2>1, <3>1, <1>2, <1>3, <1>6, <1>12, <1>13
  <2>2. CASE x # a \/ k # at[d]
    <3>1. dispatches'[x][k] = dispatches[x][k] /\ outcome'[x][k] = outcome[x][k]
      BY <2>2, <1>6, <1>12
    <3> QED
      BY <3>1, <1>2 DEF Mail
  <2> QED
    BY <2>1, <2>2
<1>11. Mail'
  BY <1>2, <1>10, <1>14 DEF Mail
<1> QED
  BY <1>9, <1>11

\* A worker that ends its transaction holds nothing.
LEMMA FinishTyped ==
    ASSUME MailTyped, NEW d \in Deliverer, NEW p \in {"idle", "emailed"}, Finish(d, p)
    PROVE  /\ at' \in [Deliverer -> Channel \cup {"idle", "emailed"}]
           /\ batch' \in [Deliverer -> SUBSET Writer]
           /\ marked' \in [Deliverer -> SUBSET Writer]
           /\ at'[d] \notin Channel /\ batch'[d] = {} /\ marked'[d] = {}
           /\ \A e \in Deliverer : e # d =>
                  at'[e] = at[e] /\ batch'[e] = batch[e] /\ marked'[e] = marked[e]
BY DEF MailTyped, Finish, Channel

\* The committed marks are those of the dispatched batch.
LEMMA CommitBatchKeeps ==
    ASSUME MailInv, NEW d \in Deliverer, CommitBatch(d)
    PROVE  MailInv'
<1> USE DEF MailInv
<1> DEFINE p == IF at[d] = "email" THEN "emailed" ELSE "idle"
<1>1. /\ at[d] \in Channel /\ marked[d] = batch[d] /\ Finish(d, p) /\ p \in {"idle", "emailed"}
      /\ sent' = [a \in Writer |-> IF a \in batch[d] THEN sent[a] \cup {at[d]} ELSE sent[a]]
      /\ aborts' = aborts /\ outcome' = outcome /\ dispatches' = dispatches
  BY DEF CommitBatch
<1>2. /\ at' \in [Deliverer -> Channel \cup {"idle", "emailed"}]
      /\ batch' \in [Deliverer -> SUBSET Writer] /\ marked' \in [Deliverer -> SUBSET Writer]
      /\ at'[d] \notin Channel /\ batch'[d] = {} /\ marked'[d] = {}
      /\ \A e \in Deliverer : e # d =>
             at'[e] = at[e] /\ batch'[e] = batch[e] /\ marked'[e] = marked[e]
  BY <1>1, FinishTyped
<1>3. sent' \in [Writer -> SUBSET Channel]
  BY <1>1 DEF MailTyped
<1>4. MailTyped'
  BY <1>1, <1>2, <1>3 DEF MailTyped
<1>5. ASSUME NEW e \in Deliverer, NEW a \in batch'[e]
      PROVE  at'[e] \notin sent'[a]
  <2>1. e # d /\ a \in batch[e] /\ a \in Writer /\ a \notin batch[d]
    BY <1>2, <1>5 DEF Mail, MailTyped
  <2> QED
    BY <2>1, <1>1, <1>2 DEF Mail
<1>6. ASSUME NEW a \in Writer, NEW k \in Channel
      PROVE  outcome'[a][k] = IF k \in sent'[a] \/ \E e \in Deliverer : at'[e] = k /\ a \in marked'[e]
                                  THEN "handled" ELSE "open"
  <2>1. k \in sent'[a] <=> k \in sent[a] \/ (k = at[d] /\ a \in marked[d])
    BY <1>1
  <2>2. (\E e \in Deliverer : at[e] = k /\ a \in marked[e])
          <=> (k = at[d] /\ a \in marked[d]) \/ \E e \in Deliverer : at'[e] = k /\ a \in marked'[e]
    BY <1>2
  <2> QED
    BY <2>1, <2>2, <1>1 DEF Mail
<1>7. Mail'
  BY <1>1, <1>2, <1>5, <1>6 DEF Mail
<1> QED
  BY <1>4, <1>7

\* What a failed transaction had dispatched is open again.
LEMMA AbortKeeps ==
    ASSUME MailInv, NEW d \in Deliverer, AbortBatch(d)
    PROVE  MailInv'
<1> USE DEF MailInv
<1>1. /\ at[d] \in Channel /\ Finish(d, "idle") /\ sent' = sent
      /\ aborts' = aborts + 1 /\ aborts < MaxAborts /\ MaxAborts \in Nat
      /\ outcome' = [a \in Writer |-> [c \in Channel |->
                         IF c = at[d] /\ a \in marked[d] THEN "open" ELSE outcome[a][c]]]
      /\ dispatches' = dispatches
  BY NotificationsAssumption DEF AbortBatch, dbVars
<1>2. /\ at' \in [Deliverer -> Channel \cup {"idle", "emailed"}]
      /\ batch' \in [Deliverer -> SUBSET Writer] /\ marked' \in [Deliverer -> SUBSET Writer]
      /\ at'[d] \notin Channel /\ batch'[d] = {} /\ marked'[d] = {}
      /\ \A e \in Deliverer : e # d =>
             at'[e] = at[e] /\ batch'[e] = batch[e] /\ marked'[e] = marked[e]
  BY <1>1, FinishTyped
<1>3. \A a \in Writer, c \in Channel :
          outcome'[a][c] = IF c = at[d] /\ a \in marked[d] THEN "open" ELSE outcome[a][c]
  BY <1>1
<1>4. outcome' \in [Writer -> [Channel -> Outcome]]
  BY <1>1 DEF MailTyped, Outcome
<1>5. MailTyped'
  BY <1>1, <1>2, <1>4 DEF MailTyped
<1>6. ASSUME NEW a \in Writer, NEW k \in Channel
      PROVE  outcome'[a][k] = IF k \in sent'[a] \/ \E e \in Deliverer : at'[e] = k /\ a \in marked'[e]
                                  THEN "handled" ELSE "open"
  <2>1. CASE k = at[d] /\ a \in marked[d]
    <3>1. k \notin sent[a] /\ \A e \in Deliverer : e # d => a \notin marked[e]
      BY <2>1 DEF Mail, MailTyped
    <3>2. outcome'[a][k] = "open"
      BY <2>1, <1>3 DEF Mail
    <3> QED
      BY <3>1, <3>2, <1>1, <1>2
  <2>2. CASE ~(k = at[d] /\ a \in marked[d])
    <3>1. (\E e \in Deliverer : at'[e] = k /\ a \in marked'[e])
            <=> \E e \in Deliverer : at[e] = k /\ a \in marked[e]
      BY <2>2, <1>2
    <3> QED
      BY <2>2, <3>1, <1>1, <1>3 DEF Mail
  <2> QED
    BY <2>1, <2>2
<1>8. ASSUME NEW a \in Writer, NEW k \in Channel
      PROVE  dispatches'[a][k] <= aborts' + (IF outcome'[a][k] = "handled" THEN 1 ELSE 0)
  <2>1. aborts \in Nat /\ dispatches[a][k] \in Nat
    BY <1>1 DEF MailTyped
  <2>2. dispatches[a][k] <= aborts + 1
    BY <2>1 DEF Mail
  <2> QED
    BY <1>1, <2>1, <2>2
<1>7. Mail'
  BY <1>1, <1>2, <1>6, <1>8 DEF Mail
<1> QED
  BY <1>5, <1>7

LEMMA MailStep ==
    ASSUME MailInv, [Next]_vars
    PROVE  MailInv'
<1>1. CASE UNCHANGED <<sent, mailVars>>
  BY <1>1 DEF mailVars, MailInv, MailTyped, Mail
<1>2. ASSUME NEW w \in Writer, Report(w) \/ Age(w)
      PROVE  UNCHANGED <<sent, mailVars>>
  BY <1>2 DEF Report, Begin, ReadRule, AddRule, FindByKey, FindEquivalent, Insert, Publish,
              Commit, Rollback, Age, dbVars
<1>3. ASSUME NEW d \in Deliverer, Deliver(d) \/ AbortBatch(d) PROVE MailInv'
  BY <1>3, SelectKeeps, SelectNoneKeeps, DispatchKeeps, CommitBatchKeeps, AbortKeeps DEF Deliver
<1>4. ASSUME Receive \/ UNCHANGED vars PROVE UNCHANGED <<sent, mailVars>>
  BY <1>4 DEF Receive, vars, dbVars
<1> QED
  BY <1>1, <1>2, <1>3, <1>4 DEF Next

-----------------------------------------------------------------------------
(***************************************************************************)
(* The theorems.                                                           *)
(***************************************************************************)

LEMMA InvInit == Init => WriterInv /\ StreamInv /\ MailInv
<1>1. Init => StreamInv
  BY NotificationsAssumption DEF Init, StreamInv, StreamTyped, NewestReachesStream
<1> QED
  BY <1>1, WriterInit, MailInit

\* TypeOK: alerts, transactions, queue and workers keep their types; the queue of a
\* subscriber keeps its limit; an alert is pending while its transaction is active.
THEOREM TypeCorrect == Spec => []TypeOK
<1>1. WriterInv /\ StreamInv /\ MailInv => TypeOK
  BY TypeParts DEF WriterInv, StreamInv, MailInv
<1>2. WriterInv /\ StreamInv /\ MailInv /\ [Next]_vars => WriterInv' /\ StreamInv' /\ MailInv'
  BY WriterStep, StreamStep, MailStep
<1> QED
  BY <1>1, <1>2, InvInit, PTL DEF Spec

\* SameEventOnce: two stored alerts of one event come from transactions that
\* overlapped, or, for syncs, from reports more than 30 minutes apart.
THEOREM EventStoredOnce == Spec => []SameEventOnce
<1>1. WriterInv => SameEventOnce
  BY DEF WriterInv, Apart, Late, SameEvent, Excused, SameEventOnce
<1>2. WriterInv /\ [Next]_vars => WriterInv'
  BY WriterStep
<1> QED
  BY <1>1, <1>2, InvInit, PTL DEF Spec

\* ReportedIsStored: the alert a finished caller was given is stored, also when it is
\* the alert of another transaction.
THEOREM AnswerIsStored == Spec => []ReportedIsStored
<1>1. WriterInv => ReportedIsStored
  BY DEF WriterInv, Shape, Given, ReportedIsStored
<1>2. WriterInv /\ [Next]_vars => WriterInv'
  BY WriterStep
<1> QED
  BY <1>1, <1>2, InvInit, PTL DEF Spec

\* NewestReachesStream: however slow the subscriber, the event published last is in
\* its queue until it is received.
THEOREM NewestStays == Spec => []NewestReachesStream
<1>1. StreamInv => NewestReachesStream
  BY DEF StreamInv
<1>2. StreamInv /\ [Next]_vars => StreamInv'
  BY StreamStep
<1> QED
  BY <1>1, <1>2, InvInit, PTL DEF Spec

\* SendsBoundedByAborts: any number of workers send an alert once on a channel, and
\* once more for each delivery transaction that failed.
THEOREM SendsAreBounded == Spec => []SendsBoundedByAborts
<1>1. MailInv => SendsBoundedByAborts
  <2> SUFFICES ASSUME MailInv, NEW a \in Writer, NEW c \in Channel
               PROVE  dispatches[a][c] <= 1 + aborts
    BY DEF SendsBoundedByAborts
  <2>1. aborts \in Nat /\ dispatches[a][c] \in Nat
    BY NotificationsAssumption DEF MailInv, MailTyped
  <2> QED
    BY <2>1 DEF MailInv, Mail
<1>2. MailInv /\ [Next]_vars => MailInv'
  BY MailStep
<1> QED
  BY <1>1, <1>2, InvInit, PTL DEF Spec

\* MarkedMeansDispatched: a mark that is committed stands for a dispatch whose
\* transaction did not fail.
THEOREM MarksAreTrue == Spec => []MarkedMeansDispatched
<1>1. MailInv => MarkedMeansDispatched
  BY DEF MailInv, Mail, MarkedMeansDispatched
<1>2. MailInv /\ [Next]_vars => MailInv'
  BY MailStep
<1> QED
  BY <1>1, <1>2, InvInit, PTL DEF Spec
=============================================================================
