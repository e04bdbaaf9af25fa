--------------------------- MODULE Notifications ---------------------------
(***************************************************************************)
(* Alerts: the transactions that create them, the stream that announces    *)
(* them and the workers that mail them (domains/notifications/service.py,  *)
(* domains/notifications/realtime.py, workers/notification_worker.py).     *)
(*                                                                         *)
(* A writer is a transaction that reports one event; the alert it inserts  *)
(* bears its name.  Transactions are READ COMMITTED: each statement sees   *)
(* the alerts committed by then and those of its own transaction.          *)
(***************************************************************************)
EXTENDS Naturals, Sequences, FiniteSets

CONSTANTS
    Writer,     \* transactions that report an event
    Deliverer,  \* processes that run the notification worker
    Reports,    \* what the writers may report: functions from Writer to events
    Windowed,   \* signatures compared only with the last 30 minutes (syncs)
    BatchSize,
    StreamLimit, \* maxsize of a subscriber's queue
    MaxAborts    \* bound: delivery transactions that fail

NoAlert == "none"
NoSignature == "unsigned"

ASSUME NotificationsAssumption ==
    /\ NoAlert \notin Writer
    /\ \A r \in Reports : DOMAIN r = Writer /\ \A w \in Writer :
           /\ DOMAIN r[w] = {"key", "signature", "ruled", "critical", "saved"}
           /\ {r[w].ruled, r[w].critical, r[w].saved} \subseteq BOOLEAN
    /\ BatchSize \in Nat \ {0} /\ StreamLimit \in Nat \ {0} /\ MaxAborts \in Nat

Channel == {"email", "slack"}

\* An event has a logical key (organization and category included) and may have
\* a signature; `ruled` events (activity events) ask the alert rule; an event
\* that is not `saved` is reported in a session that is closed without a commit.
VARIABLES
    event,    \* what each writer reports
    pc,       \* where each writer is
    alert,    \* what each writer inserted, and whether it is committed
    result,   \* the alert each writer was given
    rule,     \* notification_alert_rules has the row of the category
    ruleBy,   \* the writer with an uncommitted insert of that row
    age,      \* 0: created in the last 30 minutes; 1: in LOOKBACK_HOURS; 2: before
    stream,   \* the queue of a subscriber
    sent,     \* email_sent_at and slack_sent_at, as committed
    at,       \* where each delivery worker is
    batch,    \* alerts each worker has selected and locked
    marked,   \* those it has flushed a mark for
    aborts,   \* delivery transactions that failed so far
    latest,   \* history: the event published last, until the subscriber has it
    overlap,  \* history: pairs of writers that were active together
    outcome,  \* history: whether each alert is handled on each channel
    dispatches \* history: how often it was sent there

dbVars     == <<alert, rule, ruleBy, age, sent>>
writerVars == <<event, pc, result, overlap>>
streamVars == <<stream, latest>>
mailVars   == <<at, batch, marked, aborts, outcome, dispatches>>
vars == <<dbVars, writerVars, streamVars, mailVars>>

Active == {w \in Writer : pc[w] \notin {"new", "done", "failed"}}

\* "handled": dispatched to the recipients it has, in a transaction that has not
\* failed.
Outcome == {"open", "handled"}

TypeOK ==
    /\ event \in Reports
    /\ pc \in [Writer -> {"new", "ruling", "adding", "keyed", "matching", "inserting",
                          "publishing", "ending", "done", "failed"}]
    /\ alert \in [Writer -> {"absent", "pending", "committed"}]
    /\ result \in [Writer -> Writer \cup {NoAlert}]
    /\ \A w \in Writer : alert[w] = "pending" <=> w \in Active /\ result[w] = w
    /\ rule \in BOOLEAN
    /\ ruleBy \in {NoAlert} \cup Writer
    /\ ruleBy # NoAlert => ruleBy \in Active
    /\ age \in [Writer -> 0..2]
    /\ stream \in Seq(Writer) /\ Len(stream) <= StreamLimit
    /\ latest \in Writer \cup {NoAlert}
    /\ sent \in [Writer -> SUBSET Channel]
    /\ at \in [Deliverer -> Channel \cup {"idle", "emailed"}]
    /\ batch \in [Deliverer -> SUBSET Writer]
    /\ marked \in [Deliverer -> SUBSET Writer]
    /\ \A d \in Deliverer : marked[d] \subseteq batch[d]
    /\ aborts \in 0..MaxAborts
    /\ overlap \subseteq SUBSET Writer
    /\ outcome \in [Writer -> [Channel -> Outcome]]
    /\ dispatches \in [Writer -> [Channel -> Nat]]

Init ==
    /\ event \in Reports
    /\ pc = [w \in Writer |-> "new"]
    /\ alert = [w \in Writer |-> "absent"]
    /\ result = [w \in Writer |-> NoAlert]
    /\ rule = FALSE /\ ruleBy = NoAlert
    /\ age = [w \in Writer |-> 0]
    /\ stream = <<>> /\ latest = NoAlert
    /\ sent = [w \in Writer |-> {}]
    /\ at = [d \in Deliverer |-> "idle"]
    /\ batch = [d \in Deliverer |-> {}]
    /\ marked = [d \in Deliverer |-> {}]
    /\ aborts = 0
    /\ overlap = {}
    /\ outcome = [w \in Writer |-> [c \in Channel |-> "open"]]
    /\ dispatches = [w \in Writer |-> [c \in Channel |-> 0]]

-----------------------------------------------------------------------------
(* Reporting an event.                                                     *)

Goto(w, place) == pc' = [pc EXCEPT ![w] = place]

\* The default rule wants critical events only.
PassesRule(w) == event[w].critical

\* The statement of w is answered with an alert that exists already.
Return(w, a) ==
    /\ result' = [result EXCEPT ![w] = a]
    /\ Goto(w, "ending")

\* create_realtime_alert skips the rule.
Begin(w) ==
    /\ pc[w] = "new"
    /\ Goto(w, IF event[w].ruled THEN "ruling" ELSE "keyed")
    /\ overlap' = overlap \cup {{w, v} : v \in Active}
    /\ UNCHANGED <<dbVars, event, result, streamVars, mailVars>>

ReadRule(w) ==
    /\ pc[w] = "ruling"
    /\ Goto(w, CASE ~rule -> "adding"
                 [] rule /\ PassesRule(w) -> "keyed"
                 [] OTHER -> "ending")
    /\ UNCHANGED <<dbVars, event, result, overlap, streamVars, mailVars>>

\* The unique constraint makes a second insert of the row wait for the first
\* transaction, and fail when that one commits.
AddRule(w) ==
    /\ pc[w] = "adding" /\ ruleBy = NoAlert
    /\ IF rule THEN Goto(w, "failed") /\ UNCHANGED ruleBy
               ELSE Goto(w, IF PassesRule(w) THEN "keyed" ELSE "ending") /\ ruleBy' = w
    /\ UNCHANGED <<alert, rule, age, sent, event, result, overlap, streamVars, mailVars>>

FindByKey(w) ==
    /\ pc[w] = "keyed"
    /\ \/ \E a \in Writer : alert[a] = "committed" /\ event[a].key = event[w].key /\ Return(w, a)
       \/ /\ \A a \in Writer : alert[a] = "committed" => event[a].key # event[w].key
          /\ Goto(w, "matching")
          /\ UNCHANGED result
    /\ UNCHANGED <<dbVars, event, overlap, streamVars, mailVars>>

\* Committed alerts that stand for the event of w.
Equivalent(w) ==
    {a \in Writer : /\ alert[a] = "committed"
                    /\ event[a].signature = event[w].signature /\ event[w].signature # NoSignature
                    /\ event[w].signature \in Windowed => age[a] = 0}

\* Mutant: the equivalent alerts are searched for without the signature.
FindNothing(w) ==
    /\ pc[w] = "matching"
    /\ Goto(w, "inserting")
    /\ UNCHANGED <<dbVars, event, result, overlap, streamVars, mailVars>>

FindEquivalent(w) ==
    /\ pc[w] = "matching"
    /\ \/ \E a \in Equivalent(w) : Return(w, a)
       \/ Equivalent(w) = {} /\ Goto(w, "inserting") /\ UNCHANGED result
    /\ UNCHANGED <<dbVars, event, overlap, streamVars, mailVars>>

\* Mutant: a conflict returns the other alert before its transaction ends.
InsertOrBorrow(w) ==
    LET same == {a \in Writer : alert[a] # "absent" /\ event[a].key = event[w].key}
    IN  /\ pc[w] = "inserting"
        /\ \/ \E a \in same : Return(w, a) /\ UNCHANGED alert
           \/ /\ same = {}
              /\ alert' = [alert EXCEPT ![w] = "pending"]
              /\ result' = [result EXCEPT ![w] = w]
              /\ Goto(w, "publishing")
        /\ UNCHANGED <<rule, ruleBy, age, sent, event, overlap, streamVars, mailVars>>

\* The unique index makes the insert wait for a transaction that has inserted
\* the same key; if that one commits, the savepoint is rolled back and its
\* alert is the answer.
Insert(w) ==
    LET same == {a \in Writer : alert[a] # "absent" /\ event[a].key = event[w].key}
    IN  /\ pc[w] = "inserting"
        /\ \A a \in same : alert[a] = "committed"
        /\ \/ \E a \in same : Return(w, a) /\ UNCHANGED alert
           \/ /\ same = {}
              /\ alert' = [alert EXCEPT ![w] = "pending"]
              /\ result' = [result EXCEPT ![w] = w]
              /\ Goto(w, "publishing")
        /\ UNCHANGED <<rule, ruleBy, age, sent, event, overlap, streamVars, mailVars>>

\* Mutant: an event for a full queue is dropped.
PublishIfRoom(w) ==
    /\ pc[w] = "publishing"
    /\ stream' = IF Len(stream) = StreamLimit THEN stream ELSE Append(stream, w)
    /\ latest' = w
    /\ Goto(w, "ending")
    /\ UNCHANGED <<dbVars, event, result, overlap, mailVars>>

\* Mutant: the queue of a subscriber has no limit.
PublishUnbounded(w) ==
    /\ pc[w] = "publishing"
    /\ stream' = Append(stream, w)
    /\ latest' = w
    /\ Goto(w, "ending")
    /\ UNCHANGED <<dbVars, event, result, overlap, mailVars>>

\* The stream hears of the alert before it is committed; a full queue drops
\* its oldest event.
Publish(w) ==
    /\ pc[w] = "publishing"
    /\ stream' = Append(IF Len(stream) = StreamLimit THEN Tail(stream) ELSE stream, w)
    /\ latest' = w
    /\ Goto(w, "ending")
    /\ UNCHANGED <<dbVars, event, result, overlap, mailVars>>

Receive ==
    /\ stream # <<>>
    /\ stream' = Tail(stream)
    /\ latest' = IF Head(stream) = latest THEN NoAlert ELSE latest
    /\ UNCHANGED <<dbVars, writerVars, mailVars>>

Commit(w) ==
    /\ pc[w] = "ending" /\ event[w].saved
    /\ alert' = IF result[w] = w THEN [alert EXCEPT ![w] = "committed"] ELSE alert
    /\ rule' = (rule \/ ruleBy = w)
    /\ ruleBy' = IF ruleBy = w THEN NoAlert ELSE ruleBy
    /\ Goto(w, "done")
    /\ UNCHANGED <<age, sent, event, result, overlap, streamVars, mailVars>>

\* The session is rolled back, or closed without a commit.
Rollback(w) ==
    /\ w \in Active
    /\ alert' = [alert EXCEPT ![w] = "absent"]
    /\ ruleBy' = IF ruleBy = w THEN NoAlert ELSE ruleBy
    /\ Goto(w, "failed")
    /\ UNCHANGED <<rule, age, sent, event, result, overlap, streamVars, mailVars>>

-----------------------------------------------------------------------------
(* Delivery: one transaction for mail, then one for Slack.                 *)

\* Mutant: the rows are selected without FOR UPDATE SKIP LOCKED.
PendingUnlocked(c) ==
    {a \in Writer : alert[a] = "committed" /\ c \notin sent[a] /\ age[a] < 2}

\* ORDER BY created_at is left out: the oldest alerts may be any.
Pending(c) ==
    {a \in Writer : /\ alert[a] = "committed" /\ c \notin sent[a] /\ age[a] < 2
                    /\ \A d \in Deliverer : a \notin batch[d]}

Select(d) ==
    /\ at[d] \in {"idle", "emailed"}
    /\ LET c == IF at[d] = "idle" THEN "email" ELSE "slack"
       IN  /\ Pending(c) # {}
           /\ \E b \in SUBSET Pending(c) :
                  /\ Cardinality(b) = IF Cardinality(Pending(c)) < BatchSize
                                          THEN Cardinality(Pending(c)) ELSE BatchSize
                  /\ batch' = [batch EXCEPT ![d] = b]
           /\ at' = [at EXCEPT ![d] = c]
    /\ UNCHANGED <<dbVars, writerVars, streamVars, marked, aborts, outcome, dispatches>>

\* Nothing to send on this channel: an empty transaction.
SelectNone(d) ==
    /\ \/ at[d] = "idle"    /\ Pending("email") = {} /\ at' = [at EXCEPT ![d] = "emailed"]
       \/ at[d] = "emailed" /\ Pending("slack") = {} /\ at' = [at EXCEPT ![d] = "idle"]
    /\ UNCHANGED <<dbVars, writerVars, streamVars, batch, marked, aborts, outcome, dispatches>>

Handle(a, c) ==
    /\ outcome' = [outcome EXCEPT ![a][c] = "handled"]
    /\ dispatches' = [dispatches EXCEPT ![a][c] = @ + 1]

\* Mutant: an alert without recipients is not marked.
DispatchToSomebody(d) ==
    /\ \E a \in batch[d] \ marked[d] :
           \/ /\ marked' = [marked EXCEPT ![d] = @ \cup {a}]
              /\ Handle(a, at[d])
              /\ UNCHANGED batch
           \/ /\ batch' = [batch EXCEPT ![d] = @ \ {a}]
              /\ UNCHANGED <<marked, outcome, dispatches>>
    /\ UNCHANGED <<dbVars, writerVars, streamVars, at, aborts>>

\* The mark is flushed, then the alert is sent to its recipients, if it has
\* any.  A refused mail is only counted.
Dispatch(d) ==
    /\ \E a \in batch[d] \ marked[d] :
           /\ marked' = [marked EXCEPT ![d] = @ \cup {a}]
           /\ Handle(a, at[d])
    /\ UNCHANGED <<dbVars, writerVars, streamVars, at, batch, aborts>>

Finish(d, next) ==
    /\ batch' = [batch EXCEPT ![d] = {}]
    /\ marked' = [marked EXCEPT ![d] = {}]
    /\ at' = [at EXCEPT ![d] = next]

\* Mutant: the marks are committed before the dispatch, as the docstring of the
\* worker has it.
CommitMarksFirst(d) ==
    /\ at[d] \in Channel /\ batch[d] # {}
    /\ sent' = [a \in Writer |-> IF a \in batch[d] THEN sent[a] \cup {at[d]} ELSE sent[a]]
    /\ Finish(d, IF at[d] = "email" THEN "emailed" ELSE "idle")
    /\ UNCHANGED <<alert, rule, ruleBy, age, writerVars, streamVars, aborts, outcome,
                   dispatches>>

CommitBatch(d) ==
    /\ at[d] \in Channel /\ marked[d] = batch[d]
    /\ sent' = [a \in Writer |-> IF a \in batch[d] THEN sent[a] \cup {at[d]} ELSE sent[a]]
    /\ Finish(d, IF at[d] = "email" THEN "emailed" ELSE "idle")
    /\ UNCHANGED <<alert, rule, ruleBy, age, writerVars, streamVars, aborts, outcome,
                   dispatches>>

\* An exception, a commit that fails or the end of the process: the marks of
\* the batch are gone, what was sent is not; the next round starts with mail.
AbortBatch(d) ==
    /\ at[d] \in Channel /\ aborts < MaxAborts
    /\ aborts' = aborts + 1
    /\ outcome' = [a \in Writer |-> [c \in Channel |->
                       IF c = at[d] /\ a \in marked[d] THEN "open" ELSE outcome[a][c]]]
    /\ Finish(d, "idle")
    /\ UNCHANGED <<dbVars, writerVars, streamVars, dispatches>>

Age(a) ==
    /\ alert[a] = "committed" /\ age[a] < 2
    /\ age' = [age EXCEPT ![a] = @ + 1]
    /\ UNCHANGED <<alert, rule, ruleBy, sent, writerVars, streamVars, mailVars>>

-----------------------------------------------------------------------------
Report(w) ==
    \/ Begin(w) \/ ReadRule(w) \/ AddRule(w) \/ FindByKey(w) \/ FindEquivalent(w)
    \/ Insert(w) \/ Publish(w) \/ Commit(w) \/ Rollback(w)

Deliver(d) == Select(d) \/ SelectNone(d) \/ Dispatch(d) \/ CommitBatch(d)

Next ==
    \/ \E w \in Writer : Report(w) \/ Age(w)
    \/ \E d \in Deliverer : Deliver(d) \/ AbortBatch(d)
    \/ Receive

\* The worker polls every 30 seconds, and a round ends.
Fairness == \A d \in Deliverer : WF_vars(Deliver(d))

Spec == Init /\ [][Next]_vars /\ Fairness

-----------------------------------------------------------------------------
\* Two stored alerts of one event come from transactions that overlapped, or,
\* for syncs, from reports more than 30 minutes apart (create_if_rule_matches).
SameEventOnce ==
    \A a, b \in Writer :
        /\ a # b /\ alert[a] = "committed" /\ alert[b] = "committed"
        /\ event[a].signature = event[b].signature /\ event[a].signature # NoSignature
        => \/ {a, b} \in overlap
           \/ event[a].signature \in Windowed /\ (age[a] > 0 \/ age[b] > 0)

\* The alert a finished caller was given is stored, also when it is the alert
\* of another transaction (the IntegrityError path of create).
ReportedIsStored ==
    \A w \in Writer : pc[w] = "done" /\ result[w] # NoAlert => alert[result[w]] = "committed"

\* "A process restart will never double-send" (notification_worker.py): no alert
\* goes out twice on a channel.
NeverDoubleSent == \A a \in Writer, c \in Channel : dispatches[a][c] <= 1

\* What the marks and SKIP LOCKED do achieve: any number of workers, however
\* often they poll, send an alert once and once more for each delivery
\* transaction that failed.
SendsBoundedByAborts ==
    \A a \in Writer, c \in Channel : dispatches[a][c] <= 1 + aborts

\* A mark that survives stands for a dispatch, or for nobody to send to: a
\* worker that dies in between leaves no mark behind.
MarkedMeansDispatched ==
    \A a \in Writer, c \in Channel :
        c \in sent[a] => outcome[a][c] # "open"

\* The event published last reaches the subscriber, however slow it is
\* (publish drops the oldest event of a full queue).
NewestReachesStream ==
    latest # NoAlert => \E i \in DOMAIN stream : stream[i] = latest

\* Every stored alert is dispatched on every channel, or gets too old for it.
\* There are finitely many reports, and marks and ages stay: to find all alerts
\* out again and again is to find each of them out in the end.
AllOut ==
    \A a \in Writer, c \in Channel :
        alert[a] = "committed" => c \in sent[a] \/ age[a] = 2

AlertsGoOut == []<>AllOut
=============================================================================
