---------------------------- MODULE ExecutionPlans ----------------------------
(***************************************************************************)
(* Execution plans (intel/execution_plan_service.py): prepared, reviewed,  *)
(* scheduled, handed off to an experiment whose result is followed and     *)
(* recorded for the calibration of the decision engine.                    *)
(*                                                                         *)
(* A plan has its status in a column and again in its JSON payload; every  *)
(* request reads the row, builds the whole payload anew and writes it.     *)
(***************************************************************************)
EXTENDS Integers, FiniteSets

CONSTANTS
  Plan,         \* execution plan rows (bound)
  Trial,        \* experiments created by hand-offs (bound)
  Caller,       \* requests served at the same time
  None,         \* no plan, no experiment, no request, nothing tracked
  MaxTurns      \* bound on the changes of an experiment's derived state

PlanStatus == {"review_required", "blocked", "approved", "rejected", "scheduled"}
Tracked == {"running", "completed", "failed"}

\* A stored plan, an experiment, and a request with the row it read.
PlanRow == [gated : BOOLEAN, status : PlanStatus, shown : PlanStatus,
            lab : Trial \cup {None}, tracked : Tracked \cup {None}]

TrialRow == [plan : Plan, status : {"running", "concluded", "cancelled"}, good : BOOLEAN]

PlanCall ==
  [op : {"restate"}, plan : Plan, read : PlanRow, arg : PlanStatus, alone : BOOLEAN]
  \cup [op : {"handoff"}, plan : Plan, read : PlanRow, arg : Trial, alone : BOOLEAN]
  \cup [op : {"sync"}, plan : Plan, read : PlanRow, arg : Tracked, alone : BOOLEAN]

ASSUME PlansAssumption ==
  /\ None \notin Plan \cup Trial \cup Tracked
  /\ None \notin PlanRow /\ None \notin TrialRow /\ None \notin PlanCall
  /\ MaxTurns \in Nat

VARIABLES
  plan,         \* plan[p]: status column, and status, experiment and tracked state
                \* of the payload
  trial,        \* trial[x]: the plan x was created for, its status and outcome
  caller,       \* caller[c]: the request c serves, with the row it read, and `alone`
                \* while nobody else has changed that row
  contested,    \* plans written by a request that had read an older row (history)
  recorded,     \* recorded[p]: results of p recorded for calibration (history)
  turns         \* turns[x]: changes of x's derived state (history)

planVars == <<plan, trial, caller, contested, recorded, turns>>

\* _ALLOWED_STATUS_TRANSITIONS.
AllowedReview ==
  [review_required |-> {"approved", "rejected"},
   blocked   |-> {"rejected"},
   approved  |-> {},
   rejected  |-> {},
   scheduled |-> {}]

\* _derive_execution_state.
Derive(t) ==
  CASE t.status = "cancelled" -> "failed"
    [] t.status = "concluded" -> IF t.good THEN "completed" ELSE "failed"
    [] OTHER -> "running"

PlansInit ==
  /\ plan = [p \in Plan |-> None]
  /\ trial = [x \in Trial |-> None]
  /\ caller = [c \in Caller |-> None]
  /\ contested = {}
  /\ recorded = [p \in Plan |-> 0]
  /\ turns = [x \in Trial |-> 0]

\* prepare_plan: gates decide whether the plan can be reviewed at all.
PreparePlan(p, gated) ==
  /\ plan[p] = None
  /\ LET s == IF gated THEN "blocked" ELSE "review_required" IN
       plan' = [plan EXCEPT ![p] = [gated |-> gated, status |-> s, shown |-> s,
                                    lab |-> None, tracked |-> None]]
  /\ UNCHANGED <<trial, caller, contested, recorded, turns>>

----------------------------------------------------------------------------
(***************************************************************************)
(* The requests: each reads the row and decides in its Begin, and writes   *)
(* in its Commit what it made of what it read.                             *)
(***************************************************************************)
Call(c, p, op, arg) ==
  /\ caller[c] = None
  /\ caller' = [caller EXCEPT ![c] = [op |-> op, plan |-> p, read |-> plan[p], arg |-> arg,
                                      alone |-> TRUE]]
  /\ UNCHANGED <<plan, trial, contested, recorded, turns>>

Calling(c, op) == caller[c] # None /\ caller[c].op = op

\* The row becomes `new`, whoever wrote it since it was read, and whoever has it
\* in hand is overtaken.
Write(c, new) ==
  LET p == caller[c].plan IN
    /\ plan' = [plan EXCEPT ![p] = new]
    /\ contested' = IF caller[c].alone THEN contested ELSE contested \cup {p}
    /\ caller' = [d \in Caller |->
         CASE d = c -> None
           [] d # c /\ caller[d] # None /\ caller[d].plan = p /\ new # plan[p] ->
                [caller[d] EXCEPT !.alone = FALSE]
           [] OTHER -> caller[d]]

\* update_plan_status.
ReviewBegin(c, p, to) ==
  /\ plan[p] # None
  /\ to \in AllowedReview[plan[p].status]
  /\ Call(c, p, "restate", to)

\* schedule_plan.
ScheduleBegin(c, p) ==
  /\ plan[p] # None
  /\ plan[p].status = "approved"
  /\ Call(c, p, "restate", "scheduled")

\* A review or a schedule writes the column and the payload.
RestateCommit(c) ==
  /\ Calling(c, "restate")
  /\ Write(c, [caller[c].read EXCEPT !.status = caller[c].arg, !.shown = caller[c].arg])
  /\ UNCHANGED <<trial, recorded, turns>>

\* Fault: a plan that was handed off can be handed off again.
HandOffBeginAgain(c, p, x) ==
  /\ plan[p] # None /\ trial[x] = None
  /\ plan[p].status \in {"approved", "scheduled"}
  /\ \A d \in Caller : Calling(d, "handoff") => caller[d].arg # x
  /\ Call(c, p, "handoff", x)

\* create_pulselab_handoff, for a plan whose payload names no experiment.
HandOffBegin(c, p, x) ==
  /\ plan[p] # None /\ trial[x] = None
  /\ plan[p].status \in {"approved", "scheduled"}
  /\ plan[p].lab = None
  /\ \A d \in Caller : Calling(d, "handoff") => caller[d].arg # x
  /\ Call(c, p, "handoff", x)

\* Fault: the payload names the plan in the place of the experiment.
HandOffCommitSwapped(c) ==
  /\ Calling(c, "handoff")
  /\ LET p == caller[c].plan  x == caller[c].arg IN
       /\ trial' = [trial EXCEPT ![x] = [plan |-> p, status |-> "running", good |-> FALSE]]
       /\ Write(c, [caller[c].read EXCEPT !.lab = p, !.status = plan[p].status])
  /\ UNCHANGED <<recorded, turns>>

\* The experiment and the payload that names it; the status column is left alone.
HandOffCommit(c) ==
  /\ Calling(c, "handoff")
  /\ LET p == caller[c].plan  x == caller[c].arg IN
       /\ trial' = [trial EXCEPT ![x] = [plan |-> p, status |-> "running", good |-> FALSE]]
       /\ Write(c, [caller[c].read EXCEPT !.lab = x, !.status = plan[p].status])
  /\ UNCHANGED <<recorded, turns>>

\* get_execution_status reads the plan and its experiment.  Experiments are never
\* deleted one by one, so that the answer 404 for one that is gone is left out; it
\* would change nothing.
SyncBegin(c, p) ==
  /\ plan[p] # None
  /\ plan[p].lab # None
  /\ Call(c, p, "sync", Derive(trial[plan[p].lab]))

\* Fault: a result is recorded whenever there is one.
SyncCommitEveryTime(c) ==
  /\ Calling(c, "sync")
  /\ LET p == caller[c].plan  seen == caller[c].arg IN
       /\ Write(c, [caller[c].read EXCEPT !.tracked = seen, !.status = plan[p].status])
       /\ recorded' = IF seen \in {"completed", "failed"}
                      THEN [recorded EXCEPT ![p] = @ + 1] ELSE recorded
  /\ UNCHANGED <<trial, turns>>

\* _sync_execution_tracking: a changed state is tracked, and its result recorded.
SyncCommit(c) ==
  /\ Calling(c, "sync")
  /\ LET p == caller[c].plan  seen == caller[c].arg IN
       /\ Write(c, [caller[c].read EXCEPT !.tracked = seen, !.status = plan[p].status])
       /\ recorded' = IF seen # caller[c].read.tracked /\ seen \in {"completed", "failed"}
                      THEN [recorded EXCEPT ![p] = @ + 1] ELSE recorded
  /\ UNCHANGED <<trial, turns>>

\* The request fails and is rolled back, the experiment of a hand-off with it.
CallFails(c) ==
  /\ caller[c] # None
  /\ caller' = [caller EXCEPT ![c] = None]
  /\ UNCHANGED <<plan, trial, contested, recorded, turns>>

----------------------------------------------------------------------------
\* The experiment becomes t, through its own endpoints.
Turn(x, t) ==
  /\ trial' = [trial EXCEPT ![x] = t]
  /\ turns' = IF Derive(t) = Derive(trial[x]) THEN turns ELSE [turns EXCEPT ![x] = @ + 1]
  /\ turns'[x] <= MaxTurns
  /\ UNCHANGED <<plan, caller, contested, recorded>>

\* A transition of the experiment to its end.
TrialEnds(x, to) ==
  /\ trial[x] # None
  /\ trial[x].status = "running"
  /\ Turn(x, [trial[x] EXCEPT !.status = to])

\* An update of its outcome, which any status allows: `good` is improved or
\* inconclusive.
TrialJudged(x) ==
  /\ trial[x] # None
  /\ Turn(x, [trial[x] EXCEPT !.good = ~@])

PlansNext ==
  \/ \E p \in Plan, gated \in BOOLEAN : PreparePlan(p, gated)
  \/ \E c \in Caller, p \in Plan, to \in PlanStatus : ReviewBegin(c, p, to)
  \/ \E c \in Caller, p \in Plan : ScheduleBegin(c, p) \/ SyncBegin(c, p)
  \/ \E c \in Caller, p \in Plan, x \in Trial : HandOffBegin(c, p, x)
  \/ \E c \in Caller : RestateCommit(c) \/ HandOffCommit(c) \/ SyncCommit(c) \/ CallFails(c)
  \/ \E x \in Trial, to \in {"concluded", "cancelled"} : TrialEnds(x, to)
  \/ \E x \in Trial : TrialJudged(x)

PlansSpec == PlansInit /\ [][PlansNext]_planVars

----------------------------------------------------------------------------
\* Every variable has its type.
PlansTypeOK ==
  /\ plan \in [Plan -> PlanRow \cup {None}]
  /\ trial \in [Trial -> TrialRow \cup {None}]
  /\ caller \in [Caller -> PlanCall \cup {None}]
  /\ contested \subseteq Plan
  /\ recorded \in [Plan -> Nat]
  /\ turns \in [Trial -> 0 .. MaxTurns]

\* The experiments handed off for p.
HandedOff(p) == {x \in Trial : trial[x] # None /\ trial[x].plan = p}

\* A plan tells one story: its payload shows the status of its row, and it was
\* handed off at most once, approved, to the experiment it names, unless a
\* request overwrote what another had written since it read the row.  A plan
\* that the gates blocked is never approved and never handed off, whatever
\* overlaps.
PlanIsConsistent ==
  \A p \in Plan :
    plan[p] # None =>
      /\ p \notin contested =>
           /\ plan[p].shown = plan[p].status
           /\ HandedOff(p) = {plan[p].lab} \ {None}
           /\ plan[p].lab # None => plan[p].status \in {"approved", "scheduled"}
      /\ plan[p].gated =>
           plan[p].status \in {"blocked", "rejected"} /\ HandedOff(p) = {}

\* However often its execution status is asked for, a plan records at most one
\* result for each time its experiment's derived state changed, unless two
\* requests overlapped.
CountedOncePerChange ==
  \A p \in Plan :
    plan[p] # None /\ p \notin contested =>
      recorded[p] <= IF plan[p].lab = None THEN 0 ELSE turns[plan[p].lab]

=============================================================================
