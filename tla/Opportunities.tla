---------------------------- MODULE Opportunities ----------------------------
(***************************************************************************)
(* Optimization opportunities (decision_engine/service.py) and the         *)
(* initiatives that work on them (workflow/service.py).                    *)
(*                                                                         *)
(* A scoring run reads the active opportunities of an account, decides,    *)
(* and writes all it decided in one transaction at its end.  It is started *)
(* by the scoring worker, by an inline sync and by two endpoints, without  *)
(* a lock.  What a target is worth is left out: a run lists some targets.  *)
(***************************************************************************)
EXTENDS Integers, FiniteSets

CONSTANTS
  Opp,          \* opportunity rows of one account (bound)
  Target,       \* what can be optimized: a value of the dedupe key
  Scorer,       \* scoring runs at the same time
  Initiative,   \* initiative rows (bound)
  Desk,         \* requests on initiatives served at the same time
  Absent,       \* a row that does not exist, nobody at work
  MaxRuns,      \* bound on the scoring runs
  MaxPatches    \* bound on the changes of a status by hand

OppStatus == {"open", "in_progress", "resolved", "dismissed", "validated"}

\* VALID_TRANSITIONS of initiatives.
NextStatus ==
  [backlog     |-> {"planned", "cancelled"},
   planned     |-> {"in_progress", "backlog", "cancelled"},
   in_progress |-> {"review", "planned", "cancelled"},
   review      |-> {"done", "in_progress"},
   done        |-> {},
   cancelled   |-> {"backlog"}]

\* A stored opportunity, a scoring run, an initiative and a request on one.
OppRow == [target : Target, status : OppStatus, stamp : 1 .. MaxRuns]
ScoreRun == [listed : SUBSET Target, kept : SUBSET Opp, stamp : 1 .. MaxRuns,
             alone : BOOLEAN, extra : SUBSET Opp]
InitiativeRow == [opp : Opp, status : DOMAIN NextStatus]
DeskCall == [item : Initiative, to : DOMAIN NextStatus, from : Opp, write : BOOLEAN]

ASSUME OpportunitiesAssumption ==
  /\ IsFiniteSet(Opp)
  /\ Absent \notin OppRow /\ Absent \notin ScoreRun
  /\ Absent \notin InitiativeRow /\ Absent \notin DeskCall
  /\ MaxRuns \in Nat /\ MaxPatches \in Nat

VARIABLES
  opp,          \* opp[o]: its target, status and created_at
  alike,        \* TRUE if _opportunity_dedupe_key is the same for all targets, as
                \* for the savings plan and the reservations of one subscription
  scorer,       \* scorer[s]: the run s is in, with what it read
  initiative,   \* initiative[i]: its opportunity and status
  desk,         \* desk[d]: the request d serves, `write` if it changes the opportunity
  runs,         \* scoring runs started: the clock of created_at (bound)
  patches,      \* statuses changed by hand (bound)
  muddled,      \* targets that a person, or two overlapping transactions, may
                \* have given a second active opportunity (history)
  reopened      \* opportunities that were made active by hand, or by an initiative
                \* that had read them open before (history)

oppVars == <<opp, alike, scorer, initiative, desk, runs, patches, muddled, reopened>>

\* Fault: a run looks at the open ones only.
OpenOnly == {"open"}

\* active_statuses.
ActiveStatus == {"open", "in_progress", "validated"}

OppsInit ==
  /\ opp = [o \in Opp |-> Absent]
  /\ alike \in BOOLEAN
  /\ scorer = [s \in Scorer |-> Absent]
  /\ initiative = [i \in Initiative |-> Absent]
  /\ desk = [d \in Desk |-> Absent]
  /\ runs = 0
  /\ patches = 0
  /\ muddled = {}
  /\ reopened = {}

Stored == {o \in Opp : opp[o] # Absent}
Active == {o \in Stored : opp[o].status \in {"open", "in_progress", "validated"}}

\* A target is what _opportunity_dedupe_key tells apart: category, resource,
\* service, team, environment and region.  A resource that gets another tag or
\* team is another target, and its old row stays as it is.
SameKey(o, p) == alike \/ opp[o].target = opp[p].target

----------------------------------------------------------------------------
(***************************************************************************)
(* generate_opportunities_for_account.                                     *)
(***************************************************************************)

\* existing_by_key: the newest of the rows read under each key; rows of one
\* transaction have the same created_at and come in any order.
NewestOfEach(kept, found) ==
  /\ \A o \in found : \E k \in kept : SameKey(k, o) /\ opp[k].stamp >= opp[o].stamp
  /\ \A k, l \in kept : SameKey(k, l) => k = l

\* The run reads what is active and what there is to save on.
ScoreBegin(s, listed) ==
  /\ scorer[s] = Absent
  /\ runs < MaxRuns
  /\ runs' = runs + 1
  /\ LET found == {o \in Stored : opp[o].status \in ActiveStatus} IN
       \E kept \in SUBSET found :
         /\ NewestOfEach(kept, found)
         /\ scorer' = [scorer EXCEPT ![s] =
              [listed |-> listed, kept |-> kept, stamp |-> runs + 1, alone |-> TRUE,
               extra |-> {o \in found \ kept : opp[o].status = "open"}]]
  /\ UNCHANGED <<opp, alike, initiative, desk, patches, muddled, reopened>>

\* A new opportunity.
OpenRow(t, job) == [target |-> t, status |-> "open", stamp |-> job.stamp]

\* Fault: a refreshed opportunity is open again.
RowsReopened(job, new, for) ==
  [o \in Opp |->
     CASE o \in new -> OpenRow(for[o], job)
       [] o \in job.extra -> [opp[o] EXCEPT !.status = "dismissed"]
       [] o \in job.kept /\ opp[o].target \in job.listed -> [opp[o] EXCEPT !.status = "open"]
       [] OTHER -> opp[o]]

\* The rows a run leaves: those it inserts, the duplicates it dismisses, and the
\* others, whose status it keeps when it refreshes them.
Rows(job, new, for) ==
  [o \in Opp |->
     CASE o \in new -> OpenRow(for[o], job)
       [] o \in job.extra -> [opp[o] EXCEPT !.status = "dismissed"]
       [] OTHER -> opp[o]]

\* Each listed target refreshes the row kept for it or gets a new one, and the
\* duplicates that were open are dismissed.  Left out: the grouped rows of Azure
\* Advisor look for their row by the evidence stored in it, not by the key, so
\* that one may take over a row that was kept for another target.
ScoreCommit(s) ==
  /\ scorer[s] # Absent
  /\ LET job == scorer[s]
         missing == {t \in job.listed : \A k \in job.kept : opp[k].target # t}
     IN \E new \in SUBSET (Opp \ Stored), for \in [Opp \ Stored -> Target] :
          /\ Cardinality(new) = Cardinality(missing)
          /\ {for[o] : o \in new} = missing
          /\ opp' = Rows(job, new, for)
          /\ muddled' = IF job.alone THEN muddled ELSE muddled \cup missing
  /\ scorer' = [x \in Scorer |->
       IF x = s \/ scorer[x] = Absent THEN Absent ELSE [scorer[x] EXCEPT !.alone = FALSE]]
  /\ UNCHANGED <<alike, initiative, desk, runs, patches, reopened>>

\* An exception: the transaction is rolled back.
ScoreFails(s) ==
  /\ scorer[s] # Absent
  /\ scorer' = [scorer EXCEPT ![s] = Absent]
  /\ UNCHANGED <<opp, alike, initiative, desk, runs, patches, muddled, reopened>>

\* update_status: any status, whatever it was.
UpdateStatus(o, to) ==
  /\ o \in Stored
  /\ patches < MaxPatches
  /\ patches' = patches + 1
  /\ opp' = [opp EXCEPT ![o].status = to]
  /\ IF to \in {"open", "in_progress", "validated"}
     THEN /\ reopened' = reopened \cup {o}
          /\ muddled' = muddled \cup {opp[o].target}
     ELSE UNCHANGED <<reopened, muddled>>
  /\ UNCHANGED <<alike, scorer, initiative, desk, runs>>

----------------------------------------------------------------------------
(***************************************************************************)
(* Initiatives.                                                            *)
(***************************************************************************)
Sit(d, request) ==
  /\ desk[d] = Absent
  /\ desk' = [desk EXCEPT ![d] = request]
  /\ UNCHANGED <<opp, alike, scorer, initiative, runs, patches, muddled, reopened>>

Leave(d) ==
  /\ desk' = [desk EXCEPT ![d] = Absent]
  /\ UNCHANGED <<alike, scorer, runs, patches>>

\* create_initiative reads the opportunity.
InitiativeBegin(d, i, o) ==
  /\ initiative[i] = Absent /\ o \in Stored
  /\ \A c \in Desk : desk[c] # Absent => desk[c].item # i
  /\ Sit(d, [item |-> i, to |-> "backlog", from |-> o, write |-> opp[o].status = "open"])

\* An opportunity that was open is in progress now.
InitiativeCommit(d) ==
  /\ desk[d] # Absent /\ desk[d].to = "backlog" /\ initiative[desk[d].item] = Absent
  /\ LET o == desk[d].from IN
       /\ initiative' = [initiative EXCEPT ![desk[d].item] = [opp |-> o, status |-> "backlog"]]
       /\ opp' = IF desk[d].write THEN [opp EXCEPT ![o].status = "in_progress"] ELSE opp
       /\ IF desk[d].write /\ opp[o].status # "open"
          THEN reopened' = reopened \cup {o} /\ muddled' = muddled \cup {opp[o].target}
          ELSE UNCHANGED <<reopened, muddled>>
  /\ Leave(d)

\* transition_status reads and checks; done resolves the opportunity, whatever its
\* status.
MoveBegin(d, i, to) ==
  /\ initiative[i] # Absent
  /\ to \in NextStatus[initiative[i].status]
  /\ LET o == initiative[i].opp IN
       Sit(d, [item |-> i, to |-> to, from |-> o,
               write |-> to = "done" /\ opp[o].status # "resolved"])

MoveCommit(d) ==
  /\ desk[d] # Absent /\ initiative[desk[d].item] # Absent
  /\ initiative' = [initiative EXCEPT ![desk[d].item].status = desk[d].to]
  /\ opp' = IF desk[d].write THEN [opp EXCEPT ![desk[d].from].status = "resolved"] ELSE opp
  /\ UNCHANGED <<muddled, reopened>>
  /\ Leave(d)

OppsNext ==
  \/ \E s \in Scorer, listed \in SUBSET Target : ScoreBegin(s, listed)
  \/ \E s \in Scorer : ScoreCommit(s) \/ ScoreFails(s)
  \/ \E o \in Opp, to \in OppStatus : UpdateStatus(o, to)
  \/ \E d \in Desk, i \in Initiative, o \in Opp : InitiativeBegin(d, i, o)
  \/ \E d \in Desk, i \in Initiative, to \in DOMAIN NextStatus : MoveBegin(d, i, to)
  \/ \E d \in Desk : InitiativeCommit(d) \/ MoveCommit(d)

OppsSpec == OppsInit /\ [][OppsNext]_oppVars

----------------------------------------------------------------------------
\* Every variable has its type.
OppsTypeOK ==
  /\ opp \in [Opp -> OppRow \cup {Absent}]
  /\ alike \in BOOLEAN
  /\ scorer \in [Scorer -> ScoreRun \cup {Absent}]
  /\ initiative \in [Initiative -> InitiativeRow \cup {Absent}]
  /\ desk \in [Desk -> DeskCall \cup {Absent}]
  /\ runs \in 0 .. MaxRuns
  /\ patches \in 0 .. MaxPatches
  /\ muddled \subseteq Target
  /\ reopened \subseteq Opp

\* However often an account is scored and whatever becomes of its opportunities
\* in between, a target has one active opportunity, unless runs overlapped, a
\* person made another one active, or its dedupe key is that of another target.
OneActivePerTarget ==
  ~alike =>
    \A o, p \in Active : opp[o].target = opp[p].target /\ o # p => opp[o].target \in muddled

\* The opportunity of an initiative that is done is closed, whatever other
\* initiatives and scoring runs do with it, unless it was reopened by hand or by
\* an initiative that had read it open before.
DoneMeansClosed ==
  \A i \in Initiative :
    initiative[i] # Absent /\ initiative[i].status = "done"
      => initiative[i].opp \notin Active \/ initiative[i].opp \in reopened

=============================================================================
