----------------------------- MODULE Experiments -----------------------------
(***************************************************************************)
(* Experiments (domains/experiments): their lifecycle, and the approvals   *)
(* a risky one needs before it runs (core/policy.py).                      *)
(*                                                                         *)
(* A request is a transaction in two steps, a Begin that reads and decides *)
(* and a Commit that writes without looking again.                         *)
(***************************************************************************)
EXTENDS Integers, FiniteSets

CONSTANTS
  Experiment,   \* experiment rows (bound)
  User,         \* people of the workspace whose role and session pass the policy
  Client        \* requests served at the same time

VARIABLES
  status,       \* status[e], "absent" before the experiment is created
  risky,        \* the experiments for which is_high_risk holds
  owner,        \* owner[e]: who creates e
  approvals,    \* approvals[e]: who approved it
  client,       \* client[c]: the request c serves
  raised        \* the experiments whose risk rose after the check that let them
                \* run (history)

labVars == <<status, risky, owner, approvals, client, raised>>

\* VALID_EXPERIMENT_TRANSITIONS.
Allowed ==
  [draft      |-> {"hypothesis", "cancelled"},
   hypothesis |-> {"simulating", "cancelled"},
   simulating |-> {"approved", "draft", "cancelled"},
   approved   |-> {"running", "cancelled"},
   running    |-> {"measuring", "cancelled"},
   measuring  |-> {"concluded", "running"},
   concluded  |-> {},
   cancelled  |-> {}]

NoCall == [op |-> "none"]
Approval == [op : {"approve"}, exp : Experiment, by : User]
Transition == [op : {"transition"}, exp : Experiment, to : DOMAIN Allowed]

LabInit ==
  /\ status = [e \in Experiment |-> "absent"]
  /\ risky = {}
  /\ owner \in [Experiment -> User]
  /\ approvals = [e \in Experiment |-> {}]
  /\ client = [c \in Client |-> NoCall]
  /\ raised = {}

Serve(c, call) ==
  /\ client[c] = NoCall
  /\ client' = [client EXCEPT ![c] = call]

Finish(c) == client' = [client EXCEPT ![c] = NoCall]

\* create: no other request can know the id before it is committed.
CreateExperiment(e) ==
  /\ status[e] = "absent"
  /\ status' = [status EXCEPT ![e] = "draft"]
  /\ risky' \in {risky, risky \cup {e}}
  /\ UNCHANGED <<owner, approvals, client, raised>>

\* create_approval: anyone but the owner, in any status.
ApproveBegin(c, e, u) ==
  /\ status[e] # "absent"
  /\ u # owner[e]
  /\ Serve(c, [op |-> "approve", exp |-> e, by |-> u])
  /\ UNCHANGED <<status, risky, owner, approvals, raised>>

\* A second approval of the same person meets the unique constraint.
ApproveCommit(c) ==
  /\ client[c].op = "approve"
  /\ approvals' = [approvals EXCEPT ![client[c].exp] = @ \cup {client[c].by}]
  /\ Finish(c)
  /\ UNCHANGED <<status, risky, owner, raised>>

\* Fault: the approvals are not asked for when a measured experiment runs again.
AuthorizedFirst(e, to) ==
  to = "running" /\ e \in risky /\ status[e] = "approved" => Cardinality(approvals[e]) >= 2

\* authorize_experiment_action: two approvals before a risky experiment runs.
Authorized(e, to) == to = "running" /\ e \in risky => Cardinality(approvals[e]) >= 2

\* transition, up to its flush, with the policy check of its router.
TransitionBegin(c, e, to) ==
  /\ status[e] # "absent"
  /\ to \in Allowed[status[e]]
  /\ Authorized(e, to)
  /\ Serve(c, [op |-> "transition", exp |-> e, to |-> to])
  /\ raised' = IF to = "running" THEN raised \ {e} ELSE raised
  /\ UNCHANGED <<status, risky, owner, approvals>>

TransitionCommit(c) ==
  /\ client[c].op = "transition"
  /\ status' = [status EXCEPT ![client[c].exp] = client[c].to]
  /\ Finish(c)
  /\ UNCHANGED <<risky, owner, approvals, raised>>

\* A transition to running that was authorized and is not committed yet.
Starting(e) ==
  \E c \in Client : client[c] \in Transition /\ client[c].exp = e /\ client[c].to = "running"

\* update changes the guardrails in every status and asks no policy.
UpdateExperiment(e) ==
  /\ status[e] # "absent"
  /\ \/ risky' = risky \ {e} /\ e \in risky /\ UNCHANGED raised
     \/ /\ risky' = risky \cup {e} /\ e \notin risky
        /\ raised' = IF status[e] = "running" \/ Starting(e)
                     THEN raised \cup {e} ELSE raised
  /\ UNCHANGED <<status, owner, approvals, client>>

LabNext ==
  \/ \E e \in Experiment : CreateExperiment(e) \/ UpdateExperiment(e)
  \/ \E c \in Client, e \in Experiment, u \in User : ApproveBegin(c, e, u)
  \/ \E c \in Client, e \in Experiment, to \in DOMAIN Allowed : TransitionBegin(c, e, to)
  \/ \E c \in Client : ApproveCommit(c) \/ TransitionCommit(c)

LabSpec == LabInit /\ [][LabNext]_labVars

----------------------------------------------------------------------------
\* Every variable has its type.
LabTypeOK ==
  /\ status \in [Experiment -> DOMAIN Allowed \cup {"absent"}]
  /\ risky \subseteq Experiment
  /\ owner \in [Experiment -> User]
  /\ approvals \in [Experiment -> SUBSET User]
  /\ client \in [Client -> Approval \cup Transition \cup {NoCall}]
  /\ raised \subseteq Experiment

\* Dual approval reaches the run: a risky experiment that is running was approved
\* by two people other than its owner, unless its guardrails were loosened after
\* the check that let it run, that is while it ran already or while the checked
\* transition was not committed yet.
RunningWasApproved ==
  \A e \in risky :
    status[e] = "running" =>
      Cardinality(approvals[e] \ {owner[e]}) >= 2 \/ e \in raised

=============================================================================
