------------------------------ MODULE Workspace ------------------------------
(***************************************************************************)
(* One workspace: its lifecycle (workspaces/router.py and the platform     *)
(* administration's force_* operations), its invites (invites/service.py)  *)
(* and its members (auth/service.py).                                      *)
(*                                                                         *)
(* Every request is one transaction in two steps.  Begin reads the rows    *)
(* and takes every early return of the handler; Commit writes what the     *)
(* handler assigned, without looking again: no row is locked and none has  *)
(* a version.  Only the unique e-mail of an account is checked by the      *)
(* database, and a request that meets it fails as a whole.                 *)
(***************************************************************************)
EXTENDS Integers, FiniteSets

CONSTANTS
  Request,      \* requests served at the same time
  Email,        \* addresses
  Member,       \* account rows (bound)
  Invite,       \* invite rows (bound)
  Owner,        \* the account that registered the workspace
  OwnerEmail,   \* and its address
  Nobody,       \* the address of an account that is free or anonymised
  Quota         \* Organization.member_quota

ASSUME WorkspaceAssumption ==
  /\ Owner \in Member /\ OwnerEmail \in Email /\ Nobody \notin Email
  /\ Quota \in Nat \ {0} /\ IsFiniteSet(Request) /\ Request # {}

VARIABLES
  lifecycle,    \* Organization.lifecycle_state
  email,        \* email[m]: the address of account m
  isActive,     \* the accounts with is_active
  invite,       \* invite[i]: [status, to] of invite i
  late,         \* the pending invites whose expires_at has passed
  request,      \* request[r]: the transaction r runs
  overlapped    \* the requests that work on a row another one changed since
                \* they read it (history)

workspaceVars == <<lifecycle, email, isActive, invite, late, request, overlapped>>

Status == {"none", "pending", "accepted", "revoked", "expired"}
Lifecycle == {"active", "suspended", "archived"}

\* What a request is about to write: `rows` are the rows it read and will
\* overwrite, `to` the address it creates an account or an invite for.
Op == {"suspend", "restore", "archive", "invite", "accept", "expire", "revoke",
       "create", "deactivate", "erase"}
Row == {"org"} \cup Invite \cup Member
NoRequest == [op |-> "none", rows |-> {}, to |-> Nobody]
Work == [op : Op, rows : SUBSET Row, to : Email \cup {Nobody}]

WorkspaceInit ==
  /\ lifecycle = "active"
  /\ email = [m \in Member |-> IF m = Owner THEN OwnerEmail ELSE Nobody]
  /\ isActive = {Owner}
  /\ invite = [i \in Invite |-> [status |-> "none", to |-> Nobody]]
  /\ late = {}
  /\ request = [r \in Request |-> NoRequest]
  /\ overlapped = {}

----------------------------------------------------------------------------
(***************************************************************************)
(* The shape of a transaction.                                             *)
(***************************************************************************)

Begin(r, op, rows, to) ==
  /\ request[r] = NoRequest
  /\ request' = [request EXCEPT ![r] = [op |-> op, rows |-> rows, to |-> to]]
  /\ UNCHANGED <<lifecycle, email, isActive, invite, late, overlapped>>

\* The request ends; those that hold a row it wrote go on with an old copy.
End(r, written) ==
  /\ request' = [request EXCEPT ![r] = NoRequest]
  /\ overlapped' = (overlapped \ {r}) \cup
       {q \in Request \ {r} : request[q].rows \cap written # {}}

Fail(r) ==
  /\ End(r, {})
  /\ UNCHANGED <<lifecycle, email, isActive, invite, late>>

Doing(r, op) == request[r].op = op

\* get_current_user: the members of a workspace that is not active are refused.
\* Whoever is active may be its administrator.
MemberRequest == lifecycle = "active" /\ isActive # {}

HasAccount(e) == \E m \in Member : email[m] = e

\* A row no account and no transaction uses.
FreeMember(m) == email[m] = Nobody /\ \A r \in Request : m \notin request[r].rows

AddAccount(e) ==
  \E m \in Member :
    /\ FreeMember(m)
    /\ email' = [email EXCEPT ![m] = e]
    /\ isActive' = isActive \cup {m}

----------------------------------------------------------------------------
(***************************************************************************)
(* Lifecycle.                                                              *)
(***************************************************************************)

\* force_suspend, which refuses the other two states, and update_workspace_status
\* by an administrator of the workspace, who is let in while it is active only.  A
\* platform administrator with a workspace is let in always and may use the other
\* rows of _ALLOWED_TRANSITIONS too: these are RestoreBegin and ArchiveBegin.
SuspendBegin(r) ==
  /\ lifecycle = "active"
  /\ Begin(r, "suspend", {"org"}, Nobody)

\* Fault: force_restore forgets that archived workspaces stay archived.
RestoreBeginAnyway(r) ==
  /\ lifecycle # "active"
  /\ Begin(r, "restore", {"org"}, Nobody)

\* force_restore.
RestoreBegin(r) ==
  /\ lifecycle = "suspended"
  /\ Begin(r, "restore", {"org"}, Nobody)

\* force_archive.
ArchiveBegin(r) ==
  /\ lifecycle # "archived"
  /\ Begin(r, "archive", {"org"}, Nobody)

Target == [suspend |-> "suspended", restore |-> "active", archive |-> "archived"]

LifecycleCommit(r) ==
  /\ request[r].op \in DOMAIN Target
  /\ lifecycle' = Target[request[r].op]
  /\ End(r, {"org"})
  /\ UNCHANGED <<email, isActive, invite, late>>

----------------------------------------------------------------------------
(***************************************************************************)
(* Invites.                                                                *)
(***************************************************************************)

Pending == {i \in Invite : invite[i].status = "pending"}

HasRoom == Cardinality(isActive) < Quota

SetStatus(rows, status) ==
  /\ invite' = [i \in Invite |->
       IF i \in rows THEN [invite[i] EXCEPT !.status = status] ELSE invite[i]]
  /\ late' = late \ rows

\* create_invite: below the quota and without a pending invite for the address,
\* an expired one that nobody has looked at since included.
InviteBegin(r, e) ==
  /\ MemberRequest
  /\ HasRoom
  /\ ~\E i \in Pending : invite[i].to = e
  /\ Begin(r, "invite", {}, e)

InviteCommit(r) ==
  /\ Doing(r, "invite")
  /\ \E i \in Invite :
       /\ invite[i].status = "none"
       /\ invite' = [invite EXCEPT ![i] = [status |-> "pending", to |-> request[r].to]]
  /\ End(r, {})
  /\ UNCHANGED <<lifecycle, email, isActive, late>>

\* The time of an invite passes.
Expire(i) ==
  /\ i \in Pending \ late
  /\ late' = late \cup {i}
  /\ UNCHANGED <<lifecycle, email, isActive, invite, request, overlapped>>

\* Fault: the quota is checked by create_invite only.
AcceptBeginUnlimited(r, i) ==
  /\ i \in Pending \ late
  /\ ~HasAccount(invite[i].to)
  /\ Begin(r, "accept", {i}, invite[i].to)

\* accept_invite: by whoever holds the token, in every lifecycle state.  The
\* expiry get_by_token marks on the way is rolled back by the 409 that follows.
AcceptBegin(r, i) ==
  /\ i \in Pending \ late
  /\ HasRoom
  /\ ~HasAccount(invite[i].to)
  /\ Begin(r, "accept", {i}, invite[i].to)

AcceptCommit(r) ==
  /\ Doing(r, "accept")
  /\ ~HasAccount(request[r].to)
  /\ AddAccount(request[r].to)
  /\ SetStatus(request[r].rows, "accepted")
  /\ End(r, request[r].rows)
  /\ UNCHANGED lifecycle

\* list_invites marks every invite past its time, preview_invite the one it
\* shows; both commit.
ExpiryBegin(r) ==
  \E rows \in SUBSET late :
    /\ rows # {}
    /\ Cardinality(rows) = 1 \/ (MemberRequest /\ rows = late)
    /\ Begin(r, "expire", rows, Nobody)

ExpiryCommit(r) ==
  /\ Doing(r, "expire")
  /\ SetStatus(request[r].rows, "expired")
  /\ End(r, request[r].rows)
  /\ UNCHANGED <<lifecycle, email, isActive>>

\* revoke_invite.
RevokeBegin(r, i) ==
  /\ MemberRequest
  /\ i \in Pending
  /\ Begin(r, "revoke", {i}, Nobody)

RevokeCommit(r) ==
  /\ Doing(r, "revoke")
  /\ SetStatus(request[r].rows, "revoked")
  /\ End(r, request[r].rows)
  /\ UNCHANGED <<lifecycle, email, isActive>>

----------------------------------------------------------------------------
(***************************************************************************)
(* Members.                                                                *)
(***************************************************************************)

\* create_user, the account an administrator opens.
CreateUserBegin(r, e) ==
  /\ MemberRequest
  /\ HasRoom
  /\ Begin(r, "create", {}, e)

CreateUserCommit(r) ==
  /\ Doing(r, "create")
  /\ ~HasAccount(request[r].to)
  /\ AddAccount(request[r].to)
  /\ End(r, {})
  /\ UNCHANGED <<lifecycle, invite, late>>

\* The address was taken: the unique constraint fails the request.
AddressTaken(r) ==
  /\ request[r].op \in {"accept", "create"}
  /\ HasAccount(request[r].to)
  /\ Fail(r)

\* admin_deactivate_user: the account keeps its address.
DeactivateBegin(r, m) ==
  /\ m \in isActive
  /\ Begin(r, "deactivate", {m}, Nobody)

DeactivateCommit(r) ==
  /\ Doing(r, "deactivate")
  /\ isActive' = isActive \ request[r].rows
  /\ End(r, request[r].rows)
  /\ UNCHANGED <<lifecycle, email, invite, late>>

\* Fault: the anonymised account stays active.
EraseCommitKeepsActive(r) ==
  /\ Doing(r, "erase")
  /\ email' = [m \in Member |-> IF m \in request[r].rows THEN Nobody ELSE email[m]]
  /\ UNCHANGED isActive
  /\ End(r, request[r].rows)
  /\ UNCHANGED <<lifecycle, invite, late>>

\* admin_delete_user (of an active account) and lgpd_purge_user (of any): the
\* address is anonymised and can be used again.
EraseBegin(r, m) ==
  /\ email[m] # Nobody
  /\ Begin(r, "erase", {m}, Nobody)

EraseCommit(r) ==
  /\ Doing(r, "erase")
  /\ email' = [m \in Member |-> IF m \in request[r].rows THEN Nobody ELSE email[m]]
  /\ isActive' = isActive \ request[r].rows
  /\ End(r, request[r].rows)
  /\ UNCHANGED <<lifecycle, invite, late>>

----------------------------------------------------------------------------
WorkspaceNext ==
  \/ \E r \in Request : SuspendBegin(r)
  \/ \E r \in Request : RestoreBegin(r)
  \/ \E r \in Request : ArchiveBegin(r)
  \/ \E r \in Request : LifecycleCommit(r)
  \/ \E r \in Request, e \in Email : InviteBegin(r, e)
  \/ \E r \in Request : InviteCommit(r)
  \/ \E i \in Invite : Expire(i)
  \/ \E r \in Request, i \in Invite : AcceptBegin(r, i)
  \/ \E r \in Request : AcceptCommit(r)
  \/ \E r \in Request : ExpiryBegin(r)
  \/ \E r \in Request : ExpiryCommit(r)
  \/ \E r \in Request, i \in Invite : RevokeBegin(r, i)
  \/ \E r \in Request : RevokeCommit(r)
  \/ \E r \in Request, e \in Email : CreateUserBegin(r, e)
  \/ \E r \in Request : CreateUserCommit(r)
  \/ \E r \in Request : AddressTaken(r)
  \/ \E r \in Request, m \in Member : DeactivateBegin(r, m)
  \/ \E r \in Request : DeactivateCommit(r)
  \/ \E r \in Request, m \in Member : EraseBegin(r, m)
  \/ \E r \in Request : EraseCommit(r)

WorkspaceSpec == WorkspaceInit /\ [][WorkspaceNext]_workspaceVars

----------------------------------------------------------------------------
(***************************************************************************)
(* Properties.                                                             *)
(***************************************************************************)

\* Every variable has its type, and no two accounts share an address.
WorkspaceTypeOK ==
  /\ lifecycle \in Lifecycle
  /\ email \in [Member -> Email \cup {Nobody}]
  /\ \A m, n \in Member : email[m] = email[n] /\ email[m] # Nobody => m = n
  /\ isActive \subseteq {m \in Member : email[m] # Nobody}
  /\ invite \in [Invite -> [status : Status, to : Email \cup {Nobody}]]
  /\ late \subseteq Pending
  /\ request \in [Request -> Work \cup {NoRequest}]
  /\ overlapped \subseteq Request

\* The quota is checked against what the request has read, so requests that
\* overlap exceed it, but never by more than their own number less one, however
\* long this goes on.
WithinQuota == Cardinality(isActive) < Quota + Cardinality(Request)

\* What is final stays final, except under a request that had read the row
\* before: an archived workspace is not brought back ("ARCHIVED -> (terminal,
\* no transitions)"), and an invite that was accepted, revoked or expired does
\* not change again.
FinalOnlyLostByOverlap ==
  [][ \A r \in Request :
        (request[r] # NoRequest /\ request'[r] = NoRequest /\ r \notin overlapped) =>
          /\ lifecycle = "archived" => lifecycle' = "archived"
          /\ \A i \in Invite : invite[i].status \notin {"none", "pending"}
               => invite'[i] = invite[i]
    ]_workspaceVars

=============================================================================
