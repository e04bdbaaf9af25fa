------------------------------- MODULE Tenancy -------------------------------
(***************************************************************************)
(* What belongs to a tenant and is not its cost data: the workspace with   *)
(* its members and invites, its key ring, and its audit trail.  The three  *)
(* share no row; one run checks them all, one of them at a time (`part`    *)
(* says which), instead of the product of their states.                    *)
(***************************************************************************)
EXTENDS Workspace, KeyRing, AuditChain

VARIABLE part

tenancyVars == <<workspaceVars, ringVars, vars, part>>

TenancyInit ==
  /\ WorkspaceInit /\ KeyRingInit /\ Init
  /\ part \in {"workspace", "ring", "trail"}

WorkspaceStep ==
  part = "workspace" /\ WorkspaceNext /\ UNCHANGED <<ringVars, vars, part>>
KeyRingStep ==
  part = "ring" /\ KeyRingNext /\ UNCHANGED <<workspaceVars, vars, part>>
TrailStep ==
  part = "trail" /\ Next /\ UNCHANGED <<workspaceVars, ringVars, part>>

TenancyNext == WorkspaceStep \/ KeyRingStep \/ TrailStep

TenancySpec == TenancyInit /\ [][TenancyNext]_tenancyVars

\* The type invariants of the three parts.
TenancyTypeOK == WorkspaceTypeOK /\ KeyRingTypeOK /\ TypeOK
=============================================================================
