------------------------------ MODULE MCTenancy ------------------------------
(***************************************************************************)
(* Model values, turns and symmetry for Tenancy.  The workspace has two    *)
(* turns: every kind of request on three accounts and addresses, and, with *)
(* a fourth of each, the requests that open accounts alone (`crowd` says   *)
(* which).  One part runs at a time, so that the same two values stand for *)
(* requests, rotators and writers, and two others for workspaces and       *)
(* checkpoint runs.                                                        *)
(***************************************************************************)
EXTENDS Tenancy, TLC

CONSTANTS e0, e1, e2, e3, m0, m1, m2, m3, a1, a2, b1, b2

VARIABLE crowd

Emails    == {e0, e1, e2, e3}
Members   == {m0, m1, m2, m3}
Processes == {a1, a2}
Others    == {b1, b2}
Retention == {0, 2}

Symmetry ==
  Permutations(Processes) \cup Permutations(Others) \cup Permutations({m1, m2})

CrowdInit == TenancyInit /\ crowd \in BOOLEAN /\ (crowd => part = "workspace")

OnlyOpens == \A r \in Request : request[r].op \notin {"deactivate", "erase"}
WithoutFourth == email[m3] = Nobody /\ \A r \in Request : request[r].to # e3

CrowdNext ==
  /\ TenancyNext
  /\ IF crowd THEN OnlyOpens' ELSE WithoutFourth'
  /\ UNCHANGED crowd

CrowdSpec == CrowdInit /\ [][CrowdNext]_<<tenancyVars, crowd>>
=============================================================================
