------------------------------ MODULE Decisions ------------------------------
(***************************************************************************)
(* How a recommendation becomes a change: the plan that is reviewed and    *)
(* handed off, the experiment that carries it out, and the keys that keep  *)
(* repeated requests from creating it twice; and the opportunities behind  *)
(* it, with the initiatives that work on them.  A plan sees no more of its *)
(* experiment than ExecutionPlans models, and nobody else shares a row:    *)
(* one run checks the four, one at a time (`side` says which), instead of  *)
(* the product of their states, and varies what one part starts with only  *)
(* when it is that part's turn.  The opportunities have two turns: scoring *)
(* runs that overlap, and initiatives that overlap.                        *)
(***************************************************************************)
EXTENDS Experiments, IdempotencyKeys, ExecutionPlans, Opportunities

VARIABLE side

decisionVars == <<labVars, keyVars, planVars, oppVars, side>>

DecisionsInit ==
  /\ LabInit /\ KeysInit /\ PlansInit /\ OppsInit
  /\ side \in {"lab", "keys", "plans", "scoring", "initiatives"}
  /\ side # "lab" => owner = CHOOSE f \in [Experiment -> User] : TRUE
  /\ side # "scoring" => ~alike

\* One request and one initiative beside the scoring runs.
OneDesk ==
  /\ \A d \in Desk : desk[d] # Absent => d = CHOOSE e \in Desk : TRUE
  /\ \A i \in Initiative : initiative[i] # Absent => i = CHOOSE j \in Initiative : TRUE

\* Initiatives on one opportunity that a run has found, and no status is changed by
\* hand.
OneOpportunity == runs <= 1 /\ patches = 0 /\ Cardinality(Stored) <= 1

LabStep == side = "lab" /\ LabNext /\ UNCHANGED <<keyVars, planVars, oppVars, side>>
KeysStep == side = "keys" /\ KeysNext /\ UNCHANGED <<labVars, planVars, oppVars, side>>
PlansStep == side = "plans" /\ PlansNext /\ UNCHANGED <<labVars, keyVars, oppVars, side>>

OppsStep ==
  /\ OppsNext
  /\ \/ side = "scoring" /\ OneDesk'
     \/ side = "initiatives" /\ OneOpportunity'
  /\ UNCHANGED <<labVars, keyVars, planVars, side>>

DecisionsSpec == DecisionsInit /\ [][LabStep \/ KeysStep \/ PlansStep \/ OppsStep]_decisionVars

\* The type invariants of the four parts.
DecisionsTypeOK == LabTypeOK /\ KeysTypeOK /\ PlansTypeOK /\ OppsTypeOK
=============================================================================
