----------------------------- MODULE MCDecisions -----------------------------
(***************************************************************************)
(* Symmetry for Decisions: among the rows and the targets of the           *)
(* opportunities, where it saves more than it costs.                       *)
(***************************************************************************)
EXTENDS Decisions, TLC

Symmetry == Permutations(Opp) \cup Permutations(Target)
=============================================================================
