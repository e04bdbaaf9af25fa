---------------------------- MODULE MCCostLedger ----------------------------
(***************************************************************************)
(* Model values and small windows for checking CostLedger.  One run checks *)
(* a task alone through all MaxDay days, where the query API can leave a   *)
(* gap inside a batch, and all tasks together through SharedDays of them:  *)
(* `crew` says which tasks may start.                                      *)
(***************************************************************************)
EXTENDS CostLedger, TLC

CONSTANTS
    w1, w2,
    SharedDays      \* bound: days of the month on which tasks overlap

VARIABLE crew

OneWorker  == {w1}
TwoWorkers == {w1, w2}
Manual     == {MaxLookback}

WorkerSymmetry == Permutations(TwoWorkers)

CrewInit == Init /\ crew \in {{w} : w \in Worker} \cup {Worker}

CrewNext ==
    /\ Next
    /\ \A w \in Worker \ crew : pc'[w] = "idle"
    /\ Cardinality(crew) > 1 => today' <= SharedDays
    /\ UNCHANGED crew

CrewSpec == CrewInit /\ [][CrewNext]_<<vars, crew>>
=============================================================================
