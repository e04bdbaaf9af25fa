----------------------------- MODULE MCJobQueue -----------------------------
(* Two ingestion loops and one loop for the queues behind them.             *)
EXTENDS JobQueue, TLC

CONSTANTS i1, i2, f1, a1, p1, p2

TwoLoops    == {i1, i2}
OneFollower == {f1}
OneAccount  == {a1}
OneBody     == {p1}
TwoBodies   == {p1, p2}
SameAccount == [p \in Payload |-> a1]
ScoringOnly == <<"scoring">>
Both        == <<"scoring", "carbon">>
=============================================================================
