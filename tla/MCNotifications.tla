-------------------------- MODULE MCNotifications --------------------------
(* Two reports: two inline syncs of different lookbacks; an inline sync and  *)
(* one in queue mode, which is never saved; an anomaly under one key or two; *)
(* two activity events, both or one of them critical.                        *)
EXTENDS Notifications, TLC

CONSTANTS r1, r2, d1, d2, k1, k2, sync, anomaly

TwoReports == {r1, r2}
TwoWorkers == {d1, d2}

Sync(k)      == [key |-> k, signature |-> sync, ruled |-> FALSE, critical |-> FALSE, saved |-> TRUE]
QueuedSync   == [Sync(k2) EXCEPT !.saved = FALSE]
Anomaly(k)   == [Sync(k) EXCEPT !.signature = anomaly]
Activity(k, critical) ==
    [Sync(k) EXCEPT !.signature = NoSignature, !.ruled = TRUE, !.critical = critical]

Pairs == { r1 :> Sync(k1)           @@ r2 :> Sync(k2),
           r1 :> Sync(k1)           @@ r2 :> QueuedSync,
           r1 :> Anomaly(k1)        @@ r2 :> Anomaly(k1),
           r1 :> Anomaly(k1)        @@ r2 :> Anomaly(k2),
           r1 :> Activity(k1, TRUE) @@ r2 :> Activity(k2, TRUE),
           r1 :> Activity(k1, TRUE) @@ r2 :> Activity(k2, FALSE) }
=============================================================================
