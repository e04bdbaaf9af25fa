---------------------------- MODULE MCAuditChain ----------------------------
(* Two writers and two checkpoint runs for checking AuditChain.            *)
EXTENDS AuditChain

CONSTANTS t1, t2, c1, c2

TwoWriters == {t1, t2}
TwoRuns    == {c1, c2}
Retention  == {0, 2}
=============================================================================
