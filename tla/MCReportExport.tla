--------------------------- MODULE MCReportExport ---------------------------
(* Two loops: the one of the API process and the one of the worker process. *)
EXTENDS ReportExport, TLC

CONSTANTS x1, x2, w1, w2

OneExport  == {x1}
TwoExports == {x1, x2}
TwoLoops   == {w1, w2}
=============================================================================
