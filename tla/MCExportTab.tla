---------------------------- MODULE MCExportTab -----------------------------
(* TLC instances of ExportTab: no symmetry, the runs check liveness.       *)
EXTENDS ExportTab
=============================================================================
