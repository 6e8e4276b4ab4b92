---------------------------- MODULE MCExportJobs ----------------------------
(* TLC instances of ExportJobs: no symmetry, the runs check liveness.      *)
EXTENDS ExportJobs
=============================================================================
