------------------------------ MODULE MCAssets ------------------------------
(***************************************************************************)
(* A TLC instance of Assets: one page and its file, one upload and one     *)
(* reader beside the loops of the worker, a rename, one refresh of the     *)
(* exporter, an error and a crash.  The liveness of the run needs every    *)
(* state apart, so it takes no symmetry.                                   *)
(***************************************************************************)
EXTENDS Assets
=============================================================================
