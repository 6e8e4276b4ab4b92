---------------------------- MODULE MCWorkspaces ----------------------------
(* A TLC instance of Workspaces: two requests of one user, who is a viewer *)
(* or an editor at first and may be given any role once.                   *)
EXTENDS Workspaces, TLC

CONSTANT u1

MCInitialRoles ==
  {[u \in {u1, Anonymous} |-> IF u = u1 THEN first ELSE "none"] :
     first \in {"viewer", "editor"}}

RequestSymmetry == Permutations(Requests)
=============================================================================
