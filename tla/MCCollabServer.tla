--------------------------- MODULE MCCollabServer ---------------------------
(* TLC instances of CollabServer.                                          *)
EXTENDS CollabServer, TLC

\* Edits, call slots and tabs are interchangeable.
ServerSymmetry ==
  Permutations(Edits) \cup Permutations(Calls) \cup Permutations(Clients)
=============================================================================
