-------------------------- MODULE MCEditorHistory --------------------------
(* TLC instances of EditorHistory.                                         *)
EXTENDS EditorHistory, TLC

\* Nodes are interchangeable; tabs are not, their clientIDs are compared.
HistorySymmetry == Permutations(Nodes)
=============================================================================
