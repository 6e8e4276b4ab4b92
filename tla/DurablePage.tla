---------------------------- MODULE DurablePage ----------------------------
(***************************************************************************)
(* What a durable store of one page promises to the service above it:      *)
(* saving is atomic and final, and an open returns everything saved before *)
(* it began.  An open may also see edits saved while it runs, and may be   *)
(* abandoned.                                                              *)
(***************************************************************************)
EXTENDS FiniteSets

CONSTANT Edits

VARIABLES
  saved,    \* the edits of the page that are safe
  opening,  \* an open is under way
  base,     \* what was safe when it began
  opened    \* what the last finished open returned

pageVars == <<saved, opening, base, opened>>

PageInit ==
  /\ saved = {}
  /\ opening = FALSE
  /\ base = {}
  /\ opened = {}

Save(es) ==
  /\ saved' = saved \cup es
  /\ UNCHANGED <<opening, base, opened>>

BeginOpen ==
  /\ ~opening
  /\ opening' = TRUE
  /\ base' = saved
  /\ UNCHANGED <<saved, opened>>

EndOpen ==
  /\ opening
  /\ opened' \in {es \in SUBSET saved : base \subseteq es}
  /\ opening' = FALSE
  /\ base' = {}
  /\ UNCHANGED saved

AbandonOpen ==
  /\ opening
  /\ opening' = FALSE
  /\ base' = {}
  /\ UNCHANGED <<saved, opened>>

PageNext ==
  \/ \E es \in SUBSET Edits : Save(es)
  \/ BeginOpen \/ EndOpen \/ AbandonOpen

PageSpec == PageInit /\ [][PageNext]_pageVars
=============================================================================
