----------------------------- MODULE MCSessions -----------------------------
(***************************************************************************)
(* A TLC instance of four modules about what several tabs of a browser do, *)
(* which share no state: EditorHistory, SignIn, Screens and Connection.  A *)
(* behaviour picks one of them, follows its specification and leaves the   *)
(* others where they started, so that the states of the four add up and do *)
(* not multiply.                                                           *)
(***************************************************************************)
EXTENDS EditorHistory, SignIn, Screens, Connection, TLC

VARIABLE checked  \* the module this behaviour follows

AppRests == member = {} /\ stored = 0 /\ ScreensInit
CollabRests == role = [t \in PageTabs |-> "viewer"] /\ ConnectionInit

SessionsInit ==
  /\ HistoryInit /\ SignInInit
  /\ \/ checked \in {"history", "auth"} /\ AppRests /\ CollabRests
     \/ checked = "app" /\ ScreensInit /\ CollabRests
     \/ checked = "collab" /\ AppRests /\ ConnectionInit

SessionsNext ==
  \/ /\ checked = "history" /\ HistoryNext
     /\ UNCHANGED <<checked, signInVars, screenVars, connVars>>
  \/ /\ checked = "auth" /\ SignInNext
     /\ UNCHANGED <<checked, historyVars, screenVars, connVars>>
  \/ /\ checked = "app" /\ ScreensNext
     /\ UNCHANGED <<checked, historyVars, signInVars, connVars>>
  \/ /\ checked = "collab" /\ ConnectionNext
     /\ UNCHANGED <<checked, historyVars, signInVars, screenVars>>

sessionsVars == <<checked, historyVars, signInVars, screenVars, connVars>>

SessionsSpec == SessionsInit /\ [][SessionsNext]_sessionsVars

\* One pair of values stands for the nodes, tabs, links and forms:
\* every module is symmetric in its own, and they share no state.
SessionsSymmetry == Permutations(Nodes)
=============================================================================
