----------------------------- MODULE Connection -----------------------------
(***************************************************************************)
(* Connection: how a tab's editor session reaches the collab server and    *)
(* keeps reaching it (connect and its callbacks in                         *)
(* apps/web/src/editor/session.ts; the upgrade handler and the hooks of    *)
(* apps/collab/src/index.ts; collab-auth.ts; read-only-guard.ts), while    *)
(* the member's role changes, the API is away and sockets drop.            *)
(*                                                                         *)
(* The role is asked three times: by the tab before it opens a socket, by  *)
(* the collab server before it accepts the socket, and again when the      *)
(* session authenticates on it.  Only the last answer decides what the     *)
(* connection may write, only the first what the tab lets its user do.     *)
(* Awareness clocks are left out: an announcement the receiver already has *)
(* may be passed over, and is repeated later.                              *)
(***************************************************************************)
EXTENDS Integers, Sequences, SequencesExt

CONSTANTS
  PageTabs,        \* editor sessions of one page
  MaxRoleChanges,  \* bound: changes of a role
  MaxFaults,       \* bound: questions the API does not answer, documents not loaded
  MaxDrops         \* bound: sockets that drop

VARIABLES
  role,     \* tab -> its visitor's role, "none" once removed or the link is revoked
  session,  \* tab -> the variables of createEditorSession
  pre,      \* tab -> its request for the collab session: "idle", "asked" or the answer
  conn,     \* tab -> its socket as the collab server has it
  edit,     \* tab -> its last edit: "none", "local", "sent", "taken"
  present,  \* tabs whose presence the server knows
  lingers,  \* tabs of which the server still holds a dropped connection
  inbox,    \* tab -> presence messages on their way to it, <<tab, here>>
  seen,     \* tab -> tabs whose presence it shows
  since,    \* tab -> what happened to its role since it asked
  changes, faults, drops

connVars == <<role, session, pre, conn, edit, present, lingers, inbox, seen, since,
              changes, faults, drops>>
connBounds == <<changes, faults, drops>>
presenceVars == <<present, lingers, inbox, seen>>

Roles == {"editor", "viewer", "none"}

NoSession == [status |-> "idle", boot |-> FALSE, timer |-> FALSE, socket |-> "none",
              denied |-> FALSE, readOnly |-> FALSE, destroyed |-> FALSE]
NoConnection == [at |-> "none", answer |-> "none", readOnly |-> FALSE]

ConnectionInit ==
  /\ role \in [PageTabs -> {"editor", "viewer"}]
  /\ session = [t \in PageTabs |-> [NoSession EXCEPT !.readOnly = role[t] = "viewer"]]
  /\ pre = [t \in PageTabs |-> "idle"]
  /\ conn = [t \in PageTabs |-> NoConnection]
  /\ edit = [t \in PageTabs |-> "none"]
  /\ present = {} /\ lingers = {}
  /\ inbox = [t \in PageTabs |-> <<>>] /\ seen = [t \in PageTabs |-> {}]
  /\ since = [t \in PageTabs |-> [steady |-> FALSE, could |-> FALSE]]
  /\ changes = 0 /\ faults = 0 /\ drops = 0

Joined(t) == conn[t].at \in {"joined", "told"}

(***************************************************************************)
(* resolveCollabPageSession, asked through the API.                        *)
(***************************************************************************)

\* An answer is the role, "unavailable" when the API fails or is not there.
AnswersNow(t, answer) ==
  \/ answer = role[t] /\ UNCHANGED faults
  \/ answer = "unavailable" /\ faults < MaxFaults /\ faults' = faults + 1

Admitted(answer) == answer \in {"editor", "viewer"}

(***************************************************************************)
(* The session's timer, connect and its request.                           *)
(***************************************************************************)

\* scheduleReconnect.
Reconnecting(s) ==
  [s EXCEPT !.timer = IF s.destroyed \/ s.denied THEN @ ELSE TRUE]

\* The effect of PageEditorScreen connects once, the timer again; a session
\* that has a socket or is asking for one does nothing.
connect(t) ==
  LET s == session[t]
      fired == [s EXCEPT !.timer = FALSE] IN
  /\ s.status = "idle" \/ s.timer
  /\ IF s.destroyed \/ s.socket # "none" \/ s.boot
     THEN session' = [session EXCEPT ![t] = fired] /\ UNCHANGED <<pre, since>>
     ELSE /\ session' = [session EXCEPT ![t] = [fired EXCEPT
               !.status = IF s.status = "idle" THEN "connecting" ELSE "retrying",
               !.boot = TRUE, !.denied = FALSE]]
          /\ pre' = [pre EXCEPT ![t] = "asked"]
          /\ since' = [since EXCEPT ![t].steady = TRUE]
  /\ UNCHANGED <<role, conn, edit, presenceVars, connBounds>>

PreflightAnswered(t) ==
  /\ pre[t] = "asked"
  /\ \E answer \in Roles \cup {"unavailable"} :
       AnswersNow(t, answer) /\ pre' = [pre EXCEPT ![t] = answer]
  /\ UNCHANGED <<role, session, conn, edit, presenceVars, since, changes, drops>>

\* Faulty variants: a session that was left while it asked opens its socket; the mode
\* is the one the tab started with.
AfterPreflightLeft(s, answer) ==
  CASE answer = "unavailable" -> Reconnecting([s EXCEPT !.boot = FALSE, !.status = "retrying"])
    [] answer = "none" -> [s EXCEPT !.boot = FALSE, !.status = "error"]
    [] OTHER -> [s EXCEPT !.boot = FALSE, !.socket = "connecting",
                          !.readOnly = answer = "viewer"]

AfterPreflightKeepsMode(s, answer) ==
  CASE s.destroyed -> [s EXCEPT !.boot = FALSE]
    [] ~s.destroyed /\ answer = "unavailable" ->
         Reconnecting([s EXCEPT !.boot = FALSE, !.status = "retrying"])
    [] ~s.destroyed /\ answer = "none" -> [s EXCEPT !.boot = FALSE, !.status = "error"]
    [] OTHER -> [s EXCEPT !.boot = FALSE, !.socket = "connecting"]

\* The session after the answer; "connecting" is a socket that was opened.
AfterPreflight(s, answer) ==
  CASE s.destroyed -> [s EXCEPT !.boot = FALSE]
    [] ~s.destroyed /\ answer = "unavailable" ->
         Reconnecting([s EXCEPT !.boot = FALSE, !.status = "retrying"])
    [] ~s.destroyed /\ answer = "none" -> [s EXCEPT !.boot = FALSE, !.status = "error"]
    [] OTHER -> [s EXCEPT !.boot = FALSE, !.socket = "connecting",
                          !.readOnly = answer = "viewer"]

PreflightArrives(t) ==
  LET after == AfterPreflight(session[t], pre[t]) IN
  /\ pre[t] \notin {"idle", "asked"}
  /\ session' = [session EXCEPT ![t] = after]
  /\ pre' = [pre EXCEPT ![t] = "idle"]
  /\ conn' = IF after.socket = "connecting"
             THEN [conn EXCEPT ![t] = [NoConnection EXCEPT !.at = "upgrading"]] ELSE conn
  /\ UNCHANGED <<role, edit, presenceVars, since, connBounds>>

(***************************************************************************)
(* The collab server: accepting the socket, authenticating on it.          *)
(***************************************************************************)

\* A refused upgrade is to the tab a socket that closes.
Upgrade(t) ==
  /\ conn[t].at = "upgrading"
  /\ \E answer \in Roles \cup {"unavailable"} :
       /\ AnswersNow(t, answer)
       /\ conn' = [conn EXCEPT ![t] = [@ EXCEPT
               !.at = IF Admitted(answer) THEN "upgraded" ELSE "closed", !.answer = answer]]
  /\ UNCHANGED <<role, session, pre, edit, presenceVars, since, changes, drops>>

\* The open event: the tab sends its authentication message.
Opened(t) ==
  /\ conn[t].at = "upgraded" /\ session[t].socket = "connecting"
  /\ session' = [session EXCEPT ![t].socket = "open"]
  /\ conn' = [conn EXCEPT ![t].at = "authenticating"]
  /\ since' = [since EXCEPT ![t].could = role[t] = "editor"]
  /\ UNCHANGED <<role, pre, edit, presenceVars, connBounds>>

\* Faulty variant: the answer given for the upgrade is taken again.
AuthenticateAsUpgraded(t) ==
  /\ conn[t].at = "authenticating"
  /\ conn' = [conn EXCEPT ![t].at = "answered"]
  /\ UNCHANGED <<role, session, pre, edit, presenceVars, since, connBounds>>

onAuthenticate(t) ==
  /\ conn[t].at = "authenticating"
  /\ \E answer \in Roles \cup {"unavailable"} :
       /\ AnswersNow(t, answer)
       /\ conn' = [conn EXCEPT ![t] = [@ EXCEPT !.at = "answered", !.answer = answer]]
  /\ UNCHANGED <<role, session, pre, edit, presenceVars, since, changes, drops>>

\* The presence a connection starts with: that of everybody the server knows.
Known(t) == {[i \in DOMAIN s |-> <<s[i], TRUE>>] : s \in SetToSeqs(present \ {t})}

\* Any refusal, an API that is away included, is sent as permission denied; a
\* document that cannot be loaded closes the socket.
Admit(t) ==
  /\ conn[t].at = "answered"
  /\ \/ /\ Admitted(conn[t].answer)
        /\ conn' = [conn EXCEPT ![t] = [@ EXCEPT !.at = "joined",
                                                 !.readOnly = conn[t].answer = "viewer"]]
        /\ \E known \in Known(t) : inbox' = [inbox EXCEPT ![t] = known]
        /\ UNCHANGED faults
     \/ /\ Admitted(conn[t].answer)
        /\ faults < MaxFaults /\ faults' = faults + 1
        /\ conn' = [conn EXCEPT ![t].at = "closed"] /\ UNCHANGED inbox
     \/ /\ ~Admitted(conn[t].answer)
        /\ conn' = [conn EXCEPT ![t].at = "denied"] /\ UNCHANGED <<inbox, faults>>
  /\ UNCHANGED <<role, session, pre, edit, present, lingers, seen, since, changes, drops>>

(***************************************************************************)
(* Messages of the socket.                                                 *)
(***************************************************************************)

\* AUTHENTICATED, and sendInitialSync: the exchange that follows sends what
\* the server lacks.
Authenticated(t) ==
  /\ conn[t].at = "joined"
  /\ conn' = [conn EXCEPT ![t].at = "told"]
  /\ session' = [session EXCEPT ![t] = [@ EXCEPT !.socket = "authenticated",
                                                 !.status = "connected"]]
  /\ edit' = [edit EXCEPT ![t] = IF @ = "local" THEN "sent" ELSE @]
  /\ UNCHANGED <<role, pre, presenceVars, since, connBounds>>

\* The server may hold the connection for a while after the tab lost it.
Leaves(t) == lingers' = IF Joined(t) THEN lingers \cup {t} ELSE lingers

\* PERMISSION_DENIED and CLOSE: the tab closes the socket and stays away.
Denied(t) ==
  /\ conn[t].at = "denied"
  /\ session' = [session EXCEPT ![t] = [@ EXCEPT !.denied = TRUE, !.status = "error"]]
  /\ conn' = [conn EXCEPT ![t].at = "closed"]
  /\ UNCHANGED <<role, pre, edit, presenceVars, since, connBounds>>

\* commit, undo and redo: nothing in a read-only session.
commit(t) ==
  /\ session[t].status # "idle" /\ ~session[t].destroyed /\ ~session[t].readOnly
  /\ edit[t] \in {"none", "taken"}
  /\ edit' = [edit EXCEPT ![t] = IF session[t].socket = "authenticated" THEN "sent" ELSE "local"]
  /\ UNCHANGED <<role, session, pre, conn, presenceVars, since, connBounds>>

\* beforeSync with assertSyncAllowedForAccess: an update of a read-only
\* connection is an error, on which the server may close the connection; an
\* answer to the server's own question is dropped.
Sync(t) ==
  /\ conn[t].at = "told" /\ edit[t] = "sent"
  /\ \/ /\ ~conn[t].readOnly
        /\ edit' = [edit EXCEPT ![t] = "taken"]
        /\ UNCHANGED <<conn, lingers>>
     \/ /\ conn[t].readOnly
        /\ edit' = [edit EXCEPT ![t] = "local"]
        /\ \/ UNCHANGED <<conn, lingers>>
           \/ conn' = [conn EXCEPT ![t].at = "denied"] /\ Leaves(t)
  /\ UNCHANGED <<role, session, pre, present, inbox, seen, since, connBounds>>

(***************************************************************************)
(* Presence.                                                               *)
(***************************************************************************)

\* Everybody else who has joined is told.
Tells(t, here) ==
  inbox' = [x \in PageTabs |->
              IF x # t /\ Joined(x) THEN Append(inbox[x], <<t, here>>) ELSE inbox[x]]

\* With the first messages, and again while the tab is open.
Announce(t) ==
  /\ conn[t].at = "told" /\ t \notin present
  /\ present' = present \cup {t}
  /\ Tells(t, TRUE)
  /\ UNCHANGED <<role, session, pre, conn, edit, lingers, seen, since, connBounds>>

PresenceArrives(t) ==
  /\ session[t].socket = "authenticated" /\ inbox[t] # <<>>
  /\ LET x == Head(inbox[t])[1]
         here == Head(inbox[t])[2] IN
     seen' \in {[seen EXCEPT ![t] = IF here THEN @ \cup {x} ELSE @ \ {x}],
                [seen EXCEPT ![t] = IF here THEN @ ELSE @ \ {x}]}
  /\ inbox' = [inbox EXCEPT ![t] = Tail(@)]
  /\ UNCHANGED <<role, session, pre, conn, edit, present, lingers, since, connBounds>>

\* The server lets a lost connection go: whoever came with it is gone, also
\* one who is back on another.
ServerNotices(t) ==
  /\ t \in lingers
  /\ lingers' = lingers \ {t}
  /\ present' = present \ {t}
  /\ Tells(t, FALSE)
  /\ UNCHANGED <<role, session, pre, conn, edit, seen, since, connBounds>>

(***************************************************************************)
(* A socket that closes, a tab that is left, a role that changes.          *)
(***************************************************************************)

Drop(t) ==
  /\ drops < MaxDrops /\ conn[t].at \notin {"none", "closed"}
  /\ drops' = drops + 1
  /\ conn' = [conn EXCEPT ![t].at = "closed"]
  /\ Leaves(t)
  /\ UNCHANGED <<role, session, pre, edit, present, inbox, seen, since, changes, faults>>

\* What the socket carried and nobody read is lost; the document keeps it.
Abandoned(t) ==
  /\ inbox' = [inbox EXCEPT ![t] = <<>>]
  /\ edit' = [edit EXCEPT ![t] = IF @ = "sent" THEN "local" ELSE @]

\* Faulty variant: the presence of the others is not cleared.
ClosedKeepsPresence(t) ==
  LET s == [session[t] EXCEPT !.socket = "none"] IN
  /\ conn[t].at = "closed"
  /\ conn' = [conn EXCEPT ![t] = NoConnection]
  /\ session' = [session EXCEPT ![t] =
       IF s.denied THEN [s EXCEPT !.status = "error"]
       ELSE Reconnecting([s EXCEPT !.status = "retrying"])]
  /\ Abandoned(t)
  /\ UNCHANGED <<role, pre, present, lingers, seen, since, connBounds>>

\* The close event.
Closed(t) ==
  LET s == [session[t] EXCEPT !.socket = "none"] IN
  /\ conn[t].at = "closed"
  /\ conn' = [conn EXCEPT ![t] = NoConnection]
  /\ session' = [session EXCEPT ![t] =
       IF s.denied THEN [s EXCEPT !.status = "error"]
       ELSE Reconnecting([s EXCEPT !.status = "retrying"])]
  /\ seen' = [seen EXCEPT ![t] = {}]
  /\ Abandoned(t)
  /\ UNCHANGED <<role, pre, present, lingers, since, connBounds>>

\* The page is left: its socket closes with nobody to hear it.
destroy(t) ==
  /\ session[t].status # "idle" /\ ~session[t].destroyed
  /\ session' = [session EXCEPT ![t] = [@ EXCEPT !.destroyed = TRUE, !.boot = FALSE,
       !.status = "disconnected", !.timer = FALSE, !.socket = "none"]]
  /\ conn' = [conn EXCEPT ![t] = NoConnection]
  /\ seen' = [seen EXCEPT ![t] = {}]
  /\ Abandoned(t) /\ Leaves(t)
  /\ UNCHANGED <<role, pre, present, since, connBounds>>

RoleChanges(t) ==
  /\ changes < MaxRoleChanges
  /\ changes' = changes + 1
  /\ \E r \in Roles \ {role[t]} :
       /\ role' = [role EXCEPT ![t] = r]
       /\ since' = [since EXCEPT ![t] = [steady |-> FALSE, could |-> @.could \/ r = "editor"]]
  /\ UNCHANGED <<session, pre, conn, edit, presenceVars, faults, drops>>

ConnectionNext ==
  \E t \in PageTabs :
    \/ connect(t) \/ PreflightAnswered(t) \/ PreflightArrives(t)
    \/ Upgrade(t) \/ Opened(t) \/ onAuthenticate(t) \/ Admit(t)
    \/ Authenticated(t) \/ Denied(t) \/ commit(t) \/ Sync(t)
    \/ Announce(t) \/ PresenceArrives(t) \/ ServerNotices(t)
    \/ Drop(t) \/ Closed(t) \/ destroy(t) \/ RoleChanges(t)

ConnectionSpec == ConnectionInit /\ [][ConnectionNext]_connVars

(***************************************************************************)
(* Properties.                                                             *)
(***************************************************************************)

\* A tab that says it is connected is; one that says it is connecting or
\* trying again has exactly one of a request, a timer and a socket under way,
\* so that it neither stays there for ever nor connects twice; and one whose
\* page was left has none of them, whatever was under way.
NeverStranded ==
  \A t \in PageTabs :
    LET s == session[t]
        ways == {w \in {"boot", "timer", "socket"} :
                   \/ w = "boot" /\ s.boot
                   \/ w = "timer" /\ s.timer
                   \/ w = "socket" /\ s.socket # "none"} IN
    /\ s.status \in {"connecting", "retrying"} => \E w \in {"boot", "timer", "socket"} : ways = {w}
    /\ s.status = "connected" => s.socket = "authenticated" /\ ways = {"socket"}
    /\ s.status = "error" => ways \subseteq {"socket"}
    /\ s.destroyed => ways = {} /\ s.status = "disconnected"

\* An edit is taken only from a visitor who was an editor at some time since
\* his socket opened: the last of the three answers decides, however the
\* earlier ones read.
TakenWasAllowed ==
  \A t \in PageTabs : edit[t] = "sent" /\ edit'[t] = "taken" => since[t].could

EditsAreAuthorized == [][TakenWasAllowed]_connVars

\* While no role changed since the tab asked, what the tab allows and what the
\* server takes are the same, after a reconnection too.
ModesAgree ==
  \A t \in PageTabs : session[t].socket = "authenticated" /\ since[t].steady =>
    conn[t].readOnly = session[t].readOnly

\* No ghosts: a tab that has read its messages shows the presence of nobody
\* the server does not know, a tab without a socket of nobody.
NoGhosts ==
  \A t \in PageTabs :
    /\ session[t].socket = "none" => seen[t] = {}
    /\ session[t].socket = "authenticated" /\ inbox[t] = <<>> /\ conn[t].at = "told" =>
         seen[t] \subseteq present \ {t}
=============================================================================
