---------------------------- MODULE CollabServer ----------------------------
(***************************************************************************)
(* One page edited by several browser tabs through the collab service:     *)
(* the editor sessions of apps/web/src/editor/session.ts, the WebSockets,  *)
(* the Hocuspocus document with the hooks of apps/collab/src/index.ts, and *)
(* under them the tables of CollabPersistence.                             *)
(*                                                                         *)
(* A tab is a member of Clients with the Y.Doc of its session.  Messages   *)
(* travel in order on a WebSocket and are lost with it.  Hocuspocus itself *)
(* is a library; its part is modelled from how the hooks are written.      *)
(***************************************************************************)
EXTENDS CollabPersistence, Sequences

CONSTANTS
  Clients,
  MaxDrops,     \* bound: connections lost
  MaxReopens    \* bound: tabs closed and opened again

ASSUME ClientBoundAssumption == MaxDrops \in Nat /\ MaxReopens \in Nat

VARIABLES
  local,      \* content of each tab's Y.Doc
  written,    \* edits made so far
  conn,       \* closed, joining (socket open), authed (admitted), attached
  ready,      \* isSocketAuthenticated of the tab
  toServer,   \* messages on their way
  toClient,
  drops,
  reopens

clientVars == <<local, written, conn, ready, toServer, toClient, drops, reopens>>
serverVars == <<persistenceVars, clientVars>>

AuthMessage      == [kind |-> "auth", edits |-> {}, have |-> {}]
Step1Message     == [kind |-> "step1", edits |-> {}, have |-> {}]
EditMessage(es)  == [kind |-> "update", edits |-> es, have |-> {}]
SyncMessage(es)  == [kind |-> "sync", edits |-> es, have |-> es]

Attached == {c \in Clients : conn[c] = "attached"}

ServerInit ==
  /\ PersistenceInit
  /\ local = [c \in Clients |-> {}]
  /\ written = {}
  /\ conn = [c \in Clients |-> "closed"]
  /\ ready = [c \in Clients |-> FALSE]
  /\ toServer = [c \in Clients |-> <<>>]
  /\ toClient = [c \in Clients |-> <<>>]
  /\ drops = 0
  /\ reopens = 0

-----------------------------------------------------------------------------
(* The editor session of a tab.                                            *)

\* commit: change the Y.Doc at once; send the update if the socket is authenticated.
Commit(c, e) ==
  /\ e \notin written
  /\ written' = written \cup {e}
  /\ local' = [local EXCEPT ![c] = @ \cup {e}]
  /\ toServer' = IF ready[c] THEN [toServer EXCEPT ![c] = Append(@, EditMessage({e}))]
                             ELSE toServer
  /\ UNCHANGED <<persistenceVars, conn, ready, toClient, drops, reopens>>

\* connect (first time or from the reconnect timer), preflight, WebSocket upgrade.
Connect(c) ==
  /\ conn[c] = "closed"
  /\ conn' = [conn EXCEPT ![c] = "joining"]
  /\ UNCHANGED <<persistenceVars, local, written, ready, toServer, toClient, drops, reopens>>

\* AUTHENTICATED: sendInitialSync writes the tab's state vector.
ReceiveAuth(c) ==
  /\ toClient[c] # <<>>
  /\ Head(toClient[c]).kind = "auth"
  /\ toClient' = [toClient EXCEPT ![c] = Tail(@)]
  /\ ready' = [ready EXCEPT ![c] = TRUE]
  /\ toServer' = [toServer EXCEPT ![c] = Append(@, Step1Message)]
  /\ UNCHANGED <<persistenceVars, local, written, conn, drops, reopens>>

\* Faulty variant: the server's state vector is not answered.
ReceiveSyncNoReply(c) ==
  /\ toClient[c] # <<>>
  /\ Head(toClient[c]).kind = "sync"
  /\ toClient' = [toClient EXCEPT ![c] = Tail(@)]
  /\ local' = [local EXCEPT ![c] = @ \cup Head(toClient[c]).edits]
  /\ UNCHANGED <<persistenceVars, written, conn, ready, toServer, drops, reopens>>

\* The server's SyncStep2 and SyncStep1: merge, and answer with what it misses.
ReceiveSync(c) ==
  LET message == Head(toClient[c]) IN
  /\ toClient[c] # <<>>
  /\ message.kind = "sync"
  /\ toClient' = [toClient EXCEPT ![c] = Tail(@)]
  /\ local' = [local EXCEPT ![c] = @ \cup message.edits]
  /\ toServer' = [toServer EXCEPT ![c] = Append(@, EditMessage(local[c] \ message.have))]
  /\ UNCHANGED <<persistenceVars, written, conn, ready, drops, reopens>>

\* Another tab's change: merged with origin "remote", so it is not sent back.
ReceiveUpdate(c) ==
  /\ toClient[c] # <<>>
  /\ Head(toClient[c]).kind = "update"
  /\ toClient' = [toClient EXCEPT ![c] = Tail(@)]
  /\ local' = [local EXCEPT ![c] = @ \cup Head(toClient[c]).edits]
  /\ UNCHANGED <<persistenceVars, written, conn, ready, toServer, drops, reopens>>

-----------------------------------------------------------------------------
(* The service: hooks of index.ts as Hocuspocus calls them.                *)

\* onAuthenticate admits the socket; the authenticated message leaves before
\* the document is loaded.
Authenticate(c) ==
  /\ conn[c] = "joining"
  /\ conn' = [conn EXCEPT ![c] = "authed"]
  /\ toClient' = [toClient EXCEPT ![c] = Append(@, AuthMessage)]
  /\ UNCHANGED <<persistenceVars, local, written, ready, toServer, drops, reopens>>

\* createDocument: one load for all who wait.
StartLoad ==
  /\ \E c \in Clients : conn[c] = "authed"
  /\ LoadSnapshot
  /\ UNCHANGED clientVars

FinishLoad ==
  /\ LoadUpdates
  /\ UNCHANGED clientVars

\* onLoadDocument throws: the sockets that wait for the document are closed.
LoadRejected ==
  /\ LoadFails
  /\ conn' = [c \in Clients |-> IF conn[c] = "authed" THEN "closed" ELSE conn[c]]
  /\ ready' = [c \in Clients |-> ready[c] /\ conn[c] # "authed"]
  /\ toServer' = [c \in Clients |-> IF conn[c] = "authed" THEN <<>> ELSE toServer[c]]
  /\ toClient' = [c \in Clients |-> IF conn[c] = "authed" THEN <<>> ELSE toClient[c]]
  /\ UNCHANGED <<local, written, drops, reopens>>

\* The connection joins the document's broadcast set; queued messages follow.
Attach(c) ==
  /\ conn[c] = "authed"
  /\ live # 0
  /\ conn' = [conn EXCEPT ![c] = "attached"]
  /\ UNCHANGED <<persistenceVars, local, written, ready, toServer, toClient, drops, reopens>>

AnswerStep1(c) ==
  /\ c \in Attached
  /\ toServer[c] # <<>>
  /\ Head(toServer[c]).kind = "step1"
  /\ toServer' = [toServer EXCEPT ![c] = Tail(@)]
  /\ toClient' = [toClient EXCEPT ![c] = Append(@, SyncMessage(docs[live]))]
  /\ UNCHANGED <<persistenceVars, local, written, conn, ready, drops, reopens>>

\* Nothing new in the update: Yjs emits no update event.
IgnoreKnown(c) ==
  /\ c \in Attached
  /\ toServer[c] # <<>>
  /\ Head(toServer[c]).kind = "update"
  /\ Head(toServer[c]).edits \subseteq docs[live]
  /\ toServer' = [toServer EXCEPT ![c] = Tail(@)]
  /\ UNCHANGED <<persistenceVars, local, written, conn, ready, toClient, drops, reopens>>

\* Faulty variant: the other tabs are not told.
ApplyUpdateNoBroadcast(c, t) ==
  /\ c \in Attached
  /\ toServer[c] # <<>>
  /\ Head(toServer[c]).kind = "update"
  /\ OnChange(t, Head(toServer[c]).edits \ docs[live])
  /\ toServer' = [toServer EXCEPT ![c] = Tail(@)]
  /\ UNCHANGED <<local, written, conn, ready, toClient, drops, reopens>>

\* Apply, broadcast to every attached tab, start onChange and do not await it.
ApplyUpdate(c, t) ==
  LET new == Head(toServer[c]).edits \ docs[live] IN
  /\ c \in Attached
  /\ toServer[c] # <<>>
  /\ Head(toServer[c]).kind = "update"
  /\ OnChange(t, new)
  /\ toServer' = [toServer EXCEPT ![c] = Tail(@)]
  /\ toClient' = [d \in Clients |-> IF d \in Attached THEN Append(toClient[d], EditMessage(new))
                                                      ELSE toClient[d]]
  /\ UNCHANGED <<local, written, conn, ready, drops, reopens>>

\* onChange of some call moves on, or is rejected by the database.
CallMoves(t) ==
  /\ CallStep(t) \/ CallFails(t)
  /\ UNCHANGED clientVars

-----------------------------------------------------------------------------
(* Connections, tabs and the process come and go.                          *)

Hangup(c) ==
  /\ conn' = [conn EXCEPT ![c] = "closed"]
  /\ ready' = [ready EXCEPT ![c] = FALSE]
  /\ toServer' = [toServer EXCEPT ![c] = <<>>]
  /\ toClient' = [toClient EXCEPT ![c] = <<>>]

\* The network loses the socket; the session keeps its Y.Doc and will reconnect.
Drop(c) ==
  /\ conn[c] # "closed"
  /\ drops < MaxDrops
  /\ drops' = drops + 1
  /\ Hangup(c)
  /\ UNCHANGED <<persistenceVars, local, written, reopens>>

\* The tab is closed or reloaded: session.destroy, and a new session's empty Y.Doc.
Reopen(c) ==
  /\ reopens < MaxReopens
  /\ reopens' = reopens + 1
  /\ Hangup(c)
  /\ local' = [local EXCEPT ![c] = {}]
  /\ UNCHANGED <<persistenceVars, written, drops>>

\* The last connection has left: Hocuspocus unloads at once, awaiting no onChange.
UnloadDocument ==
  /\ \A c \in Clients : conn[c] \notin {"authed", "attached"}
  /\ Unload
  /\ UNCHANGED clientVars

Crash ==
  /\ ServerCrash
  /\ conn' = [c \in Clients |-> "closed"]
  /\ ready' = [c \in Clients |-> FALSE]
  /\ toServer' = [c \in Clients |-> <<>>]
  /\ toClient' = [c \in Clients |-> <<>>]
  /\ UNCHANGED <<local, written, drops, reopens>>

TabNext(c) ==
  \/ \E e \in Edits : Commit(c, e)
  \/ Connect(c) \/ ReceiveAuth(c) \/ ReceiveSync(c) \/ ReceiveUpdate(c)
  \/ Drop(c) \/ Reopen(c)

ServiceNext ==
  \/ \E c \in Clients : \/ Authenticate(c) \/ Attach(c) \/ AnswerStep1(c) \/ IgnoreKnown(c)
                        \/ \E t \in Calls : ApplyUpdate(c, t)
  \/ StartLoad \/ FinishLoad \/ LoadRejected
  \/ \E t \in Calls : CallMoves(t)
  \/ UnloadDocument
  \/ Crash

ServerNext == (\E c \in Clients : TabNext(c)) \/ ServiceNext

ServerSpec == ServerInit /\ [][ServerNext]_serverVars

\* A session that is not destroyed reconnects from its timer forever, sockets
\* deliver, the service's event loop and PostgreSQL make progress.
ServerFairness ==
  /\ \A c \in Clients :
       /\ WF_serverVars(Connect(c))
       /\ WF_serverVars(ReceiveAuth(c) \/ ReceiveSync(c) \/ ReceiveUpdate(c))
       /\ WF_serverVars(Authenticate(c))
       /\ WF_serverVars(Attach(c))
       /\ SF_serverVars(AnswerStep1(c) \/ IgnoreKnown(c) \/ \E t \in Calls : ApplyUpdate(c, t))
  /\ WF_serverVars(StartLoad)
  /\ WF_serverVars(FinishLoad)
  /\ \A t \in Calls : SF_serverVars(CallStep(t) /\ UNCHANGED clientVars)

FairServerSpec == ServerSpec /\ ServerFairness

-----------------------------------------------------------------------------
(* Properties.                                                             *)

Message == [kind : {"auth", "step1", "update", "sync"}, edits : SUBSET Edits, have : SUBSET Edits]

ClientTypeOK ==
  /\ local \in [Clients -> SUBSET Edits]
  /\ written \subseteq Edits
  /\ conn \in [Clients -> {"closed", "joining", "authed", "attached"}]
  /\ ready \in [Clients -> BOOLEAN]
  /\ toServer \in [Clients -> Seq(Message)]
  /\ toClient \in [Clients -> Seq(Message)]
  /\ drops \in 0..MaxDrops
  /\ reopens \in 0..MaxReopens

(* The tables, the service and the tabs stay in their types.               *)
ServerTypeOK == PersistenceTypeOK /\ ClientTypeOK

(* A tab with nothing in flight in either direction shows exactly what the *)
(* server holds: no edit is lost between the Y.Doc, the socket that was    *)
(* not authenticated yet, the sync handshake and the broadcasts, in        *)
(* whatever order tabs join, edit, drop and rejoin.                        *)
QuietTabMatchesServer ==
  \A c \in Attached :
    ready[c] /\ toServer[c] = <<>> /\ toClient[c] = <<>> => local[c] = docs[live]

(* The service above the tables uses them as CollabPersistence allows, so  *)
(* what is proved of that module holds of the running service.             *)
UsesPersistence == PersistenceSpec

(* An edit some open tab holds reaches every tab, through lost sockets,    *)
(* crashes and unloads, unless every tab that held it was closed: sessions *)
(* that reconnect push what the server does not have.                      *)
EditsReachEveryTab ==
  \A e \in Edits :
    (\E c \in Clients : e \in local[c]) ~>
      \/ \A c \in Clients : e \in local[c]
      \/ \A c \in Clients : e \notin local[c]

(* An edit some open tab holds is eventually written to the database, even *)
(* when the process dies between the broadcast and the append.             *)
EditsReachTheDatabase ==
  \A e \in Edits :
    (\E c \in Clients : e \in local[c]) ~>
      \/ e \in committed
      \/ \A c \in Clients : e \notin local[c]

(* An edit arrives in every tab and in the database.                       *)
EditsArrive == EditsReachEveryTab /\ EditsReachTheDatabase
=============================================================================
