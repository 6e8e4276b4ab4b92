-------------------------- MODULE ConnectionProofs --------------------------
(* The properties of Connection for every set of tabs and every bound.     *)
EXTENDS Connection, FiniteSets, FiniteSetTheorems, SequenceTheorems, TLAPS

Statuses == {"idle", "connecting", "retrying", "connected", "error", "disconnected"}
Sockets == {"none", "connecting", "open", "authenticated"}
Answers == Roles \cup {"unavailable"}
Places == {"none", "upgrading", "upgraded", "authenticating", "answered", "joined", "told",
           "denied", "closed"}
SessionType == [status : Statuses, boot : BOOLEAN, timer : BOOLEAN, socket : Sockets,
                denied : BOOLEAN, readOnly : BOOLEAN, destroyed : BOOLEAN]
ConnType == [at : Places, answer : Answers, readOnly : BOOLEAN]

ConnectionTypeOK ==
  /\ role \in [PageTabs -> Roles]
  /\ session \in [PageTabs -> SessionType]
  /\ pre \in [PageTabs -> Answers \cup {"idle", "asked"}]
  /\ conn \in [PageTabs -> ConnType]
  /\ edit \in [PageTabs -> {"none", "local", "sent", "taken"}]
  /\ present \subseteq PageTabs /\ IsFiniteSet(present)
  /\ lingers \subseteq PageTabs
  /\ inbox \in [PageTabs -> Seq(PageTabs \X BOOLEAN)]
  /\ seen \in [PageTabs -> SUBSET PageTabs]
  /\ since \in [PageTabs -> [steady : BOOLEAN, could : BOOLEAN]]
  /\ changes \in Nat /\ faults \in Nat /\ drops \in Nat

\* One way at most is under way, and the status says which.
StatusFits(s) ==
  /\ s.destroyed <=> s.status = "disconnected"
  /\ s.status \in {"idle", "disconnected"} => ~s.boot /\ ~s.timer /\ s.socket = "none"
  /\ s.status \in {"connecting", "retrying"} =>
       /\ \/ s.boot /\ ~s.timer /\ s.socket = "none"
          \/ ~s.boot /\ s.timer /\ s.socket = "none"
          \/ ~s.boot /\ ~s.timer /\ s.socket # "none"
       /\ s.socket # "authenticated"
  /\ s.status = "connected" => s.socket = "authenticated"
  /\ s.status \in {"connected", "error"} => ~s.boot /\ ~s.timer
  /\ s.status \in {"idle", "connecting", "retrying", "connected"} => ~s.denied

\* The request is the session's, and the socket is where the session has it.
SocketFits(s, p, c) ==
  /\ ~s.destroyed => (s.boot <=> p # "idle")
  /\ s.socket = "none" <=> c.at = "none"
  /\ s.socket = "connecting" => c.at \in {"upgrading", "upgraded", "closed"}
  /\ s.socket = "open" => c.at \in {"authenticating", "answered", "joined", "denied", "closed"}
  /\ s.socket = "authenticated" => c.at \in {"told", "denied", "closed"}
  /\ s.denied => c.at \in {"none", "closed"}
  /\ s.status = "error" /\ s.socket # "none" => s.denied

\* While the role is steady every answer is the role.
ModeFits(r, s, p, c, steady) ==
  steady =>
    /\ p \in Roles => p = r
    /\ s.socket # "none" => (s.readOnly <=> r = "viewer")
    /\ c.at = "answered" /\ Admitted(c.answer) => c.answer = r
    /\ c.at \in {"joined", "told"} \/ s.socket = "authenticated" =>
         (c.readOnly <=> r = "viewer")

\* Who may write now could write at some time since the socket opened.
RightFits(r, c, could) ==
  /\ c.at \in {"authenticating", "answered", "joined", "told"} /\ r = "editor" => could
  /\ c.at = "answered" /\ c.answer = "editor" => could
  /\ c.at \in {"joined", "told"} /\ ~c.readOnly => could

\* The two messages about a tab.
Here(x) == <<x, TRUE>>
Gone(x) == <<x, FALSE>>

\* Of somebody the server does not know a tab shows nothing that a message on
\* its way will not take back.
GoneIsTold(x, shown, q) ==
  /\ x \in shown => \E j \in DOMAIN q : q[j] = Gone(x)
  /\ \A i \in DOMAIN q : q[i] = Here(x) => \E j \in DOMAIN q : j > i /\ q[j] = Gone(x)

PresenceFits(t) ==
  /\ session[t].socket # "authenticated" => seen[t] = {}
  /\ t \notin seen[t] /\ \A i \in DOMAIN inbox[t] : inbox[t][i][1] # t
  /\ Joined(t) => \A x \in PageTabs \ present : GoneIsTold(x, seen[t], inbox[t])

TabFits(t) ==
  /\ StatusFits(session[t])
  /\ SocketFits(session[t], pre[t], conn[t])
  /\ ModeFits(role[t], session[t], pre[t], conn[t], since[t].steady)
  /\ RightFits(role[t], conn[t], since[t].could)

SessionsFit == \A t \in PageTabs : TabFits(t)
PresenceIsTold == \A t \in PageTabs : PresenceFits(t)

ConnectionInv == ConnectionTypeOK /\ SessionsFit /\ PresenceIsTold

-----------------------------------------------------------------------------
(* The fields of a session and of a connection keep their types.           *)
LEMMA SessionFields ==
  ASSUME NEW s \in SessionType
  PROVE  /\ \A b \in BOOLEAN :
              /\ [s EXCEPT !.boot = b] \in SessionType
              /\ [s EXCEPT !.timer = b] \in SessionType
              /\ [s EXCEPT !.denied = b] \in SessionType
              /\ [s EXCEPT !.readOnly = b] \in SessionType
              /\ [s EXCEPT !.destroyed = b] \in SessionType
         /\ \A x \in Statuses : [s EXCEPT !.status = x] \in SessionType
         /\ \A x \in Sockets : [s EXCEPT !.socket = x] \in SessionType
BY DEF SessionType

LEMMA ConnFields ==
  ASSUME NEW c \in ConnType
  PROVE  /\ \A x \in Places : [c EXCEPT !.at = x] \in ConnType
         /\ \A x \in Answers : [c EXCEPT !.answer = x] \in ConnType
         /\ \A b \in BOOLEAN : [c EXCEPT !.readOnly = b] \in ConnType
BY DEF ConnType

(* A step about one tab leaves the others as they fit.                     *)
LEMMA OthersStay ==
  ASSUME SessionsFit, NEW t \in PageTabs, TabFits(t)',
         \A x \in PageTabs \ {t} :
           /\ role'[x] = role[x] /\ session'[x] = session[x] /\ pre'[x] = pre[x]
           /\ conn'[x] = conn[x] /\ since'[x] = since[x]
  PROVE  SessionsFit'
BY DEF SessionsFit, TabFits

(* A step that sends no presence and lets nobody in leaves it told.        *)
LEMMA PresenceStays ==
  ASSUME PresenceIsTold, UNCHANGED <<present, inbox, seen>>,
         \A x \in PageTabs :
           /\ session[x].socket = "authenticated" => session'[x].socket = "authenticated"
           /\ Joined(x)' => Joined(x)
  PROVE  PresenceIsTold'
<1> SUFFICES ASSUME NEW x \in PageTabs PROVE PresenceFits(x)'
  BY DEF PresenceIsTold
<1>1. PresenceFits(x)
  BY DEF PresenceIsTold
<1>2. (session[x].socket # "authenticated" => seen[x] = {})'
  BY <1>1 DEF PresenceFits
<1>3. (x \notin seen[x] /\ \A i \in DOMAIN inbox[x] : inbox[x][i][1] # x)'
  BY <1>1 DEF PresenceFits
<1>4. (Joined(x) => \A y \in PageTabs \ present : GoneIsTold(y, seen[x], inbox[x]))'
  BY <1>1 DEF PresenceFits, GoneIsTold
<1> QED BY <1>2, <1>3, <1>4 DEF PresenceFits

LEMMA ConnectInv ==
  ASSUME ConnectionInv, NEW t \in PageTabs, connect(t)
  PROVE  ConnectionInv'
<1> USE DEF ConnectionInv, presenceVars, connBounds
<1>0. session[t] \in SessionType /\ TabFits(t) /\ pre[t] \in Answers \cup {"idle", "asked"}
  BY DEF SessionsFit, ConnectionTypeOK
<1>1. PICK s \in SessionType :
        /\ session' = [session EXCEPT ![t] = s]
        /\ s.status \in {"connecting", "retrying"} /\ s.boot /\ ~s.timer /\ s.socket = "none"
        /\ ~s.denied /\ ~s.destroyed
        /\ session[t].socket = "none" 
        /\ pre' = [pre EXCEPT ![t] = "asked"]
        /\ since' = [since EXCEPT ![t].steady = TRUE]
  <2>1. ~session[t].destroyed /\ session[t].socket = "none" /\ ~session[t].boot
    BY <1>0 DEF connect, TabFits, StatusFits, SessionType, Statuses
  <2> DEFINE s0 == [session[t] EXCEPT !.timer = FALSE]
             s1 == [s0 EXCEPT !.status = IF s0.status = "idle" THEN "connecting" ELSE "retrying"]
             s2 == [s1 EXCEPT !.boot = TRUE]
             s3 == [s2 EXCEPT !.denied = FALSE]
  <2>2. s0 \in SessionType /\ s1 \in SessionType /\ s2 \in SessionType /\ s3 \in SessionType
    BY <1>0, SessionFields DEF Statuses
  <2>3. s3.status \in {"connecting", "retrying"} /\ s3.boot /\ ~s3.timer /\ s3.socket = "none"
        /\ ~s3.denied /\ ~s3.destroyed
    BY <1>0, <2>1 DEF SessionType
  <2>4. session' = [session EXCEPT ![t] = s3]
    BY <2>1 DEF connect
  <2>5. pre' = [pre EXCEPT ![t] = "asked"] /\ since' = [since EXCEPT ![t].steady = TRUE]
    BY <2>1 DEF connect
  <2> HIDE DEF s3
  <2> QED BY <2>1, <2>2, <2>3, <2>4, <2>5
<1>2. ConnectionTypeOK'
  BY <1>1 DEF connect, ConnectionTypeOK
<1>3. SessionsFit'
  <2>2. TabFits(t)'
    BY <1>0, <1>1, <1>2 DEF TabFits, connect, StatusFits, SocketFits, ModeFits, RightFits,
       ConnectionTypeOK, SessionType, Roles, Admitted
  <2> QED BY <2>2, <1>1, OthersStay DEF connect, ConnectionTypeOK
<1>4. PresenceIsTold'
  BY <1>1, PresenceStays DEF connect, ConnectionTypeOK, Joined
<1> QED BY <1>2, <1>3, <1>4

(* What the API answers is the role, or that it is not there.              *)
LEMMA AnswerFits ==
  ASSUME ConnectionTypeOK, NEW t \in PageTabs, NEW answer, AnswersNow(t, answer)
  PROVE  /\ faults' \in Nat /\ answer \in Answers
         /\ answer \in Roles => answer = role[t]
BY DEF ConnectionTypeOK, AnswersNow, Answers, Roles

LEMMA PreflightAnsweredInv ==
  ASSUME ConnectionInv, NEW t \in PageTabs, PreflightAnswered(t)
  PROVE  ConnectionInv'
<1> USE DEF ConnectionInv, presenceVars
<1>0. session[t] \in SessionType /\ TabFits(t)
  BY DEF SessionsFit, ConnectionTypeOK
<1>1. PICK answer \in Answers : AnswersNow(t, answer) /\ pre' = [pre EXCEPT ![t] = answer]
  BY DEF PreflightAnswered, Answers
<1>2. faults' \in Nat /\ (answer \in Roles => answer = role[t])
  BY <1>1, AnswerFits
<1>3. ConnectionTypeOK'
  BY <1>1, <1>2 DEF PreflightAnswered, ConnectionTypeOK
<1>4. SessionsFit'
  <2>1. TabFits(t)'
    BY <1>0, <1>1, <1>2, <1>3 DEF TabFits, PreflightAnswered, SocketFits, ModeFits,
       ConnectionTypeOK, Answers, Roles
  <2> QED BY <2>1, <1>1, OthersStay DEF PreflightAnswered, ConnectionTypeOK
<1>5. PresenceIsTold'
  BY PresenceStays DEF PreflightAnswered, Joined
<1> QED BY <1>3, <1>4, <1>5

LEMMA PreflightArrivesInv ==
  ASSUME ConnectionInv, NEW t \in PageTabs, PreflightArrives(t)
  PROVE  ConnectionInv'
<1> USE DEF ConnectionInv, presenceVars, connBounds
<1>0. /\ session[t] \in SessionType /\ conn[t] \in ConnType /\ TabFits(t)
      /\ pre[t] \in Answers
  BY DEF SessionsFit, ConnectionTypeOK, PreflightArrives, NoConnection
<1>f. /\ pre' = [pre EXCEPT ![t] = "idle"]
      /\ UNCHANGED <<role, edit, present, lingers, inbox, seen, since, changes, faults, drops>>
  BY DEF PreflightArrives, NoConnection
<1>1. PICK s \in SessionType, c \in ConnType :
        /\ session' = [session EXCEPT ![t] = s] /\ conn' = [conn EXCEPT ![t] = c]
        /\ pre' = [pre EXCEPT ![t] = "idle"]
        /\ session[t].socket = "none" /\ conn[t].at = "none"
        /\ (s.destroyed <=> session[t].destroyed) /\ (s.denied => s.destroyed)
        /\ ~s.boot
        /\ \/ s.destroyed /\ s.status = "disconnected" /\ ~s.timer /\ s.socket = "none"
              /\ c = conn[t]
           \/ /\ ~s.destroyed
              /\ \/ s.status = "retrying" /\ s.timer /\ s.socket = "none" /\ c = conn[t]
                 \/ s.status = "error" /\ ~s.timer /\ s.socket = "none" /\ c = conn[t]
                 \/ /\ s.status \in {"connecting", "retrying"} /\ ~s.timer
                    /\ s.socket = "connecting" /\ c.at = "upgrading"
                    /\ pre[t] \in Roles /\ (s.readOnly <=> pre[t] = "viewer")
  <2> DEFINE s0 == session[t]
             s1 == [s0 EXCEPT !.boot = FALSE]
             s2 == [s1 EXCEPT !.status = "retrying"]
             s3 == [s2 EXCEPT !.timer = TRUE]
             s4 == [s1 EXCEPT !.status = "error"]
             s5 == [s1 EXCEPT !.socket = "connecting"]
             s6 == [s5 EXCEPT !.readOnly = pre[t] = "viewer"]
             c1 == [NoConnection EXCEPT !.at = "upgrading"]
  <2>1. s1 \in SessionType /\ s2 \in SessionType /\ s3 \in SessionType /\ s4 \in SessionType
    BY <1>0, SessionFields DEF Statuses
  <2>2. s5 \in SessionType /\ s6 \in SessionType
    BY <2>1, SessionFields DEF Sockets
  <2>3. c1 \in ConnType /\ c1.at = "upgrading"
    BY DEF NoConnection, ConnType, Places, Answers, Roles
  <2>4. s0.socket = "none" /\ conn[t].at = "none"
        /\ (s0.destroyed => s0.status = "disconnected" /\ ~s0.timer)
        /\ (~s0.destroyed => ~s0.timer /\ ~s0.denied
                            /\ s0.status \in {"connecting", "retrying"})
    BY <1>0 DEF TabFits, StatusFits, SocketFits, SessionType, Statuses, Answers, Roles
  <2>5. CASE s0.destroyed
    <3>1. session' = [session EXCEPT ![t] = s1] /\ conn' = conn
      BY <2>4, <2>5, <1>0 DEF PreflightArrives, NoConnection, AfterPreflight, SessionType
    <3>2. conn' = [conn EXCEPT ![t] = conn[t]]
      BY <3>1 DEF ConnectionTypeOK
    <3> QED BY <1>0, <2>1, <2>4, <2>5, <3>1, <3>2, <1>f DEF SessionType
  <2>6. CASE ~s0.destroyed /\ pre[t] = "unavailable"
    <3>1. AfterPreflight(s0, pre[t]) = s3
      BY <2>4, <2>6, <1>0, <2>1 DEF AfterPreflight, Reconnecting, SessionType
    <3>2. s3.socket = "none" /\ s3.status = "retrying" /\ s3.timer /\ ~s3.boot /\ ~s3.destroyed
          /\ ~s3.denied
      BY <1>0, <2>4, <2>6 DEF SessionType
    <3>3. session' = [session EXCEPT ![t] = s3] /\ conn' = [conn EXCEPT ![t] = conn[t]]
      BY <3>1, <3>2 DEF PreflightArrives, NoConnection, ConnectionTypeOK
    <3> HIDE DEF s3
    <3> QED BY <1>0, <2>1, <2>4, <2>6, <3>2, <3>3, <1>f
  <2>7. CASE ~s0.destroyed /\ pre[t] = "none"
    <3>1. AfterPreflight(s0, pre[t]) = s4
      BY <2>7 DEF AfterPreflight
    <3>2. s4.socket = "none" /\ s4.status = "error" /\ ~s4.timer /\ ~s4.boot /\ ~s4.destroyed
          /\ ~s4.denied
      BY <1>0, <2>4, <2>7 DEF SessionType
    <3>3. session' = [session EXCEPT ![t] = s4] /\ conn' = [conn EXCEPT ![t] = conn[t]]
      BY <3>1, <3>2 DEF PreflightArrives, NoConnection, ConnectionTypeOK
    <3> HIDE DEF s4
    <3> QED BY <1>0, <2>1, <2>4, <2>7, <3>2, <3>3, <1>f
  <2>8. CASE ~s0.destroyed /\ pre[t] \in {"editor", "viewer"}
    <3>1. AfterPreflight(s0, pre[t]) = s6
      BY <2>8 DEF AfterPreflight
    <3>2. s6.socket = "connecting" /\ s6.status \in {"connecting", "retrying"} /\ ~s6.timer
          /\ ~s6.boot /\ ~s6.destroyed /\ ~s6.denied /\ (s6.readOnly <=> pre[t] = "viewer")
      BY <1>0, <2>4, <2>8 DEF SessionType
    <3>3. session' = [session EXCEPT ![t] = s6] /\ conn' = [conn EXCEPT ![t] = c1]
      BY <3>1, <3>2 DEF PreflightArrives, NoConnection
    <3> HIDE DEF s6, c1
    <3> QED BY <1>0, <2>2, <2>3, <2>4, <2>8, <3>2, <3>3, <1>f DEF Roles
  <2> QED BY <1>0, <2>5, <2>6, <2>7, <2>8 DEF Answers, Roles
<1>2. ConnectionTypeOK'
  BY <1>1, <1>f DEF ConnectionTypeOK
<1>3. SessionsFit'
  <2>1. session'[t] = s /\ conn'[t] = c /\ pre'[t] = "idle" /\ UNCHANGED <<role, since>>
    BY <1>1, <1>f DEF ConnectionTypeOK
  <2>2. StatusFits(s) /\ SocketFits(s, "idle", c)
    BY <1>0, <1>1 DEF TabFits, StatusFits, SocketFits
  <2>3. ModeFits(role[t], s, "idle", c, since[t].steady)
    BY <1>0, <1>1 DEF TabFits, ModeFits, Roles
  <2>4. RightFits(role[t], c, since[t].could)
    BY <1>0, <1>1 DEF TabFits, RightFits
  <2>5. TabFits(t)'
    BY <2>1, <2>2, <2>3, <2>4 DEF TabFits
  <2> QED BY <2>5, <1>1, <1>f, OthersStay DEF ConnectionTypeOK
<1>4. PresenceIsTold'
  <2>1. \A x \in PageTabs :
         /\ session[x].socket = "authenticated" => session'[x].socket = "authenticated"
         /\ Joined(x)' => Joined(x)
    BY <1>1 DEF ConnectionTypeOK, Joined
  <2> QED BY <2>1, <1>f, PresenceStays
<1> QED BY <1>2, <1>3, <1>4

LEMMA UpgradeInv ==
  ASSUME ConnectionInv, NEW t \in PageTabs, Upgrade(t)
  PROVE  ConnectionInv'
<1> USE DEF ConnectionInv, presenceVars
<1>0. /\ session[t] \in SessionType /\ conn[t] \in ConnType /\ TabFits(t)
      /\ conn[t].at = "upgrading"
  BY DEF SessionsFit, ConnectionTypeOK, Upgrade
<1>1. PICK c \in ConnType :
        /\ conn' = [conn EXCEPT ![t] = c] /\ faults' \in Nat
        /\ c.at \in {"upgraded", "closed"} /\ c.readOnly = conn[t].readOnly
  <2>1. PICK answer \in Answers :
          /\ AnswersNow(t, answer)
          /\ conn' = [conn EXCEPT ![t] = [@ EXCEPT
               !.at = IF Admitted(answer) THEN "upgraded" ELSE "closed", !.answer = answer]]
    BY DEF Upgrade, Answers
  <2> DEFINE c1 == [conn[t] EXCEPT !.at = IF Admitted(answer) THEN "upgraded" ELSE "closed"]
             c2 == [c1 EXCEPT !.answer = answer]
  <2>2. c1 \in ConnType /\ c2 \in ConnType
    BY <1>0, ConnFields DEF Places
  <2>3. c2.at \in {"upgraded", "closed"} /\ c2.readOnly = conn[t].readOnly
    BY <1>0 DEF ConnType
  <2>4. conn' = [conn EXCEPT ![t] = c2]
    BY <2>1
  <2> HIDE DEF c2
  <2> QED BY <2>1, <2>2, <2>3, <2>4, AnswerFits
<1>2. ConnectionTypeOK'
  BY <1>1 DEF Upgrade, ConnectionTypeOK
<1>3. SessionsFit'
  <2>1. conn'[t] = c /\ UNCHANGED <<role, session, pre, since>>
    BY <1>1 DEF ConnectionTypeOK, Upgrade
  <2>2. TabFits(t)'
    BY <1>0, <1>1, <2>1 DEF TabFits, SocketFits, ModeFits, RightFits, Admitted
  <2> QED BY <2>1, <2>2, <1>1, OthersStay DEF ConnectionTypeOK
<1>4. PresenceIsTold'
  <2>1. \A x \in PageTabs : Joined(x)' => Joined(x)
    BY <1>1 DEF ConnectionTypeOK, Joined
  <2> QED BY <2>1, PresenceStays DEF Upgrade
<1> QED BY <1>2, <1>3, <1>4

LEMMA OpenedInv ==
  ASSUME ConnectionInv, NEW t \in PageTabs, Opened(t)
  PROVE  ConnectionInv'
<1> USE DEF ConnectionInv, presenceVars, connBounds
<1>0. /\ session[t] \in SessionType /\ conn[t] \in ConnType /\ TabFits(t)
      /\ since[t] \in [steady : BOOLEAN, could : BOOLEAN]
  BY DEF SessionsFit, ConnectionTypeOK
<1> DEFINE s == [session[t] EXCEPT !.socket = "open"]
           c == [conn[t] EXCEPT !.at = "authenticating"]
           n == [since[t] EXCEPT !.could = role[t] = "editor"]
<1>1. /\ session' = [session EXCEPT ![t] = s] /\ conn' = [conn EXCEPT ![t] = c]
      /\ since' = [since EXCEPT ![t] = n]
      /\ UNCHANGED <<role, pre, edit, present, lingers, inbox, seen, changes, faults, drops>>
  BY DEF Opened
<1>2. s \in SessionType /\ c \in ConnType /\ n \in [steady : BOOLEAN, could : BOOLEAN]
  BY <1>0, SessionFields, ConnFields DEF Sockets, Places
<1>3. SessionsFit' /\ ConnectionTypeOK'
  <2>1. /\ s.status \in {"connecting", "retrying"} /\ s.socket = "open" /\ ~s.boot /\ ~s.timer
        /\ ~s.denied /\ ~s.destroyed /\ s.readOnly = session[t].readOnly
        /\ pre[t] = "idle" /\ c.at = "authenticating" /\ c.readOnly = conn[t].readOnly
        /\ n.steady = since[t].steady /\ (n.could <=> role[t] = "editor")
    BY <1>0 DEF Opened, TabFits, StatusFits, SocketFits, SessionType, ConnType, Statuses
  <2>2. session[t].socket = "connecting" /\ conn[t].at = "upgraded"
    BY DEF Opened
  <2> HIDE DEF s, c, n
  <2>3. ConnectionTypeOK'
    BY <1>1, <1>2 DEF ConnectionTypeOK
  <2>4. session'[t] = s /\ conn'[t] = c /\ since'[t] = n /\ UNCHANGED <<role, pre>>
    BY <1>1 DEF ConnectionTypeOK
  <2>5. StatusFits(s) /\ SocketFits(s, pre[t], c)
    BY <1>0, <2>1 DEF TabFits, StatusFits, SocketFits
  <2>6. ModeFits(role[t], s, pre[t], c, n.steady)
    BY <1>0, <2>1, <2>2 DEF TabFits, ModeFits, Roles
  <2>7. RightFits(role[t], c, n.could)
    BY <1>0, <2>1 DEF TabFits, RightFits
  <2>8. TabFits(t)'
    BY <2>4, <2>5, <2>6, <2>7 DEF TabFits
  <2> QED BY <2>3, <2>8, <1>1, OthersStay DEF ConnectionTypeOK
<1>4. PresenceIsTold'
  <2>1. s.socket = "open" /\ c.at = "authenticating"
    BY <1>0 DEF SessionType, ConnType
  <2>2. session[t].socket # "authenticated"
    BY DEF Opened
  <2> HIDE DEF s, c
  <2>3. \A x \in PageTabs :
         /\ session[x].socket = "authenticated" => session'[x].socket = "authenticated"
         /\ Joined(x)' => Joined(x)
    BY <1>1, <2>1, <2>2 DEF ConnectionTypeOK, Joined
  <2> QED BY <2>3, <1>1, PresenceStays
<1> QED BY <1>3, <1>4

LEMMA onAuthenticateInv ==
  ASSUME ConnectionInv, NEW t \in PageTabs, onAuthenticate(t)
  PROVE  ConnectionInv'
<1> USE DEF ConnectionInv, presenceVars
<1>0. /\ session[t] \in SessionType /\ conn[t] \in ConnType /\ TabFits(t)
      /\ conn[t].at = "authenticating"
  BY DEF SessionsFit, ConnectionTypeOK, onAuthenticate
<1>1. PICK c \in ConnType :
        /\ conn' = [conn EXCEPT ![t] = c] /\ faults' \in Nat
        /\ c.at = "answered" /\ c.readOnly = conn[t].readOnly
        /\ c.answer \in Roles => c.answer = role[t]
  <2>1. PICK answer \in Answers :
          /\ AnswersNow(t, answer)
          /\ conn' = [conn EXCEPT ![t] = [@ EXCEPT !.at = "answered", !.answer = answer]]
    BY DEF onAuthenticate, Answers
  <2> DEFINE c1 == [conn[t] EXCEPT !.at = "answered"]
             c2 == [c1 EXCEPT !.answer = answer]
  <2>2. c1 \in ConnType /\ c2 \in ConnType
    BY <1>0, ConnFields DEF Places
  <2>3. c2.at = "answered" /\ c2.readOnly = conn[t].readOnly /\ c2.answer = answer
    BY <1>0 DEF ConnType
  <2>4. conn' = [conn EXCEPT ![t] = c2]
    BY <2>1
  <2> HIDE DEF c2
  <2> QED BY <2>1, <2>2, <2>3, <2>4, AnswerFits
<1>f. UNCHANGED <<role, session, pre, edit, present, lingers, inbox, seen, since, changes, drops>>
  BY DEF onAuthenticate
<1>2. ConnectionTypeOK'
  BY <1>1, <1>f DEF ConnectionTypeOK
<1>3. SessionsFit'
  <2>1. conn'[t] = c /\ UNCHANGED <<role, session, pre, since>>
    BY <1>1, <1>f DEF ConnectionTypeOK
  <2>2. TabFits(t)'
    BY <1>0, <1>1, <2>1 DEF TabFits, SocketFits, ModeFits, RightFits, Admitted, Roles
  <2> QED BY <2>1, <2>2, <1>1, OthersStay DEF ConnectionTypeOK
<1>4. PresenceIsTold'
  <2>1. \A x \in PageTabs : Joined(x)' => Joined(x)
    BY <1>1 DEF ConnectionTypeOK, Joined
  <2> QED BY <2>1, <1>f, PresenceStays
<1> QED BY <1>2, <1>3, <1>4

(* No message says that a tab is here and gone, or is about two tabs.      *)
LEMMA MessagesDiffer ==
  \A x, y : /\ Here(x) # Gone(y) /\ (Here(x) = Here(y) => x = y) /\ (Gone(x) = Gone(y) => x = y)
            /\ Here(x)[1] = x /\ Gone(x)[1] = x
BY DEF Here, Gone

(* A connection starts with messages about others the server knows.        *)
LEMMA KnownFits ==
  ASSUME ConnectionTypeOK, NEW t \in PageTabs, NEW known \in Known(t)
  PROVE  /\ known \in Seq(PageTabs \X BOOLEAN)
         /\ \A i \in DOMAIN known :
              \E x \in present \ {t} : known[i] = Here(x)
<1>1. IsFiniteSet(present \ {t})
  BY FS_RemoveElement DEF ConnectionTypeOK
<1>2. Cardinality(present \ {t}) \in Nat
  BY <1>1, FS_CardinalityType
<1>3. PICK q \in [1 .. Cardinality(present \ {t}) -> present \ {t}] :
        known = [i \in DOMAIN q |-> <<q[i], TRUE>>]
  BY DEF Known, SetToSeqs
<1>4. \A i \in DOMAIN known : q[i] \in present \ {t} /\ known[i] = Here(q[i])
  BY <1>3 DEF Here
<1>5. known \in [1 .. Cardinality(present \ {t}) -> PageTabs \X BOOLEAN]
  BY <1>3, <1>4 DEF ConnectionTypeOK, Here
<1>6. known \in Seq(PageTabs \X BOOLEAN)
  <2>1. \E n \in Nat : known \in [1 .. n -> PageTabs \X BOOLEAN]
    BY <1>2, <1>5
  <2> QED BY <2>1, SeqDef
<1> QED BY <1>4, <1>6

LEMMA AdmitInv ==
  ASSUME ConnectionInv, NEW t \in PageTabs, Admit(t)
  PROVE  ConnectionInv'
<1> USE DEF ConnectionInv
<1>0. /\ session[t] \in SessionType /\ conn[t] \in ConnType /\ TabFits(t)
      /\ conn[t].at = "answered"
  BY DEF SessionsFit, ConnectionTypeOK, Admit
<1>f. UNCHANGED <<role, session, pre, edit, present, lingers, seen, since, changes, drops>>
  BY DEF Admit
<1>s. session[t].socket = "open" /\ seen[t] = {} /\ session[t].status \in {"connecting", "retrying"}
  BY <1>0 DEF TabFits, SocketFits, StatusFits, PresenceIsTold, PresenceFits, SessionType,
     Sockets, Statuses
<1>1. PICK c \in ConnType :
        /\ conn' = [conn EXCEPT ![t] = c] /\ faults' \in Nat
        /\ \/ /\ c.at = "joined" /\ (c.readOnly <=> conn[t].answer = "viewer")
              /\ conn[t].answer \in {"editor", "viewer"}
              /\ \E known \in Known(t) : inbox' = [inbox EXCEPT ![t] = known]
           \/ c.at \in {"closed", "denied"} /\ inbox' = inbox
  <2> DEFINE c1 == [conn[t] EXCEPT !.at = "joined"]
             c2 == [c1 EXCEPT !.readOnly = conn[t].answer = "viewer"]
             c3 == [conn[t] EXCEPT !.at = "closed"]
             c4 == [conn[t] EXCEPT !.at = "denied"]
  <2>1. c1 \in ConnType /\ c2 \in ConnType /\ c3 \in ConnType /\ c4 \in ConnType
    BY <1>0, ConnFields DEF Places
  <2>2. /\ c2.at = "joined" /\ (c2.readOnly <=> conn[t].answer = "viewer")
        /\ c3.at = "closed" /\ c4.at = "denied"
    BY <1>0 DEF ConnType
  <2>3. \/ /\ conn' = [conn EXCEPT ![t] = c2] /\ Admitted(conn[t].answer) /\ faults' = faults
           /\ \E known \in Known(t) : inbox' = [inbox EXCEPT ![t] = known]
        \/ conn' = [conn EXCEPT ![t] = c3] /\ inbox' = inbox /\ faults' = faults + 1
        \/ conn' = [conn EXCEPT ![t] = c4] /\ inbox' = inbox /\ faults' = faults
    BY DEF Admit
  <2> HIDE DEF c2, c3, c4
  <2>4. faults' \in Nat
    BY <2>3 DEF ConnectionTypeOK
  <2> QED BY <2>1, <2>2, <2>3, <2>4 DEF Admitted
<1>2. ConnectionTypeOK'
  <2>1. inbox' \in [PageTabs -> Seq(PageTabs \X BOOLEAN)]
    <3>1. CASE inbox' = inbox
      BY <3>1 DEF ConnectionTypeOK
    <3>2. CASE \E known \in Known(t) : inbox' = [inbox EXCEPT ![t] = known]
      <4>1. PICK known \in Known(t) : inbox' = [inbox EXCEPT ![t] = known]
        BY <3>2
      <4>2. known \in Seq(PageTabs \X BOOLEAN)
        BY KnownFits
      <4> QED BY <4>1, <4>2 DEF ConnectionTypeOK
    <3> QED BY <1>1, <3>1, <3>2
  <2> QED BY <2>1, <1>1, <1>f DEF ConnectionTypeOK
<1>3. SessionsFit'
  <2>1. conn'[t] = c /\ UNCHANGED <<role, session, pre, since>>
    BY <1>1, <1>f DEF ConnectionTypeOK
  <2>2. SocketFits(session[t], pre[t], c)
    BY <1>0, <1>1, <1>s DEF TabFits, StatusFits, SocketFits
  <2>3. ModeFits(role[t], session[t], pre[t], c, since[t].steady)
    BY <1>0, <1>1, <1>s DEF TabFits, ModeFits, Admitted
  <2>4. RightFits(role[t], c, since[t].could)
    BY <1>0, <1>1 DEF TabFits, RightFits
  <2>5. TabFits(t)'
    BY <1>0, <2>1, <2>2, <2>3, <2>4 DEF TabFits
  <2> QED BY <2>1, <2>5, <1>1, OthersStay DEF ConnectionTypeOK
<1>4. PresenceIsTold'
  <2> SUFFICES ASSUME NEW x \in PageTabs PROVE PresenceFits(x)'
    BY DEF PresenceIsTold
  <2>0. PresenceFits(x)
    BY DEF PresenceIsTold
  <2>1. CASE x = t
    <3>1. conn'[t] = c /\ seen'[t] = {} /\ session'[t].socket = "open"
      BY <1>1, <1>f, <1>s DEF ConnectionTypeOK
    <3>2. CASE c.at \in {"closed", "denied"} /\ inbox' = inbox
      BY <2>0, <2>1, <3>1, <3>2 DEF PresenceFits, Joined
    <3>3. CASE \E known \in Known(t) : inbox' = [inbox EXCEPT ![t] = known]
      <4>1. PICK known \in Known(t) : inbox' = [inbox EXCEPT ![t] = known]
        BY <3>3
      <4>2. \A i \in DOMAIN known : \E y \in present \ {t} : known[i] = Here(y)
        BY KnownFits
      <4>3. inbox'[t] = known
        BY <4>1 DEF ConnectionTypeOK
      <4>4. \A i \in DOMAIN known : known[i][1] # t
        <5> TAKE i \in DOMAIN known
        <5>1. PICK y \in present \ {t} : known[i] = Here(y)
          BY <4>2
        <5> QED BY <5>1, MessagesDiffer
      <4>5. ASSUME NEW y \in PageTabs \ present PROVE GoneIsTold(y, {}, known)
        <5>1. ASSUME NEW i \in DOMAIN known PROVE known[i] # Here(y)
          <6>1. PICK z \in present \ {t} : known[i] = Here(z)
            BY <4>2
          <6> QED BY <6>1, <4>5, MessagesDiffer
        <5> QED BY <5>1 DEF GoneIsTold, Here
      <4> QED BY <2>1, <3>1, <4>3, <4>4, <4>5, <1>f DEF PresenceFits
    <3> QED BY <1>1, <3>2, <3>3
  <2>2. CASE x # t
    <3>1. conn'[x] = conn[x] /\ inbox'[x] = inbox[x] /\ UNCHANGED <<session, seen, present>>
      BY <1>1, <1>f, <2>2 DEF ConnectionTypeOK
    <3> QED BY <2>0, <3>1 DEF PresenceFits, Joined
  <2> QED BY <2>1, <2>2
<1> QED BY <1>2, <1>3, <1>4

LEMMA AuthenticatedInv ==
  ASSUME ConnectionInv, NEW t \in PageTabs, Authenticated(t)
  PROVE  ConnectionInv'
<1> USE DEF ConnectionInv
<1>0. /\ session[t] \in SessionType /\ conn[t] \in ConnType /\ TabFits(t)
      /\ conn[t].at = "joined" /\ edit[t] \in {"none", "local", "sent", "taken"}
  BY DEF SessionsFit, ConnectionTypeOK, Authenticated
<1> DEFINE s0 == [session[t] EXCEPT !.socket = "authenticated"]
           s == [s0 EXCEPT !.status = "connected"]
           c == [conn[t] EXCEPT !.at = "told"]
<1>1. /\ session' = [session EXCEPT ![t] = s] /\ conn' = [conn EXCEPT ![t] = c]
      /\ UNCHANGED <<role, pre, present, lingers, inbox, seen, since, changes, faults, drops>>
  BY DEF Authenticated, presenceVars, connBounds
<1>2. s0 \in SessionType /\ s \in SessionType /\ c \in ConnType
  BY <1>0, SessionFields, ConnFields DEF Statuses, Sockets, Places
<1>3. /\ session[t].socket = "open" /\ pre[t] = "idle"
      /\ s.status = "connected" /\ s.socket = "authenticated" /\ ~s.boot /\ ~s.timer
      /\ ~s.denied /\ ~s.destroyed /\ s.readOnly = session[t].readOnly
      /\ c.at = "told" /\ c.readOnly = conn[t].readOnly
  BY <1>0 DEF TabFits, StatusFits, SocketFits, SessionType, ConnType, Statuses, Sockets
<1> HIDE DEF s, c
<1>4. ConnectionTypeOK'
  <2>1. edit' \in [PageTabs -> {"none", "local", "sent", "taken"}]
    BY <1>0 DEF Authenticated, ConnectionTypeOK
  <2> QED BY <2>1, <1>1, <1>2 DEF ConnectionTypeOK
<1>5. SessionsFit'
  <2>1. session'[t] = s /\ conn'[t] = c /\ UNCHANGED <<role, pre, since>>
    BY <1>1 DEF ConnectionTypeOK
  <2>2. TabFits(t)'
    BY <1>0, <1>3, <2>1 DEF TabFits, StatusFits, SocketFits, ModeFits, RightFits, Roles
  <2> QED BY <2>2, <1>1, OthersStay DEF ConnectionTypeOK
<1>6. PresenceIsTold'
  <2>1. \A x \in PageTabs :
         /\ session[x].socket = "authenticated" => session'[x].socket = "authenticated"
         /\ Joined(x)' => Joined(x)
    BY <1>0, <1>1, <1>3 DEF ConnectionTypeOK, Joined
  <2> QED BY <2>1, <1>1, PresenceStays
<1> QED BY <1>4, <1>5, <1>6

LEMMA DeniedInv ==
  ASSUME ConnectionInv, NEW t \in PageTabs, Denied(t)
  PROVE  ConnectionInv'
<1> USE DEF ConnectionInv
<1>0. /\ session[t] \in SessionType /\ conn[t] \in ConnType /\ TabFits(t)
      /\ conn[t].at = "denied"
  BY DEF SessionsFit, ConnectionTypeOK, Denied
<1> DEFINE s0 == [session[t] EXCEPT !.denied = TRUE]
           s == [s0 EXCEPT !.status = "error"]
           c == [conn[t] EXCEPT !.at = "closed"]
<1>1. /\ session' = [session EXCEPT ![t] = s] /\ conn' = [conn EXCEPT ![t] = c]
      /\ UNCHANGED <<role, pre, edit, present, lingers, inbox, seen, since, changes, faults,
                     drops>>
  BY DEF Denied, presenceVars, connBounds
<1>2. s0 \in SessionType /\ s \in SessionType /\ c \in ConnType
  BY <1>0, SessionFields, ConnFields DEF Statuses, Places
<1>3. /\ session[t].socket \in {"open", "authenticated"} /\ pre[t] = "idle"
      /\ s.status = "error" /\ s.socket = session[t].socket /\ ~s.boot /\ ~s.timer
      /\ s.denied /\ ~s.destroyed /\ s.readOnly = session[t].readOnly
      /\ c.at = "closed" /\ c.readOnly = conn[t].readOnly
  BY <1>0 DEF TabFits, StatusFits, SocketFits, SessionType, ConnType, Statuses, Sockets
<1> HIDE DEF s, c
<1>4. ConnectionTypeOK'
  BY <1>1, <1>2 DEF ConnectionTypeOK
<1>5. SessionsFit'
  <2>1. session'[t] = s /\ conn'[t] = c /\ UNCHANGED <<role, pre, since>>
    BY <1>1 DEF ConnectionTypeOK
  <2>2. TabFits(t)'
    BY <1>0, <1>3, <2>1 DEF TabFits, StatusFits, SocketFits, ModeFits, RightFits, Roles
  <2> QED BY <2>2, <1>1, OthersStay DEF ConnectionTypeOK
<1>6. PresenceIsTold'
  <2>1. \A x \in PageTabs :
         /\ session[x].socket = "authenticated" => session'[x].socket = "authenticated"
         /\ Joined(x)' => Joined(x)
    BY <1>0, <1>1, <1>3 DEF ConnectionTypeOK, Joined
  <2> QED BY <2>1, <1>1, PresenceStays
<1> QED BY <1>4, <1>5, <1>6

(* An edit does not touch the connection.                                  *)
LEMMA CommitInv ==
  ASSUME ConnectionInv, NEW t \in PageTabs, commit(t)
  PROVE  ConnectionInv'
<1> USE DEF ConnectionInv, commit, presenceVars, connBounds
<1>1. ConnectionTypeOK'
  BY DEF ConnectionTypeOK
<1>2. SessionsFit' /\ PresenceIsTold'
  BY PresenceStays DEF SessionsFit, TabFits, Joined
<1> QED BY <1>1, <1>2

(* A socket that closes, or that is refused, changes its place alone.      *)
LEMMA PlaceInv ==
  ASSUME ConnectionInv, NEW t \in PageTabs, NEW place \in {"denied", "closed"},
         conn' = [conn EXCEPT ![t].at = place], conn[t].at # "none",
         place = "denied" => conn[t].at = "told",
         UNCHANGED <<role, session, pre, since, present, inbox, seen>>
  PROVE  SessionsFit' /\ PresenceIsTold' /\ conn' \in [PageTabs -> ConnType]
<1> USE DEF ConnectionInv
<1>0. session[t] \in SessionType /\ conn[t] \in ConnType /\ TabFits(t)
  BY DEF SessionsFit, ConnectionTypeOK
<1> DEFINE c == [conn[t] EXCEPT !.at = place]
<1>1. c \in ConnType /\ c.at = place /\ c.readOnly = conn[t].readOnly
  <2>1. c \in ConnType
    BY <1>0, ConnFields DEF Places
  <2> QED BY <1>0, <2>1 DEF ConnType
<1>2. conn' = [conn EXCEPT ![t] = c]
  OBVIOUS
<1> HIDE DEF c
<1>3. conn'[t] = c /\ conn' \in [PageTabs -> ConnType]
  BY <1>1, <1>2 DEF ConnectionTypeOK
<1>4. TabFits(t)'
  BY <1>0, <1>1, <1>3 DEF TabFits, StatusFits, SocketFits, ModeFits, RightFits, SessionType, Sockets
<1>5. \A x \in PageTabs : Joined(x)' => Joined(x)
  BY <1>1, <1>2 DEF ConnectionTypeOK, Joined
<1> QED BY <1>2, <1>3, <1>4, <1>5, OthersStay, PresenceStays DEF ConnectionTypeOK

LEMMA SyncInv ==
  ASSUME ConnectionInv, NEW t \in PageTabs, Sync(t)
  PROVE  ConnectionInv'
<1> USE DEF ConnectionInv, connBounds
<1>1. /\ edit' \in [PageTabs -> {"none", "local", "sent", "taken"}] /\ lingers' \subseteq PageTabs
      /\ UNCHANGED <<role, session, pre, present, inbox, seen, since, changes, faults, drops>>
  <2>1. edit' \in {[edit EXCEPT ![t] = "taken"], [edit EXCEPT ![t] = "local"]}
    BY DEF Sync
  <2>2. lingers' \in {lingers, lingers \cup {t}}
    BY DEF Sync, Leaves
  <2>3. UNCHANGED <<role, session, pre, present, inbox, seen, since, changes, faults, drops>>
    BY DEF Sync
  <2>4. edit' \in [PageTabs -> {"none", "local", "sent", "taken"}]
    BY <2>1 DEF ConnectionTypeOK
  <2>5. lingers' \subseteq PageTabs
    BY <2>2 DEF ConnectionTypeOK
  <2> QED BY <2>3, <2>4, <2>5
<1>2. CASE conn' = conn
  BY <1>1, <1>2, PresenceStays DEF ConnectionTypeOK, SessionsFit, TabFits, Joined
<1>3. CASE conn' = [conn EXCEPT ![t].at = "denied"]
  <2>1. SessionsFit' /\ PresenceIsTold' /\ conn' \in [PageTabs -> ConnType]
    BY <1>1, <1>3, PlaceInv DEF Sync
  <2> QED BY <1>1, <2>1 DEF ConnectionTypeOK
<1> QED BY <1>2, <1>3 DEF Sync

LEMMA DropInv ==
  ASSUME ConnectionInv, NEW t \in PageTabs, Drop(t)
  PROVE  ConnectionInv'
<1> USE DEF ConnectionInv
<1>1. /\ lingers' \subseteq PageTabs /\ drops' \in Nat
      /\ UNCHANGED <<role, session, pre, edit, present, inbox, seen, since, changes, faults>>
  BY DEF Drop, Leaves, ConnectionTypeOK
<1>2. SessionsFit' /\ PresenceIsTold' /\ conn' \in [PageTabs -> ConnType]
  BY <1>1, PlaceInv DEF Drop
<1> QED BY <1>1, <1>2 DEF ConnectionTypeOK

(* What is in a queue of presence messages after one more, and after the
   first was read.                                                         *)
LEMMA AppendTold ==
  ASSUME NEW M, NEW q \in Seq(M), NEW y, NEW shown, NEW m \in M,
         \/ m = Gone(y)
         \/ m # Here(y) /\ GoneIsTold(y, shown, q)
  PROVE  GoneIsTold(y, shown, Append(q, m))
<1> DEFINE a == Append(q, m)
<1>1. /\ Len(q) \in Nat /\ DOMAIN q = 1 .. Len(q) /\ DOMAIN a = 1 .. Len(q) + 1
      /\ a[Len(q) + 1] = m /\ \A i \in 1 .. Len(q) : a[i] = q[i]
  OBVIOUS
<1> HIDE DEF a
<1>2. CASE m = Gone(y)
  <2>1. a[Len(q) + 1] = Gone(y) /\ Len(q) + 1 \in DOMAIN a
    BY <1>1, <1>2
  <2>2. ASSUME NEW i \in DOMAIN a, a[i] = Here(y) PROVE Len(q) + 1 > i
    <3>1. i # Len(q) + 1
      BY <2>1, <2>2, MessagesDiffer
    <3> QED BY <1>1, <3>1
  <2> QED BY <2>1, <2>2 DEF GoneIsTold, a
<1>3. CASE m # Here(y) /\ GoneIsTold(y, shown, q)
  <2>1. y \in shown => \E j \in DOMAIN a : a[j] = Gone(y)
    BY <1>1, <1>3 DEF GoneIsTold
  <2>2. ASSUME NEW i \in DOMAIN a, a[i] = Here(y)
        PROVE  \E j \in DOMAIN a : j > i /\ a[j] = Gone(y)
    <3>1. i \in DOMAIN q /\ q[i] = Here(y)
      BY <1>1, <1>3, <2>2
    <3>2. PICK j \in DOMAIN q : j > i /\ q[j] = Gone(y)
      BY <1>3, <3>1 DEF GoneIsTold
    <3> QED BY <1>1, <3>2
  <2> QED BY <2>1, <2>2 DEF GoneIsTold, a
<1> QED BY <1>2, <1>3

LEMMA TailTold ==
  ASSUME NEW M, NEW q \in Seq(M), q # <<>>, NEW y, NEW shown, NEW after,
         GoneIsTold(y, shown, q),
         y \in after => \/ y \in shown /\ Head(q) # Gone(y)
                       \/ Head(q) = Here(y)
  PROVE  GoneIsTold(y, after, Tail(q))
<1> DEFINE r == Tail(q)
<1>1. /\ Len(q) \in Nat /\ Len(q) > 0 /\ DOMAIN q = 1 .. Len(q) /\ Head(q) = q[1]
      /\ DOMAIN r = 1 .. Len(q) - 1
      /\ \A i \in 1 .. Len(q) - 1 : r[i] = q[i + 1]
  OBVIOUS
<1> HIDE DEF r
<1>2. ASSUME NEW j \in DOMAIN q, j > 1 PROVE j - 1 \in DOMAIN r /\ r[j - 1] = q[j]
  BY <1>1, <1>2
<1>3. ASSUME y \in after PROVE \E j \in DOMAIN r : r[j] = Gone(y)
  <2>1. CASE y \in shown /\ Head(q) # Gone(y)
    <3>1. PICK j \in DOMAIN q : q[j] = Gone(y)
      BY <2>1 DEF GoneIsTold
    <3>2. j > 1
      BY <1>1, <2>1, <3>1
    <3> QED BY <1>2, <3>1, <3>2
  <2>2. CASE Head(q) = Here(y)
    <3>1. PICK j \in DOMAIN q : j > 1 /\ q[j] = Gone(y)
      BY <1>1, <2>2 DEF GoneIsTold
    <3> QED BY <1>2, <3>1
  <2> QED BY <1>3, <2>1, <2>2
<1>4. ASSUME NEW i \in DOMAIN r, r[i] = Here(y)
      PROVE  \E j \in DOMAIN r : j > i /\ r[j] = Gone(y)
  <2>1. i + 1 \in DOMAIN q /\ q[i + 1] = Here(y)
    BY <1>1, <1>4
  <2>2. PICK j \in DOMAIN q : j > i + 1 /\ q[j] = Gone(y)
    BY <2>1 DEF GoneIsTold
  <2> QED BY <1>1, <1>2, <2>2
<1> QED BY <1>3, <1>4 DEF GoneIsTold, r

(* The server tells everybody else of a tab that comes or goes.            *)
LEMMA TellsTold ==
  ASSUME ConnectionInv, NEW t \in PageTabs, NEW here \in BOOLEAN, Tells(t, here),
         present' = IF here THEN present \cup {t} ELSE present \ {t},
         UNCHANGED <<session, conn, seen>>
  PROVE  PresenceIsTold' /\ inbox' \in [PageTabs -> Seq(PageTabs \X BOOLEAN)]
<1> DEFINE m == <<t, here>>
<1>0. /\ m \in PageTabs \X BOOLEAN /\ m[1] = t /\ (~here => m = Gone(t)) /\ (here => m = Here(t))
  BY DEF Here, Gone
<1>1. inbox' = [x \in PageTabs |-> IF x # t /\ Joined(x) THEN Append(inbox[x], m) ELSE inbox[x]]
  BY DEF Tells
<1> HIDE DEF m
<1>2. inbox' \in [PageTabs -> Seq(PageTabs \X BOOLEAN)]
  BY <1>0, <1>1 DEF ConnectionInv, ConnectionTypeOK
<1>3. ASSUME NEW x \in PageTabs PROVE PresenceFits(x)'
  <2> inbox[x] \in Seq(PageTabs \X BOOLEAN)
    BY DEF ConnectionInv, ConnectionTypeOK
  <2>0. PresenceFits(x)
    BY DEF ConnectionInv, PresenceIsTold
  <2>1. (x \notin seen[x] /\ \A i \in DOMAIN inbox[x] : inbox[x][i][1] # x)'
    <3>1. CASE x # t /\ Joined(x)
      <4> DEFINE a == Append(inbox[x], m)
      <4>1. /\ Len(inbox[x]) \in Nat /\ DOMAIN inbox[x] = 1 .. Len(inbox[x])
            /\ DOMAIN a = 1 .. Len(inbox[x]) + 1 /\ a[Len(inbox[x]) + 1] = m
            /\ \A i \in 1 .. Len(inbox[x]) : a[i] = inbox[x][i]
        BY <1>0
      <4>2. inbox'[x] = a
        BY <1>1, <3>1
      <4> HIDE DEF a
      <4>3. ASSUME NEW i \in DOMAIN a PROVE a[i][1] # x
        <5>1. CASE i = Len(inbox[x]) + 1
          BY <1>0, <3>1, <4>1, <5>1
        <5>2. CASE i # Len(inbox[x]) + 1
          <6>1. i \in DOMAIN inbox[x] /\ a[i] = inbox[x][i]
            BY <4>1, <5>2
          <6> QED BY <2>0, <6>1 DEF PresenceFits
        <5> QED BY <5>1, <5>2
      <4> QED BY <2>0, <4>2, <4>3 DEF PresenceFits
    <3>2. CASE ~(x # t /\ Joined(x))
      BY <1>1, <2>0, <3>2 DEF PresenceFits
    <3> QED BY <3>1, <3>2
  <2>2. ASSUME Joined(x), NEW y \in PageTabs, y \notin present'
        PROVE  GoneIsTold(y, seen[x], inbox'[x])
    <3>1. y \notin present => GoneIsTold(y, seen[x], inbox[x])
      BY <2>0, <2>2 DEF PresenceFits
    <3>2. CASE x = t
      <4>1. inbox'[x] = inbox[x]
        BY <1>1, <3>2
      <4>2. CASE y = t
        <5>1. t \notin seen[x] /\ \A i \in DOMAIN inbox[x] : inbox[x][i] # Here(t)
          BY <2>0, <3>2, MessagesDiffer DEF PresenceFits
        <5> QED BY <4>1, <4>2, <5>1 DEF GoneIsTold
      <4>3. CASE y # t
        BY <2>2, <3>1, <4>1, <4>3
      <4> QED BY <4>2, <4>3
    <3>3. CASE x # t
      <4>1. inbox'[x] = Append(inbox[x], m)
        BY <1>1, <2>2, <3>3
      <4>2. CASE y = t
        <5>1. m = Gone(y)
          BY <1>0, <2>2, <4>2
        <5> QED BY <1>0, <4>1, <5>1, AppendTold
      <4>3. CASE y # t
        <5>1. y \notin present
          BY <2>2, <4>3
        <5>2. m # Here(y)
          BY <1>0, <4>3, MessagesDiffer
        <5> QED BY <1>0, <3>1, <4>1, <5>1, <5>2, AppendTold
      <4> QED BY <4>2, <4>3
    <3> QED BY <3>2, <3>3
  <2> QED BY <2>0, <2>1, <2>2 DEF PresenceFits, Joined
<1> QED BY <1>2, <1>3 DEF PresenceIsTold

LEMMA AnnounceInv ==
  ASSUME ConnectionInv, NEW t \in PageTabs, Announce(t) \/ ServerNotices(t)
  PROVE  ConnectionInv'
<1>1. /\ UNCHANGED <<role, session, pre, conn, edit, seen, since, changes, faults, drops>>
      /\ lingers' \subseteq lingers
      /\ \E here \in BOOLEAN :
           /\ Tells(t, here)
           /\ present' = IF here THEN present \cup {t} ELSE present \ {t}
  BY DEF Announce, ServerNotices, connBounds
<1>2. PresenceIsTold' /\ inbox' \in [PageTabs -> Seq(PageTabs \X BOOLEAN)]
  BY <1>1, TellsTold
<1>3. present' \subseteq PageTabs /\ IsFiniteSet(present')
  <2>1. present \subseteq PageTabs /\ IsFiniteSet(present)
    BY DEF ConnectionInv, ConnectionTypeOK
  <2>2. IsFiniteSet(present \cup {t}) /\ IsFiniteSet(present \ {t})
    BY <2>1, FS_AddElement, FS_RemoveElement
  <2> QED BY <1>1, <2>1, <2>2
<1>4. ConnectionTypeOK'
  BY <1>1, <1>2, <1>3 DEF ConnectionInv, ConnectionTypeOK
<1>5. SessionsFit'
  BY <1>1 DEF ConnectionInv, SessionsFit, TabFits
<1> QED BY <1>2, <1>4, <1>5 DEF ConnectionInv

LEMMA PresenceArrivesInv ==
  ASSUME ConnectionInv, NEW t \in PageTabs, PresenceArrives(t)
  PROVE  ConnectionInv'
<1>f. UNCHANGED <<role, session, pre, conn, edit, present, lingers, since, changes, faults, drops>>
  BY DEF PresenceArrives, connBounds
<1>0. /\ inbox[t] \in Seq(PageTabs \X BOOLEAN) /\ inbox[t] # <<>> /\ seen[t] \in SUBSET PageTabs
      /\ session[t].socket = "authenticated" /\ PresenceFits(t)
      /\ inbox' = [inbox EXCEPT ![t] = Tail(inbox[t])]
  BY DEF PresenceArrives, ConnectionInv, ConnectionTypeOK, PresenceIsTold
<1>1. PICK x \in PageTabs, here \in BOOLEAN : Head(inbox[t]) = <<x, here>>
  BY <1>0
<1>2. PICK after \in {seen[t], seen[t] \cup {x}, seen[t] \ {x}} :
        /\ seen' = [seen EXCEPT ![t] = after]
        /\ x \in after => here
  <2>1. seen' \in {[seen EXCEPT ![t] = IF here THEN seen[t] \cup {x} ELSE seen[t] \ {x}],
                   [seen EXCEPT ![t] = IF here THEN seen[t] ELSE seen[t] \ {x}]}
    BY <1>1 DEF PresenceArrives
  <2> QED BY <2>1
<1>3. /\ Tail(inbox[t]) \in Seq(PageTabs \X BOOLEAN) /\ Head(inbox[t]) = inbox[t][1]
      /\ 1 \in DOMAIN inbox[t]
      /\ \A i \in DOMAIN Tail(inbox[t]) :
           i + 1 \in DOMAIN inbox[t] /\ Tail(inbox[t])[i] = inbox[t][i + 1]
  BY <1>0
<1>4. ConnectionTypeOK'
  BY <1>f, <1>0, <1>1, <1>2, <1>3 DEF ConnectionInv, ConnectionTypeOK
<1>5. SessionsFit'
  BY <1>f DEF ConnectionInv, SessionsFit, TabFits
<1>6. ASSUME NEW y \in PageTabs PROVE PresenceFits(y)'
  <2>1. CASE y # t
    <3>1. inbox'[y] = inbox[y] /\ seen'[y] = seen[y]
      BY <1>0, <1>2, <2>1 DEF ConnectionInv, ConnectionTypeOK
    <3> QED BY <1>f, <3>1 DEF ConnectionInv, PresenceIsTold, PresenceFits, Joined
  <2>2. CASE y = t
    <3>1. inbox'[t] = Tail(inbox[t]) /\ seen'[t] = after
      BY <1>0, <1>2 DEF ConnectionInv, ConnectionTypeOK
    <3>2. x # t
      BY <1>0, <1>1, <1>3 DEF PresenceFits
    <3>3. t \notin after /\ \A i \in DOMAIN Tail(inbox[t]) : Tail(inbox[t])[i][1] # t
      BY <1>0, <1>2, <1>3, <3>2 DEF PresenceFits
    <3>4. ASSUME Joined(t), NEW z \in PageTabs \ present PROVE GoneIsTold(z, after, Tail(inbox[t]))
      <4>1. GoneIsTold(z, seen[t], inbox[t])
        BY <1>0, <3>4 DEF PresenceFits
      <4>2. z \in after => \/ z \in seen[t] /\ Head(inbox[t]) # Gone(z)
                          \/ Head(inbox[t]) = Here(z)
        <5>1. CASE z = x
          <6>1. z \in after => Head(inbox[t]) = Here(z)
            BY <1>1, <1>2, <5>1 DEF Here
          <6> QED BY <6>1
        <5>2. CASE z # x
          <6>1. Head(inbox[t]) # Gone(z)
            <7>1. Head(inbox[t])[1] = x
              BY <1>1
            <7> QED BY <5>2, <7>1, MessagesDiffer
          <6> QED BY <1>2, <5>2, <6>1
        <5> QED BY <5>1, <5>2
      <4> QED BY <1>0, <4>1, <4>2, TailTold
    <3> QED BY <1>f, <1>0, <2>2, <3>1, <3>3, <3>4 DEF PresenceFits, Joined
  <2> QED BY <2>1, <2>2
<1> QED BY <1>4, <1>5, <1>6 DEF ConnectionInv, PresenceIsTold

(* A tab that lost its socket, or is left, has nobody's presence and no
   message on its way.                                                     *)
LEMMA GoneInv ==
  ASSUME ConnectionInv, NEW t \in PageTabs, NEW s \in SessionType, StatusFits(s), s.socket = "none",
         ~s.destroyed => ~s.boot /\ pre[t] = "idle",
         session' = [session EXCEPT ![t] = s],
         conn' = [conn EXCEPT ![t] = NoConnection], seen' = [seen EXCEPT ![t] = {}],
         Abandoned(t), lingers' \subseteq PageTabs,
         UNCHANGED <<role, pre, present, since, changes, faults, drops>>
  PROVE  ConnectionInv'
<1>0. /\ NoConnection \in ConnType /\ NoConnection.at = "none"
      /\ TabFits(t)
  BY DEF NoConnection, ConnType, Places, Answers, Roles, ConnectionInv, SessionsFit
<1>1. /\ session'[t] = s /\ conn'[t] = NoConnection /\ seen'[t] = {} /\ inbox'[t] = <<>>
      /\ \A x \in PageTabs \ {t} : /\ session'[x] = session[x] /\ conn'[x] = conn[x]
                              /\ seen'[x] = seen[x] /\ inbox'[x] = inbox[x]
  BY DEF ConnectionInv, ConnectionTypeOK, Abandoned
<1>2. ConnectionTypeOK'
  <2>1. inbox' \in [PageTabs -> Seq(PageTabs \X BOOLEAN)]
    BY DEF ConnectionInv, ConnectionTypeOK, Abandoned
  <2>2. edit' \in [PageTabs -> {"none", "local", "sent", "taken"}]
    BY DEF ConnectionInv, ConnectionTypeOK, Abandoned
  <2> QED BY <1>0, <2>1, <2>2 DEF ConnectionInv, ConnectionTypeOK
<1>3. SessionsFit'
  <2>1. TabFits(t)'
    BY <1>0, <1>1 DEF TabFits, SocketFits, ModeFits, RightFits
  <2> QED BY <1>1, <2>1, OthersStay DEF ConnectionInv
<1>4. PresenceIsTold'
  BY <1>0, <1>1 DEF ConnectionInv, PresenceIsTold, PresenceFits, Joined
<1> QED BY <1>2, <1>3, <1>4 DEF ConnectionInv

LEMMA ClosedInv ==
  ASSUME ConnectionInv, NEW t \in PageTabs, Closed(t)
  PROVE  ConnectionInv'
<1>0. session[t] \in SessionType /\ conn[t] \in ConnType /\ TabFits(t) /\ conn[t].at = "closed"
  BY DEF ConnectionInv, SessionsFit, ConnectionTypeOK, Closed
<1>1. /\ session[t].socket # "none" /\ ~session[t].destroyed /\ ~session[t].boot
      /\ ~session[t].timer /\ pre[t] = "idle"
  BY <1>0 DEF TabFits, StatusFits, SocketFits, SessionType, Statuses
<1>2. PICK s \in SessionType :
        /\ session' = [session EXCEPT ![t] = s] /\ StatusFits(s)
        /\ s.socket = "none" /\ ~s.boot /\ ~s.destroyed
  <2> DEFINE s1 == [session[t] EXCEPT !.socket = "none"]
             s2 == [s1 EXCEPT !.status = "error"]
             s3 == [s1 EXCEPT !.status = "retrying"]
             s4 == [s3 EXCEPT !.timer = TRUE]
  <2>1. s1 \in SessionType
    BY <1>0, SessionFields DEF Sockets
  <2>2. s2 \in SessionType /\ s3 \in SessionType
    BY <2>1, SessionFields DEF Statuses
  <2>3. s4 \in SessionType
    BY <2>2, SessionFields
  <2>4. CASE s1.denied
    <3>1. session' = [session EXCEPT ![t] = s2]
      BY <2>4 DEF Closed
    <3>2. /\ s2.socket = "none" /\ ~s2.boot /\ ~s2.timer /\ ~s2.destroyed /\ s2.status = "error"
      BY <1>0, <1>1 DEF SessionType
    <3> HIDE DEF s2
    <3>3. StatusFits(s2)
      BY <3>2 DEF StatusFits
    <3> QED BY <2>2, <3>1, <3>2, <3>3
  <2>5. CASE ~s1.denied
    <3>1. /\ s4.socket = "none" /\ ~s4.boot /\ s4.timer /\ ~s4.destroyed
          /\ s4.status = "retrying" /\ ~s4.denied
      BY <1>0, <1>1, <2>5 DEF SessionType
    <3>2. ~s3.destroyed /\ ~s3.denied
      BY <1>0, <1>1, <2>5 DEF SessionType
    <3>3. Reconnecting(s3) = s4
      BY <3>2 DEF Reconnecting
    <3>4. session' = [session EXCEPT ![t] = s4]
      BY <2>5, <3>3 DEF Closed
    <3> HIDE DEF s4
    <3>5. StatusFits(s4)
      BY <3>1 DEF StatusFits
    <3> QED BY <2>3, <3>1, <3>4, <3>5
  <2> QED BY <2>4, <2>5
<1>3. lingers' \subseteq PageTabs /\ UNCHANGED <<role, pre, present, since, changes, faults, drops>>
  BY DEF Closed, connBounds, ConnectionInv, ConnectionTypeOK
<1> QED BY <1>1, <1>2, <1>3, GoneInv DEF Closed

LEMMA DestroyInv ==
  ASSUME ConnectionInv, NEW t \in PageTabs, destroy(t)
  PROVE  ConnectionInv'
<1>0. session[t] \in SessionType
  BY DEF ConnectionInv, ConnectionTypeOK
<1>1. PICK s \in SessionType :
        /\ session' = [session EXCEPT ![t] = s] /\ StatusFits(s)
        /\ s.socket = "none" /\ s.destroyed
  <2> DEFINE s1 == [session[t] EXCEPT !.destroyed = TRUE]
             s2 == [s1 EXCEPT !.boot = FALSE]
             s3 == [s2 EXCEPT !.status = "disconnected"]
             s4 == [s3 EXCEPT !.timer = FALSE]
             s5 == [s4 EXCEPT !.socket = "none"]
  <2>1. s1 \in SessionType /\ s2 \in SessionType
    BY <1>0, SessionFields
  <2>2. s3 \in SessionType /\ s4 \in SessionType /\ s5 \in SessionType
    BY <2>1, SessionFields DEF Statuses, Sockets
  <2>3. session' = [session EXCEPT ![t] = s5]
    BY DEF destroy
  <2>4. s5.socket = "none" /\ s5.destroyed /\ ~s5.boot /\ ~s5.timer /\ s5.status = "disconnected"
    BY <1>0 DEF SessionType
  <2> HIDE DEF s5
  <2> QED BY <2>2, <2>3, <2>4 DEF StatusFits
<1>2. lingers' \subseteq PageTabs /\ UNCHANGED <<role, pre, present, since, changes, faults, drops>>
  BY DEF destroy, Leaves, connBounds, ConnectionInv, ConnectionTypeOK
<1> QED BY <1>1, <1>2, GoneInv DEF destroy

LEMMA RoleChangesInv ==
  ASSUME ConnectionInv, NEW t \in PageTabs, RoleChanges(t)
  PROVE  ConnectionInv'
<1>f. /\ UNCHANGED <<session, pre, conn, edit, present, lingers, inbox, seen, faults, drops>>
      /\ changes' = changes + 1
  BY DEF RoleChanges, presenceVars
<1>0. TabFits(t) /\ since[t] \in [steady : BOOLEAN, could : BOOLEAN]
  BY DEF ConnectionInv, SessionsFit, ConnectionTypeOK
<1>1. PICK r \in Roles :
        /\ role' = [role EXCEPT ![t] = r]
        /\ since' = [since EXCEPT ![t] = [steady |-> FALSE, could |-> @.could \/ r = "editor"]]
  BY DEF RoleChanges
<1>2. ConnectionTypeOK'
  BY <1>f, <1>0, <1>1 DEF ConnectionInv, ConnectionTypeOK
<1>3. SessionsFit'
  <2>1. /\ role'[t] = r /\ ~since'[t].steady
        /\ since'[t].could <=> since[t].could \/ r = "editor"
    BY <1>0, <1>1 DEF ConnectionInv, ConnectionTypeOK
  <2>2. TabFits(t)'
    BY <1>f, <1>0, <2>1 DEF TabFits, ModeFits, RightFits
  <2> QED BY <1>f, <1>1, <2>2, OthersStay DEF ConnectionInv, ConnectionTypeOK
<1>4. PresenceIsTold'
  BY <1>f, PresenceStays DEF ConnectionInv, Joined
<1> QED BY <1>2, <1>3, <1>4 DEF ConnectionInv

-----------------------------------------------------------------------------
LEMMA ConnectionStarts ==
  ConnectionInit => ConnectionInv
<1> SUFFICES ASSUME ConnectionInit PROVE ConnectionInv
  OBVIOUS
<1> DEFINE s(t) == [NoSession EXCEPT !.readOnly = role[t] = "viewer"]
<1>1. ASSUME NEW t \in PageTabs
      PROVE  /\ session[t] = s(t) /\ s(t) \in SessionType /\ s(t).status = "idle"
             /\ ~s(t).boot /\ ~s(t).timer /\ s(t).socket = "none" /\ ~s(t).denied
             /\ ~s(t).destroyed
  BY DEF ConnectionInit, NoSession, SessionType, Statuses, Sockets
<1>2. NoConnection \in ConnType /\ NoConnection.at = "none"
  BY DEF NoConnection, ConnType, Places, Answers, Roles
<1>3. session \in [PageTabs -> SessionType]
  BY <1>1 DEF ConnectionInit
<1> HIDE DEF s
<1>4. ConnectionTypeOK
  <2>1. IsFiniteSet(present)
    BY FS_EmptySet DEF ConnectionInit
  <2>2. conn \in [PageTabs -> ConnType]
    BY <1>2 DEF ConnectionInit
  <2> QED BY <1>3, <2>1, <2>2 DEF ConnectionInit, ConnectionTypeOK, Roles
<1>5. SessionsFit
  <2> SUFFICES ASSUME NEW t \in PageTabs PROVE TabFits(t)
    BY DEF SessionsFit
  <2>1. pre[t] = "idle" /\ conn[t].at = "none" /\ ~since[t].steady
    BY <1>2 DEF ConnectionInit
  <2> QED BY <1>1, <2>1 DEF TabFits, StatusFits, SocketFits, ModeFits, RightFits
<1>6. PresenceIsTold
  BY <1>2 DEF ConnectionInit, PresenceIsTold, PresenceFits, Joined
<1> QED BY <1>4, <1>5, <1>6 DEF ConnectionInv

LEMMA ConnectionKept ==
  ConnectionInv /\ [ConnectionNext]_connVars => ConnectionInv'
<1> SUFFICES ASSUME ConnectionInv, [ConnectionNext]_connVars PROVE ConnectionInv'
  OBVIOUS
<1>1. ASSUME NEW t \in PageTabs,
             \/ connect(t) \/ PreflightAnswered(t) \/ PreflightArrives(t)
             \/ Upgrade(t) \/ Opened(t) \/ onAuthenticate(t) \/ Admit(t)
             \/ Authenticated(t) \/ Denied(t) \/ commit(t) \/ Sync(t)
             \/ Announce(t) \/ PresenceArrives(t) \/ ServerNotices(t)
             \/ Drop(t) \/ Closed(t) \/ destroy(t) \/ RoleChanges(t)
      PROVE  ConnectionInv'
  BY <1>1, ConnectInv, PreflightAnsweredInv, PreflightArrivesInv, UpgradeInv, OpenedInv,
     onAuthenticateInv, AdmitInv, AuthenticatedInv, DeniedInv, CommitInv, SyncInv, AnnounceInv,
     PresenceArrivesInv, DropInv, ClosedInv, DestroyInv, RoleChangesInv
<1>2. CASE UNCHANGED connVars
  BY <1>2, PresenceStays DEF connVars, connBounds, presenceVars, ConnectionInv,
     ConnectionTypeOK, SessionsFit, TabFits, Joined
<1> QED BY <1>1, <1>2 DEF ConnectionNext

(* The inductive invariant: what a session, its request and its socket can
   be at once, which mode and right come of the three answers, and what of
   the presence of others is still on its way.                             *)
THEOREM ConnectionsFit == ConnectionSpec => []ConnectionInv
BY ConnectionStarts, ConnectionKept, PTL DEF ConnectionSpec

(* A tab that says it is connected is, one that tries has one way under way,
   one that was left none: whatever callback of session.ts runs when.      *)
THEOREM NobodyIsStranded == ConnectionSpec => []NeverStranded
<1>1. ConnectionInv => NeverStranded
  <2> SUFFICES ASSUME ConnectionInv, NEW t \in PageTabs
               PROVE  LET s == session[t]
                          ways == {w \in {"boot", "timer", "socket"} :
                                     \/ w = "boot" /\ s.boot
                                     \/ w = "timer" /\ s.timer
                                     \/ w = "socket" /\ s.socket # "none"} IN
                      /\ s.status \in {"connecting", "retrying"} =>
                           \E w \in {"boot", "timer", "socket"} : ways = {w}
                      /\ s.status = "connected" =>
                           s.socket = "authenticated" /\ ways = {"socket"}
                      /\ s.status = "error" => ways \subseteq {"socket"}
                      /\ s.destroyed => ways = {} /\ s.status = "disconnected"
    BY DEF NeverStranded
  <2>1. StatusFits(session[t])
    BY DEF ConnectionInv, SessionsFit, TabFits
  <2> DEFINE s == session[t]
             ways == {w \in {"boot", "timer", "socket"} :
                        \/ w = "boot" /\ s.boot
                        \/ w = "timer" /\ s.timer
                        \/ w = "socket" /\ s.socket # "none"}
  <2>2. ASSUME s.status \in {"connecting", "retrying"}
        PROVE  \E w \in {"boot", "timer", "socket"} : ways = {w}
    <3>1. CASE s.boot
      <4>1. ways = {"boot"}
        BY <2>1, <2>2, <3>1 DEF StatusFits
      <4> QED BY <4>1
    <3>2. CASE s.timer
      <4>1. ways = {"timer"}
        BY <2>1, <2>2, <3>2 DEF StatusFits
      <4> QED BY <4>1
    <3>3. CASE ~s.boot /\ ~s.timer
      <4>1. ways = {"socket"}
        BY <2>1, <2>2, <3>3 DEF StatusFits
      <4> QED BY <4>1
    <3> QED BY <3>1, <3>2, <3>3
  <2>3. s.status = "connected" => s.socket = "authenticated" /\ ways = {"socket"}
    BY <2>1 DEF StatusFits
  <2>4. s.status = "error" => ways \subseteq {"socket"}
    BY <2>1 DEF StatusFits
  <2>5. s.destroyed => ways = {} /\ s.status = "disconnected"
    BY <2>1 DEF StatusFits
  <2> QED BY <2>2, <2>3, <2>4, <2>5
<1> QED BY <1>1, ConnectionsFit, PTL

(* Tab and server agree on whether the tab may write while its role is the
   one it asked for.                                                       *)
THEOREM ModesAlwaysAgree == ConnectionSpec => []ModesAgree
<1>1. ConnectionInv => ModesAgree
  <2> SUFFICES ASSUME ConnectionInv, NEW t \in PageTabs,
                      session[t].socket = "authenticated", since[t].steady
               PROVE  conn[t].readOnly = session[t].readOnly
    BY DEF ModesAgree
  <2>1. conn[t].readOnly \in BOOLEAN /\ session[t].readOnly \in BOOLEAN
    BY DEF ConnectionInv, ConnectionTypeOK, SessionType, ConnType
  <2>2. (session[t].readOnly <=> role[t] = "viewer") /\ (conn[t].readOnly <=> role[t] = "viewer")
    BY DEF ConnectionInv, SessionsFit, TabFits, ModeFits
  <2> QED BY <2>1, <2>2
<1> QED BY <1>1, ConnectionsFit, PTL

(* No tab that has read its messages shows somebody who has gone.          *)
THEOREM GhostsGo == ConnectionSpec => []NoGhosts
<1>1. ConnectionInv => NoGhosts
  <2> SUFFICES ASSUME ConnectionInv, NEW t \in PageTabs
               PROVE  /\ session[t].socket = "none" => seen[t] = {}
                      /\ session[t].socket = "authenticated" /\ inbox[t] = <<>>
                           /\ conn[t].at = "told" => seen[t] \subseteq present \ {t}
    BY DEF NoGhosts
  <2>1. PresenceFits(t) /\ seen[t] \subseteq PageTabs
    BY DEF ConnectionInv, PresenceIsTold, ConnectionTypeOK
  <2>2. ASSUME inbox[t] = <<>>, conn[t].at = "told", NEW x \in seen[t] PROVE x \in present \ {t}
    <3>1. x \notin present => GoneIsTold(x, seen[t], inbox[t])
      BY <2>1, <2>2 DEF PresenceFits, Joined
    <3>2. DOMAIN inbox[t] = {}
      BY <2>2
    <3> QED BY <2>1, <2>2, <3>1, <3>2 DEF PresenceFits, GoneIsTold
  <2> QED BY <2>1, <2>2 DEF PresenceFits
<1> QED BY <1>1, ConnectionsFit, PTL

(* Only Sync takes an edit.                                                *)
LEMMA OnlySyncTakes ==
  ASSUME ConnectionInv, NEW x \in PageTabs, NEW t \in PageTabs, edit[t] = "sent", edit'[t] = "taken"
  PROVE  /\ ~(connect(x) \/ PreflightAnswered(x) \/ PreflightArrives(x) \/ Upgrade(x))
         /\ ~(Opened(x) \/ onAuthenticate(x) \/ Admit(x) \/ Denied(x) \/ Announce(x))
         /\ ~(PresenceArrives(x) \/ ServerNotices(x) \/ Drop(x) \/ RoleChanges(x))
         /\ ~(Authenticated(x) \/ commit(x) \/ Closed(x) \/ destroy(x))
<1>1. edit \in [PageTabs -> {"none", "local", "sent", "taken"}]
  BY DEF ConnectionInv, ConnectionTypeOK
<1>2. /\ connect(x) \/ PreflightAnswered(x) \/ PreflightArrives(x) => edit' = edit
      /\ Upgrade(x) \/ Opened(x) \/ onAuthenticate(x) => edit' = edit
      /\ Admit(x) \/ Denied(x) => edit' = edit
  BY DEF connect, PreflightAnswered, PreflightArrives, Upgrade, Opened, onAuthenticate, Admit,
     Denied, NoConnection
<1>3. /\ Announce(x) \/ PresenceArrives(x) \/ ServerNotices(x) => edit' = edit
      /\ Drop(x) \/ RoleChanges(x) => edit' = edit
  BY DEF Announce, PresenceArrives, ServerNotices, Drop, RoleChanges
<1>4. ASSUME Authenticated(x) \/ commit(x) \/ Closed(x) \/ destroy(x)
      PROVE  \E e \in {"local", "sent", edit[x]} : edit' = [edit EXCEPT ![x] = e]
  BY <1>4, <1>1 DEF Authenticated, commit, Closed, destroy, Abandoned
<1> QED BY <1>1, <1>2, <1>3, <1>4

(* The server takes an edit only from who could write at some time since his
   socket opened.                                                          *)
THEOREM EditsAuthorized == ConnectionSpec => EditsAreAuthorized
<1>1. ConnectionInv /\ [ConnectionNext]_connVars => [TakenWasAllowed]_connVars
  <2> SUFFICES ASSUME ConnectionInv, ConnectionNext, NEW t \in PageTabs,
                      edit[t] = "sent", edit'[t] = "taken"
               PROVE  since[t].could
    BY DEF TakenWasAllowed
  <2>1. Sync(t) /\ ~conn[t].readOnly
    <3>1. PICK x \in PageTabs : Sync(x)
      BY OnlySyncTakes DEF ConnectionNext
    <3>2. edit \in [PageTabs -> {"none", "local", "sent", "taken"}]
      BY DEF ConnectionInv, ConnectionTypeOK
    <3> QED BY <3>1, <3>2 DEF Sync
  <2>2. RightFits(role[t], conn[t], since[t].could)
    BY DEF ConnectionInv, SessionsFit, TabFits
  <2> QED BY <2>1, <2>2 DEF RightFits, Sync
<1> QED BY <1>1, ConnectionsFit, PTL DEF ConnectionSpec, EditsAreAuthorized
=============================================================================
