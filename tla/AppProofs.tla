---------------------------- MODULE AppProofs ----------------------------
(* What SignIn and Screens promise, for every set of tabs, links,          *)
(* workspaces and forms and every bound.                                   *)
EXTENDS SignIn, Screens, SequenceTheorems, NaturalsInduction, WellFoundedInduction, TLAPS

------------------------------------------------------------------------------
(* SignIn.                                                                 *)

LinkStates == {"unsent", "sent", "used", "expired"}
SessionStates == {"live", "aging", "revoked", "expired"}
Session == [link : Links, state : SessionStates]

Page == [route : Addresses \cup {"none"}, redirectTo : Protected, success : BOOLEAN,
         status : {"none", "loading", "in", "out", "error"},
         pending : Protected \cup {"none"}, wanted : Protected \cup {"none"}]

Kinds == {"none", "me", "consume", "logout", "refresh"}
Steps == {"done", "first", "found", "unauthenticated", "opened", "refused", "revoked",
          "extended"}
Request == [kind : Kinds, at : Steps, token : Nat, link : Links \cup {"none"}]

SignInTypeOK ==
  /\ link \in [Links -> LinkStates]
  /\ sessions \in Seq(Session)
  /\ cookie \in Nat
  /\ tab \in [AppTabs -> Page]
  /\ call \in [AppTabs -> Request]
  /\ \A t \in AppTabs : call[t].kind = "consume" => call[t].link \in Links

\* A session's link is used up.
LinksAreSpent == \A s \in DOMAIN sessions : link[sessions[s].link] = "used"

(***************************************************************************)
(* The redirects.                                                          *)
(***************************************************************************)

\* The page a tab shows, once it knows its session, is one the session allows.
AllowedPage(p) ==
  /\ p.status = "out" => p.route \notin Protected \cup {"root", "unknown"}
  /\ p.status = "in" => p.route \in Protected
  /\ p.success => p.status \in {"loading", "error"} /\ p.route = "root"

\* What a tab shows when it goes to another address.
LEMMA GoingFits ==
  ASSUME NEW p \in Page, NEW address \in Addresses, NEW redirectTo \in Protected
  PROVE /\ GoesTo(p, address, redirectTo) \in Page
        /\ GoesTo(p, address, redirectTo).route = address
        /\ GoesTo(p, address, redirectTo).status = p.status
        /\ ~ GoesTo(p, address, redirectTo).success
BY DEF GoesTo, Page

\* Redirected keeps the type of a page and ends where the session allows it.
LEMMA RedirectsSettle ==
  ASSUME NEW p \in Page, p.route # "none", p.status # "none", p.success => p.route = "root"
  PROVE /\ Redirected(p) \in Page
        /\ AllowedPage(Redirected(p))
        /\ Redirected(p).route # "none" /\ Redirected(p).status = p.status
<1> DEFINE known == IF p.route = "unknown" THEN GoesTo(p, "root", "home") ELSE p
           target == IF known.success /\ known.pending # "none" THEN known.pending
                     ELSE known.redirectTo
           used == IF known.success THEN [known EXCEPT !.pending = "none"] ELSE known
           result == CASE p.status \in {"loading", "error"} -> known
                       [] p.status = "out" /\ known.route \in Protected ->
                            GoesTo(known, "auth", known.route)
                       [] p.status = "out" /\ known.route = "root" ->
                            GoesTo(known, "auth", "home")
                       [] p.status = "in" /\ known.route \in {"root", "auth"} ->
                            GoesTo(used, target, "home")
                       [] p.status = "in" /\ known.route \in Protected -> used
                       [] OTHER -> known
<1>0. Redirected(p) = result
  BY Zenon DEF Redirected
<1>1. {"root", "auth"} \subseteq Addresses /\ "home" \in Protected
  BY DEF Protected, Addresses
<1>2. /\ known \in Page /\ known.route \in Protected \cup {"root", "auth"}
      /\ known.status = p.status /\ (known.success => known.route = "root")
  <2>1. CASE p.route = "unknown"
    <3>1. known = GoesTo(p, "root", "home")
      BY <2>1
    <3> QED BY <1>1, <3>1, GoingFits
  <2>2. CASE p.route # "unknown"
    BY <2>2 DEF Page, Addresses
  <2> QED BY <2>1, <2>2
<1>3. target \in Protected
  BY <1>2 DEF Page
<1>4. /\ used \in Page /\ used.route = known.route /\ used.status = p.status
      /\ used.success = known.success
  BY <1>2 DEF Page
<1> HIDE DEF known, target, used
<1>5. /\ Protected \cap {"none", "root", "auth", "unknown"} = {}
      /\ p.status \in {"loading", "error", "out", "in"}
  BY DEF Protected, Page
<1>6. CASE p.status \in {"loading", "error"}
  <2>1. Redirected(p) = known
    BY <1>0, <1>6
  <2> QED BY <1>2, <1>5, <1>6, <2>1 DEF AllowedPage
<1>7. CASE p.status = "out" /\ known.route \in Protected
  <2>1. Redirected(p) = GoesTo(known, "auth", known.route)
    BY <1>0, <1>5, <1>7
  <2>2. /\ Redirected(p) \in Page /\ Redirected(p).route = "auth"
        /\ Redirected(p).status = "out" /\ ~ Redirected(p).success
    BY <1>1, <1>2, <1>7, <2>1, GoingFits
  <2> QED BY <1>5, <1>7, <2>2 DEF AllowedPage
<1>8. CASE p.status = "out" /\ known.route = "root"
  <2>1. Redirected(p) = GoesTo(known, "auth", "home")
    BY <1>0, <1>5, <1>8
  <2>2. /\ Redirected(p) \in Page /\ Redirected(p).route = "auth"
        /\ Redirected(p).status = "out" /\ ~ Redirected(p).success
    BY <1>1, <1>2, <1>8, <2>1, GoingFits
  <2> QED BY <1>5, <1>8, <2>2 DEF AllowedPage
<1>9. CASE p.status = "out" /\ known.route = "auth"
  <2>1. Redirected(p) = known
    BY <1>0, <1>5, <1>9
  <2> QED BY <1>2, <1>5, <1>9, <2>1 DEF AllowedPage
<1>10. CASE p.status = "in" /\ known.route \in {"root", "auth"}
  <2>1. Redirected(p) = GoesTo(used, target, "home")
    BY <1>0, <1>5, <1>10
  <2>2. target \in Addresses
    BY <1>3 DEF Addresses
  <2>3. /\ Redirected(p) \in Page /\ Redirected(p).route = target
        /\ Redirected(p).status = "in" /\ ~ Redirected(p).success
    BY <1>1, <1>4, <1>10, <2>1, <2>2, GoingFits
  <2> QED BY <1>3, <1>5, <1>10, <2>3 DEF AllowedPage
<1>11. CASE p.status = "in" /\ known.route \in Protected
  <2>1. Redirected(p) = used
    BY <1>0, <1>5, <1>11
  <2> QED BY <1>2, <1>4, <1>5, <1>11, <2>1 DEF AllowedPage
<1> QED BY <1>2, <1>5, <1>6, <1>7, <1>8, <1>9, <1>10, <1>11

\* A tab has an address and a status from its first page on, and only a tab
\* that has a page asks who is signed in.
PagesAreThere ==
  \A t \in AppTabs : /\ tab[t].route = "none" <=> tab[t].status = "none"
                     /\ call[t].kind = "me" => tab[t].status # "none"

PageInv ==
  /\ SignInTypeOK
  /\ PagesAreThere
  /\ \A t \in AppTabs : AllowedPage(tab[t])

LinkInv == SignInTypeOK /\ LinksAreSpent /\ LinksOpenOnce

\* Showing a page that waits for its session, or has it, keeps tabs in order.
LEMMA ShowsSettles ==
  ASSUME PageInv, NEW t \in AppTabs, NEW p \in Page, Shows(t, p),
         p.route # "none", p.status # "none", p.success => p.route = "root"
  PROVE /\ tab' \in [AppTabs -> Page]
        /\ \A s \in AppTabs : AllowedPage(tab'[s])
        /\ \A s \in AppTabs : tab'[s].route = "none" <=> tab'[s].status = "none"
        /\ \A s \in AppTabs : s # t => tab'[s] = tab[s]
        /\ tab'[t].status # "none"
<1>1. /\ Redirected(p) \in Page /\ AllowedPage(Redirected(p))
      /\ Redirected(p).route # "none" /\ Redirected(p).status = p.status
  BY RedirectsSettle
<1>2. tab' = [tab EXCEPT ![t] = Redirected(p)] /\ tab \in [AppTabs -> Page]
  BY DEF Shows, PageInv, SignInTypeOK
<1>3. tab'[t] = Redirected(p) /\ \A s \in AppTabs : s # t => tab'[s] = tab[s]
  BY <1>2
<1>4. \A s \in AppTabs : AllowedPage(tab'[s])
  <2> SUFFICES ASSUME NEW s \in AppTabs PROVE AllowedPage(tab'[s])
    OBVIOUS
  <2>1. CASE s = t
    BY <1>1, <1>3, <2>1
  <2>2. CASE s # t
    BY <1>3, <2>2 DEF PageInv
  <2> QED BY <2>1, <2>2
<1>5. ASSUME NEW s \in AppTabs PROVE tab'[s].route = "none" <=> tab'[s].status = "none"
  <2>1. CASE s = t
    BY <1>1, <1>3, <2>1
  <2>2. CASE s # t
    BY <1>3, <2>2 DEF PageInv, PagesAreThere
  <2> QED BY <2>1, <2>2
<1>6. tab' \in [AppTabs -> Page]
  BY <1>1, <1>2
<1>7. tab'[t].status # "none"
  BY <1>1, <1>3
<1> QED BY <1>3, <1>4, <1>5, <1>6, <1>7

\* What a request is when it is sent.
LEMMA SendsRequest ==
  ASSUME SignInTypeOK, NEW t \in AppTabs, NEW kind \in Kinds
  PROVE SendRequest(t, kind) \in Request /\ SendRequest(t, kind).kind = kind
<1>1. cookie \in Nat
  BY Zenon DEF SignInTypeOK
<1> QED BY <1>1 DEF SendRequest, Request, Kinds, Steps

(***************************************************************************)
(* Links and sessions.                                                     *)
(***************************************************************************)

\* Every step but those on links and sessions leaves both alone.
Keeps == UNCHANGED <<link, sessions>>

SessionStep ==
  \/ \E t \in AppTabs : ConsumeLink(t) \/ revokeSession(t) \/ refreshSession(t)
                        \/ \E l \in Links : SubmitEmail(t, l)
  \/ \E s \in DOMAIN sessions : SessionAges(s)
  \/ \E l \in Links : LinkExpires(l)
  \/ Keeps

\* Every step is one of those.
LEMMA StepsOnSessions == ASSUME [SignInNext]_signInVars PROVE SessionStep
BY Zenon DEF SignInNext, SessionStep, Keeps, signInVars, OpenPage, FindSession, SessionKnown,
       SessionUnknown, Retry, FollowLink, LinkAnswered, Logout, LoggedOut, Refresh,
       RefreshFinds, Refreshed

\* What a session's end or extension leaves: as many sessions, of the same links.
SameSessions ==
  /\ sessions' \in Seq(Session)
  /\ DOMAIN sessions' = DOMAIN sessions
  /\ \A s \in DOMAIN sessions : sessions'[s].link = sessions[s].link

\* One session changes its state.
LEMMA SessionChanges ==
  ASSUME sessions \in Seq(Session), NEW s \in DOMAIN sessions, NEW to \in SessionStates,
         sessions' = [sessions EXCEPT ![s].state = to]
  PROVE SameSessions /\ sessions'[s].state = to
        /\ \A r \in DOMAIN sessions : r # s => sessions'[r] = sessions[r]
<1> DEFINE e == [sessions[s] EXCEPT !.state = to]
<1>1. s \in 1 .. Len(sessions) /\ Len(sessions) \in Nat /\ DOMAIN sessions = 1 .. Len(sessions)
  BY LenProperties
<1>2. sessions[s] \in Session
  BY <1>1, ElementOfSeq
<1>3. e \in Session /\ e.link = sessions[s].link /\ e.state = to
  BY <1>2 DEF Session
<1>4. sessions' = [sessions EXCEPT ![s] = e]
  OBVIOUS
<1> HIDE DEF e
<1>5. /\ sessions' \in Seq(Session) /\ Len(sessions') = Len(sessions)
      /\ \A j \in 1 .. Len(sessions) : sessions'[j] = IF j = s THEN e ELSE sessions[j]
  BY <1>1, <1>3, <1>4, ExceptSeq
<1>6. DOMAIN sessions' = 1 .. Len(sessions')
  BY <1>5, LenProperties
<1> QED BY <1>1, <1>3, <1>5, <1>6 DEF SameSessions

\* A revocation changes no session but the one of the cookie's token.
LEMMA SessionsRevoked ==
  ASSUME SignInTypeOK, NEW t \in AppTabs, revokeSession(t)
  PROVE SameSessions /\ EndedStay
<1> DEFINE e(s) == IF s = call[t].token /\ sessions[s].state # "revoked"
                   THEN [sessions[s] EXCEPT !.state = "revoked"] ELSE sessions[s]
<1>1. Len(sessions) \in Nat /\ DOMAIN sessions = 1 .. Len(sessions)
  BY LenProperties DEF SignInTypeOK
<1>2. \A s \in DOMAIN sessions : sessions[s] \in Session
  BY <1>1, ElementOfSeq DEF SignInTypeOK
<1>3. \A s \in DOMAIN sessions :
        e(s) \in Session /\ e(s).link = sessions[s].link
        /\ (e(s) = sessions[s] \/ e(s).state = "revoked")
  BY <1>2 DEF Session, SessionStates
<1>4. sessions' = [s \in 1 .. Len(sessions) |-> e(s)]
  BY <1>1 DEF revokeSession
<1> HIDE DEF e
<1>5. sessions' \in [1 .. Len(sessions) -> Session]
  BY <1>1, <1>3, <1>4
<1>6. sessions' \in Seq(Session)
  BY <1>1, <1>5, SeqDef
<1>7. DOMAIN sessions' = DOMAIN sessions /\ \A s \in DOMAIN sessions : sessions'[s] = e(s)
  BY <1>1, <1>4
<1> QED BY <1>3, <1>6, <1>7 DEF SameSessions, EndedStay

\* The parts of the invariant about links and sessions, and what a step may
\* do to a session that ended.
LEMMA SessionsKeep ==
  ASSUME LinkInv, SessionStep
  PROVE /\ link' \in [Links -> LinkStates] /\ sessions' \in Seq(Session)
        /\ LinksAreSpent' /\ LinksOpenOnce' /\ EndedStay
<1> USE DEF LinkInv, LinksAreSpent, LinksOpenOnce
<1>0. /\ link \in [Links -> LinkStates] /\ sessions \in Seq(Session)
      /\ Len(sessions) \in Nat /\ DOMAIN sessions = 1 .. Len(sessions)
      /\ \A s \in DOMAIN sessions : sessions[s] \in Session
  BY LenProperties, ElementOfSeq DEF SignInTypeOK
<1>1. ASSUME SameSessions, UNCHANGED link
      PROVE /\ link' \in [Links -> LinkStates] /\ sessions' \in Seq(Session)
            /\ LinksAreSpent' /\ LinksOpenOnce'
  BY <1>0, <1>1 DEF SameSessions
<1>2. ASSUME NEW t \in AppTabs, ConsumeLink(t)
      PROVE /\ link' \in [Links -> LinkStates] /\ sessions' \in Seq(Session)
            /\ LinksAreSpent' /\ LinksOpenOnce' /\ EndedStay
  <2> DEFINE l == call[t].link
             new == [link |-> l, state |-> "live"]
  <2>1. CASE link[l] # "sent"
    BY <1>0, <1>2, <2>1 DEF ConsumeLink, EndedStay
  <2>2. CASE link[l] = "sent"
    <3>1. l \in Links /\ new \in Session
      BY <1>2 DEF ConsumeLink, SignInTypeOK, Session, SessionStates
    <3>2. sessions' = Append(sessions, new) /\ link' = [link EXCEPT ![l] = "used"]
      BY <1>2, <2>2 DEF ConsumeLink
    <3> HIDE DEF l
    <3>3. /\ sessions' \in Seq(Session) /\ Len(sessions') = Len(sessions) + 1
          /\ \A s \in DOMAIN sessions : sessions'[s] = sessions[s]
          /\ sessions'[Len(sessions) + 1] = new
      BY <1>0, <3>1, <3>2, AppendProperties
    <3>4. DOMAIN sessions' = 1 .. Len(sessions) + 1
      BY <3>3, LenProperties
    <3>5. \A s \in DOMAIN sessions : sessions[s].link # l
      BY <1>0, <2>2
    <3>6. link' \in [Links -> LinkStates] /\ LinksAreSpent'
      <4>1. link'[l] = "used" /\ \A m \in Links : m # l => link'[m] = link[m]
        BY <1>0, <3>1, <3>2
      <4>2. link' \in [Links -> LinkStates]
        BY <1>0, <3>1, <3>2 DEF LinkStates
      <4>3. \A s \in DOMAIN sessions : sessions[s].link \in Links
        BY <1>0 DEF Session
      <4>4. ASSUME NEW s \in DOMAIN sessions' PROVE link'[sessions'[s].link] = "used"
        <5>1. CASE s = Len(sessions) + 1
          BY <3>3, <4>1, <5>1
        <5>2. CASE s # Len(sessions) + 1
          <6>1. s \in DOMAIN sessions
            BY <1>0, <3>4, <5>2
          <6> QED BY <3>3, <3>5, <4>1, <4>3, <6>1
        <5> QED BY <5>1, <5>2
      <4> QED BY <4>2, <4>4
    <3>7. LinksOpenOnce'
      BY <1>0, <3>3, <3>4, <3>5
    <3>8. EndedStay
      BY <3>3 DEF EndedStay
    <3> QED BY <3>3, <3>6, <3>7, <3>8
  <2> QED BY <2>1, <2>2
<1>3. ASSUME NEW t \in AppTabs, revokeSession(t)
      PROVE SameSessions /\ UNCHANGED link /\ EndedStay
  BY <1>3, SessionsRevoked DEF revokeSession
<1>4. ASSUME NEW t \in AppTabs, refreshSession(t)
      PROVE (Keeps \/ SameSessions) /\ UNCHANGED link /\ EndedStay
  <2>1. CASE Live(call[t].token)
    <3> DEFINE s == call[t].token
    <3>1. s \in DOMAIN sessions /\ sessions' = [sessions EXCEPT ![s].state = "live"]
      BY <1>4, <2>1 DEF refreshSession, Live
    <3> HIDE DEF s
    <3>2. SameSessions /\ \A r \in DOMAIN sessions : r # s => sessions'[r] = sessions[r]
      BY <1>0, <3>1, SessionChanges DEF SessionStates
    <3> QED BY <1>4, <2>1, <3>2 DEF refreshSession, EndedStay, s
  <2>2. CASE ~Live(call[t].token)
    BY <1>4, <2>2 DEF refreshSession, Keeps, EndedStay
  <2> QED BY <2>1, <2>2
<1>5. ASSUME NEW s \in DOMAIN sessions, SessionAges(s)
      PROVE SameSessions /\ UNCHANGED link /\ EndedStay
  <2> DEFINE to == IF sessions[s].state = "live" THEN "aging" ELSE "expired"
  <2>1. sessions' = [sessions EXCEPT ![s].state = to] /\ to \in SessionStates
    BY <1>5 DEF SessionAges, SessionStates
  <2> HIDE DEF to
  <2>2. SameSessions /\ \A r \in DOMAIN sessions : r # s => sessions'[r] = sessions[r]
    BY <1>0, <2>1, SessionChanges
  <2> QED BY <1>5, <2>2 DEF SessionAges, EndedStay
<1>6. ASSUME NEW t \in AppTabs, NEW l \in Links, SubmitEmail(t, l)
      PROVE /\ link' \in [Links -> LinkStates] /\ sessions' \in Seq(Session)
            /\ LinksAreSpent' /\ LinksOpenOnce' /\ EndedStay
  <2>1. UNCHANGED sessions /\ link' \in [Links -> LinkStates]
        /\ \A m \in Links : link[m] = "used" => link'[m] = "used"
    BY <1>0, <1>6 DEF SubmitEmail, LinkStates
  <2>2. \A s \in DOMAIN sessions : sessions[s].link \in Links
    BY <1>0 DEF Session
  <2> QED BY <1>0, <2>1, <2>2 DEF EndedStay
<1>7. ASSUME NEW l \in Links, LinkExpires(l)
      PROVE /\ link' \in [Links -> LinkStates] /\ sessions' \in Seq(Session)
            /\ LinksAreSpent' /\ LinksOpenOnce' /\ EndedStay
  <2>1. UNCHANGED sessions /\ link' \in [Links -> LinkStates]
        /\ \A m \in Links : link[m] = "used" => link'[m] = "used"
    BY <1>0, <1>7 DEF LinkExpires, LinkStates
  <2>2. \A s \in DOMAIN sessions : sessions[s].link \in Links
    BY <1>0 DEF Session
  <2> QED BY <1>0, <2>1, <2>2 DEF EndedStay
<1>8. CASE Keeps
  BY <1>0, <1>8 DEF Keeps, EndedStay
<1> QED BY <1>1, <1>2, <1>3, <1>4, <1>5, <1>6, <1>7, <1>8 DEF SessionStep

(***************************************************************************)
(* AppTabs and their requests.                                                *)
(***************************************************************************)

\* The parts of PageInv about the tabs, the cookie and the requests.
TabsFit ==
  /\ cookie \in Nat
  /\ tab \in [AppTabs -> Page]
  /\ call \in [AppTabs -> Request]
  /\ \A t \in AppTabs : call[t].kind = "consume" => call[t].link \in Links
  /\ PagesAreThere
  /\ \A t \in AppTabs : AllowedPage(tab[t])

\* A step that shows t a page in order, and leaves t a request or none.
LEMMA ShowingKeeps ==
  ASSUME PageInv, NEW t \in AppTabs, NEW p \in Page, Shows(t, p),
         p.route # "none", p.status # "none", p.success => p.route = "root",
         cookie' \in Nat,
         NEW r \in Request, call' = [call EXCEPT ![t] = r], r.kind # "consume"
  PROVE TabsFit'
<1>1. /\ tab' \in [AppTabs -> Page]
      /\ \A s \in AppTabs : AllowedPage(tab'[s])
      /\ \A s \in AppTabs : tab'[s].route = "none" <=> tab'[s].status = "none"
      /\ \A s \in AppTabs : s # t => tab'[s] = tab[s]
      /\ tab'[t].status # "none"
  BY ShowsSettles
<1>2. /\ call' \in [AppTabs -> Request] /\ call'[t] = r
      /\ \A s \in AppTabs : s # t => call'[s] = call[s]
  BY DEF PageInv, SignInTypeOK
<1>3. PagesAreThere'
  BY <1>1, <1>2 DEF PageInv, PagesAreThere
<1>4. \A s \in AppTabs : call'[s].kind = "consume" => call'[s].link \in Links
  BY <1>2 DEF PageInv, SignInTypeOK
<1> QED BY <1>1, <1>2, <1>3, <1>4 DEF TabsFit

\* A step that leaves the tabs as they are, and t a request that asks who is
\* signed in only if it did so before.
LEMMA AskingKeeps ==
  ASSUME PageInv, NEW t \in AppTabs, UNCHANGED tab, cookie' \in Nat,
         NEW r \in Request, call' = [call EXCEPT ![t] = r],
         r.kind = "me" => call[t].kind = "me", r.kind = "consume" => r.link \in Links
  PROVE TabsFit'
<1>1. /\ call' \in [AppTabs -> Request] /\ call'[t] = r
      /\ \A s \in AppTabs : s # t => call'[s] = call[s]
  BY DEF PageInv, SignInTypeOK
<1>2. PagesAreThere'
  BY <1>1 DEF PageInv, PagesAreThere
<1>3. \A s \in AppTabs : call'[s].kind = "consume" => call'[s].link \in Links
  BY <1>1 DEF PageInv, SignInTypeOK
<1>4. \A s \in AppTabs : AllowedPage(tab'[s])
  BY DEF PageInv
<1> QED BY <1>1, <1>2, <1>3, <1>4 DEF TabsFit, PageInv, SignInTypeOK

\* A request goes on to its next query.
LEMMA MovesAsks ==
  ASSUME PageInv, NEW t \in AppTabs, NEW at \in Steps, Moves(t, at), UNCHANGED <<tab, cookie>>
  PROVE TabsFit'
<1> DEFINE r == [call[t] EXCEPT !.at = at]
<1>1. call[t] \in Request /\ cookie' \in Nat
  BY DEF PageInv, SignInTypeOK
<1>2. r \in Request /\ r.kind = call[t].kind /\ r.link = call[t].link
  BY <1>1 DEF Request
<1>3. call' = [call EXCEPT ![t] = r]
  BY DEF Moves
<1>4. r.kind = "consume" => r.link \in Links
  BY <1>2 DEF PageInv, SignInTypeOK
<1> HIDE DEF r
<1> QED BY <1>1, <1>2, <1>3, <1>4, AskingKeeps

\* No request is a request of no kind.
LEMMA NoRequestFits == NoRequest \in Request /\ NoRequest.kind = "none"
BY DEF NoRequest, Request, Kinds, Steps

\* The tabs, the cookie and the requests keep fitting together.
LEMMA TabsKeep ==
  ASSUME PageInv, sessions' \in Seq(Session), [SignInNext]_signInVars
  PROVE TabsFit'
<1>0. /\ cookie \in Nat /\ tab \in [AppTabs -> Page] /\ call \in [AppTabs -> Request]
      /\ \A t \in AppTabs : tab[t] \in Page /\ call[t] \in Request /\ call[t].token \in Nat
      /\ NoRequest \in Request /\ NoRequest.kind = "none"
  BY NoRequestFits DEF PageInv, SignInTypeOK, Request
<1>1. ASSUME NEW t \in AppTabs, OpenPage(t) PROVE TabsFit'
  <2>1. PICK address \in Addresses : Shows(t, NewPage(t, address, "loading"))
    BY <1>1 DEF OpenPage
  <2> DEFINE p == NewPage(t, address, "loading")
  <2>2. p \in Page /\ p.route = address /\ p.status = "loading" /\ p.success = FALSE
    BY <1>0 DEF NewPage, Page, Protected
  <2>3. address # "none"
    BY DEF Addresses, Protected
  <2>4. SendRequest(t, "me") \in Request /\ SendRequest(t, "me").kind = "me"
    BY SendsRequest DEF PageInv, Kinds
  <2>5. call' = [call EXCEPT ![t] = SendRequest(t, "me")] /\ cookie' = cookie
    BY <1>1 DEF OpenPage
  <2>6. Shows(t, p)
    BY <2>1
  <2> HIDE DEF p
  <2> QED BY <1>0, <2>2, <2>3, <2>4, <2>5, <2>6, ShowingKeeps
<1>2. ASSUME NEW t \in AppTabs,
             FindSession(t) \/ revokeSession(t) \/ refreshSession(t) \/ RefreshFinds(t)
      PROVE TabsFit'
  <2>1. UNCHANGED <<tab, cookie>> /\ \E at \in Steps : Moves(t, at)
    BY <1>2 DEF FindSession, revokeSession, refreshSession, RefreshFinds, Steps
  <2> QED BY <2>1, MovesAsks
<1>3. ASSUME NEW t \in AppTabs, SessionKnown(t) \/ SessionUnknown(t) PROVE TabsFit'
  <2>1. PICK status \in {"in", "out", "error"} : Shows(t, [tab[t] EXCEPT !.status = status])
    BY <1>3 DEF SessionKnown, SessionUnknown
  <2> DEFINE p == [tab[t] EXCEPT !.status = status]
  <2>2. tab[t].route # "none" /\ (tab[t].success => tab[t].route = "root")
    BY <1>3 DEF SessionKnown, SessionUnknown, PageInv, PagesAreThere, AllowedPage
  <2>3. p \in Page /\ p.route = tab[t].route /\ p.status = status /\ p.success = tab[t].success
    BY <1>0 DEF Page
  <2>4. call' = [call EXCEPT ![t] = NoRequest] /\ cookie' = cookie
    BY <1>3 DEF SessionKnown, SessionUnknown, Ends
  <2>5. Shows(t, p)
    BY <2>1
  <2> HIDE DEF p
  <2> QED BY <1>0, <2>2, <2>3, <2>4, <2>5, ShowingKeeps
<1>4. ASSUME NEW t \in AppTabs, Retry(t) PROVE TabsFit'
  <2> DEFINE p == [tab[t] EXCEPT !.status = "loading"]
  <2>1. /\ tab' = [tab EXCEPT ![t] = p] /\ cookie' = cookie
        /\ call' = [call EXCEPT ![t] = SendRequest(t, "me")] /\ tab[t].status = "error"
    BY <1>4 DEF Retry
  <2>2. SendRequest(t, "me") \in Request /\ SendRequest(t, "me").kind = "me"
    BY SendsRequest DEF PageInv, Kinds
  <2>3. p \in Page /\ p.status = "loading" /\ p.route = tab[t].route /\ p.success = tab[t].success
    BY <1>0 DEF Page
  <2>4. AllowedPage(p) /\ p.route # "none"
    BY <2>1, <2>3 DEF PageInv, AllowedPage, PagesAreThere
  <2> HIDE DEF p
  <2>5. /\ tab' \in [AppTabs -> Page] /\ tab'[t] = p /\ \A s \in AppTabs : s # t => tab'[s] = tab[s]
        /\ call' \in [AppTabs -> Request] /\ call'[t].kind = "me"
        /\ \A s \in AppTabs : s # t => call'[s] = call[s]
    BY <1>0, <2>1, <2>2, <2>3
  <2>6. PagesAreThere'
    BY <2>3, <2>4, <2>5 DEF PageInv, PagesAreThere
  <2>7. \A s \in AppTabs : AllowedPage(tab'[s])
    <3> SUFFICES ASSUME NEW s \in AppTabs PROVE AllowedPage(tab'[s])
      OBVIOUS
    <3>1. CASE s = t
      BY <2>4, <2>5, <3>1
    <3>2. CASE s # t
      BY <2>5, <3>2 DEF PageInv
    <3> QED BY <3>1, <3>2
  <2>8. \A s \in AppTabs : call'[s].kind = "consume" => call'[s].link \in Links
    BY <2>5 DEF PageInv, SignInTypeOK
  <2> QED BY <1>0, <2>1, <2>5, <2>6, <2>7, <2>8 DEF TabsFit
<1>5. ASSUME NEW t \in AppTabs, NEW l \in Links, SubmitEmail(t, l) PROVE TabsFit'
  <2> DEFINE p == [tab[t] EXCEPT !.pending = tab[t].redirectTo, !.wanted = tab[t].redirectTo]
  <2>1. tab' = [tab EXCEPT ![t] = p] /\ UNCHANGED <<cookie, call>>
    BY <1>0, <1>5 DEF SubmitEmail
  <2>2. /\ p \in Page /\ p.status = tab[t].status
        /\ p.route = tab[t].route /\ p.success = tab[t].success
    BY <1>0 DEF Page
  <2>3. AllowedPage(p)
    BY <2>2 DEF PageInv, AllowedPage
  <2> HIDE DEF p
  <2>4. tab' \in [AppTabs -> Page] /\ tab'[t] = p /\ \A s \in AppTabs : s # t => tab'[s] = tab[s]
    BY <1>0, <2>1, <2>2
  <2>5. PagesAreThere'
    BY <2>1, <2>2, <2>4 DEF PageInv, PagesAreThere
  <2>6. \A s \in AppTabs : AllowedPage(tab'[s])
    <3> SUFFICES ASSUME NEW s \in AppTabs PROVE AllowedPage(tab'[s])
      OBVIOUS
    <3>1. CASE s = t
      BY <2>3, <2>4, <3>1
    <3>2. CASE s # t
      BY <2>4, <3>2 DEF PageInv
    <3> QED BY <3>1, <3>2
  <2> QED BY <1>0, <2>1, <2>4, <2>5, <2>6 DEF TabsFit, PageInv, SignInTypeOK
<1>6. ASSUME NEW t \in AppTabs, NEW l \in Links, FollowLink(t, l) PROVE TabsFit'
  <2> DEFINE p == NewPage(t, "none", "none")
             r == [SendRequest(t, "consume") EXCEPT !.link = l]
  <2>1. tab' = [tab EXCEPT ![t] = p] /\ call' = [call EXCEPT ![t] = r] /\ cookie' = cookie
    BY <1>6 DEF FollowLink
  <2>2. p \in Page /\ p.status = "none" /\ p.route = "none" /\ p.success = FALSE
    BY <1>0 DEF NewPage, Page, Protected
  <2>3. AllowedPage(p)
    BY <2>2 DEF AllowedPage
  <2>4. SendRequest(t, "consume") \in Request /\ SendRequest(t, "consume").kind = "consume"
    BY SendsRequest DEF PageInv, Kinds
  <2>5. r \in Request /\ r.kind = "consume" /\ r.link = l
    BY <2>4 DEF Request
  <2> HIDE DEF p, r
  <2>6. /\ tab' \in [AppTabs -> Page] /\ tab'[t] = p /\ \A s \in AppTabs : s # t => tab'[s] = tab[s]
        /\ call' \in [AppTabs -> Request] /\ call'[t] = r
        /\ \A s \in AppTabs : s # t => call'[s] = call[s]
    BY <1>0, <2>1, <2>2, <2>5
  <2>7. PagesAreThere'
    BY <2>2, <2>5, <2>6 DEF PageInv, PagesAreThere
  <2>8. \A s \in AppTabs : AllowedPage(tab'[s])
    <3> SUFFICES ASSUME NEW s \in AppTabs PROVE AllowedPage(tab'[s])
      OBVIOUS
    <3>1. CASE s = t
      BY <2>3, <2>6, <3>1
    <3>2. CASE s # t
      BY <2>6, <3>2 DEF PageInv
    <3> QED BY <3>1, <3>2
  <2>9. \A s \in AppTabs : call'[s].kind = "consume" => call'[s].link \in Links
    BY <2>5, <2>6 DEF PageInv, SignInTypeOK
  <2> QED BY <1>0, <2>1, <2>6, <2>7, <2>8, <2>9 DEF TabsFit
<1>7. ASSUME NEW t \in AppTabs, ConsumeLink(t) PROVE TabsFit'
  <2>1. CASE link[call[t].link] = "sent"
    <3> DEFINE r == [call[t] EXCEPT !.at = "opened", !.token = Len(sessions')]
    <3>1. call' = [call EXCEPT ![t] = r] /\ UNCHANGED <<tab, cookie>>
      BY <1>0, <1>7, <2>1 DEF ConsumeLink
    <3>2. Len(sessions') \in Nat
      BY LenProperties
    <3>3. r \in Request /\ r.kind = call[t].kind /\ r.link = call[t].link
      BY <1>0, <3>2 DEF Request, Steps
    <3>4. r.kind = "consume" => r.link \in Links
      BY <3>3 DEF PageInv, SignInTypeOK
    <3> HIDE DEF r
    <3> QED BY <1>0, <3>1, <3>3, <3>4, AskingKeeps
  <2>2. CASE link[call[t].link] # "sent"
    <3>1. UNCHANGED <<tab, cookie>> /\ Moves(t, "refused")
      BY <1>7, <2>2 DEF ConsumeLink
    <3> QED BY <3>1, MovesAsks DEF Steps
  <2> QED BY <2>1, <2>2
<1>8. ASSUME NEW t \in AppTabs, LinkAnswered(t) PROVE TabsFit'
  <2>1. CASE UNCHANGED tab /\ Ends(t) /\ UNCHANGED cookie
    BY <1>0, <2>1, AskingKeeps DEF Ends
  <2>2. CASE call[t].at = "opened" /\ cookie' = call[t].token
             /\ call' = [call EXCEPT ![t] = [SendRequest(t, "me") EXCEPT !.token = call[t].token]]
             /\ Shows(t, [tab[t] EXCEPT !.route = "root", !.success = TRUE, !.status = "loading"])
    <3> DEFINE p == [tab[t] EXCEPT !.route = "root", !.success = TRUE, !.status = "loading"]
               r == [SendRequest(t, "me") EXCEPT !.token = call[t].token]
    <3>1. cookie' = call[t].token /\ Shows(t, p) /\ call' = [call EXCEPT ![t] = r]
      BY <2>2
    <3>2. p \in Page /\ p.route = "root" /\ p.status = "loading"
      BY <1>0 DEF Page, Addresses
    <3>3. SendRequest(t, "me") \in Request /\ SendRequest(t, "me").kind = "me"
      BY SendsRequest DEF PageInv, Kinds
    <3>4. r \in Request /\ r.kind = "me"
      BY <1>0, <3>3 DEF Request
    <3> HIDE DEF p, r
    <3> QED BY <1>0, <3>1, <3>2, <3>4, ShowingKeeps
  <2> QED BY <1>8, <2>1, <2>2 DEF LinkAnswered
<1>9. ASSUME NEW t \in AppTabs, NEW kind \in {"logout", "refresh"},
             call' = [call EXCEPT ![t] = SendRequest(t, kind)], UNCHANGED <<tab, cookie>>
      PROVE TabsFit'
  <2>1. SendRequest(t, kind) \in Request /\ SendRequest(t, kind).kind = kind
    BY SendsRequest DEF PageInv, Kinds
  <2> QED BY <1>0, <1>9, <2>1, AskingKeeps
<1>10. ASSUME NEW t \in AppTabs, LoggedOut(t) PROVE TabsFit'
  <2> DEFINE p == [GoesTo(tab[t], "auth", "home") EXCEPT !.status = "out"]
  <2>1. Shows(t, p) /\ cookie' = 0 /\ call' = [call EXCEPT ![t] = NoRequest]
    BY <1>10 DEF LoggedOut, Ends
  <2>2. p \in Page /\ p.route = "auth" /\ p.status = "out" /\ p.success = FALSE
    BY <1>0 DEF GoesTo, Page, Addresses, Protected
  <2> HIDE DEF p
  <2> QED BY <1>0, <2>1, <2>2, ShowingKeeps
<1>11. ASSUME NEW t \in AppTabs, Refreshed(t) PROVE TabsFit'
  <2>1. cookie' \in Nat /\ UNCHANGED tab /\ call' = [call EXCEPT ![t] = NoRequest]
    BY <1>0, <1>11 DEF Refreshed, Ends
  <2> QED BY <1>0, <2>1, AskingKeeps
<1>12. ASSUME UNCHANGED <<tab, call, cookie>> PROVE TabsFit'
  BY <1>12 DEF TabsFit, PageInv, SignInTypeOK, PagesAreThere, AllowedPage
<1> QED BY <1>1, <1>2, <1>3, <1>4, <1>5, <1>6, <1>7, <1>8, <1>9, <1>10, <1>11, <1>12
        DEF SignInNext, signInVars, Logout, Refresh, SessionAges, LinkExpires

(***************************************************************************)
(* The theorems.                                                           *)
(***************************************************************************)

\* The inductive invariant: links are spent by the session they open, and tabs
\* rest where their session allows.
SignInInv == PageInv /\ LinkInv

\* It holds in every state, for any tabs, links and sessions.
THEOREM SignInInvariant == SignInSpec => []SignInInv
<1>1. SignInInit => SignInInv
  <2> SUFFICES ASSUME SignInInit PROVE SignInInv
    OBVIOUS
  <2>1. NoPage \in Page /\ NoPage.route = "none" /\ NoPage.status = "none" /\ NoPage.success = FALSE
    BY DEF NoPage, Page, Protected
  <2>2. /\ tab \in [AppTabs -> Page] /\ call \in [AppTabs -> Request]
        /\ \A t \in AppTabs : tab[t] = NoPage /\ call[t].kind = "none"
    BY <2>1, NoRequestFits DEF SignInInit
  <2>3. SignInTypeOK
    <3>1. link \in [Links -> LinkStates] /\ cookie \in Nat
      BY DEF SignInInit, LinkStates
    <3>2. sessions \in Seq(Session)
      BY EmptySeq DEF SignInInit
    <3> QED BY <2>2, <3>1, <3>2 DEF SignInTypeOK
  <2>4. PagesAreThere /\ \A t \in AppTabs : AllowedPage(tab[t])
    BY <2>1, <2>2 DEF PagesAreThere, AllowedPage
  <2>5. DOMAIN sessions = {}
    BY DEF SignInInit
  <2>6. LinksAreSpent /\ LinksOpenOnce
    BY <2>5 DEF LinksAreSpent, LinksOpenOnce
  <2> QED BY <2>3, <2>4, <2>6 DEF SignInInv, PageInv, LinkInv
<1>2. SignInInv /\ [SignInNext]_signInVars => SignInInv'
  <2> SUFFICES ASSUME SignInInv, [SignInNext]_signInVars PROVE SignInInv'
    OBVIOUS
  <2>1. /\ link' \in [Links -> LinkStates] /\ sessions' \in Seq(Session)
        /\ LinksAreSpent' /\ LinksOpenOnce'
    BY StepsOnSessions, SessionsKeep DEF SignInInv
  <2>2. TabsFit'
    BY <2>1, TabsKeep DEF SignInInv
  <2>3. SignInTypeOK'
    BY <2>1, <2>2 DEF SignInTypeOK, TabsFit
  <2> QED BY <2>1, <2>2, <2>3 DEF SignInInv, PageInv, LinkInv, TabsFit
<1> QED BY <1>1, <1>2, PTL DEF SignInSpec

\* However many tabs follow a link, and however often, one session is opened.
THEOREM LinksAreUsedOnce == SignInSpec => []LinksOpenOnce
BY SignInInvariant, PTL DEF SignInInv, LinkInv

\* What has ended is never good again, also not for a refresh under way.
THEOREM SessionsEndForGood == SignInSpec => EndedSessionsStayEnded
<1>1. SignInInv /\ [SignInNext]_signInVars => EndedStay
  BY StepsOnSessions, SessionsKeep DEF SignInInv
<1> QED BY <1>1, SignInInvariant, PTL DEF SignInSpec, EndedSessionsStayEnded

\* A tab that knows its session is on a screen that goes with it.
THEOREM TabsAreWhereTheyMay == SignInSpec => []TabsShowTheirSession
<1>1. SignInInv => TabsShowTheirSession
  BY DEF SignInInv, PageInv, AllowedPage, TabsShowTheirSession
<1> QED BY <1>1, SignInInvariant, PTL

------------------------------------------------------------------------------
(* Screens.                                                                *)

Stages == {"none", "sent", "served", "asked", "answered", "failed"}
Places == Spaces \cup {0}
RouteType == [kind : {"home", "list", "page"}, ws : Places, page : Nat]
ValueType == [kind : {"none", "home", "list", "page"}, ws : Places,
              has : SUBSET (Spaces \cup (Spaces \X Nat))]
LoadType == [at : Stages, for : RouteType, prefers : Places, value : ValueType]
FormType == [at : Stages, does : {"none", "change", "createProject", "create"},
             from : RouteType, ws : Places, prefers : Places, page : Nat, value : ValueType]
ResourceType == [status : {"loading", "loaded", "error"}, value : ValueType,
                 by : {"none", "load", "reload"}, for : RouteType]

ScreensTypeOK ==
  /\ member \subseteq Spaces
  /\ pageCount \in [Spaces -> Nat]
  /\ route \in RouteType
  /\ load \in LoadType
  /\ form \in [Forms -> FormType]
  /\ resource \in ResourceType
  /\ homeSpace \in Places /\ stored \in Places

\* An answer about a file has that file's pages, one about the launchpad the
\* workspaces of its user.
ValueFits(v) ==
  /\ v.kind = "page" => \A p \in v.has : p[1] = v.ws
  /\ v.kind = "home" => v.has \subseteq Spaces

ValuesFit ==
  /\ ValueFits(load.value) /\ ValueFits(resource.value)
  /\ \A f \in Forms : ValueFits(form[f].value)

\* The launchpad v is that of the remembered workspace, unless the user is not
\* in that one any more.
Remembered(v, home) ==
  v.kind = "home" /\ (home # 0 => v.ws = home \/ home \notin v.has)

\* The effect's request is for the route, and on the launchpad for the
\* remembered workspace.
LoadFits(asked, r, home) ==
  asked.at # "none" =>
    /\ asked.for = r
    /\ r.kind = "home" /\ home # 0 => asked.prefers = home
    /\ r.kind = "home" /\ asked.at = "answered" => Remembered(asked.value, home)

\* What the effect loaded is shown for the route it was loaded for.
ShownFits(shown, r, home, kept) ==
  /\ shown.status = "loaded" => shown.by \in {"load", "reload"}
  /\ shown.by = "load" => shown.for = r
  /\ shown.status = "loaded" /\ shown.by = "load" /\ r.kind = "home" =>
       Remembered(shown.value, home) /\ kept = shown.value.ws

\* A screen that is loading waits for the effect's request or for a form's.
LoadingIsWaiting ==
  resource.status = "loading" =>
    \/ load.at # "none"
    \/ \E f \in Forms : form[f].at \in {"asked", "answered", "failed"}

ScreensInv ==
  /\ ScreensTypeOK
  /\ ValuesFit
  /\ LoadFits(load, route, homeSpace)
  /\ ShownFits(resource, route, homeSpace, stored)
  /\ LoadingIsWaiting

------------------------------------------------------------------------------
\* A workspace the user is in is active when it is the one preferred.
LEMMA ActiveFits ==
  ASSUME member \subseteq Spaces, NEW prefers \in Places
  PROVE  Active(prefers) \in Places /\ (prefers \in member => Active(prefers) = prefers)
<1> USE SpacesAssumption
<1>1. CASE member = {} \/ prefers \in member
  BY <1>1 DEF Active, Places
<1>2. CASE member # {} /\ prefers \notin member
  <2>1. member \in SUBSET Nat
    OBVIOUS
  <2>2. \E m \in member : \A v \in member : m <= v
    <3>1. IsWellFoundedOn(OpToRel(<, Nat), Nat)
      BY NatLessThanWellFounded
    <3>2. PICK m \in member : \A v \in member : <<v, m>> \notin OpToRel(<, Nat)
      BY <1>2, <2>1, <3>1, WFMin
    <3>3. \A v \in member : ~ (v < m)
      BY <2>1, <3>2 DEF OpToRel
    <3> QED BY <2>1, <3>3
  <2>3. (CHOOSE w \in member : \A v \in member : w <= v) \in member
    BY <2>2
  <2> QED BY <1>2, <2>3 DEF Active, Places
<1> QED BY <1>1, <1>2

\* An answer fits what was asked.
LEMMA AnswerFits ==
  ASSUME ScreensTypeOK, NEW r \in RouteType, NEW prefers \in Places, HasAnswer(r)
  PROVE  /\ Answer(r, prefers) \in ValueType
         /\ ValueFits(Answer(r, prefers))
         /\ r.kind = "home" =>
              \A home \in Places : (home # 0 => prefers = home) =>
                Remembered(Answer(r, prefers), home)
<1>1. CASE r.kind = "home"
  <2>1. Answer(r, prefers) = [kind |-> "home", ws |-> Active(prefers), has |-> member]
    BY <1>1 DEF Answer
  <2>2. Active(prefers) \in Places /\ (prefers \in member => Active(prefers) = prefers)
    BY ActiveFits DEF ScreensTypeOK
  <2>3. member \subseteq Spaces
    BY DEF ScreensTypeOK
  <2> QED BY <2>1, <2>2, <2>3 DEF ValueType, ValueFits, Remembered
<1>2. CASE r.kind # "home"
  <2> DEFINE pages == IF r.kind = "page" THEN {<<r.ws, n>> : n \in 1 .. pageCount[r.ws]} ELSE {}
  <2>1. Answer(r, prefers) = [kind |-> r.kind, ws |-> r.ws, has |-> pages]
    BY <1>2 DEF Answer
  <2>2. r.ws \in Spaces /\ pageCount[r.ws] \in Nat
    BY <1>2 DEF HasAnswer, ScreensTypeOK
  <2>3. pages \subseteq Spaces \X Nat /\ \A p \in pages : p[1] = r.ws
    BY <2>2
  <2>4. r.kind \in {"list", "page"} /\ r.ws \in Places
    BY <1>2 DEF RouteType
  <2> HIDE DEF pages
  <2> QED BY <2>1, <2>3, <2>4, <1>2 DEF ValueType, ValueFits
<1> QED BY <1>1, <1>2

\* A new request of the effect.
LEMMA AskForFits ==
  ASSUME NEW r \in RouteType, NEW prefers \in Places
  PROVE  /\ AskFor(r, prefers) \in LoadType
         /\ AskFor(r, prefers).at = "asked"
         /\ AskFor(r, prefers).for = r
         /\ AskFor(r, prefers).prefers = prefers
         /\ AskFor(r, prefers).value = NoValue
BY DEF AskFor, NoLoad, LoadType, Home, RouteType, NoValue, ValueType, Stages, Places

\* What the initial values are.
LEMMA NothingFits ==
  /\ Home \in RouteType /\ NoValue \in ValueType /\ ValueFits(NoValue)
  /\ NoLoad \in LoadType /\ NoLoad.at = "none" /\ NoLoad.value = NoValue
  /\ NoForm \in FormType /\ NoForm.at = "none" /\ NoForm.value = NoValue
  /\ Loading \in ResourceType /\ Loading.status = "loading" /\ Loading.by = "none"
  /\ Loading.value = NoValue
BY DEF Home, RouteType, NoValue, ValueType, ValueFits, NoLoad, LoadType, NoForm, FormType,
       Loading, Resource, ResourceType, Stages, Places

\* A result to be shown.
LEMMA ResourceFits ==
  ASSUME NEW status \in {"loading", "loaded", "error"}, NEW value \in ValueType,
         NEW by \in {"none", "load", "reload"}, NEW for \in RouteType
  PROVE  /\ Resource(status, value, by, for) \in ResourceType
         /\ Resource(status, value, by, for).status = status
         /\ Resource(status, value, by, for).value = value
         /\ Resource(status, value, by, for).by = by
         /\ Resource(status, value, by, for).for = for
BY DEF Resource, ResourceType

------------------------------------------------------------------------------
(* The effects.  Settled gathers what they keep of the invariant.          *)

Settled ==
  /\ route \in RouteType /\ homeSpace \in Places /\ stored \in Places
  /\ load \in LoadType /\ resource \in ResourceType
  /\ ValueFits(load.value) /\ ValueFits(resource.value)
  /\ LoadFits(load, route, homeSpace)
  /\ ShownFits(resource, route, homeSpace, stored)

\* Entering a route asks for its data.
LEMMA EnterFits ==
  ASSUME ScreensInv, NEW r \in RouteType, Enter(r)
  PROVE  Settled' /\ load'.at = "asked"
<1> DEFINE home == IF r.ws # 0 THEN r.ws ELSE Preferred(homeSpace, stored)
<1>1. route' = r /\ homeSpace' = home /\ load' = AskFor(r, home) /\ resource' = Loading
  BY DEF Enter
<1>2. r.ws \in Places
  BY DEF RouteType
<1>3. home \in Places /\ stored' \in Places
  BY <1>2 DEF Enter, Preferred, ScreensInv, ScreensTypeOK
<1> HIDE DEF home
<1>4. /\ load' \in LoadType /\ load'.at = "asked" /\ load'.for = r /\ load'.prefers = home
      /\ load'.value = NoValue
  BY <1>1, <1>3, AskForFits
<1> QED BY <1>1, <1>3, <1>4, NothingFits DEF Settled, LoadFits, ShownFits

\* State is set: another active workspace on the launchpad is another load.
LEMMA RendersFits ==
  ASSUME ScreensInv,
         NEW home \in Places, NEW kept \in Places,
         NEW shown \in ResourceType, ValueFits(shown.value),
         NEW asked \in LoadType, ValueFits(asked.value),
         (route.kind = "home" => home = homeSpace) =>
           LoadFits(asked, route, home) /\ ShownFits(shown, route, home, kept),
         Renders(home, kept, shown, asked)
  PROVE  Settled' /\ (load'.at = "asked" \/ (load' = asked /\ resource' = shown))
<1>1. route' = route /\ homeSpace' = home /\ stored' = kept /\ route \in RouteType
  BY DEF Renders, ScreensInv, ScreensTypeOK
<1>2. CASE route.kind = "home" /\ home # homeSpace
  <2>1. load' = AskFor(route, Preferred(home, kept)) /\ resource' = Loading
    BY <1>2 DEF Renders
  <2>2. Preferred(home, kept) \in Places /\ (home # 0 => Preferred(home, kept) = home)
    BY DEF Preferred
  <2>3. /\ load' \in LoadType /\ load'.at = "asked" /\ load'.for = route
        /\ load'.prefers = Preferred(home, kept) /\ load'.value = NoValue
    BY <2>1, <2>2, <1>1, AskForFits
  <2> QED BY <1>1, <2>1, <2>2, <2>3, NothingFits DEF Settled, LoadFits, ShownFits
<1>3. CASE ~ (route.kind = "home" /\ home # homeSpace)
  <2>1. load' = asked /\ resource' = shown
    BY <1>3 DEF Renders
  <2> QED BY <1>1, <1>3, <2>1 DEF Settled
<1> QED BY <1>2, <1>3

\* An answer that is shown: a launchpad becomes the remembered one.
LEMMA LoadedFits ==
  ASSUME ScreensInv,
         NEW shown \in ResourceType, ValueFits(shown.value),
         NEW asked \in LoadType, ValueFits(asked.value),
         LoadFits(asked, route, homeSpace),
         shown.by \in {"load", "reload"}, shown.by = "load" => shown.for = route,
         shown.status = "loaded" /\ shown.by = "load" /\ route.kind = "home" =>
           Remembered(shown.value, homeSpace),
         Loaded(shown, asked)
  PROVE  Settled' /\ (load'.at = "asked" \/ (load' = asked /\ resource' = shown))
<1>1. /\ shown.value.ws \in Places /\ homeSpace \in Places /\ stored \in Places
  BY DEF ResourceType, ValueType, ScreensInv, ScreensTypeOK
<1>2. CASE shown.status = "loaded" /\ shown.value.kind = "home"
  <2> DEFINE home == IF shown.value.ws = 0 \/ homeSpace = 0 THEN shown.value.ws ELSE homeSpace
  <2>1. Renders(home, shown.value.ws, shown, asked)
    BY <1>2 DEF Loaded
  <2>2. home \in Places
    BY <1>1
  <2> HIDE DEF home
  <2>3. (route.kind = "home" => home = homeSpace) =>
          LoadFits(asked, route, home) /\ ShownFits(shown, route, home, shown.value.ws)
    BY DEF LoadFits, ShownFits
  <2> QED BY <1>1, <2>1, <2>2, <2>3, RendersFits
<1>3. CASE ~ (shown.status = "loaded" /\ shown.value.kind = "home")
  <2>1. Renders(homeSpace, stored, shown, asked)
    BY <1>3 DEF Loaded
  <2>2. LoadFits(asked, route, homeSpace) /\ ShownFits(shown, route, homeSpace, stored)
    BY <1>3 DEF ShownFits, Remembered
  <2> QED BY <1>1, <2>1, <2>2, RendersFits
<1> QED BY <1>2, <1>3

------------------------------------------------------------------------------
(* The invariant holds.                                                    *)

\* Init establishes the invariant.
LEMMA ScreensInitFits == ScreensInit => ScreensInv
<1> SUFFICES ASSUME ScreensInit PROVE ScreensInv
  OBVIOUS
<1>1. /\ load = AskFor(Home, stored) /\ route = Home /\ homeSpace = stored
      /\ resource = Loading /\ form = [f \in Forms |-> NoForm] /\ stored \in Places
      /\ member \subseteq Spaces /\ pageCount = [w \in Spaces |-> 1]
  BY DEF ScreensInit, Places
<1>2. /\ load \in LoadType /\ load.at = "asked" /\ load.for = Home /\ load.prefers = stored
      /\ load.value = NoValue
  BY <1>1, AskForFits, NothingFits
<1>3. \A f \in Forms : form[f] = NoForm
  BY <1>1
<1>4. ScreensTypeOK
  BY <1>1, <1>2, NothingFits DEF ScreensTypeOK
<1>5. ValuesFit
  BY <1>1, <1>2, <1>3, NothingFits DEF ValuesFit
<1>6. LoadFits(load, route, homeSpace) /\ ShownFits(resource, route, homeSpace, stored)
  BY <1>1, <1>2, NothingFits DEF LoadFits, ShownFits
<1> QED BY <1>2, <1>4, <1>5, <1>6 DEF ScreensInv, LoadingIsWaiting

\* A step that leaves the forms alone and settles what is shown.
LEMMA EffectFits ==
  ASSUME ScreensInv, Settled', member' \subseteq Spaces, pageCount' \in [Spaces -> Nat],
         form' \in [Forms -> FormType], \A f \in Forms : ValueFits(form'[f].value),
         LoadingIsWaiting'
  PROVE  ScreensInv'
BY DEF ScreensInv, ScreensTypeOK, ValuesFit, Settled

\* ServeLoad keeps the invariant.
LEMMA ServeLoadFits == ScreensInv /\ ServeLoad => ScreensInv'
<1> SUFFICES ASSUME ScreensInv, ServeLoad PROVE ScreensInv'
  OBVIOUS
<1>0. /\ ScreensTypeOK /\ ValuesFit /\ LoadingIsWaiting
      /\ LoadFits(load, route, homeSpace) /\ ShownFits(resource, route, homeSpace, stored)
  BY DEF ScreensInv
<1>1. load \in LoadType /\ load.for \in RouteType /\ load.prefers \in Places
      /\ homeSpace \in Places /\ load.for = route /\ load.at = "asked"
  BY <1>0 DEF ScreensTypeOK, LoadType, LoadFits, ServeLoad
<1>2. /\ UNCHANGED <<member, pageCount, route, form, resource, homeSpace, stored>>
  BY DEF ServeLoad
<1>3. /\ load' \in LoadType /\ ValueFits(load'.value) /\ LoadFits(load', route, homeSpace)
      /\ load'.at # "none"
  <2>1. CASE HasAnswer(load.for) /\ load' = [load EXCEPT !.at = "answered",
                                                  !.value = Answer(load.for, load.prefers)]
    <3> DEFINE v == Answer(load.for, load.prefers)
    <3>1. /\ v \in ValueType /\ ValueFits(v)
          /\ route.kind = "home" /\ (homeSpace # 0 => load.prefers = homeSpace) =>
               Remembered(v, homeSpace)
      BY <2>1, <1>0, <1>1, AnswerFits
    <3> HIDE DEF v
    <3>2. /\ load' \in LoadType /\ load'.at = "answered" /\ load'.value = v
          /\ load'.for = route /\ load'.prefers = load.prefers
      BY <2>1, <1>1, <3>1 DEF LoadType, Stages, v
    <3> QED BY <1>0, <1>1, <3>1, <3>2 DEF LoadFits
  <2>2. CASE load' = [load EXCEPT !.at = "failed"]
    <3>1. /\ load' \in LoadType /\ load'.at = "failed" /\ load'.value = load.value
          /\ load'.for = route /\ load'.prefers = load.prefers
      BY <2>2, <1>1 DEF LoadType, Stages
    <3> QED BY <1>0, <1>1, <3>1 DEF LoadFits, ValuesFit
  <2> QED BY <2>1, <2>2 DEF ServeLoad
<1> QED BY <1>0, <1>2, <1>3
        DEF ScreensInv, ScreensTypeOK, ValuesFit, ShownFits, Remembered, LoadFits,
            LoadingIsWaiting

\* ShowLoad keeps the invariant.
LEMMA ShowLoadFits == ScreensInv /\ ShowLoad => ScreensInv'
<1> SUFFICES ASSUME ScreensInv, ShowLoad PROVE ScreensInv'
  OBVIOUS
<1> DEFINE status == IF load.at = "failed" THEN "error" ELSE "loaded"
           shown == Resource(status, load.value, "load", load.for)
<1>0. /\ ScreensTypeOK /\ ValuesFit
      /\ LoadFits(load, route, homeSpace)
  BY DEF ScreensInv
<1>1. /\ load.for = route /\ route \in RouteType /\ load.value \in ValueType
      /\ ValueFits(load.value) /\ load.at \in {"answered", "failed"}
  BY <1>0 DEF ShowLoad, LoadFits, ScreensTypeOK, LoadType, ValuesFit
<1>2. Loaded(shown, NoLoad) /\ UNCHANGED <<member, pageCount, form>>
  BY DEF ShowLoad
<1>3. status \in {"loaded", "error"} /\ (status = "loaded" => load.at = "answered")
  BY <1>1
<1> HIDE DEF status
<1>4. /\ shown \in ResourceType /\ shown.status = status /\ shown.value = load.value
      /\ shown.by = "load" /\ shown.for = route
  BY <1>1, <1>3, ResourceFits
<1> HIDE DEF shown
<1>5. LoadFits(NoLoad, route, homeSpace)
  BY NothingFits DEF LoadFits
<1>6. shown.status = "loaded" /\ route.kind = "home" => Remembered(shown.value, homeSpace)
  BY <1>0, <1>3, <1>4 DEF LoadFits
<1>7. Settled' /\ (load'.at = "asked" \/ (load' = NoLoad /\ resource' = shown))
  BY <1>1, <1>2, <1>4, <1>5, <1>6, NothingFits, LoadedFits
<1>8. LoadingIsWaiting'
  BY <1>3, <1>4, <1>7 DEF LoadingIsWaiting
<1> QED BY <1>0, <1>2, <1>7, <1>8, EffectFits DEF ScreensTypeOK, ValuesFit

\* Navigate keeps the invariant.
LEMMA NavigateFits == ASSUME NEW r \in Routes PROVE ScreensInv /\ Navigate(r) => ScreensInv'
<1> SUFFICES ASSUME ScreensInv, Navigate(r) PROVE ScreensInv'
  OBVIOUS
<1>1. r \in RouteType
  BY SpacesAssumption DEF Routes, Lists, Home, PageOf, RouteType, Places
<1>2. Settled' /\ load'.at = "asked"
  BY <1>1, EnterFits DEF Navigate
<1> QED BY <1>2, EffectFits DEF Navigate, ScreensInv, ScreensTypeOK, ValuesFit, LoadingIsWaiting

\* SelectWorkspace keeps the invariant.
LEMMA SelectWorkspaceFits ==
  ASSUME NEW w \in Spaces PROVE ScreensInv /\ SelectWorkspace(w) => ScreensInv'
<1> SUFFICES ASSUME ScreensInv, SelectWorkspace(w) PROVE ScreensInv'
  OBVIOUS
<1>1. /\ ScreensTypeOK /\ ValuesFit /\ LoadingIsWaiting
      /\ LoadFits(load, route, homeSpace) /\ ShownFits(resource, route, homeSpace, stored)
  BY DEF ScreensInv
<1>2. w \in Places /\ w # 0 /\ w \in resource.value.has /\ Renders(w, w, resource, load)
  BY SpacesAssumption DEF Places, SelectWorkspace
<1>3. (route.kind = "home" => w = homeSpace) =>
        LoadFits(load, route, w) /\ ShownFits(resource, route, w, w)
  BY <1>1, <1>2 DEF LoadFits, ShownFits, Remembered
<1>4. Settled' /\ (load'.at = "asked" \/ (load' = load /\ resource' = resource))
  BY <1>1, <1>2, <1>3, RendersFits DEF ScreensTypeOK, ValuesFit
<1> QED BY <1>1, <1>4, EffectFits DEF SelectWorkspace, ScreensTypeOK, ValuesFit, LoadingIsWaiting

------------------------------------------------------------------------------
(* The forms.                                                              *)

\* A step of a form that shows nothing new keeps the invariant when the form
\* still waits if a loading screen may wait for it.
LEMMA FormStepFits ==
  ASSUME ScreensInv, NEW f \in Forms, NEW sent \in FormType, ValueFits(sent.value),
         form[f].at \in {"asked", "answered", "failed"} =>
           sent.at \in {"asked", "answered", "failed"},
         form' = [form EXCEPT ![f] = sent], pageCount' \in [Spaces -> Nat],
         UNCHANGED <<member, route, load, resource, homeSpace, stored>>
  PROVE  ScreensInv'
<1>1. form \in [Forms -> FormType] /\ \A g \in Forms : ValueFits(form[g].value)
  BY DEF ScreensInv, ScreensTypeOK, ValuesFit
<1>2. form' \in [Forms -> FormType] /\ form'[f] = sent
      /\ \A g \in Forms \ {f} : form'[g] = form[g]
  BY <1>1
<1>3. LoadingIsWaiting'
  BY <1>2 DEF ScreensInv, LoadingIsWaiting
<1> QED BY <1>1, <1>2, <1>3
        DEF ScreensInv, ScreensTypeOK, ValuesFit, ShownFits, Remembered, LoadFits

\* Submit keeps the invariant.
LEMMA SubmitFits ==
  ASSUME NEW f \in Forms, NEW does \in {"change", "createProject", "create"}
  PROVE  ScreensInv /\ Submit(f, does) => ScreensInv'
<1> SUFFICES ASSUME ScreensInv, Submit(f, does) PROVE ScreensInv'
  OBVIOUS
<1> DEFINE ws == IF route.kind = "home" THEN resource.value.ws ELSE route.ws
           sent == [NoForm EXCEPT !.at = "sent", !.does = does, !.from = route,
                                  !.prefers = homeSpace, !.ws = ws]
<1>1. ScreensTypeOK
  BY DEF ScreensInv
<1>2. ws \in Places /\ route \in RouteType /\ homeSpace \in Places
  BY <1>1 DEF ScreensTypeOK, RouteType, ResourceType, ValueType
<1>3. form' = [form EXCEPT ![f] = sent] /\ form[f].at = "none"
  BY DEF Submit
<1> HIDE DEF ws
<1>4. sent \in FormType /\ sent.at = "sent" /\ sent.value = NoValue
  BY <1>2, NothingFits DEF NoForm, FormType, Stages, Places
<1> HIDE DEF sent
<1>5. /\ UNCHANGED <<member, route, load, resource, homeSpace, stored>>
      /\ pageCount' \in [Spaces -> Nat]
  BY <1>1 DEF Submit, ScreensTypeOK
<1> QED BY <1>3, <1>4, <1>5, NothingFits, FormStepFits

\* FormFails keeps the invariant.
LEMMA FormFailsFits == ASSUME NEW f \in Forms PROVE ScreensInv /\ FormFails(f) => ScreensInv'
<1> SUFFICES ASSUME ScreensInv, FormFails(f) PROVE ScreensInv'
  OBVIOUS
<1>1. form[f].at = "sent" /\ form' = [form EXCEPT ![f] = NoForm]
  BY DEF FormFails, FormDone
<1> QED BY <1>1, NothingFits, FormStepFits DEF FormFails, ScreensInv, ScreensTypeOK

\* ServeForm keeps the invariant.
LEMMA ServeFormFits == ASSUME NEW f \in Forms PROVE ScreensInv /\ ServeForm(f) => ScreensInv'
<1> SUFFICES ASSUME ScreensInv, ServeForm(f) PROVE ScreensInv'
  OBVIOUS
<1>1. /\ form \in [Forms -> FormType] /\ form[f] \in FormType /\ ValueFits(form[f].value)
      /\ pageCount \in [Spaces -> Nat] /\ member \subseteq Spaces
  BY DEF ScreensInv, ScreensTypeOK, ValuesFit
<1>2. form[f].at = "sent" /\ form[f].ws \in Spaces
  BY <1>1 DEF ServeForm
<1>3. CASE form[f].does = "create"
  <2> DEFINE served == [form[f] EXCEPT !.at = "served"]
             made == [form[f] EXCEPT !.at = "served", !.page = pageCount[form[f].ws] + 1]
  <2>1. form' = [form EXCEPT ![f] = made]
    BY <1>3 DEF ServeForm
  <2>2. pageCount[form[f].ws] \in Nat
    BY <1>1, <1>2
  <2>3. made \in FormType /\ made.at = "served" /\ made.value = form[f].value
    <3>1. served \in FormType /\ served.at = "served" /\ served.value = form[f].value
      BY <1>1 DEF FormType, Stages
    <3>2. made = [served EXCEPT !.page = pageCount[form[f].ws] + 1]
      BY <1>1 DEF FormType
    <3> HIDE DEF served, made
    <3>3. pageCount[form[f].ws] + 1 \in Nat
      BY <2>2
    <3> QED BY <3>1, <3>2, <3>3 DEF FormType
  <2>4. pageCount' \in [Spaces -> Nat]
    <3>1. pageCount' = [pageCount EXCEPT ![form[f].ws] = @ + 1]
      BY <1>3 DEF ServeForm
    <3> QED BY <1>1, <1>2, <2>2, <3>1
  <2> HIDE DEF made
  <2> QED BY <1>1, <1>2, <2>1, <2>3, <2>4, FormStepFits DEF ServeForm
<1>4. CASE form[f].does # "create"
  <2> DEFINE made == [form[f] EXCEPT !.at = "served"]
  <2>1. form' = [form EXCEPT ![f] = made] /\ pageCount' = pageCount
    BY <1>4 DEF ServeForm
  <2>2. made \in FormType /\ made.at = "served" /\ made.value = form[f].value
    BY <1>1 DEF FormType, Stages
  <2> HIDE DEF made
  <2> QED BY <1>1, <1>2, <2>1, <2>2, FormStepFits DEF ServeForm
<1> QED BY <1>3, <1>4

\* GoToCreated keeps the invariant.
LEMMA GoToCreatedFits ==
  ASSUME NEW f \in Forms PROVE ScreensInv /\ GoToCreated(f) => ScreensInv'
<1> SUFFICES ASSUME ScreensInv, GoToCreated(f) PROVE ScreensInv'
  OBVIOUS
<1>1. form \in [Forms -> FormType] /\ form[f] \in FormType
  BY DEF ScreensInv, ScreensTypeOK
<1>2. PageOf(form[f].ws, form[f].page) \in RouteType
  BY <1>1 DEF FormType, PageOf, RouteType
<1>3. Settled' /\ load'.at = "asked"
  BY <1>2, EnterFits DEF GoToCreated
<1>4. form' = [form EXCEPT ![f] = NoForm]
  BY DEF GoToCreated, FormDone
<1>5. form' \in [Forms -> FormType] /\ \A g \in Forms : ValueFits(form'[g].value)
  BY <1>1, <1>4, NothingFits DEF ScreensInv, ValuesFit
<1> QED BY <1>3, <1>5, EffectFits
        DEF GoToCreated, ScreensInv, ScreensTypeOK, LoadingIsWaiting

\* Reload keeps the invariant.
LEMMA ReloadFits == ASSUME NEW f \in Forms PROVE ScreensInv /\ Reload(f) => ScreensInv'
<1> SUFFICES ASSUME ScreensInv, Reload(f) PROVE ScreensInv'
  OBVIOUS
<1> DEFINE ws == IF form[f].does = "createProject" THEN form[f].ws ELSE homeSpace
           kept == IF form[f].does = "createProject" THEN form[f].ws ELSE stored
           sent == [form[f] EXCEPT !.at = "asked",
                                   !.prefers = Preferred(form[f].prefers, stored')]
<1>1. /\ form \in [Forms -> FormType] /\ form[f] \in FormType /\ ValueFits(form[f].value)
      /\ load \in LoadType /\ ValueFits(load.value) /\ LoadFits(load, route, homeSpace)
      /\ \A g \in Forms : ValueFits(form[g].value)
  BY DEF ScreensInv, ScreensTypeOK, ValuesFit
<1>2. ws \in Places /\ kept \in Places /\ form[f].prefers \in Places
  BY <1>1 DEF FormType, ScreensInv, ScreensTypeOK
<1>3. Renders(ws, kept, Loading, load) /\ form' = [form EXCEPT ![f] = sent]
  <2>1. Renders(ws, kept, Loading, load)
    BY DEF Reload
  <2>2. form' = [form EXCEPT ![f] = sent]
    BY DEF Reload
  <2> QED BY <2>1, <2>2
<1> HIDE DEF ws, kept
<1>4. (route.kind = "home" => ws = homeSpace) =>
        LoadFits(load, route, ws) /\ ShownFits(Loading, route, ws, kept)
  BY <1>1, NothingFits DEF LoadFits, ShownFits
<1>5. Settled'
  BY <1>1, <1>2, <1>3, <1>4, NothingFits, RendersFits
<1>6. Preferred(form[f].prefers, stored') \in Places
  BY <1>2, <1>5 DEF Preferred, Settled
<1>7. sent \in FormType /\ sent.at = "asked" /\ sent.value = form[f].value
  BY <1>1, <1>6 DEF FormType, Stages
<1> HIDE DEF sent
<1>8. /\ form' \in [Forms -> FormType] /\ form'[f] = sent
      /\ \A g \in Forms : ValueFits(form'[g].value)
  BY <1>1, <1>3, <1>7
<1>9. LoadingIsWaiting'
  BY <1>7, <1>8 DEF LoadingIsWaiting
<1> QED BY <1>5, <1>8, <1>9, EffectFits DEF Reload, ScreensInv, ScreensTypeOK

\* ServeReload keeps the invariant.
LEMMA ServeReloadFits ==
  ASSUME NEW f \in Forms PROVE ScreensInv /\ ServeReload(f) => ScreensInv'
<1> SUFFICES ASSUME ScreensInv, ServeReload(f) PROVE ScreensInv'
  OBVIOUS
<1>1. /\ ScreensTypeOK /\ form[f] \in FormType /\ ValueFits(form[f].value)
      /\ form[f].from \in RouteType /\ form[f].prefers \in Places
  BY DEF ScreensInv, ScreensTypeOK, ValuesFit, FormType
<1>2. CASE HasAnswer(form[f].from) /\ form' = [form EXCEPT ![f] =
             [@ EXCEPT !.at = "answered", !.value = Answer(form[f].from, form[f].prefers)]]
  <2> DEFINE v == Answer(form[f].from, form[f].prefers)
             sent == [form[f] EXCEPT !.at = "answered", !.value = v]
  <2>1. v \in ValueType /\ ValueFits(v)
    BY <1>1, <1>2, AnswerFits
  <2>2. form' = [form EXCEPT ![f] = sent]
    BY <1>2
  <2> HIDE DEF v
  <2>3. sent \in FormType /\ sent.at = "answered" /\ sent.value = v
    BY <1>1, <2>1 DEF FormType, Stages
  <2> HIDE DEF sent
  <2> QED BY <1>1, <2>1, <2>2, <2>3, FormStepFits DEF ServeReload, ScreensTypeOK
<1>3. CASE form' = [form EXCEPT ![f].at = "failed"]
  <2> DEFINE sent == [form[f] EXCEPT !.at = "failed"]
  <2>1. form' = [form EXCEPT ![f] = sent]
    BY <1>3
  <2>2. sent \in FormType /\ sent.at = "failed" /\ sent.value = form[f].value
    BY <1>1 DEF FormType, Stages
  <2> HIDE DEF sent
  <2> QED BY <1>1, <2>1, <2>2, FormStepFits DEF ServeReload, ScreensTypeOK
<1> QED BY <1>2, <1>3 DEF ServeReload

\* ShowReload keeps the invariant.
LEMMA ShowReloadFits == ASSUME NEW f \in Forms PROVE ScreensInv /\ ShowReload(f) => ScreensInv'
<1> SUFFICES ASSUME ScreensInv, ShowReload(f) PROVE ScreensInv'
  OBVIOUS
<1> DEFINE status == IF form[f].at = "failed" THEN "error" ELSE "loaded"
           shown == Resource(status, form[f].value, "reload", form[f].from)
<1>1. /\ form \in [Forms -> FormType] /\ form[f].value \in ValueType
      /\ form[f].from \in RouteType
      /\ load \in LoadType /\ ValueFits(load.value) /\ LoadFits(load, route, homeSpace)
      /\ \A g \in Forms : ValueFits(form[g].value)
  BY DEF ScreensInv, ScreensTypeOK, ValuesFit, FormType
<1>2. /\ Loaded(shown, load) /\ form' = [form EXCEPT ![f] = NoForm]
      /\ UNCHANGED <<member, pageCount>>
  BY DEF ShowReload, FormDone
<1>3. status \in {"loaded", "error"}
  OBVIOUS
<1> HIDE DEF status
<1>4. /\ shown \in ResourceType /\ shown.status = status /\ shown.value = form[f].value
      /\ shown.by = "reload"
  BY <1>1, <1>3, ResourceFits
<1> HIDE DEF shown
<1>5. Settled' /\ (load'.at = "asked" \/ (load' = load /\ resource' = shown))
  BY <1>1, <1>2, <1>4, LoadedFits
<1>6. LoadingIsWaiting'
  BY <1>3, <1>4, <1>5 DEF LoadingIsWaiting
<1>7. form' \in [Forms -> FormType] /\ \A g \in Forms : ValueFits(form'[g].value)
  BY <1>1, <1>2, NothingFits
<1> QED BY <1>2, <1>5, <1>6, <1>7, EffectFits DEF ScreensInv, ScreensTypeOK

\* Leave keeps the invariant.
LEMMA LeaveFits == ASSUME NEW w \in Spaces PROVE ScreensInv /\ Leave(w) => ScreensInv'
BY DEF Leave, ScreensInv, ScreensTypeOK, ValuesFit, ShownFits, Remembered, LoadFits,
       LoadingIsWaiting

\* Every step keeps the invariant.
LEMMA ScreensNextFits == ScreensInv /\ [ScreensNext]_screenVars => ScreensInv'
<1> SUFFICES ASSUME ScreensInv, [ScreensNext]_screenVars PROVE ScreensInv'
  OBVIOUS
<1>1. CASE ServeLoad
  BY <1>1, ServeLoadFits
<1>2. CASE ShowLoad
  BY <1>2, ShowLoadFits
<1>3. ASSUME NEW r \in Routes, Navigate(r) PROVE ScreensInv'
  BY <1>3, NavigateFits
<1>4. ASSUME NEW w \in Spaces, SelectWorkspace(w) \/ Leave(w) PROVE ScreensInv'
  BY <1>4, SelectWorkspaceFits, LeaveFits
<1>5. ASSUME NEW f \in Forms, NEW does \in {"change", "createProject", "create"},
             Submit(f, does)
      PROVE  ScreensInv'
  BY <1>5, SubmitFits
<1>6. ASSUME NEW f \in Forms, FormFails(f) \/ ServeForm(f) \/ GoToCreated(f)
      PROVE  ScreensInv'
  BY <1>6, FormFailsFits, ServeFormFits, GoToCreatedFits
<1>7. ASSUME NEW f \in Forms, Reload(f) \/ ServeReload(f) \/ ShowReload(f)
      PROVE  ScreensInv'
  BY <1>7, ReloadFits, ServeReloadFits, ShowReloadFits
<1>8. CASE UNCHANGED screenVars
  BY <1>8 DEF screenVars, ScreensInv, ScreensTypeOK, ValuesFit, ShownFits, Remembered, LoadFits,
              LoadingIsWaiting
<1> QED BY <1>1, <1>2, <1>3, <1>4, <1>5, <1>6, <1>7, <1>8 DEF ScreensNext

\* The inductive invariant holds: the effect's request and what it loaded are
\* always the route's, and a loading screen waits for somebody.
THEOREM ScreensFit == ScreensSpec => []ScreensInv
<1> QED BY ScreensInitFits, ScreensNextFits, PTL DEF ScreensSpec

\* The screen is that of the route: only the answer a form waited for
\* (reloadResource, which has no cancelled flag) is ever shown on another
\* screen, never in the editor; and a screen that waits for nothing shows its
\* result, on the launchpad that of the workspace remembered in localStorage.
THEOREM ScreensShowTheirRoutes == ScreensSpec => []ScreensShowTheirRoute
<1>1. ScreensInv => AnswersFitTheRoute
  BY DEF ScreensInv, ShownFits, ValuesFit, ValueFits, AnswersFitTheRoute, EditorShown, Showing
<1>2. ScreensInv => ScreensSettle
  BY DEF ScreensInv, ScreensTypeOK, ResourceType, ShownFits, LoadingIsWaiting, ScreensSettle,
         Quiet, Showing
<1> QED BY <1>1, <1>2, ScreensFit, PTL DEF ScreensShowTheirRoute
=============================================================================
