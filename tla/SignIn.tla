------------------------------- MODULE SignIn -------------------------------
(***************************************************************************)
(* SignIn: magic links, sessions and the cookie (packages/db/src/auth.ts   *)
(* and the auth routes of apps/api/src/index.ts), and what the tabs of one *)
(* browser make of them (apps/web/src/App.tsx): which screen a tab shows,  *)
(* where it sends a visitor who has to sign in and where it returns him.   *)
(*                                                                         *)
(* A request reads the cookie when it is sent, runs its queries one by     *)
(* one, and sets or clears the cookie when its answer arrives; the tabs    *)
(* share the cookie and nothing else.  A session is named by its place in  *)
(* sessions, 0 is no cookie.                                               *)
(***************************************************************************)
EXTENDS Integers, Sequences

CONSTANTS
  AppTabs,      \* tabs of one browser in which the application is open
  Links,        \* magic links that may be asked for
  MaxSessions,  \* bound: sessions opened
  MaxVisits,    \* bound: pages opened and links followed
  MaxErrors     \* bound: requests that fail

VARIABLES
  link,      \* link -> "unsent", "sent", "used", "expired"
  sessions,  \* [link, state: "live", "aging", "revoked", "expired"]
  cookie,    \* the session the browser's cookie names
  tab,       \* tab -> what it shows and remembers
  call,      \* tab -> its request to the API
  visits, errors

signInVars == <<link, sessions, cookie, tab, call, visits, errors>>
signInBounds == <<visits, errors>>

\* parseRoute: the addresses told apart are "/", "/auth", an unknown one and
\* two that need a session.
Protected == {"home", "page"}
Addresses == Protected \cup {"root", "auth", "unknown"}

NoPage == [route |-> "none", redirectTo |-> "home", success |-> FALSE, status |-> "none",
           pending |-> "none", wanted |-> "none"]
NoRequest == [kind |-> "none", at |-> "done", token |-> 0, link |-> "none"]

SignInInit ==
  /\ link = [l \in Links |-> "unsent"]
  /\ sessions = <<>>
  /\ cookie = 0
  /\ tab = [t \in AppTabs |-> NoPage]
  /\ call = [t \in AppTabs |-> NoRequest]
  /\ visits = 0 /\ errors = 0

Live(s) == s \in DOMAIN sessions /\ sessions[s].state \in {"live", "aging"}

Idle(t) == call[t].kind = "none"
SendRequest(t, kind) == [kind |-> kind, at |-> "first", token |-> cookie, link |-> "none"]
Moves(t, at) == call' = [call EXCEPT ![t].at = at]
Ends(t) == call' = [call EXCEPT ![t] = NoRequest]

(***************************************************************************)
(* Where a tab goes once it knows its session: the effect of App on its    *)
(* route and its session's status.                                         *)
(***************************************************************************)

GoesTo(p, route, redirectTo) ==
  [p EXCEPT !.route = route, !.redirectTo = redirectTo, !.success = FALSE]

\* Faulty variants: the start page asks nobody to sign in; the pending redirect is
\* remembered and never read.
RedirectedProtectedOnly(p) ==
  IF p.status = "out" /\ p.route \notin Protected THEN p
  ELSE IF p.status = "out" THEN GoesTo(p, "auth", p.route)
  ELSE IF p.status = "in" /\ p.route \notin Protected THEN GoesTo(p, p.redirectTo, "home")
  ELSE p

RedirectedHome(p) ==
  CASE p.status = "out" -> IF p.route = "auth" THEN p
                           ELSE GoesTo(p, "auth", IF p.route \in Protected THEN p.route ELSE "home")
    [] p.status = "in" -> IF p.route \in Protected THEN p ELSE GoesTo(p, p.redirectTo, "home")
    [] OTHER -> p

\* A pending redirect is used up by any page with auth=success.
Redirected(p) ==
  LET known == IF p.route = "unknown" THEN GoesTo(p, "root", "home") ELSE p
      target == IF known.success /\ known.pending # "none" THEN known.pending
                ELSE known.redirectTo
      used == IF known.success THEN [known EXCEPT !.pending = "none"] ELSE known IN
  CASE p.status \in {"loading", "error"} -> known
    [] p.status = "out" /\ known.route \in Protected -> GoesTo(known, "auth", known.route)
    [] p.status = "out" /\ known.route = "root" -> GoesTo(known, "auth", "home")
    [] p.status = "in" /\ known.route \in {"root", "auth"} -> GoesTo(used, target, "home")
    [] p.status = "in" /\ known.route \in Protected -> used
    [] OTHER -> known

Shows(t, p) == tab' = [tab EXCEPT ![t] = Redirected(p)]

\* A page is opened or reloaded: the tab keeps its sessionStorage only.
NewPage(t, route, status) ==
  [route |-> route, redirectTo |-> "home", success |-> FALSE, status |-> status,
   pending |-> tab[t].pending, wanted |-> tab[t].wanted]

OpenPage(t) ==
  /\ visits < MaxVisits
  /\ visits' = visits + 1
  /\ \E route \in Addresses : Shows(t, NewPage(t, route, "loading"))
  /\ call' = [call EXCEPT ![t] = SendRequest(t, "me")]
  /\ UNCHANGED <<link, sessions, cookie, errors>>

(***************************************************************************)
(* bootstrapSession and refreshSessionState: GET /me.                      *)
(***************************************************************************)

\* getAuthContextForSessionToken: the session; its memberships, a second
\* query, change nothing of the answer's status.
FindSession(t) ==
  /\ call[t].kind = "me" /\ call[t].at = "first"
  /\ Moves(t, IF Live(call[t].token) THEN "found" ELSE "unauthenticated")
  /\ UNCHANGED <<link, sessions, cookie, tab, signInBounds>>

SessionKnown(t) ==
  /\ call[t].kind = "me" /\ call[t].at \in {"found", "unauthenticated"}
  /\ Shows(t, [tab[t] EXCEPT !.status = IF call[t].at = "found" THEN "in" ELSE "out"])
  /\ Ends(t)
  /\ UNCHANGED <<link, sessions, cookie, signInBounds>>

SessionUnknown(t) ==
  /\ call[t].kind = "me" /\ errors < MaxErrors
  /\ errors' = errors + 1
  /\ Shows(t, [tab[t] EXCEPT !.status = "error"])
  /\ Ends(t)
  /\ UNCHANGED <<link, sessions, cookie, visits>>

Retry(t) ==
  /\ tab[t].status = "error" /\ Idle(t)
  /\ tab' = [tab EXCEPT ![t].status = "loading"]
  /\ call' = [call EXCEPT ![t] = SendRequest(t, "me")]
  /\ UNCHANGED <<link, sessions, cookie, signInBounds>>

(***************************************************************************)
(* A magic link: asked for on the sign-in screen, followed in any tab.     *)
(***************************************************************************)

OnSignInScreen(t) == tab[t].status = "out" /\ tab[t].route = "auth"

\* The redirect is remembered before the request is sent; user and token are
\* one transaction.
SubmitEmail(t, l) ==
  /\ OnSignInScreen(t) /\ Idle(t) /\ link[l] = "unsent"
  /\ tab' = [tab EXCEPT ![t].pending = tab[t].redirectTo, ![t].wanted = tab[t].redirectTo]
  /\ \/ link' = [link EXCEPT ![l] = "sent"] /\ UNCHANGED errors
     \/ errors < MaxErrors /\ errors' = errors + 1 /\ UNCHANGED link
  /\ UNCHANGED <<sessions, cookie, call, visits>>

\* A navigation to the API: the tab's page is gone.
FollowLink(t, l) ==
  /\ link[l] # "unsent" /\ visits < MaxVisits
  /\ visits' = visits + 1
  /\ tab' = [tab EXCEPT ![t] = NewPage(t, "none", "none")]
  /\ call' = [call EXCEPT ![t] = [SendRequest(t, "consume") EXCEPT !.link = l]]
  /\ UNCHANGED <<link, sessions, cookie, errors>>

\* Faulty variant: the link is looked up and marked by two statements.
ConsumeLinkUsed(t) ==
  /\ call[t].kind = "consume" /\ call[t].at = "first"
  /\ IF link[call[t].link] \in {"sent", "used"}
     THEN /\ Len(sessions) < MaxSessions
          /\ link' = [link EXCEPT ![call[t].link] = "used"]
          /\ sessions' = Append(sessions, [link |-> call[t].link, state |-> "live"])
          /\ call' = [call EXCEPT ![t].at = "opened", ![t].token = Len(sessions')]
     ELSE Moves(t, "refused") /\ UNCHANGED <<link, sessions>>
  /\ UNCHANGED <<cookie, tab, signInBounds>>

\* consumeMagicLinkToken: one update tests and marks the link, the session is
\* inserted by the same transaction.
ConsumeLink(t) ==
  LET l == call[t].link IN
  /\ call[t].kind = "consume" /\ call[t].at = "first"
  /\ IF link[l] = "sent"
     THEN /\ Len(sessions) < MaxSessions
          /\ link' = [link EXCEPT ![l] = "used"]
          /\ sessions' = Append(sessions, [link |-> l, state |-> "live"])
          /\ call' = [call EXCEPT ![t].at = "opened", ![t].token = Len(sessions')]
     ELSE Moves(t, "refused") /\ UNCHANGED <<link, sessions>>
  /\ UNCHANGED <<cookie, tab, signInBounds>>

\* 302 to the app, with auth=success; 401 shows the API's error.  Either may
\* be lost on its way.
LinkAnswered(t) ==
  /\ call[t].kind = "consume"
  /\ \/ /\ call[t].at = "opened"
        /\ cookie' = call[t].token
        /\ Shows(t, [tab[t] EXCEPT !.route = "root", !.success = TRUE, !.status = "loading"])
        /\ call' = [call EXCEPT ![t] = [SendRequest(t, "me") EXCEPT !.token = call[t].token]]
        /\ UNCHANGED errors
     \/ /\ call[t].at = "refused"
        /\ Ends(t) /\ UNCHANGED <<cookie, tab, errors>>
     \/ /\ call[t].at # "first" /\ errors < MaxErrors
        /\ errors' = errors + 1
        /\ Ends(t) /\ UNCHANGED <<cookie, tab>>
  /\ UNCHANGED <<link, sessions, visits>>

(***************************************************************************)
(* Logging out, and refreshing a session.                                  *)
(***************************************************************************)

Logout(t) ==
  /\ tab[t].status = "in" /\ Idle(t)
  /\ call' = [call EXCEPT ![t] = SendRequest(t, "logout")]
  /\ UNCHANGED <<link, sessions, cookie, tab, signInBounds>>

revokeSession(t) ==
  /\ call[t].kind = "logout" /\ call[t].at = "first"
  /\ sessions' = [s \in DOMAIN sessions |->
                    IF s = call[t].token /\ sessions[s].state # "revoked"
                    THEN [sessions[s] EXCEPT !.state = "revoked"] ELSE sessions[s]]
  /\ Moves(t, "revoked")
  /\ UNCHANGED <<link, cookie, tab, signInBounds>>

\* The cookie is cleared whatever it names by now; the tab goes to the
\* sign-in screen.
LoggedOut(t) ==
  /\ call[t].kind = "logout" /\ call[t].at = "revoked"
  /\ cookie' = 0
  /\ Shows(t, [GoesTo(tab[t], "auth", "home") EXCEPT !.status = "out"])
  /\ Ends(t)
  /\ UNCHANGED <<link, sessions, signInBounds>>

Refresh(t) ==
  /\ tab[t].status = "in" /\ Idle(t)
  /\ call' = [call EXCEPT ![t] = SendRequest(t, "refresh")]
  /\ UNCHANGED <<link, sessions, cookie, tab, signInBounds>>

\* Faulty variant: the update extends a session by its token alone.
refreshSessionEnded(t) ==
  /\ call[t].kind = "refresh" /\ call[t].at = "first"
  /\ IF call[t].token \in DOMAIN sessions
     THEN sessions' = [sessions EXCEPT ![call[t].token].state = "live"] /\ Moves(t, "extended")
     ELSE Moves(t, "refused") /\ UNCHANGED sessions
  /\ UNCHANGED <<link, cookie, tab, signInBounds>>

\* refreshSession: an update that extends, then the query of /me.
refreshSession(t) ==
  /\ call[t].kind = "refresh" /\ call[t].at = "first"
  /\ IF Live(call[t].token)
     THEN sessions' = [sessions EXCEPT ![call[t].token].state = "live"] /\ Moves(t, "extended")
     ELSE Moves(t, "refused") /\ UNCHANGED sessions
  /\ UNCHANGED <<link, cookie, tab, signInBounds>>

RefreshFinds(t) ==
  /\ call[t].kind = "refresh" /\ call[t].at = "extended"
  /\ Moves(t, IF Live(call[t].token) THEN "found" ELSE "refused")
  /\ UNCHANGED <<link, sessions, cookie, tab, signInBounds>>

\* 200 sets the cookie again; 401 clears it unless none was sent; the 403 of
\* somebody who asked for another workspace's session leaves it.
Refreshed(t) ==
  /\ call[t].kind = "refresh"
  /\ \/ call[t].at = "found" /\ cookie' \in {cookie, call[t].token}
     \/ call[t].at = "refused" /\ cookie' = IF call[t].token = 0 THEN cookie ELSE 0
  /\ Ends(t)
  /\ UNCHANGED <<link, sessions, tab, signInBounds>>

(***************************************************************************)
(* Time.                                                                   *)
(***************************************************************************)

SessionAges(s) ==
  /\ Live(s)
  /\ sessions' = [sessions EXCEPT ![s].state = IF @ = "live" THEN "aging" ELSE "expired"]
  /\ UNCHANGED <<link, cookie, tab, call, signInBounds>>

LinkExpires(l) ==
  /\ link[l] = "sent"
  /\ link' = [link EXCEPT ![l] = "expired"]
  /\ UNCHANGED <<sessions, cookie, tab, call, signInBounds>>

SignInNext ==
  \/ \E t \in AppTabs :
       \/ OpenPage(t) \/ FindSession(t) \/ SessionKnown(t) \/ SessionUnknown(t) \/ Retry(t)
       \/ \E l \in Links : SubmitEmail(t, l) \/ FollowLink(t, l)
       \/ ConsumeLink(t) \/ LinkAnswered(t)
       \/ Logout(t) \/ revokeSession(t) \/ LoggedOut(t)
       \/ Refresh(t) \/ refreshSession(t) \/ RefreshFinds(t) \/ Refreshed(t)
  \/ \E s \in DOMAIN sessions : SessionAges(s)
  \/ \E l \in Links : LinkExpires(l)

SignInSpec == SignInInit /\ [][SignInNext]_signInVars

(***************************************************************************)
(* Properties.                                                             *)
(***************************************************************************)

\* However many tabs follow a link, and however often, it opens one session.
LinksOpenOnce ==
  \A r, s \in DOMAIN sessions : sessions[r].link = sessions[s].link => r = s

\* A session that was logged out of or has expired is never good again, also
\* not by a refresh that was under way.
EndedStay ==
  \A s \in DOMAIN sessions :
    ~Live(s) => sessions'[s] = sessions[s] \/ sessions'[s].state = "revoked"

EndedSessionsStayEnded == [][EndedStay]_signInVars

\* A tab at rest shows what its session allows: without one the sign-in
\* screen, with one never that screen; no sequence of redirects is left half
\* way.
TabsShowTheirSession ==
  \A t \in AppTabs :
    /\ tab[t].status = "out" => tab[t].route \notin Protected \cup {"root", "unknown"}
    /\ tab[t].status = "in" => tab[t].route \in Protected
    /\ tab[t].success => tab[t].status \in {"loading", "error"}

\* Who asked for a link in a tab and follows one there is returned to the page
\* he wanted when he asked last, and is returned once.
Returns ==
  \A t \in AppTabs : tab[t].success /\ tab'[t].status = "in" /\ tab[t].pending # "none" =>
    tab'[t].route = tab[t].wanted /\ tab'[t].pending = "none"

ReturnsToTheWanted == [][Returns]_signInVars
=============================================================================
