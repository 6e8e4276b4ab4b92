------------------------------- MODULE Screens -------------------------------
(***************************************************************************)
(* Screens: what the signed-in application shows for an address            *)
(* (AuthenticatedApp in apps/web/src/App.tsx).  An effect loads the data   *)
(* of each route and drops the answer when the route has changed; the      *)
(* forms send a change and then load the data themselves, for the route    *)
(* they were sent from, and nothing drops that answer.  The launchpad      *)
(* remembers the active workspace in its state and in localStorage.        *)
(*                                                                         *)
(* Projects, files and their lists behave alike and are one kind of        *)
(* screen, "list"; a page of a workspace's file is <<workspace, number>>.  *)
(***************************************************************************)
EXTENDS Integers, FiniteSets

CONSTANTS
  Spaces,      \* workspaces, ordered as the API lists them: a set of numbers
  Forms,       \* forms that may be under way at once
  MaxMoves,    \* bound: addresses visited, workspaces selected, forms sent
  MaxPages,    \* bound: pages of a file
  MaxFailures  \* bound: requests that fail

\* 0 is no workspace.
ASSUME SpacesAssumption == Spaces \subseteq Nat \ {0}

VARIABLES
  member,      \* the workspaces the user is a member of
  pageCount,   \* workspace -> pages of its file
  route,       \* [kind: "home", "list", "page", ws, page]
  load,        \* the effect's request
  form,        \* form -> its requests
  resource,    \* resourceState, with the route it was loaded for
  homeSpace,   \* appHomeWorkspaceId, 0 for null
  stored,      \* the active workspace in localStorage, 0 without one
  moves, failures

screenVars == <<member, pageCount, route, load, form, resource, homeSpace, stored, moves,
                failures>>

Home == [kind |-> "home", ws |-> 0, page |-> 0]
Lists == {[kind |-> "list", ws |-> w, page |-> 0] : w \in Spaces}
PageOf(w, n) == [kind |-> "page", ws |-> w, page |-> n]
Routes == {Home} \cup Lists \cup {PageOf(w, n) : w \in Spaces, n \in 1 .. MaxPages}

NoValue == [kind |-> "none", ws |-> 0, has |-> {}]
Resource(status, value, by, for) ==
  [status |-> status, value |-> value, by |-> by, for |-> for]
Loading == Resource("loading", NoValue, "none", Home)

NoLoad == [at |-> "none", for |-> Home, prefers |-> 0, value |-> NoValue]
NoForm == [at |-> "none", does |-> "none", from |-> Home, ws |-> 0, prefers |-> 0, page |-> 0,
           value |-> NoValue]

\* readStoredActiveWorkspaceId when the state has none.
Preferred(home, kept) == IF home # 0 THEN home ELSE kept

AskFor(r, prefers) == [NoLoad EXCEPT !.at = "asked", !.for = r, !.prefers = prefers]

ScreensInit ==
  /\ member \in {Spaces, {}}
  /\ pageCount = [w \in Spaces |-> 1]
  /\ stored \in Spaces \cup {0}
  /\ route = Home /\ homeSpace = stored
  /\ load = AskFor(Home, stored)
  /\ resource = Loading
  /\ form = [f \in Forms |-> NoForm]
  /\ moves = 0 /\ failures = 0

(***************************************************************************)
(* The effects, which run until nothing they depend on has changed.        *)
(***************************************************************************)

\* resolveActiveWorkspace
Active(prefers) ==
  IF member = {} THEN 0
  ELSE IF prefers \in member THEN prefers
  ELSE CHOOSE w \in member : \A v \in member : w <= v

\* Faulty variant: an answer that has come for the earlier route is still shown.
EnterUncancelled(r) ==
  LET home == IF r.ws # 0 THEN r.ws ELSE Preferred(homeSpace, stored) IN
  /\ route' = r
  /\ homeSpace' = home
  /\ stored' = IF r.ws # 0 THEN r.ws ELSE stored
  /\ load' = IF load.at = "answered" THEN load ELSE AskFor(r, home)
  /\ resource' = Loading

\* A route of a workspace makes it the active one; the route's data are
\* asked for anew, and an earlier answer is not waited for any more.
Enter(r) ==
  LET home == IF r.ws # 0 THEN r.ws ELSE Preferred(homeSpace, stored) IN
  /\ route' = r
  /\ homeSpace' = home
  /\ stored' = IF r.ws # 0 THEN r.ws ELSE stored
  /\ load' = AskFor(r, home)
  /\ resource' = Loading

\* State is set; on the launchpad another active workspace is another load.
Renders(home, kept, shown, loading) ==
  /\ homeSpace' = home
  /\ stored' = kept
  /\ IF route.kind = "home" /\ home # homeSpace
     THEN load' = AskFor(route, Preferred(home, kept)) /\ resource' = Loading
     ELSE load' = loading /\ resource' = shown
  /\ UNCHANGED route

\* Faulty variant: only the first launchpad is remembered.
LoadedOnce(shown, loading) ==
  IF shown.status = "loaded" /\ shown.value.kind = "home"
  THEN Renders(IF shown.value.ws = 0 \/ homeSpace = 0 THEN shown.value.ws ELSE homeSpace,
               IF homeSpace = 0 THEN shown.value.ws ELSE stored, shown, loading)
  ELSE Renders(homeSpace, stored, shown, loading)

\* A launchpad that was loaded is remembered.
Loaded(shown, loading) ==
  IF shown.status = "loaded" /\ shown.value.kind = "home"
  THEN Renders(IF shown.value.ws = 0 \/ homeSpace = 0 THEN shown.value.ws ELSE homeSpace,
               shown.value.ws, shown, loading)
  ELSE Renders(homeSpace, stored, shown, loading)

(***************************************************************************)
(* Requests for a route's data: fetchRouteResource.                        *)
(***************************************************************************)

HasAnswer(r) == r.kind = "home" \/ r.ws \in member

Answer(r, prefers) ==
  IF r.kind = "home" THEN [kind |-> "home", ws |-> Active(prefers), has |-> member]
  ELSE [kind |-> r.kind, ws |-> r.ws,
        has |-> IF r.kind = "page" THEN {<<r.ws, n>> : n \in 1 .. pageCount[r.ws]} ELSE {}]

ServeLoad ==
  /\ load.at = "asked"
  /\ \/ HasAnswer(load.for) /\ UNCHANGED failures
        /\ load' = [load EXCEPT !.at = "answered", !.value = Answer(load.for, load.prefers)]
     \/ /\ ~HasAnswer(load.for) \/ failures < MaxFailures
        /\ failures' = IF HasAnswer(load.for) THEN failures + 1 ELSE failures
        /\ load' = [load EXCEPT !.at = "failed"]
  /\ UNCHANGED <<member, pageCount, route, form, resource, homeSpace, stored, moves>>

ShowLoad ==
  /\ load.at \in {"answered", "failed"}
  /\ Loaded(Resource(IF load.at = "failed" THEN "error" ELSE "loaded", load.value, "load", load.for),
            NoLoad)
  /\ UNCHANGED <<member, pageCount, form, moves, failures>>

(***************************************************************************)
(* What the user does.                                                     *)
(***************************************************************************)

Acts == moves < MaxMoves /\ moves' = moves + 1

Navigate(r) ==
  /\ Acts /\ r # route
  /\ Enter(r)
  /\ UNCHANGED <<member, pageCount, form, failures>>

Showing(kind) == resource.status = "loaded" /\ resource.value.kind = kind

SelectWorkspace(w) ==
  /\ Acts /\ Showing("home") /\ w \in resource.value.has
  /\ Renders(w, w, resource, load)
  /\ UNCHANGED <<member, pageCount, form, failures>>

\* A form is sent from the screen that is shown; what it does next is decided
\* by the props of that moment.  "change" is every form that ends by loading
\* the data again, the renames and the launchpad's new files and pages;
\* "create" those that go to what they made, a page of a new file or of this.
Submit(f, does) ==
  /\ Acts /\ form[f].at = "none" /\ resource.status = "loaded"
  /\ \/ does \in {"change", "createProject"} /\ Showing("home") /\ route.kind = "home"
        /\ resource.value.ws # 0
     \/ does \in {"change", "create"} /\ route.kind # "home" /\ resource.value.kind # "home"
  /\ form' = [form EXCEPT ![f] =
       [NoForm EXCEPT !.at = "sent", !.does = does, !.from = route, !.prefers = homeSpace,
                      !.ws = IF route.kind = "home" THEN resource.value.ws ELSE route.ws]]
  /\ UNCHANGED <<member, pageCount, route, load, resource, homeSpace, stored, failures>>

FormDone(f) == form' = [form EXCEPT ![f] = NoForm]

\* The API refuses or the request fails: the form shows it and stays.
FormFails(f) ==
  /\ form[f].at = "sent"
  /\ form[f].ws \notin member \/ failures < MaxFailures
  /\ failures' = IF form[f].ws \notin member THEN failures ELSE failures + 1
  /\ FormDone(f)
  /\ UNCHANGED <<member, pageCount, route, load, resource, homeSpace, stored, moves>>

ServeForm(f) ==
  /\ form[f].at = "sent" /\ form[f].ws \in member
  /\ IF form[f].does = "create"
     THEN /\ pageCount[form[f].ws] < MaxPages
          /\ pageCount' = [pageCount EXCEPT ![form[f].ws] = @ + 1]
          /\ form' = [form EXCEPT ![f] = [@ EXCEPT !.at = "served",
                                                   !.page = pageCount[form[f].ws] + 1]]
     ELSE form' = [form EXCEPT ![f].at = "served"] /\ UNCHANGED pageCount
  /\ UNCHANGED <<member, route, load, resource, homeSpace, stored, moves, failures>>

\* handleCreatePage and handleCreateFile go to the new page, from wherever the
\* user is by now.
GoToCreated(f) ==
  /\ form[f].at = "served" /\ form[f].does = "create"
  /\ Enter(PageOf(form[f].ws, form[f].page))
  /\ FormDone(f)
  /\ UNCHANGED <<member, pageCount, moves, failures>>

\* reloadResource; handleCreateProject on the launchpad makes
\* the workspace of the project the active one first.
Reload(f) ==
  /\ form[f].at = "served" /\ form[f].does # "create"
  /\ IF form[f].does = "createProject"
     THEN Renders(form[f].ws, form[f].ws, Loading, load)
     ELSE Renders(homeSpace, stored, Loading, load)
  /\ form' = [form EXCEPT ![f] = [@ EXCEPT !.at = "asked",
                                           !.prefers = Preferred(form[f].prefers, stored')]]
  /\ UNCHANGED <<member, pageCount, moves, failures>>

ServeReload(f) ==
  /\ form[f].at = "asked"
  /\ \/ HasAnswer(form[f].from) /\ UNCHANGED failures
        /\ form' = [form EXCEPT ![f] = [@ EXCEPT !.at = "answered",
                                                 !.value = Answer(form[f].from, form[f].prefers)]]
     \/ /\ ~HasAnswer(form[f].from) \/ failures < MaxFailures
        /\ failures' = IF HasAnswer(form[f].from) THEN failures + 1 ELSE failures
        /\ form' = [form EXCEPT ![f].at = "failed"]
  /\ UNCHANGED <<member, pageCount, route, load, resource, homeSpace, stored, moves>>

\* Nothing asks whether the route is still the same.
ShowReload(f) ==
  /\ form[f].at \in {"answered", "failed"}
  /\ Loaded(Resource(IF form[f].at = "failed" THEN "error" ELSE "loaded", form[f].value,
                     "reload", form[f].from), load)
  /\ FormDone(f)
  /\ UNCHANGED <<member, pageCount, moves, failures>>

\* A membership ends.
Leave(w) ==
  /\ w \in member
  /\ member' = member \ {w}
  /\ UNCHANGED <<pageCount, route, load, form, resource, homeSpace, stored, moves, failures>>

ScreensNext ==
  \/ ServeLoad \/ ShowLoad
  \/ \E r \in Routes : Navigate(r)
  \/ \E w \in Spaces : SelectWorkspace(w) \/ Leave(w)
  \/ \E f \in Forms :
       \/ \E does \in {"change", "createProject", "create"} : Submit(f, does)
       \/ FormFails(f) \/ ServeForm(f) \/ GoToCreated(f) \/ Reload(f) \/ ServeReload(f)
       \/ ShowReload(f)

ScreensSpec == ScreensInit /\ [][ScreensNext]_screenVars

(***************************************************************************)
(* Properties.                                                             *)
(***************************************************************************)

\* editorData and editorPage: the editor opens for a page its file has.
EditorShown ==
  route.kind = "page" /\ Showing("page") /\ <<route.ws, route.page>> \in resource.value.has

\* Only an answer a form waited for is ever shown on another screen than the
\* one it was asked for; the editor never opens on such an answer's file.
AnswersFitTheRoute ==
  /\ resource.status = "loaded" /\ resource.for # route => resource.by = "reload"
  /\ EditorShown => resource.value.ws = route.ws

\* Once no request is under way no screen is left loading, and the launchpad
\* that is shown is the one remembered for the next visit, unless the answer
\* a form waited for replaced it: then selecting the remembered workspace
\* changes nothing and loads nothing.
Quiet == load.at = "none" /\ \A f \in Forms : form[f].at = "none"

ScreensSettle ==
  Quiet =>
    /\ resource.status \in {"loaded", "error"}
    /\ route.kind = "home" /\ Showing("home") /\ resource.by = "load" =>
         stored = resource.value.ws

\* The screen is that of the route, and one that waits for nothing shows its
\* result.
ScreensShowTheirRoute == AnswersFitTheRoute /\ ScreensSettle
=============================================================================
