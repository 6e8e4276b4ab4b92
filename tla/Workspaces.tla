----------------------------- MODULE Workspaces -----------------------------
(***************************************************************************)
(* The API's requests about a workspace: its projects, files, pages,       *)
(* comments, share links and collaboration sessions, as the routes of      *)
(* apps/api/src/index.ts answer them over packages/db/src/metadata.ts.     *)
(*                                                                         *)
(* A handler is sequential, but every query is an await, and memberships,  *)
(* links and the workspace itself may change between two of them.  The     *)
(* route admits a request by the memberships read with its session; the    *)
(* function it calls then reads its rows one query after the other, each   *)
(* joined with the membership of that moment, and changes them by one      *)
(* statement or inside a transaction.  A row's id is the request that made *)
(* it, a name the request that gave it, a timestamp the request that set   *)
(* it.  Nothing in the program soft-deletes a project or a file; only the  *)
(* smoke cleanup deletes, a workspace with all it holds.                   *)
(***************************************************************************)
EXTENDS Integers, FiniteSets, Sequences, FiniteSetsExt

CONSTANTS
  Requests,       \* requests in flight, each received once
  Users,
  Anonymous,      \* who sends a request without a valid session
  Seed,           \* id and name of the rows there are at first
  Nil,            \* no row, a row that does not exist, a null column
  InitialRoles,   \* bound: the memberships at first
  MaxRoleChanges  \* bound: memberships changed by an administrator

ASSUME NilAssumption ==
  Nil \notin Requests \cup {Seed} /\ Seed \notin Requests /\ Anonymous \notin Users
ASSUME RoleBoundAssumption == MaxRoleChanges \in Nat

VARIABLES
  workspace,   \* "unborn", "live" or "deleted"
  role,        \* memberships: the role of each user, "none" without a row
  projects,    \* project -> name
  files,       \* file -> [project, name]
  pages,       \* page -> [file, order, name]
  comments,    \* comment -> [file, page, resolved]
  links,       \* share link -> [file, revoked]
  req,         \* the requests
  roleChanges

tables == <<workspace, role, projects, files, pages, comments, links>>
wsVars == <<workspace, role, projects, files, pages, comments, links, req, roleChanges>>

Roles == {"none", "viewer", "editor", "owner"}
Mutating == {"editor", "owner"}

ASSUME InitialRolesAssumption ==
  \A first \in InitialRoles : /\ first \in [Users \cup {Anonymous} -> Roles]
                              /\ first[Anonymous] = "none"

Empty == [x \in {} |-> Nil]
NoRows == [projects |-> Empty, files |-> Empty, pages |-> Empty, links |-> Empty]

SharedRoutes == {"openShared", "sharedSession"}
MemberRoutes == {"launchpad", "openFile", "createPage", "renamePage", "listComments",
                 "collabSession"}
WriterRoutes == {"listProjects", "createProject", "renameProject", "listFiles",
                 "createFile", "renameFile", "createComment", "resolveComment",
                 "listLinks", "createLink", "revokeLink"}
Routes == SharedRoutes \cup MemberRoutes \cup WriterRoutes
            \cup {"listWorkspaces", "bootstrap", "cleanup"}

\* Which routes read a session, carry a body or query, and name which rows.
Sessionless == SharedRoutes \cup {"bootstrap", "cleanup"}
WithBody == {"createProject", "renameProject", "createFile", "renameFile", "createPage",
             "renamePage", "listComments", "createComment", "cleanup"}
OfProject == {"renameProject", "listFiles", "createFile", "openFile"}
OfPage == {"renamePage", "listComments", "createComment", "collabSession"}
OfFile == OfPage \cup {"renameFile", "openFile", "createPage", "resolveComment",
                       "listLinks", "createLink", "revokeLink"}

CanMutate(u) == role[u] \in Mutating
PagesOf(f) == {p \in DOMAIN pages : pages[p].file = f}
Orders(f) == {pages[p].order : p \in PagesOf(f)}
Live(l) == l \in DOMAIN links /\ links[l].revoked = Nil

NoRequest ==
  [route |-> "none", user |-> Anonymous, good |-> TRUE, project |-> Nil, file |-> Nil,
   page |-> Nil, row |-> Nil, at |-> "free", check |-> 1, order |-> 0, rows |-> NoRows,
   reply |-> 0, body |-> {}, held |-> {}, live |-> FALSE]

\* A table of one row; the rows of a table and some new ones.
OneRow(k, row) == [x \in {k} |-> row]
Insert(new, table) ==
  [k \in DOMAIN new \cup DOMAIN table |-> IF k \in DOMAIN new THEN new[k] ELSE table[k]]

SeedProjects == OneRow(Seed, Seed)
SeedFiles(p) == OneRow(p, [project |-> p, name |-> p])
SeedPages(f) == OneRow(<<f, 1>>, [file |-> f, order |-> 0, name |-> f])

WorkspacesInit ==
  /\ \/ /\ workspace = "live"
        /\ role \in InitialRoles
        /\ projects = SeedProjects
        /\ files = SeedFiles(Seed)
        /\ pages = SeedPages(Seed)
        /\ comments = OneRow(Seed, [file |-> Seed, page |-> Nil, resolved |-> Nil])
        /\ links = OneRow(Seed, [file |-> Seed, revoked |-> Nil])
     \/ /\ workspace = "unborn"
        /\ role = [u \in Users \cup {Anonymous} |-> "none"]
        /\ projects = Empty /\ files = Empty /\ pages = Empty
        /\ comments = Empty /\ links = Empty
  /\ req = [r \in Requests |-> NoRequest]
  /\ roleChanges = 0

(***************************************************************************)
(* A request: received, admitted by its route, answered.                   *)
(***************************************************************************)

InFlight(r) == req[r].at \notin {"free", "done", "lost"}

\* The workspace is the one a bootstrap makes: of a second bootstrap beside it
\* comes another workspace.
Receive(r, route) ==
  /\ req[r].at = "free"
  /\ (workspace = "unborn") <=> (route = "bootstrap")
  /\ route = "bootstrap" => ~\E s \in Requests : InFlight(s)
  /\ \E u \in IF route \in Sessionless THEN {Anonymous} ELSE Users \cup {Anonymous},
        good \in IF route \in WithBody THEN BOOLEAN ELSE {TRUE},
        p \in {Nil} \cup IF route \in OfProject THEN DOMAIN projects ELSE {},
        f \in {Nil} \cup IF route \in OfFile THEN DOMAIN files ELSE {},
        g \in {Nil} \cup IF route \in OfPage \cup SharedRoutes THEN DOMAIN pages ELSE {},
        x \in {Nil} \cup IF route = "resolveComment" THEN DOMAIN comments
                         ELSE IF route \in {"revokeLink"} \cup SharedRoutes
                              THEN DOMAIN links ELSE {} :
       req' = [req EXCEPT ![r] =
         [NoRequest EXCEPT !.route = route, !.user = u, !.good = good, !.project = p,
            !.file = f, !.page = g, !.row = x, !.at = "route",
            !.held = {role[u]},
            !.live = x \in DOMAIN links /\ links[x].revoked = Nil]]
  /\ UNCHANGED <<tables, roleChanges>>

At(r, route, where) == req[r].route = route /\ req[r].at = where

Go(r, where) == req' = [req EXCEPT ![r].at = where]

\* What it kept while it ran ends with it.
Answer(r, code, body) ==
  req' = [req EXCEPT ![r] =
    [NoRequest EXCEPT !.route = req[r].route, !.order = req[r].order, !.held = req[r].held,
                      !.live = req[r].live, !.at = "done", !.reply = code, !.body = body]]

\* requireAuthContext and what the route asks of it, then the body.  The
\* memberships come with the session, in one query.
Enter(r, route, allowed, next) ==
  /\ At(r, route, "route")
  /\ \/ req[r].user = Anonymous /\ Answer(r, 401, {})
     \/ req[r].user # Anonymous /\ ~allowed /\ Answer(r, 403, {})
     \/ req[r].user # Anonymous /\ allowed /\ ~req[r].good /\ Answer(r, 400, {})
     \/ req[r].user # Anonymous /\ allowed /\ req[r].good /\ Go(r, next)
  /\ UNCHANGED <<tables, roleChanges>>

IsMember(r) == role[req[r].user] # "none"
IsWriter(r) == CanMutate(req[r].user)

ListWorkspacesRoute(r) == Enter(r, "listWorkspaces", TRUE, "act")
LaunchpadRoute(r) == Enter(r, "launchpad", IsMember(r), "check")
ListProjectsRoute(r) == Enter(r, "listProjects", IsWriter(r), "check")
CreateProjectRoute(r) == Enter(r, "createProject", IsWriter(r), "check")
RenameProjectRoute(r) == Enter(r, "renameProject", IsWriter(r), "act")
ListFilesRoute(r) == Enter(r, "listFiles", IsWriter(r), "check")
CreateFileRoute(r) == Enter(r, "createFile", IsWriter(r), "check")
RenameFileRoute(r) == Enter(r, "renameFile", IsWriter(r), "act")
OpenFileRoute(r) == Enter(r, "openFile", IsMember(r), "check")
CreatePageRoute(r) == Enter(r, "createPage", IsMember(r), "check")
RenamePageRoute(r) == Enter(r, "renamePage", IsMember(r), "act")
ListCommentsRoute(r) == Enter(r, "listComments", IsMember(r), "check")
CreateCommentRoute(r) == Enter(r, "createComment", IsWriter(r), "check")
ResolveCommentRoute(r) == Enter(r, "resolveComment", IsWriter(r), "check")
ListLinksRoute(r) == Enter(r, "listLinks", IsWriter(r), "check")
CreateLinkRoute(r) == Enter(r, "createLink", IsWriter(r), "check")
RevokeLinkRoute(r) == Enter(r, "revokeLink", IsWriter(r), "check")
CollabSessionRoute(r) == Enter(r, "collabSession", IsMember(r), "act")

(***************************************************************************)
(* The functions of metadata.ts.                                           *)
(***************************************************************************)

\* A file is looked for in the project the request names; a request that the
\* model gives a file and no project names the file's own.
InItsProject(q) == q.project \in {Nil, files[q.file].project}

\* Faulty variant: the functions leave the role to the routes.
FindsForMembers(r, check) ==
  LET q == req[r] IN
  /\ IsMember(r)
  /\ check = "project" => q.project \in DOMAIN projects
  /\ check = "file" => q.file \in DOMAIN files /\ InItsProject(q)
  /\ check = "page" => q.page \in PagesOf(q.file)

\* Faulty variant: the page of a comment is not looked for.
FindsAnyPage(r, check) ==
  LET q == req[r] IN
  /\ IsMember(r)
  /\ check = "writer" => IsWriter(r)
  /\ check = "project" => q.project \in DOMAIN projects
  /\ check = "file" => q.file \in DOMAIN files /\ InItsProject(q)

\* One authorising query: what it asks for is there, and the user's
\* membership of this moment with it.
Finds(r, check) ==
  LET q == req[r] IN
  /\ IsMember(r)
  /\ check = "writer" => IsWriter(r)
  /\ check = "project" => q.project \in DOMAIN projects
  /\ check = "file" => q.file \in DOMAIN files /\ InItsProject(q)
  /\ check = "page" => q.page \in PagesOf(q.file)

\* The function's authorising queries, in order; the first that finds
\* nothing makes the reply a 404.
Checking(r, route, checks) ==
  /\ At(r, route, "check")
  /\ LET i == req[r].check IN
     IF ~Finds(r, checks[i])
     THEN Answer(r, 404, {})
     ELSE req' = [req EXCEPT ![r].check = i + 1,
                             ![r].at = IF i = Len(checks) THEN "act" ELSE "check"]
  /\ UNCHANGED <<tables, roleChanges>>

\* The function's last query, for one that only reads.
Reading(r, route, body) ==
  /\ At(r, route, "act")
  /\ Answer(r, 200, body)
  /\ UNCHANGED <<tables, roleChanges>>

\* Faulty variant: no foreign key.
StageUnchecked(r, parent, rows) ==
  req' = [req EXCEPT ![r].at = "staged", ![r].rows = rows]

\* Rows inserted in a transaction: nobody sees them before the commit, and a
\* foreign key without its parent row fails the request.
Stage(r, parent, rows) ==
  IF parent
  THEN req' = [req EXCEPT ![r].at = "staged", ![r].rows = rows]
  ELSE Answer(r, 500, {})

Commit(r) ==
  LET rows == req[r].rows IN
  /\ req[r].at = "staged"
  /\ projects' = Insert(rows.projects, projects)
  /\ files' = Insert(rows.files, files)
  /\ pages' = Insert(rows.pages, pages)
  /\ links' = Insert(rows.links, links)
  /\ IF req[r].route = "bootstrap"
     THEN \E u \in Users : workspace' = "live" /\ role' = [role EXCEPT ![u] = "owner"]
     ELSE UNCHANGED <<workspace, role>>
  /\ Answer(r, 201, {})
  /\ UNCHANGED <<comments, roleChanges>>

listAuthorizedWorkspaces(r) ==
  Reading(r, "listWorkspaces", IF IsMember(r) THEN {Seed} ELSE {})

listWorkspaceProjects(r) ==
  \/ Checking(r, "listProjects", <<"workspace">>)
  \/ Reading(r, "listProjects", IF IsMember(r) THEN DOMAIN projects ELSE {})

\* The projects are read before the files: a file of a project that came in
\* between is not shown.
getWorkspaceLaunchpad(r) ==
  \/ Checking(r, "launchpad", <<"workspace">>)
  \/ /\ At(r, "launchpad", "act")
     /\ req' = [req EXCEPT ![r].at = "files",
                           ![r].body = IF IsMember(r) THEN DOMAIN projects ELSE {}]
     /\ UNCHANGED <<tables, roleChanges>>
  \/ /\ At(r, "launchpad", "files")
     /\ Answer(r, 200, {<<f, Cardinality(PagesOf(f))>> :
                          f \in {f \in DOMAIN files : /\ IsMember(r)
                                                      /\ files[f].project \in req[r].body}})
     /\ UNCHANGED <<tables, roleChanges>>

createProject(r) ==
  \/ Checking(r, "createProject", <<"writer">>)
  \/ /\ At(r, "createProject", "act")
     /\ Stage(r, workspace = "live", [NoRows EXCEPT !.projects = OneRow(r, r)])
     /\ UNCHANGED <<tables, roleChanges>>

\* An update that looks for its row and for a writing role itself.
Rename(r, route, found) ==
  /\ At(r, route, "act")
  /\ Answer(r, IF found /\ IsWriter(r) THEN 200 ELSE 404, {})

renameProject(r) ==
  LET p == req[r].project IN
  /\ Rename(r, "renameProject", p \in DOMAIN projects)
  /\ projects' = IF p \in DOMAIN projects /\ IsWriter(r)
                 THEN [projects EXCEPT ![p] = r] ELSE projects
  /\ UNCHANGED <<workspace, role, files, pages, comments, links, roleChanges>>

listProjectFiles(r) ==
  \/ Checking(r, "listFiles", <<"workspace", "project">>)
  \/ Reading(r, "listFiles",
             {f \in DOMAIN files : IsMember(r) /\ files[f].project = req[r].project})

NewFile(r) == OneRow(r, [project |-> req[r].project, name |-> r])

createFileWithPages(r) ==
  \/ Checking(r, "createFile", <<"writer", "project">>)
  \/ /\ At(r, "createFile", "act")
     /\ Stage(r, req[r].project \in DOMAIN projects,
              [NoRows EXCEPT !.files = NewFile(r), !.pages = SeedPages(r)])
     /\ UNCHANGED <<tables, roleChanges>>

renameFile(r) ==
  LET f == req[r].file IN
  /\ Rename(r, "renameFile", f \in DOMAIN files)
  /\ files' = IF f \in DOMAIN files /\ IsWriter(r)
              THEN [files EXCEPT ![f].name = r] ELSE files
  /\ UNCHANGED <<workspace, role, projects, pages, comments, links, roleChanges>>

getFileOpenDetails(r) ==
  \/ Checking(r, "openFile", <<"workspace", "project", "file">>)
  \/ Reading(r, "openFile", PagesOf(req[r].file))

\* Faulty variant: the number of pages is the next number, one too many.
NextOrderFromOne(f) == 1 + Cardinality(PagesOf(f))

NextOrder(f) == IF Orders(f) = {} THEN 0 ELSE 1 + Max(Orders(f))

\* max(order_index) + 1 in one statement, the insert in the next: the unique
\* index makes an insert wait for another transaction's row of the same
\* number and fails it once that row is committed.
createPage(r) ==
  LET q == req[r] IN
  \/ Checking(r, "createPage", <<"writer", "file">>)
  \/ /\ At(r, "createPage", "act")
     /\ req' = [req EXCEPT ![r].at = "insert", ![r].order = NextOrder(q.file)]
     /\ UNCHANGED <<tables, roleChanges>>
  \/ /\ At(r, "createPage", "insert")
     /\ ~\E s \in Requests : \E p \in DOMAIN req[s].rows.pages :
           req[s].rows.pages[p].file = q.file /\ req[s].rows.pages[p].order = q.order
     /\ Stage(r, q.file \in DOMAIN files /\ q.order \notin Orders(q.file),
              [NoRows EXCEPT !.pages =
                 OneRow(<<r, 1>>, [file |-> q.file, order |-> q.order, name |-> r])])
     /\ UNCHANGED <<tables, roleChanges>>

renamePage(r) ==
  LET q == req[r] IN
  /\ Rename(r, "renamePage", q.page \in PagesOf(q.file))
  /\ pages' = IF q.page \in PagesOf(q.file) /\ IsWriter(r)
              THEN [pages EXCEPT ![q.page].name = r] ELSE pages
  /\ UNCHANGED <<workspace, role, projects, files, comments, links, roleChanges>>

\* The page is looked for only when the request names one.
Scope(r, checks) == IF req[r].page = Nil THEN checks ELSE Append(checks, "page")

listComments(r) ==
  LET q == req[r] IN
  \/ Checking(r, "listComments", Scope(r, <<"file">>))
  \/ \E includeResolved \in BOOLEAN :
       Reading(r, "listComments",
               {c \in DOMAIN comments :
                  /\ comments[c].file = q.file
                  /\ includeResolved \/ comments[c].resolved = Nil
                  /\ q.page = Nil \/ comments[c].page \in {Nil, q.page}})

createComment(r) ==
  LET q == req[r]
      parent == q.file \in DOMAIN files /\ q.page \in PagesOf(q.file) \cup {Nil} IN
  \/ Checking(r, "createComment", Scope(r, <<"writer", "file">>))
  \/ /\ At(r, "createComment", "act")
     /\ Answer(r, IF parent THEN 201 ELSE 500, {})
     /\ comments' =
          IF parent
          THEN Insert(OneRow(r, [file |-> q.file, page |-> q.page, resolved |-> Nil]), comments)
          ELSE comments
     /\ UNCHANGED <<workspace, role, projects, files, pages, links, roleChanges>>

\* Faulty variant: every call sets the time.
EarliestNow(old, new) == new

\* coalesce(old, now())
Earliest(old, new) == IF old = Nil THEN new ELSE old

resolveComment(r) ==
  LET q == req[r]
      found == q.row \in DOMAIN comments /\ comments[q.row].file = q.file IN
  \/ Checking(r, "resolveComment", <<"writer", "file">>)
  \/ /\ At(r, "resolveComment", "act")
     /\ Answer(r, IF found THEN 200 ELSE 404, {})
     /\ comments' = IF found
                    THEN [comments EXCEPT ![q.row].resolved = Earliest(@, r)] ELSE comments
     /\ UNCHANGED <<workspace, role, projects, files, pages, links, roleChanges>>

listFileShareLinks(r) ==
  \/ Checking(r, "listLinks", <<"writer", "file">>)
  \/ Reading(r, "listLinks", {l \in DOMAIN links : links[l].file = req[r].file})

createFileShareLink(r) ==
  \/ Checking(r, "createLink", <<"writer", "file">>)
  \/ /\ At(r, "createLink", "act")
     /\ Stage(r, req[r].file \in DOMAIN files,
              [NoRows EXCEPT !.links = OneRow(r, [file |-> req[r].file, revoked |-> Nil])])
     /\ UNCHANGED <<tables, roleChanges>>

revokeFileShareLink(r) ==
  LET q == req[r]
      found == q.row \in DOMAIN links /\ links[q.row].file = q.file IN
  \/ Checking(r, "revokeLink", <<"writer", "file">>)
  \/ /\ At(r, "revokeLink", "act")
     /\ Answer(r, IF found THEN 200 ELSE 404, {})
     /\ links' = IF found THEN [links EXCEPT ![q.row].revoked = Earliest(@, r)] ELSE links
     /\ UNCHANGED <<workspace, role, projects, files, pages, comments, roleChanges>>

\* The reply carries the access the membership of this moment gives.
getAuthorizedCollabPageSession(r) ==
  LET q == req[r] IN
  /\ At(r, "collabSession", "act")
  /\ IF IsMember(r) /\ q.page \in PagesOf(q.file)
     THEN Answer(r, 200, {IF IsWriter(r) THEN "write" ELSE "read"})
     ELSE Answer(r, 404, {})
  /\ UNCHANGED <<tables, roleChanges>>

\* A token names the link its hash is stored with.
getShareLinkAccessRow(r) ==
  /\ req[r].at = "route" /\ req[r].route \in SharedRoutes
  /\ IF Live(req[r].row)
     THEN req' = [req EXCEPT ![r].at = "act", ![r].file = links[req[r].row].file]
     ELSE Answer(r, 404, {})
  /\ UNCHANGED <<tables, roleChanges>>

getSharedFileOpenDetails(r) ==
  LET q == req[r] IN
  /\ At(r, "openShared", "act")
  /\ IF q.page \in PagesOf(q.file) \cup {Nil}
     THEN Answer(r, 200, PagesOf(q.file)) ELSE Answer(r, 404, {})
  /\ UNCHANGED <<tables, roleChanges>>

getSharedCollabPageSession(r) ==
  LET q == req[r] IN
  /\ At(r, "sharedSession", "act")
  /\ IF q.page \in PagesOf(q.file)
     THEN Answer(r, 200, {"read"}) ELSE Answer(r, 404, {})
  /\ UNCHANGED <<tables, roleChanges>>

(***************************************************************************)
(* The smoke fixture: a workspace with an owner, a project, a file and a   *)
(* page in one transaction; its cleanup.                                   *)
(***************************************************************************)

\* requireSharedSecret: testing is disabled, or the secret is another.
Refused(r, route) ==
  /\ At(r, route, "route")
  /\ \E code \in {403, 404} : Answer(r, code, {})
  /\ UNCHANGED <<tables, roleChanges>>

createSmokeCollabFixture(r) ==
  /\ At(r, "bootstrap", "route")
  /\ Stage(r, TRUE, [NoRows EXCEPT !.projects = SeedProjects, !.files = SeedFiles(Seed),
                                   !.pages = SeedPages(Seed)])
  /\ UNCHANGED <<tables, roleChanges>>

\* The delete cascades to every row below the workspace and waits for the
\* transactions that hold a row of it by a foreign key.
cleanupSmokeCollabFixture(r) ==
  /\ At(r, "cleanup", "route") /\ req[r].good
  /\ \A s \in Requests : req[s].at # "staged"
  /\ workspace' = "deleted"
  /\ role' = [u \in DOMAIN role |-> "none"]
  /\ projects' = Empty /\ files' = Empty /\ pages' = Empty
  /\ comments' = Empty /\ links' = Empty
  /\ Answer(r, 200, {})
  /\ UNCHANGED roleChanges

CleanupRoute(r) ==
  /\ At(r, "cleanup", "route") /\ ~req[r].good
  /\ Answer(r, 400, {})
  /\ UNCHANGED <<tables, roleChanges>>

(***************************************************************************)
(* Around the API: an administrator changes a membership, the process ends *)
(* and PostgreSQL rolls its transactions back.                             *)
(***************************************************************************)

ChangeRole(u, new) ==
  /\ workspace = "live" /\ roleChanges < MaxRoleChanges /\ role[u] # new
  /\ roleChanges' = roleChanges + 1
  /\ role' = [role EXCEPT ![u] = new]
  /\ req' = [r \in Requests |->
       IF req[r].user = u /\ InFlight(r)
       THEN [req[r] EXCEPT !.held = @ \cup {new}] ELSE req[r]]
  /\ UNCHANGED <<workspace, projects, files, pages, comments, links>>

Restart ==
  /\ \E r \in Requests : InFlight(r)
  /\ req' = [r \in Requests |->
       IF InFlight(r) THEN [NoRequest EXCEPT !.at = "lost"] ELSE req[r]]
  /\ UNCHANGED <<tables, roleChanges>>

Admit(r) ==
  \/ ListWorkspacesRoute(r) \/ LaunchpadRoute(r) \/ ListProjectsRoute(r)
  \/ CreateProjectRoute(r) \/ RenameProjectRoute(r) \/ ListFilesRoute(r)
  \/ CreateFileRoute(r) \/ RenameFileRoute(r) \/ OpenFileRoute(r) \/ CreatePageRoute(r)
  \/ RenamePageRoute(r) \/ ListCommentsRoute(r) \/ CreateCommentRoute(r)
  \/ ResolveCommentRoute(r) \/ ListLinksRoute(r) \/ CreateLinkRoute(r)
  \/ RevokeLinkRoute(r) \/ CollabSessionRoute(r) \/ CleanupRoute(r)
  \/ Refused(r, "bootstrap") \/ Refused(r, "cleanup")

Query(r) ==
  \/ listAuthorizedWorkspaces(r) \/ listWorkspaceProjects(r) \/ getWorkspaceLaunchpad(r)
  \/ createProject(r) \/ renameProject(r) \/ listProjectFiles(r) \/ createFileWithPages(r)
  \/ renameFile(r) \/ getFileOpenDetails(r) \/ createPage(r) \/ renamePage(r)
  \/ listComments(r) \/ createComment(r) \/ resolveComment(r) \/ listFileShareLinks(r)
  \/ createFileShareLink(r) \/ revokeFileShareLink(r) \/ getAuthorizedCollabPageSession(r)
  \/ getShareLinkAccessRow(r) \/ getSharedFileOpenDetails(r) \/ getSharedCollabPageSession(r)
  \/ createSmokeCollabFixture(r) \/ cleanupSmokeCollabFixture(r) \/ Commit(r)

WorkspacesNext ==
  \/ \E r \in Requests : \/ \E route \in Routes : Receive(r, route)
                         \/ Admit(r)
                         \/ Query(r)
  \/ \E u \in Users, new \in Roles : ChangeRole(u, new)
  \/ Restart

WorkspacesSpec == WorkspacesInit /\ [][WorkspacesNext]_wsVars

(***************************************************************************)
(* Properties.                                                             *)
(***************************************************************************)

\* What a request put into the database: rows it made, names it gave,
\* comments it resolved, links it revoked.
Wrote(r) ==
  \/ r \in DOMAIN projects \cup DOMAIN files \cup DOMAIN comments \cup DOMAIN links
  \/ \E p \in DOMAIN projects : projects[p] = r
  \/ \E f \in DOMAIN files : files[f].name = r
  \/ \E p \in DOMAIN pages : p[1] = r \/ pages[p].name = r
  \/ \E c \in DOMAIN comments : comments[c].resolved = r
  \/ \E l \in DOMAIN links : links[l].revoked = r

\* Types; a transaction's rows are kept exactly while it is open, and every
\* row's parent is a row.
WorkspacesTypeOK ==
  /\ workspace \in {"unborn", "live", "deleted"}
  /\ role \in [Users \cup {Anonymous} -> Roles]
  /\ \A r \in Requests : (req[r].at = "staged") <=> (req[r].rows # NoRows)
  /\ \A f \in DOMAIN files : files[f].project \in DOMAIN projects
  /\ \A p \in DOMAIN pages : pages[p].file \in DOMAIN files /\ pages[p].order \in Nat
  /\ \A c \in DOMAIN comments : comments[c].file \in DOMAIN files
  /\ \A l \in DOMAIN links : links[l].file \in DOMAIN files

\* A request that changed anything was at some moment of its life its
\* sender's with a writing role, and one that was answered with data was a
\* member's: whatever changes between the route's check and the function's,
\* and although the routes that make and rename pages let viewers in.
AccessWasHeld ==
  \A r \in Requests :
    /\ Wrote(r) => req[r].held \cap Mutating # {}
    /\ req[r].route \in WriterRoutes /\ req[r].reply \in {200, 201} =>
         req[r].held \cap Mutating # {}
    /\ req[r].route \in MemberRoutes /\ req[r].reply \in {200, 201} =>
         req[r].held \ {"none"} # {}
    /\ req[r].route = "collabSession" /\ req[r].body = {"write"} =>
         req[r].held \cap Mutating # {}

\* A link revoked before a request came opens nothing for it, neither the
\* file nor a page's collaboration session.
RevokedLinksOpenNothing ==
  \A r \in Requests : req[r].route \in SharedRoutes /\ req[r].reply = 200 => req[r].live

\* Who got something out of the API was allowed to, by a membership or a link.
RequestsAreAuthorized == AccessWasHeld /\ RevokedLinksOpenNothing

\* However creations of pages interleave, a file's pages are numbered from 0
\* without a gap and without a repetition (the editor's order of pages).
PagesAreNumbered ==
  \A f \in DOMAIN files : Orders(f) = 0 .. (Cardinality(PagesOf(f)) - 1)

\* A file is seen with at least a page, in the launchpad, in the editor and
\* through a link, from the first moment it is seen at all; only the reader
\* that a deletion of the workspace overtakes may see one without.
OpenedFilesAreWhole ==
  \A r \in Requests : workspace = "live" /\ req[r].reply = 200 =>
    /\ req[r].route \in {"openFile", "openShared"} => req[r].body # {}
    /\ req[r].route = "launchpad" => \A shown \in req[r].body : shown[2] > 0

\* The tables fit together, page by page and row by row, and whoever looks at
\* a file sees it whole.
FilesAreWhole == WorkspacesTypeOK /\ PagesAreNumbered /\ OpenedFilesAreWhole

\* The API answers 500 only to the loser of two creations of a page, and to
\* a request whose workspace was deleted under it.
ErrorsAreRaces ==
  \A r \in Requests : req[r].reply = 500 =>
    \/ workspace = "deleted"
    \/ req[r].route = "createPage" /\ \E p \in DOMAIN pages : pages[p].order = req[r].order

\* No request that was under way when the workspace was deleted leaves a row
\* behind.
NothingOutlivesTheWorkspace ==
  workspace = "deleted" =>
    DOMAIN projects \cup DOMAIN files \cup DOMAIN pages \cup DOMAIN comments
      \cup DOMAIN links = {}

\* Of several resolutions of a comment, or revocations of a link, the first
\* one's time stays: what is resolved or revoked is so for good.
DecisionsStay ==
  [][/\ \A c \in DOMAIN comments \cap DOMAIN comments' :
          comments[c].resolved # Nil => comments'[c].resolved = comments[c].resolved
     /\ \A l \in DOMAIN links \cap DOMAIN links' :
          links[l].revoked # Nil => links'[l].revoked = links[l].revoked]_wsVars
=============================================================================
