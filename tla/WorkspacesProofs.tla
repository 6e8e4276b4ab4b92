--------------------------- MODULE WorkspacesProofs ---------------------------
(***************************************************************************)
(* Proofs about Workspaces for any number of requests and users: who gets  *)
(* anything was allowed to, files are whole, errors are races, nothing     *)
(* outlives its workspace, and decisions stay.                             *)
(***************************************************************************)
EXTENDS Workspaces, FiniteSetTheorems, TLAPS

(***************************************************************************)
(* The inductive invariant.                                                *)
(***************************************************************************)

Ids == Requests \cup {Seed}
PageIds == Ids \X {1}
FileRow == [project : Ids, name : Ids]
PageRow == [file : Ids, order : Nat, name : Ids]
CommentRow == [file : Ids, page : PageIds \cup {Nil}, resolved : Requests \cup {Nil}]
LinkRow == [file : Ids, revoked : Requests \cup {Nil}]

\* A table: rows of one kind under some of the keys.
Tables(K, R) == UNION {[D -> R] : D \in SUBSET K}

Staging == [projects : Tables(Ids, Ids), files : Tables(Ids, FileRow),
            pages : Tables(PageIds, PageRow), links : Tables(Ids, LinkRow)]

\* What a reply shows: rows, files with their number of pages, an access.
Shown == Ids \cup PageIds \cup (Ids \X Nat) \cup {"read", "write"}

States == {"free", "route", "check", "act", "files", "insert", "staged", "done", "lost"}

RequestType ==
  [route : Routes \cup {"none"}, user : Users \cup {Anonymous}, good : BOOLEAN,
   project : Ids \cup {Nil}, file : Ids \cup {Nil}, page : PageIds \cup {Nil},
   row : Ids \cup {Nil}, at : States, check : Nat, order : Nat, rows : Staging,
   reply : Nat, body : SUBSET Shown, held : SUBSET Roles, live : BOOLEAN]

TablesOK ==
  /\ workspace \in {"unborn", "live", "deleted"}
  /\ role \in [Users \cup {Anonymous} -> Roles]
  /\ projects \in Tables(Ids, Ids)
  /\ files \in Tables(Ids, FileRow)
  /\ pages \in Tables(PageIds, PageRow)
  /\ comments \in Tables(Ids, CommentRow)
  /\ links \in Tables(Ids, LinkRow)

\* Every row's parent is a row; a workspace that is not there has none.
RowsFit ==
  /\ \A f \in DOMAIN files : files[f].project \in DOMAIN projects
  /\ \A p \in DOMAIN pages : pages[p].file \in DOMAIN files
  /\ \A c \in DOMAIN comments : comments[c].file \in DOMAIN files
  /\ \A l \in DOMAIN links : links[l].file \in DOMAIN files
  /\ workspace # "live" =>
       DOMAIN projects \cup DOMAIN files \cup DOMAIN pages \cup DOMAIN comments
         \cup DOMAIN links = {}

\* A file has n pages, numbered from 0.
Numbered(f, n) ==
  n # 0 /\ IsFiniteSet(PagesOf(f)) /\ Cardinality(PagesOf(f)) = n /\ Orders(f) = 0 .. n - 1

NumberedFiles == \A f \in DOMAIN files : \E n \in Nat : Numbered(f, n)

\* The authorising queries of each route, as its function makes them; the
\* last looks for the page, if the request names one.
Scoped(checks, page) == IF page = Nil THEN checks ELSE Append(checks, "page")

ChecksOf(route, page) ==
  CASE route \in {"listProjects", "launchpad"} -> <<"workspace">>
    [] route = "createProject" -> <<"writer">>
    [] route = "listFiles" -> <<"workspace", "project">>
    [] route = "createFile" -> <<"writer", "project">>
    [] route = "openFile" -> <<"workspace", "project", "file">>
    [] route \in {"createPage", "resolveComment", "listLinks", "createLink", "revokeLink"} ->
         <<"writer", "file">>
    [] route = "listComments" -> Scoped(<<"file">>, page)
    [] route = "createComment" -> Scoped(<<"writer", "file">>, page)
    [] OTHER -> <<>>

Checks(q) == ChecksOf(q.route, q.page)

\* What such a query found holds on, or the workspace was deleted since.
StillFound(q, check) ==
  /\ check = "writer" => q.held \cap Mutating # {}
  /\ workspace # "deleted" =>
       /\ check = "project" => q.project \in DOMAIN projects
       /\ check = "file" => q.file \in DOMAIN files
       /\ check = "page" => q.page \in PagesOf(q.file)

Checked(q) ==
  /\ q.at = "check" => \A i \in 1 .. q.check - 1 : StillFound(q, Checks(q)[i])
  /\ q.at \in {"act", "files", "insert"} =>
       \A i \in 1 .. Len(Checks(q)) : StillFound(q, Checks(q)[i])
  /\ q.at = "route" => q.check = 1
  /\ q.at = "check" => q.check >= 1

\* What the route let in, and what a request that writes was found to be.
Admitted(q) ==
  /\ q.at \notin {"free", "route", "done", "lost"} =>
       /\ q.route \in WriterRoutes => q.held \cap Mutating # {}
       /\ q.route \in MemberRoutes => q.held \ {"none"} # {}
  /\ q.at \in {"insert", "staged"} /\ q.route # "bootstrap" => q.held \cap Mutating # {}

\* A number that was computed still has all smaller ones below it.
OrderFits(q) ==
  q.at \in {"insert", "staged"} /\ q.route = "createPage" /\ workspace # "deleted" =>
    0 .. q.order - 1 \subseteq Orders(q.file)

\* What a link opens it opened when the request came.
LinkFits(q) ==
  q.route \in SharedRoutes =>
    /\ q.at = "route" /\ ~q.live /\ q.row # Nil /\ workspace # "deleted" =>
         q.row \in DOMAIN links /\ links[q.row].revoked # Nil
    /\ q.at = "act" => q.live /\ (workspace # "deleted" => q.file \in DOMAIN files)

\* The rows of an open transaction fit the tables they will be in.
StagedFits(r, q) ==
  q.at = "staged" =>
    \/ /\ q.route = "createProject" /\ workspace = "live"
       /\ q.rows = [NoRows EXCEPT !.projects = OneRow(r, r)]
    \/ /\ q.route = "createFile" /\ q.project \in DOMAIN projects
       /\ q.rows = [NoRows EXCEPT !.files = OneRow(r, [project |-> q.project, name |-> r]),
                                  !.pages = SeedPages(r)]
    \/ /\ q.route = "createPage" /\ q.file \in DOMAIN files /\ q.order \notin Orders(q.file)
       /\ q.rows = [NoRows EXCEPT !.pages =
                      OneRow(<<r, 1>>, [file |-> q.file, order |-> q.order, name |-> r])]
    \/ /\ q.route = "createLink" /\ q.file \in DOMAIN files
       /\ q.rows = [NoRows EXCEPT !.links = OneRow(r, [file |-> q.file, revoked |-> Nil])]
    \/ /\ q.route = "bootstrap" /\ workspace = "unborn"
       /\ q.rows = [NoRows EXCEPT !.projects = SeedProjects, !.files = SeedFiles(Seed),
                                  !.pages = SeedPages(Seed)]

\* Two open transactions never hold the same number of a file's pages.
SameNumber(q, p) ==
  /\ q.at = "staged" /\ p.at = "staged"
  /\ q.route = "createPage" /\ p.route = "createPage"
  /\ q.file = p.file /\ q.order = p.order

NumbersDiffer == \A r, s \in Requests : r # s => ~SameNumber(req[r], req[s])

\* Only a request that ended has written; rows are kept in a transaction only.
WritesFit(r, q) ==
  /\ Wrote(r) => q.at = "done" /\ q.held \cap Mutating # {}
  /\ q.at # "staged" => q.rows = NoRows

Runs(q) == q.at \notin {"free", "done", "lost"}

\* A workspace is asked only for its bootstrap before it is there, and the
\* membership of a request's sender was noted.
LifeFits(q) ==
  /\ Runs(q) => /\ (workspace = "unborn") <=> (q.route = "bootstrap")
                /\ role[q.user] \in q.held \cup {"none"}
  /\ q.route = "none" <=> q.at \in {"free", "lost"}

\* A bootstrap runs alone.
BootstrapAlone ==
  \A r, s \in Requests :
    r # s /\ Runs(req[r]) /\ Runs(req[s]) => req[r].route # "bootstrap"

\* What a request may be answered: a code and what is shown.
ReplyFits(q, code, body) ==
  /\ code \in {200, 201} =>
       /\ q.route \in WriterRoutes => q.held \cap Mutating # {}
       /\ q.route \in MemberRoutes => q.held \ {"none"} # {}
       /\ q.route \in SharedRoutes => q.live
  /\ q.route = "collabSession" /\ body = {"write"} => q.held \cap Mutating # {}
  /\ workspace # "deleted" /\ code = 200 =>
       /\ q.route \in {"openFile", "openShared"} => body # {}
       /\ q.route = "launchpad" => \A shown \in body : shown[2] > 0
  /\ code = 500 =>
       \/ workspace = "deleted"
       \/ q.route = "createPage" /\ \E p \in DOMAIN pages : pages[p].order = q.order

Answered(q) ==
  IF q.at = "done"
  THEN ReplyFits(q, q.reply, q.body)
  ELSE q.reply = 0 /\ (q.at # "files" \/ q.route # "launchpad" => q.body = {})

Fits(r, q) ==
  /\ Checked(q) /\ Admitted(q) /\ OrderFits(q) /\ LinkFits(q)
  /\ StagedFits(r, q) /\ WritesFit(r, q) /\ LifeFits(q) /\ Answered(q)

WorkspacesInv ==
  /\ TablesOK /\ RowsFit /\ NumberedFiles /\ NumbersDiffer /\ BootstrapAlone
  /\ req \in [Requests -> RequestType]
  /\ \A r \in Requests : Fits(r, req[r])

-----------------------------------------------------------------------------
(* Tables.                                                                 *)

\* A table's keys and rows are of its kind.
LEMMA TableFacts ==
  ASSUME NEW K, NEW R, NEW t \in Tables(K, R)
  PROVE  DOMAIN t \subseteq K /\ t \in [DOMAIN t -> R]
BY DEF Tables

\* A function on some of the keys into the rows is a table.
LEMMA IsTable ==
  ASSUME NEW K, NEW R, NEW D \in SUBSET K, NEW t \in [D -> R]
  PROVE  t \in Tables(K, R)
BY DEF Tables

\* A table without rows is one of any kind.
LEMMA EmptyTable ==
  ASSUME NEW K, NEW R
  PROVE  Empty \in Tables(K, R) /\ DOMAIN Empty = {}
<1>1. {} \in SUBSET K /\ Empty \in [{} -> R] /\ DOMAIN Empty = {}
  BY DEF Empty
<1> QED BY <1>1, IsTable

\* Rows that are added to a table.
LEMMA InsertedRows ==
  ASSUME NEW K, NEW R, NEW new \in Tables(K, R), NEW t \in Tables(K, R)
  PROVE  /\ Insert(new, t) \in Tables(K, R)
         /\ DOMAIN Insert(new, t) = DOMAIN new \cup DOMAIN t
         /\ \A k \in DOMAIN new : Insert(new, t)[k] = new[k]
         /\ \A k \in DOMAIN t \ DOMAIN new : Insert(new, t)[k] = t[k]
<1> DEFINE m == Insert(new, t)
<1>1. m = [k \in DOMAIN new \cup DOMAIN t |-> IF k \in DOMAIN new THEN new[k] ELSE t[k]]
  BY DEF Insert
<1> HIDE DEF m
<1>2. DOMAIN new \cup DOMAIN t \in SUBSET K /\ new \in [DOMAIN new -> R] /\ t \in [DOMAIN t -> R]
  BY TableFacts
<1>3. m \in [DOMAIN new \cup DOMAIN t -> R]
  BY <1>1, <1>2
<1>4. /\ DOMAIN m = DOMAIN new \cup DOMAIN t
      /\ \A k \in DOMAIN new : m[k] = new[k]
      /\ \A k \in DOMAIN t \ DOMAIN new : m[k] = t[k]
  BY <1>1
<1>5. m \in Tables(K, R)
  BY <1>2, <1>3, IsTable
<1> QED BY <1>4, <1>5 DEF m

\* Adding no rows changes nothing.
LEMMA InsertedNothing ==
  ASSUME NEW K, NEW R, NEW t \in Tables(K, R)
  PROVE  Insert(Empty, t) = t
<1>1. DOMAIN Empty = {} /\ t \in [DOMAIN t -> R]
  BY EmptyTable, TableFacts
<1> QED BY <1>1 DEF Insert

\* A table of one row.
LEMMA OneRowTable ==
  ASSUME NEW K, NEW R, NEW k \in K, NEW v \in R
  PROVE  OneRow(k, v) \in Tables(K, R) /\ DOMAIN OneRow(k, v) = {k} /\ OneRow(k, v)[k] = v
<1> DEFINE t == OneRow(k, v)
<1>1. t = [x \in {k} |-> v]
  BY DEF OneRow
<1> HIDE DEF t
<1>2. {k} \in SUBSET K /\ t \in [{k} -> R] /\ DOMAIN t = {k} /\ t[k] = v
  BY <1>1
<1> QED BY <1>2, IsTable DEF t

\* A row that is changed.
LEMMA ChangedRow ==
  ASSUME NEW K, NEW R, NEW t \in Tables(K, R), NEW k \in DOMAIN t, NEW v \in R
  PROVE  /\ [t EXCEPT ![k] = v] \in Tables(K, R)
         /\ DOMAIN [t EXCEPT ![k] = v] = DOMAIN t
<1>1. DOMAIN t \in SUBSET K /\ t \in [DOMAIN t -> R]
  BY TableFacts
<1>2. [t EXCEPT ![k] = v] \in [DOMAIN t -> R]
  BY <1>1
<1> QED BY <1>1, <1>2, IsTable

-----------------------------------------------------------------------------
(* What the forms of a step do to the requests.                            *)

\* No rows in a transaction.
LEMMA NoRowsStaged == NoRows \in Staging
<1>1. /\ Empty \in Tables(Ids, Ids) /\ Empty \in Tables(Ids, FileRow)
      /\ Empty \in Tables(PageIds, PageRow) /\ Empty \in Tables(Ids, LinkRow)
  BY EmptyTable
<1> QED BY <1>1 DEF NoRows, Staging

\* Only r changes, and becomes q.
Becomes(r, q) == req' \in [Requests -> RequestType] /\ req'[r] = q
                   /\ \A s \in Requests : s # r => req'[s] = req[s]

\* A step that writes one request leaves the others.
LEMMA RequestChanges ==
  ASSUME req \in [Requests -> RequestType], NEW r \in Requests, NEW q \in RequestType,
         req' = [req EXCEPT ![r] = q]
  PROVE  Becomes(r, q)
BY DEF Becomes

\* What an answer leaves of a request.
LEMMA AnswerEffect ==
  ASSUME req \in [Requests -> RequestType], NEW r \in Requests, NEW code \in Nat,
         NEW body \in SUBSET Shown, Answer(r, code, body)
  PROVE  \E q \in RequestType :
           /\ Becomes(r, q)
           /\ q.at = "done" /\ q.reply = code /\ q.body = body /\ q.rows = NoRows
           /\ q.route = req[r].route /\ q.order = req[r].order /\ q.held = req[r].held
           /\ q.live = req[r].live
<1> DEFINE q == [NoRequest EXCEPT !.route = req[r].route, !.order = req[r].order,
                   !.held = req[r].held, !.live = req[r].live, !.at = "done", !.reply = code,
                   !.body = body]
<1>1. req[r] \in RequestType
  OBVIOUS
<1>2. q \in RequestType
  BY <1>1, NoRowsStaged DEF NoRequest, RequestType, States
<1>3. req' = [req EXCEPT ![r] = q]
  BY DEF Answer
<1>4. /\ q.at = "done" /\ q.reply = code /\ q.body = body /\ q.rows = NoRows
      /\ q.route = req[r].route /\ q.order = req[r].order /\ q.held = req[r].held
      /\ q.live = req[r].live
  BY DEF NoRequest
<1> HIDE DEF q
<1> QED BY <1>2, <1>3, <1>4, RequestChanges

\* A request that goes on, with what changes in it.
Same(q, p) ==
  /\ q.route = p.route /\ q.user = p.user /\ q.project = p.project
  /\ q.page = p.page /\ q.row = p.row /\ q.held = p.held /\ q.live = p.live
  /\ q.reply = p.reply

\* What is asked of a request has to do with the tables only.
LEMMA FitsStays ==
  ASSUME NEW r, NEW q, UNCHANGED tables, Fits(r, q)
  PROVE  Fits(r, q)'
<1> USE DEF tables
<1>1. Checked(q)'
  BY DEF Fits, Checked, StillFound, PagesOf
<1>2. Admitted(q)'
  BY DEF Fits, Admitted
<1>3. OrderFits(q)'
  BY DEF Fits, OrderFits, Orders, PagesOf
<1>4. LinkFits(q)'
  BY DEF Fits, LinkFits
<1>5. StagedFits(r, q)'
  BY DEF Fits, StagedFits, Orders, PagesOf
<1>6. WritesFit(r, q)'
  BY DEF Fits, WritesFit, Wrote
<1>7. LifeFits(q)'
  BY DEF Fits, LifeFits
<1>8. Answered(q)'
  BY DEF Fits, Answered, ReplyFits
<1> QED BY <1>1, <1>2, <1>3, <1>4, <1>5, <1>6, <1>7, <1>8 DEF Fits

\* What holds of a request as it became holds of the request then.
LEMMA FitsBecomes ==
  ASSUME NEW r, NEW s, NEW q, Fits(s, q)', req'[r] = q
  PROVE  Fits(s, req[r])'
<1>1. Checked(req[r])'
  BY DEF Fits, Checked, StillFound, Checks
<1>2. Admitted(req[r])'
  BY DEF Fits, Admitted
<1>3. OrderFits(req[r])'
  BY DEF Fits, OrderFits
<1>4. LinkFits(req[r])'
  BY DEF Fits, LinkFits
<1>5. StagedFits(s, req[r])'
  BY DEF Fits, StagedFits
<1>6. WritesFit(s, req[r])'
  BY DEF Fits, WritesFit
<1>7. LifeFits(req[r])'
  BY DEF Fits, LifeFits
<1>8. Answered(req[r])'
  BY DEF Fits, Answered, ReplyFits
<1> QED BY <1>1, <1>2, <1>3, <1>4, <1>5, <1>6, <1>7, <1>8 DEF Fits

\* The requests after a step of one of them.
LEMMA RequestsFit ==
  ASSUME WorkspacesInv, NEW r \in Requests, NEW q \in RequestType, Becomes(r, q),
         Fits(r, q)', \A s \in Requests : s # r => Fits(s, req[s])',
         Runs(q) => Runs(req[r]) /\ q.route = req[r].route,
         q.at = "staged" => \A s \in Requests : s # r => ~SameNumber(q, req[s])
  PROVE  /\ req' \in [Requests -> RequestType]
         /\ \A s \in Requests : Fits(s, req[s])'
         /\ NumbersDiffer' /\ BootstrapAlone'
<1>1. req' \in [Requests -> RequestType] /\ req'[r] = q
  BY DEF Becomes
<1>2. \A s \in Requests : s # r => req'[s] = req[s]
  BY DEF Becomes
<1>3. \A s \in Requests : Fits(s, req[s])'
  BY <1>1, FitsBecomes
<1>4. NumbersDiffer'
  BY <1>1, <1>2 DEF WorkspacesInv, NumbersDiffer, SameNumber
<1>5. BootstrapAlone'
  BY <1>1, <1>2 DEF WorkspacesInv, BootstrapAlone, Runs
<1> QED BY <1>1, <1>3, <1>4, <1>5

\* What is said of the tables stays with them.
LEMMA TablesStay ==
  ASSUME WorkspacesInv, UNCHANGED tables
  PROVE  TablesOK' /\ RowsFit' /\ NumberedFiles'
BY DEF WorkspacesInv, TablesOK, RowsFit, NumberedFiles, Numbered, Orders, PagesOf, tables

\* A request that no step touches, in tables that no step touches.
LEMMA OthersStay ==
  ASSUME WorkspacesInv, UNCHANGED tables, NEW s \in Requests, req'[s] = req[s]
  PROVE  Fits(s, req[s])'
<1>1. Fits(s, req[s])
  BY DEF WorkspacesInv
<1>2. \A q : q = req[s] => Fits(s, q)'
  BY <1>1, FitsStays
<1> QED BY <1>2, FitsBecomes

\* A request that goes on with the tables as they are.
LEMMA QuietStep ==
  ASSUME WorkspacesInv, UNCHANGED tables, NEW r \in Requests, NEW q \in RequestType,
         Becomes(r, q), Fits(r, q),
         Runs(q) => Runs(req[r]) /\ q.route = req[r].route,
         q.at = "staged" => \A s \in Requests : s # r => ~SameNumber(q, req[s])
  PROVE  WorkspacesInv'
<1>1. Fits(r, q)'
  BY FitsStays
<1>2. \A s \in Requests : s # r => Fits(s, req[s])'
  BY OthersStay DEF Becomes
<1>3. /\ req' \in [Requests -> RequestType]
      /\ \A s \in Requests : Fits(s, req[s])'
      /\ NumbersDiffer' /\ BootstrapAlone'
  BY <1>1, <1>2, RequestsFit
<1>4. TablesOK' /\ RowsFit' /\ NumberedFiles'
  BY TablesStay
<1> QED BY <1>3, <1>4 DEF WorkspacesInv

\* What a request is that runs.
LEMMA Running ==
  ASSUME WorkspacesInv, NEW r \in Requests
  PROVE  /\ req[r] \in RequestType /\ Fits(r, req[r])
         /\ Runs(req[r]) => /\ ~Wrote(r) /\ req[r].route \in Routes /\ req[r].reply = 0
                            /\ (workspace = "unborn") <=> (req[r].route = "bootstrap")
                            /\ req[r].user \in Users \cup {Anonymous}
                            /\ role[req[r].user] \in Roles
                            /\ role[req[r].user] \in req[r].held \cup {"none"}
<1>1. req[r] \in RequestType /\ Fits(r, req[r]) /\ role \in [Users \cup {Anonymous} -> Roles]
  BY DEF WorkspacesInv, TablesOK
<1>2. req[r].route \in Routes \cup {"none"} /\ req[r].user \in Users \cup {Anonymous}
  BY <1>1 DEF RequestType
<1>3. /\ WritesFit(r, req[r]) /\ LifeFits(req[r]) /\ Answered(req[r])
  BY <1>1 DEF Fits
<1>4. Runs(req[r]) => ~Wrote(r)
  BY <1>3 DEF WritesFit, Runs
<1>5. Runs(req[r]) => /\ req[r].route # "none"
                      /\ (workspace = "unborn") <=> (req[r].route = "bootstrap")
                      /\ role[req[r].user] \in req[r].held \cup {"none"}
  BY <1>3 DEF LifeFits, Runs
<1>6. Runs(req[r]) => req[r].reply = 0
  BY <1>3 DEF Answered, Runs
<1> QED BY <1>1, <1>2, <1>4, <1>5, <1>6

\* A request that is answered with the tables as they are.
LEMMA AnsweredFits ==
  ASSUME WorkspacesInv, NEW r \in Requests, Runs(req[r]), NEW q \in RequestType,
         q.at = "done", q.rows = NoRows, q.route = req[r].route, ~Wrote(r),
         ReplyFits(q, q.reply, q.body)
  PROVE  Fits(r, q)
<1>1. q.route \in Routes /\ q.route # "none"
  BY Running DEF Routes, SharedRoutes, MemberRoutes, WriterRoutes
<1>2. Checked(q) /\ Admitted(q) /\ OrderFits(q) /\ LinkFits(q) /\ StagedFits(r, q)
  BY DEF Checked, Admitted, OrderFits, LinkFits, StagedFits
<1>3. WritesFit(r, q) /\ LifeFits(q) /\ Answered(q)
  BY <1>1 DEF WritesFit, LifeFits, Answered, Runs
<1> QED BY <1>2, <1>3 DEF Fits

\* An answer that the tables bear out.
LEMMA QuietAnswer ==
  ASSUME WorkspacesInv, UNCHANGED tables, NEW r \in Requests, Runs(req[r]),
         NEW code \in Nat, NEW body \in SUBSET Shown, Answer(r, code, body),
         ReplyFits(req[r], code, body)
  PROVE  WorkspacesInv'
<1>1. PICK q \in RequestType :
           /\ Becomes(r, q)
           /\ q.at = "done" /\ q.reply = code /\ q.body = body /\ q.rows = NoRows
           /\ q.route = req[r].route /\ q.order = req[r].order /\ q.held = req[r].held
           /\ q.live = req[r].live
  BY AnswerEffect DEF WorkspacesInv
<1>2. ReplyFits(q, q.reply, q.body)
  BY <1>1 DEF ReplyFits
<1>3. ~Wrote(r)
  BY Running
<1>4. Fits(r, q)
  BY <1>1, <1>2, <1>3, AnsweredFits
<1>5. ~Runs(q) /\ q.at # "staged"
  BY <1>1 DEF Runs
<1> QED BY <1>1, <1>4, <1>5, QuietStep

\* An answer that refuses shows nothing.
LEMMA Refusal ==
  ASSUME WorkspacesInv, UNCHANGED tables, NEW r \in Requests, Runs(req[r]),
         NEW code \in {400, 401, 403, 404}, Answer(r, code, {})
  PROVE  WorkspacesInv'
<1>1. ReplyFits(req[r], code, {})
  BY DEF ReplyFits
<1> QED BY <1>1, QuietAnswer

\* A request that goes on without a transaction.
LEMMA QuietMove ==
  ASSUME WorkspacesInv, UNCHANGED tables, NEW r \in Requests, Runs(req[r]),
         NEW q \in RequestType, Becomes(r, q), Same(q, req[r]), q.rows = NoRows,
         q.at \in {"check", "act", "files", "insert"},
         q.at # "files" \/ q.route # "launchpad" => q.body = {},
         Checked(q), Admitted(q), OrderFits(q), LinkFits(q)
  PROVE  WorkspacesInv'
<1>1. ~Wrote(r) /\ LifeFits(req[r]) /\ req[r].reply = 0
  BY Running DEF Fits
<1>2. StagedFits(r, q) /\ WritesFit(r, q)
  BY <1>1 DEF StagedFits, WritesFit
<1>3. LifeFits(q)
  BY <1>1 DEF LifeFits, Runs, Same
<1>4. Answered(q)
  BY <1>1 DEF Answered, Same
<1>5. Fits(r, q)
  BY <1>2, <1>3, <1>4 DEF Fits
<1> QED BY <1>5, QuietStep DEF Same

\* The authorising queries depend on the route and on whether a page is named.
LEMMA SameChecks ==
  ASSUME NEW q, NEW p, q.route = p.route, q.page = p.page
  PROVE  Checks(q) = Checks(p)
BY DEF Checks

\* The route lets in whom the route is for.
LEMMA EnterKeeps ==
  ASSUME WorkspacesInv, NEW r \in Requests, NEW route, NEW allowed, NEW next \in {"check", "act"},
         route \in MemberRoutes \cup WriterRoutes \cup {"listWorkspaces"},
         allowed \in BOOLEAN,
         route \in MemberRoutes /\ allowed => IsMember(r),
         route \in WriterRoutes /\ allowed => IsWriter(r),
         next = "act" => Checks(req[r]) = <<>>,
         Enter(r, route, allowed, next)
  PROVE  WorkspacesInv'
<1>1. At(r, route, "route") /\ UNCHANGED tables
  BY DEF Enter
<1>2. Runs(req[r])
  BY <1>1 DEF At, Runs
<1>3. ASSUME NEW code \in {400, 401, 403}, Answer(r, code, {}) PROVE WorkspacesInv'
  BY <1>1, <1>2, <1>3, Refusal
<1>4. ASSUME allowed, Go(r, next) PROVE WorkspacesInv'
  <2> DEFINE p == req[r]
             q == [p EXCEPT !.at = next]
  <2>1. p \in RequestType /\ Fits(r, p)
    BY Running
  <2>2. /\ q \in RequestType /\ Same(q, p) /\ q.at = next /\ q.check = p.check
        /\ q.rows = p.rows /\ q.body = p.body /\ q.route = p.route /\ q.page = p.page
        /\ q.held = p.held
    BY <2>1 DEF RequestType, States, Same
  <2>3. Becomes(r, q)
    <3>1. req' = [req EXCEPT ![r] = q]
      BY <1>4 DEF Go
    <3> HIDE DEF q
    <3> QED BY <2>2, <3>1, RequestChanges DEF WorkspacesInv
  <2>4. p.route = route /\ p.at = "route"
    BY <1>1 DEF At
  <2> HIDE DEF p, q
  <2>5. p.check = 1 /\ p.rows = NoRows /\ p.body = {}
    BY <2>1, <2>4 DEF Fits, Checked, WritesFit, Answered
  <2>6. Checked(q)
    <3>1. Checks(q) = Checks(p)
      BY <2>2, SameChecks
    <3>2. CASE next = "check"
      BY <2>2, <2>5, <3>2 DEF Checked
    <3>3. CASE next = "act"
      <4>1. 1 .. Len(Checks(q)) = {}
        BY <3>1, <3>3 DEF p
      <4> QED BY <2>2, <3>3, <4>1 DEF Checked
    <3> QED BY <3>2, <3>3
  <2>7. Admitted(q)
    <3>1. role[p.user] \in Roles /\ role[p.user] \in p.held \cup {"none"}
      BY <1>2, Running DEF p
    <3>2. route \in MemberRoutes => p.held \ {"none"} # {}
      BY <1>4, <3>1 DEF IsMember, p
    <3>3. route \in WriterRoutes => p.held \cap Mutating # {}
      BY <1>4, <3>1 DEF IsWriter, CanMutate, Mutating, p
    <3> QED BY <2>2, <2>4, <3>2, <3>3 DEF Admitted
  <2>8. OrderFits(q) /\ LinkFits(q)
    <3>1. route \notin SharedRoutes
      BY DEF SharedRoutes, MemberRoutes, WriterRoutes
    <3> QED BY <2>2, <2>4, <3>1 DEF OrderFits, LinkFits
  <2> QED BY <1>1, <1>2, <2>2, <2>3, <2>5, <2>6, <2>7, <2>8, QuietMove DEF p
<1> QED BY <1>3, <1>4 DEF Enter

\* Routes whose function has no authorising query before its statement.
LEMMA NoChecks ==
  ASSUME NEW q, q.route \in {"listWorkspaces", "renameProject", "renameFile", "renamePage",
                             "collabSession"}
  PROVE  Checks(q) = <<>>
BY DEF Checks, ChecksOf

\* Every route keeps the invariant.
LEMMA AdmitKeeps ==
  ASSUME WorkspacesInv, NEW r \in Requests, Admit(r)
  PROVE  WorkspacesInv'
<1> DEFINE Member(route) == Enter(r, route, IsMember(r), "check")
           Writer(route) == Enter(r, route, IsWriter(r), "check")
<1>0. IsMember(r) \in BOOLEAN /\ IsWriter(r) \in BOOLEAN
  BY DEF IsMember, IsWriter, CanMutate
<1>1. ASSUME NEW route \in {"launchpad", "openFile", "createPage", "listComments"}, Member(route)
      PROVE  WorkspacesInv'
  <2>1. route \in MemberRoutes /\ route \notin WriterRoutes
    BY DEF MemberRoutes, WriterRoutes
  <2> QED BY <1>0, <1>1, <2>1, EnterKeeps
<1>2. ASSUME NEW route \in {"listProjects", "createProject", "listFiles", "createFile",
                            "createComment", "resolveComment", "listLinks", "createLink",
                            "revokeLink"}, Writer(route)
      PROVE  WorkspacesInv'
  <2>1. route \in WriterRoutes /\ route \notin MemberRoutes
    BY DEF MemberRoutes, WriterRoutes
  <2> QED BY <1>0, <1>2, <2>1, EnterKeeps
<1>3. ASSUME NEW route \in {"renamePage", "collabSession"}, Enter(r, route, IsMember(r), "act")
      PROVE  WorkspacesInv'
  <2>1. route \in MemberRoutes /\ route \notin WriterRoutes
    BY DEF MemberRoutes, WriterRoutes
  <2>2. Checks(req[r]) = <<>>
    BY <1>3, NoChecks DEF Enter, At
  <2> QED BY <1>0, <1>3, <2>1, <2>2, EnterKeeps
<1>4. ASSUME NEW route \in {"renameProject", "renameFile"}, Enter(r, route, IsWriter(r), "act")
      PROVE  WorkspacesInv'
  <2>1. route \in WriterRoutes /\ route \notin MemberRoutes
    BY DEF MemberRoutes, WriterRoutes
  <2>2. Checks(req[r]) = <<>>
    BY <1>4, NoChecks DEF Enter, At
  <2> QED BY <1>0, <1>4, <2>1, <2>2, EnterKeeps
<1>5. ASSUME ListWorkspacesRoute(r) PROVE WorkspacesInv'
  <2>1. "listWorkspaces" \notin MemberRoutes \cup WriterRoutes
    BY DEF MemberRoutes, WriterRoutes
  <2>2. Enter(r, "listWorkspaces", TRUE, "act")
    BY <1>5 DEF ListWorkspacesRoute
  <2>3. Checks(req[r]) = <<>>
    BY <2>2, NoChecks DEF Enter, At
  <2> QED BY <2>1, <2>2, <2>3, EnterKeeps
<1>6. ASSUME NEW route, Refused(r, route) \/ CleanupRoute(r) PROVE WorkspacesInv'
  <2>1. Runs(req[r]) /\ UNCHANGED tables
    BY <1>6 DEF Refused, CleanupRoute, At, Runs
  <2>2. \E code \in {400, 403, 404} : Answer(r, code, {})
    BY <1>6 DEF Refused, CleanupRoute
  <2> QED BY <2>1, <2>2, Refusal
<1> QED
  BY <1>1, <1>2, <1>3, <1>4, <1>5, <1>6
     DEF Admit, ListWorkspacesRoute, LaunchpadRoute, ListProjectsRoute, CreateProjectRoute,
         RenameProjectRoute, ListFilesRoute, CreateFileRoute, RenameFileRoute, OpenFileRoute,
         CreatePageRoute, RenamePageRoute, ListCommentsRoute, CreateCommentRoute,
         ResolveCommentRoute, ListLinksRoute, CreateLinkRoute, RevokeLinkRoute,
         CollabSessionRoute

\* What a query finds is so.
LEMMA FindsIsFound ==
  ASSUME NEW r \in Requests, NEW check, Finds(r, check),
         role[req[r].user] \in Roles, role[req[r].user] \in req[r].held \cup {"none"}
  PROVE  /\ StillFound(req[r], check)
         /\ req[r].held \ {"none"} # {}
         /\ check = "writer" => req[r].held \cap Mutating # {}
BY DEF Finds, StillFound, IsMember, IsWriter, CanMutate, Mutating

\* An authorising query: refused, or found and on to the next.
LEMMA CheckingKeeps ==
  ASSUME WorkspacesInv, NEW r \in Requests, NEW route, NEW checks,
         At(r, route, "check") => checks = Checks(req[r]),
         route \notin SharedRoutes, Checking(r, route, checks)
  PROVE  WorkspacesInv'
<1> DEFINE p == req[r]
           i == p.check
           at == IF i = Len(checks) THEN "act" ELSE "check"
           q == [p EXCEPT !.check = i + 1, !.at = at]
<1>1. /\ p.route = route /\ p.at = "check" /\ UNCHANGED tables /\ checks = Checks(p) /\ Runs(p)
  BY DEF Checking, At, Runs
<1>2. /\ p \in RequestType /\ Fits(r, p) /\ role[p.user] \in Roles
      /\ role[p.user] \in p.held \cup {"none"} /\ p.check \in Nat
  BY <1>1, Running DEF RequestType
<1>3. CASE ~Finds(r, checks[i])
  <2>1. Answer(r, 404, {})
    BY <1>3 DEF Checking
  <2> QED BY <1>1, <2>1, Refusal
<1>4. CASE Finds(r, checks[i])
  <2>1. req' = [req EXCEPT ![r] = q]
    BY <1>1, <1>4 DEF Checking
  <2>2. /\ q \in RequestType /\ Same(q, p) /\ q.check = i + 1 /\ q.at \in {"check", "act"}
        /\ q.at = at
        /\ q.rows = p.rows /\ q.body = p.body /\ q.route = p.route /\ q.page = p.page
        /\ q.held = p.held /\ q.file = p.file /\ q.project = p.project /\ q.live = p.live
    <3>1. at \in {"check", "act"} /\ i + 1 \in Nat
      BY <1>2
    <3>2. at \in States
      BY <3>1 DEF States
    <3>3. p \in RequestType
      BY <1>2
    <3> DEFINE n == i + 1
    <3> HIDE DEF at, p, n
    <3>4. q \in RequestType
      BY <3>1, <3>2, <3>3 DEF RequestType, n
    <3> QED BY <3>1, <3>3, <3>4 DEF RequestType, Same, n
  <2>3. StillFound(p, checks[i]) /\ (checks[i] = "writer" => p.held \cap Mutating # {})
    BY <1>2, <1>4, FindsIsFound
  <2> HIDE DEF p, q, i
  <2>4. Becomes(r, q)
    BY <2>1, <2>2, RequestChanges DEF WorkspacesInv
  <2>5. /\ p.rows = NoRows /\ p.body = {} /\ i \in Nat /\ i >= 1
        /\ \A j \in 1 .. i - 1 : StillFound(p, checks[j])
        /\ p.route \in WriterRoutes => p.held \cap Mutating # {}
        /\ p.route \in MemberRoutes => p.held \ {"none"} # {}
    BY <1>1, <1>2 DEF Fits, Checked, WritesFit, Answered, Admitted, i
  <2>6. \A j \in 1 .. i : StillFound(q, checks[j])
    <3>1. \A j \in 1 .. i : StillFound(p, checks[j])
      BY <2>3, <2>5
    <3> QED BY <2>2, <3>1 DEF StillFound
  <2>7. Checks(q) = checks
    BY <1>1, <2>2, SameChecks
  <2>8. Checked(q)
    <3>1. CASE q.at = "check"
      BY <2>2, <2>5, <2>6, <2>7, <3>1 DEF Checked
    <3>2. CASE q.at = "act"
      <4>1. i = Len(checks)
        BY <2>2, <3>2
      <4>2. \A j \in 1 .. Len(Checks(q)) : StillFound(q, Checks(q)[j])
        BY <2>6, <2>7, <4>1
      <4> QED BY <2>2, <3>2, <4>2 DEF Checked
    <3> QED BY <2>2, <3>1, <3>2
  <2>9. Admitted(q) /\ OrderFits(q) /\ LinkFits(q)
    BY <1>1, <2>2, <2>5 DEF Admitted, OrderFits, LinkFits
  <2> QED BY <1>1, <2>2, <2>4, <2>5, <2>8, <2>9, QuietMove DEF p
<1> QED BY <1>3, <1>4

\* A last query that only reads.
LEMMA ReadingKeeps ==
  ASSUME WorkspacesInv, NEW r \in Requests, NEW route, NEW body, Reading(r, route, body),
         body \in SUBSET Shown,
         At(r, route, "act") => ReplyFits(req[r], 200, body)
  PROVE  WorkspacesInv'
<1>1. Runs(req[r]) /\ UNCHANGED tables /\ Answer(r, 200, body) /\ ReplyFits(req[r], 200, body)
  BY DEF Reading, At, Runs
<1> QED BY <1>1, QuietAnswer

\* What is known of a request whose authorising queries are done.
LEMMA ActFacts ==
  ASSUME WorkspacesInv, NEW r \in Requests, req[r].at \in {"act", "files", "insert"}
  PROVE  /\ Runs(req[r])
         /\ \A i \in 1 .. Len(Checks(req[r])) : StillFound(req[r], Checks(req[r])[i])
         /\ req[r].route \in WriterRoutes => req[r].held \cap Mutating # {}
         /\ req[r].route \in MemberRoutes => req[r].held \ {"none"} # {}
         /\ req[r].rows = NoRows
         /\ role[req[r].user] \in Roles /\ role[req[r].user] \in req[r].held \cup {"none"}
         /\ (workspace = "unborn") <=> (req[r].route = "bootstrap")
<1>1. Runs(req[r])
  BY DEF Runs
<1>2. /\ Fits(r, req[r]) /\ role[req[r].user] \in Roles
      /\ role[req[r].user] \in req[r].held \cup {"none"}
      /\ (workspace = "unborn") <=> (req[r].route = "bootstrap")
  BY <1>1, Running
<1>3. /\ \A i \in 1 .. Len(Checks(req[r])) : StillFound(req[r], Checks(req[r])[i])
      /\ req[r].rows = NoRows
  BY <1>2 DEF Fits, Checked, WritesFit
<1>4. /\ req[r].route \in WriterRoutes => req[r].held \cap Mutating # {}
      /\ req[r].route \in MemberRoutes => req[r].held \ {"none"} # {}
  BY <1>2 DEF Fits, Admitted
<1> QED BY <1>1, <1>2, <1>3, <1>4

\* A plain list is an answer to whom the route let in.
LEMMA ListFits ==
  ASSUME WorkspacesInv, NEW r \in Requests, req[r].at = "act", NEW body,
         req[r].route \notin SharedRoutes \cup {"openFile", "launchpad", "collabSession"}
  PROVE  ReplyFits(req[r], 200, body)
<1>1. "openShared" \in SharedRoutes
  BY DEF SharedRoutes
<1> QED BY <1>1, ActFacts DEF ReplyFits

\* Every row's key may be shown.
LEMMA RowsShown ==
  ASSUME WorkspacesInv
  PROVE  /\ DOMAIN projects \subseteq Ids /\ DOMAIN files \subseteq Ids
         /\ DOMAIN pages \subseteq PageIds /\ DOMAIN comments \subseteq Ids
         /\ DOMAIN links \subseteq Ids
BY TableFacts DEF WorkspacesInv, TablesOK

\* A file that is there has a page.
LEMMA FileHasPages ==
  ASSUME WorkspacesInv, NEW f \in DOMAIN files
  PROVE  PagesOf(f) # {} /\ Cardinality(PagesOf(f)) \in Nat /\ Cardinality(PagesOf(f)) > 0
<1>1. PICK n \in Nat : Numbered(f, n)
  BY DEF WorkspacesInv, NumberedFiles
<1>2. Cardinality(PagesOf(f)) = n /\ n # 0
  BY <1>1 DEF Numbered
<1> QED BY <1>2, FS_EmptySet

\* Rows inserted in a transaction that stays open.
StagedAs(q, p, rows) ==
  /\ q.at = "staged" /\ q.rows = rows /\ q.route = p.route /\ q.file = p.file
  /\ q.project = p.project /\ q.order = p.order

\* A request that opened its transaction.
LEMMA StagedRequest ==
  ASSUME NEW p \in RequestType, NEW rows \in Staging, NEW q,
         q = [p EXCEPT !.at = "staged", !.rows = rows]
  PROVE  /\ q \in RequestType /\ Same(q, p) /\ StagedAs(q, p, rows)
         /\ q.check = p.check /\ q.body = p.body
<1> DEFINE at == "staged"
<1>1. at \in States /\ at = "staged" /\ q = [p EXCEPT !.at = at, !.rows = rows]
  BY DEF States
<1> HIDE DEF at
<1>2. q \in RequestType
  BY <1>1 DEF RequestType
<1>3. /\ Same(q, p) /\ q.at = at /\ q.rows = rows /\ q.file = p.file
      /\ q.order = p.order /\ q.check = p.check /\ q.body = p.body
  BY <1>1 DEF RequestType, Same
<1> QED BY <1>1, <1>2, <1>3 DEF StagedAs, Same

\* Opening a transaction: its rows fit, or a parent is missing and the 500
\* is a race with the deletion of the workspace.
LEMMA StageKeeps ==
  ASSUME WorkspacesInv, UNCHANGED tables, NEW r \in Requests, Runs(req[r]),
         req[r].at # "files", NEW parent \in BOOLEAN, NEW rows \in Staging,
         Stage(r, parent, rows),
         req[r].route = "bootstrap" \/ req[r].held \cap Mutating # {},
         ~parent => ReplyFits(req[r], 500, {}),
         parent => \A q : StagedAs(q, req[r], rows) => StagedFits(r, q) /\ OrderFits(q),
         req[r].route = "createPage" =>
           \A q : StagedAs(q, req[r], rows) => \A s \in Requests : s # r => ~SameNumber(q, req[s])
  PROVE  WorkspacesInv'
<1> DEFINE p == req[r]
           q == [p EXCEPT !.at = "staged", !.rows = rows]
<1>1. p \in RequestType /\ Fits(r, p) /\ ~Wrote(r)
  BY Running
<1>2. CASE ~parent
  BY <1>2, QuietAnswer DEF Stage
<1>3. CASE parent
  <2>1. req' = [req EXCEPT ![r] = q]
    BY <1>3 DEF Stage
  <2>2. /\ q \in RequestType /\ Same(q, p) /\ StagedAs(q, p, rows)
        /\ q.check = p.check /\ q.body = p.body
    BY <1>1, StagedRequest
  <2> HIDE DEF q
  <2>3. Becomes(r, q)
    BY <2>1, <2>2, RequestChanges DEF WorkspacesInv
  <2>4. StagedFits(r, q) /\ OrderFits(q)
    BY <1>3, <2>2
  <2> HIDE DEF p
  <2>5. /\ q.at = "staged" /\ q.route = p.route /\ q.held = p.held
        /\ q.user = p.user /\ q.reply = p.reply
    BY <2>2 DEF Same, StagedAs
  <2>6. p.body = {} /\ p.reply = 0
    BY <1>1 DEF Fits, Answered, Runs, p
  <2>7. Checked(q) /\ LinkFits(q)
    BY <2>5 DEF Checked, LinkFits
  <2>8. Admitted(q)
    <3>1. /\ p.route \in WriterRoutes => p.held \cap Mutating # {}
          /\ p.held \cap Mutating # {} => p.held \ {"none"} # {}
          /\ p.route \in MemberRoutes => p.route # "bootstrap"
          /\ p.route \in WriterRoutes => p.route # "bootstrap"
      BY DEF p, Mutating, MemberRoutes, WriterRoutes
    <3>2. p.route = "bootstrap" \/ p.held \cap Mutating # {}
      BY DEF p
    <3> QED BY <2>5, <3>1, <3>2 DEF Admitted
  <2>9. WritesFit(r, q)
    BY <1>1, <2>5 DEF WritesFit
  <2>10. LifeFits(q)
    BY <1>1, <2>5 DEF Fits, LifeFits, Runs, p
  <2>11. Answered(q)
    BY <2>2, <2>5, <2>6 DEF Answered
  <2>12. Fits(r, q)
    BY <2>4, <2>7, <2>8, <2>9, <2>10, <2>11 DEF Fits
  <2>13. \A s \in Requests : s # r => ~SameNumber(q, req[s])
    BY <2>2, <2>5 DEF SameNumber, p
  <2> QED BY <2>2, <2>3, <2>5, <2>12, <2>13, QuietStep DEF p
<1> QED BY <1>2, <1>3

-----------------------------------------------------------------------------
(* The functions that only read, and those that stage.                     *)

\* The lists: one reading query, or one after an authorising query.
LEMMA ListsKeep ==
  ASSUME WorkspacesInv, NEW r \in Requests,
         \/ listAuthorizedWorkspaces(r) \/ listWorkspaceProjects(r) \/ listProjectFiles(r)
         \/ listFileShareLinks(r) \/ listComments(r)
  PROVE  WorkspacesInv'
<1>1. ASSUME listAuthorizedWorkspaces(r) PROVE WorkspacesInv'
  <2>1. At(r, "listWorkspaces", "act")
          => ReplyFits(req[r], 200, IF IsMember(r) THEN {Seed} ELSE {})
    BY ListFits DEF At, SharedRoutes
  <2>2. (IF IsMember(r) THEN {Seed} ELSE {}) \in SUBSET Shown
    BY DEF Shown, Ids
  <2> QED BY <1>1, <2>1, <2>2, ReadingKeeps DEF listAuthorizedWorkspaces
<1>2. ASSUME listWorkspaceProjects(r) PROVE WorkspacesInv'
  <2>1. ASSUME Checking(r, "listProjects", <<"workspace">>) PROVE WorkspacesInv'
    <3>1. At(r, "listProjects", "check") => <<"workspace">> = Checks(req[r])
      BY DEF At, Checks, ChecksOf
    <3> QED BY <2>1, <3>1, CheckingKeeps DEF SharedRoutes
  <2>2. At(r, "listProjects", "act")
          => ReplyFits(req[r], 200, IF IsMember(r) THEN DOMAIN projects ELSE {})
    BY ListFits DEF At, SharedRoutes
  <2>3. (IF IsMember(r) THEN DOMAIN projects ELSE {}) \in SUBSET Shown
    BY RowsShown DEF Shown
  <2> QED BY <1>2, <2>1, <2>2, <2>3, ReadingKeeps DEF listWorkspaceProjects
<1>3. ASSUME listProjectFiles(r) PROVE WorkspacesInv'
  <2> DEFINE found == {f \in DOMAIN files : IsMember(r) /\ files[f].project = req[r].project}
  <2>1. ASSUME Checking(r, "listFiles", <<"workspace", "project">>) PROVE WorkspacesInv'
    <3>1. At(r, "listFiles", "check") => <<"workspace", "project">> = Checks(req[r])
      BY DEF At, Checks, ChecksOf
    <3> QED BY <2>1, <3>1, CheckingKeeps DEF SharedRoutes
  <2>2. At(r, "listFiles", "act") => ReplyFits(req[r], 200, found)
    BY ListFits DEF At, SharedRoutes
  <2>3. found \in SUBSET Shown
    BY RowsShown DEF Shown
  <2>4. Reading(r, "listFiles", found) => WorkspacesInv'
    BY <2>2, <2>3, ReadingKeeps
  <2> QED BY <1>3, <2>1, <2>4 DEF listProjectFiles
<1>4. ASSUME listFileShareLinks(r) PROVE WorkspacesInv'
  <2> DEFINE found == {l \in DOMAIN links : links[l].file = req[r].file}
  <2>1. ASSUME Checking(r, "listLinks", <<"writer", "file">>) PROVE WorkspacesInv'
    <3>1. At(r, "listLinks", "check") => <<"writer", "file">> = Checks(req[r])
      BY DEF At, Checks, ChecksOf
    <3> QED BY <2>1, <3>1, CheckingKeeps DEF SharedRoutes
  <2>2. At(r, "listLinks", "act") => ReplyFits(req[r], 200, found)
    BY ListFits DEF At, SharedRoutes
  <2>3. found \in SUBSET Shown
    BY RowsShown DEF Shown
  <2>4. Reading(r, "listLinks", found) => WorkspacesInv'
    BY <2>2, <2>3, ReadingKeeps
  <2> QED BY <1>4, <2>1, <2>4 DEF listFileShareLinks
<1>5. ASSUME listComments(r) PROVE WorkspacesInv'
  <2> DEFINE found(includeResolved) ==
        {c \in DOMAIN comments :
           /\ comments[c].file = req[r].file
           /\ includeResolved \/ comments[c].resolved = Nil
           /\ req[r].page = Nil \/ comments[c].page \in {Nil, req[r].page}}
  <2>1. ASSUME Checking(r, "listComments", Scope(r, <<"file">>)) PROVE WorkspacesInv'
    <3>1. At(r, "listComments", "check") => Scope(r, <<"file">>) = Checks(req[r])
      BY DEF At, Scope, Scoped, Checks, ChecksOf
    <3> QED BY <2>1, <3>1, CheckingKeeps DEF SharedRoutes
  <2>2. ASSUME NEW includeResolved \in BOOLEAN, Reading(r, "listComments", found(includeResolved))
        PROVE  WorkspacesInv'
    <3>1. At(r, "listComments", "act") => ReplyFits(req[r], 200, found(includeResolved))
      BY ListFits DEF At, SharedRoutes
    <3>2. found(includeResolved) \in SUBSET Shown
      BY RowsShown DEF Shown
    <3> QED BY <2>2, <3>1, <3>2, ReadingKeeps
  <2> QED BY <1>5, <2>1, <2>2 DEF listComments
<1> QED BY <1>1, <1>2, <1>3, <1>4, <1>5

\* Opening a file shows its pages, of which there is one.
LEMMA OpenFileKeeps ==
  ASSUME WorkspacesInv, NEW r \in Requests, getFileOpenDetails(r)
  PROVE  WorkspacesInv'
<1>1. ASSUME Checking(r, "openFile", <<"workspace", "project", "file">>) PROVE WorkspacesInv'
  <2>1. At(r, "openFile", "check") => <<"workspace", "project", "file">> = Checks(req[r])
    BY DEF At, Checks, ChecksOf
  <2> QED BY <1>1, <2>1, CheckingKeeps DEF SharedRoutes
<1>2. ASSUME Reading(r, "openFile", PagesOf(req[r].file)) PROVE WorkspacesInv'
  <2>1. req[r].at = "act" /\ req[r].route = "openFile"
    BY <1>2 DEF Reading, At
  <2>2. StillFound(req[r], "file")
    <3>1. Checks(req[r]) = <<"workspace", "project", "file">>
      BY <2>1 DEF Checks, ChecksOf
    <3> QED BY <2>1, <3>1, ActFacts
  <2>3. workspace # "deleted" => PagesOf(req[r].file) # {}
    BY <2>2, FileHasPages DEF StillFound
  <2>4. ReplyFits(req[r], 200, PagesOf(req[r].file))
    BY <2>1, <2>3, ActFacts DEF ReplyFits, SharedRoutes
  <2>5. PagesOf(req[r].file) \in SUBSET Shown
    BY RowsShown DEF Shown, PagesOf
  <2> QED BY <1>2, <2>4, <2>5, ReadingKeeps
<1> QED BY <1>1, <1>2 DEF getFileOpenDetails

\* The launchpad reads the projects, then their files with the number of pages.
LEMMA LaunchpadKeeps ==
  ASSUME WorkspacesInv, NEW r \in Requests, getWorkspaceLaunchpad(r)
  PROVE  WorkspacesInv'
<1>1. ASSUME Checking(r, "launchpad", <<"workspace">>) PROVE WorkspacesInv'
  <2>1. At(r, "launchpad", "check") => <<"workspace">> = Checks(req[r])
    BY DEF At, Checks, ChecksOf
  <2> QED BY <1>1, <2>1, CheckingKeeps DEF SharedRoutes
<1>2. ASSUME At(r, "launchpad", "act"), UNCHANGED tables,
             req' = [req EXCEPT ![r].at = "files",
                                ![r].body = IF IsMember(r) THEN DOMAIN projects ELSE {}]
      PROVE  WorkspacesInv'
  <2> DEFINE p == req[r]
             at == "files"
             body == IF IsMember(r) THEN DOMAIN projects ELSE {}
             q == [p EXCEPT !.at = at, !.body = body]
  <2>1. p.route = "launchpad" /\ p.at = "act" /\ Runs(p) /\ p \in RequestType
    BY <1>2, Running DEF At, Runs
  <2>2. at \in States /\ body \in SUBSET Shown
    BY RowsShown DEF States, Shown
  <2>3. req' = [req EXCEPT ![r] = q]
    BY <1>2
  <2> HIDE DEF p, body
  <2>4. /\ q \in RequestType /\ Same(q, p) /\ q.at = "files" /\ q.rows = p.rows
        /\ q.route = p.route /\ q.page = p.page
    BY <2>1, <2>2 DEF RequestType, Same
  <2> HIDE DEF q
  <2>5. Becomes(r, q)
    BY <2>3, <2>4, RequestChanges DEF WorkspacesInv
  <2>6. p.rows = NoRows
    BY <2>1, ActFacts DEF p
  <2>7. Checked(q)
    <3>1. \A i \in 1 .. Len(Checks(p)) : StillFound(p, Checks(p)[i])
      BY <2>1, ActFacts DEF p
    <3>2. Checks(q) = <<"workspace">>
      BY <2>1, <2>4 DEF Checks, ChecksOf
    <3>3. \A i \in 1 .. Len(Checks(q)) : Checks(q)[i] = "workspace"
      BY <3>2
    <3>4. StillFound(q, "workspace")
      BY DEF StillFound
    <3> QED BY <2>4, <3>3, <3>4 DEF Checked
  <2>8. Admitted(q)
    <3>1. p.held \ {"none"} # {} /\ q.held = p.held /\ q.route \notin WriterRoutes
      BY <2>1, <2>4, ActFacts DEF p, MemberRoutes, WriterRoutes, Same
    <3> QED BY <2>4, <3>1 DEF Admitted
  <2>9. OrderFits(q) /\ LinkFits(q)
    BY <2>1, <2>4 DEF OrderFits, LinkFits, SharedRoutes
  <2> QED BY <1>2, <2>1, <2>4, <2>5, <2>6, <2>7, <2>8, <2>9, QuietMove DEF p
<1>3. ASSUME At(r, "launchpad", "files"), UNCHANGED tables,
             Answer(r, 200, {<<f, Cardinality(PagesOf(f))>> :
                               f \in {f \in DOMAIN files : /\ IsMember(r)
                                                           /\ files[f].project \in req[r].body}})
      PROVE  WorkspacesInv'
  <2> DEFINE seen == {f \in DOMAIN files : IsMember(r) /\ files[f].project \in req[r].body}
             body == {<<f, Cardinality(PagesOf(f))>> : f \in seen}
  <2>1. req[r].route = "launchpad" /\ req[r].at = "files" /\ Runs(req[r])
    BY <1>3 DEF At, Runs
  <2>2. \A f \in seen : /\ f \in Ids
                        /\ Cardinality(PagesOf(f)) \in Nat /\ Cardinality(PagesOf(f)) > 0
    BY RowsShown, FileHasPages
  <2> HIDE DEF seen
  <2>3. body \in SUBSET Shown /\ \A shown \in body : shown[2] > 0
    BY <2>2 DEF Shown
  <2> HIDE DEF body
  <2>4. ReplyFits(req[r], 200, body)
    BY <2>1, <2>3, ActFacts DEF ReplyFits, SharedRoutes
  <2>5. Answer(r, 200, body)
    BY <1>3 DEF body, seen
  <2> QED BY <1>3, <2>1, <2>3, <2>4, <2>5, QuietAnswer
<1> QED BY <1>1, <1>2, <1>3 DEF getWorkspaceLaunchpad

\* A collaboration session is for a member, a writing one for a writer.
LEMMA CollabSessionKeeps ==
  ASSUME WorkspacesInv, NEW r \in Requests, getAuthorizedCollabPageSession(r)
  PROVE  WorkspacesInv'
<1> DEFINE body == {IF IsWriter(r) THEN "write" ELSE "read"}
<1>1. /\ req[r].route = "collabSession" /\ req[r].at = "act" /\ UNCHANGED tables /\ Runs(req[r])
      /\ Answer(r, 200, body) \/ Answer(r, 404, {})
  BY DEF getAuthorizedCollabPageSession, At, Runs
<1>2. body \in SUBSET Shown
  BY DEF Shown
<1>3. ReplyFits(req[r], 200, body)
  <2>1. body = {"write"} => IsWriter(r)
    OBVIOUS
  <2>2. IsWriter(r) => req[r].held \cap Mutating # {}
    BY <1>1, ActFacts DEF IsWriter, CanMutate, Mutating
  <2>3. req[r].held \ {"none"} # {} /\ req[r].route \notin WriterRoutes
    BY <1>1, ActFacts DEF MemberRoutes, WriterRoutes
  <2> HIDE DEF body
  <2> QED BY <1>1, <2>1, <2>2, <2>3 DEF ReplyFits, SharedRoutes
<1> HIDE DEF body
<1> QED BY <1>1, <1>2, <1>3, QuietAnswer, Refusal

\* What a link opens.
LEMMA SharedKeeps ==
  ASSUME WorkspacesInv, NEW r \in Requests,
         \/ getShareLinkAccessRow(r) \/ getSharedFileOpenDetails(r)
         \/ getSharedCollabPageSession(r)
  PROVE  WorkspacesInv'
<1>1. ASSUME getShareLinkAccessRow(r) PROVE WorkspacesInv'
  <2> DEFINE p == req[r]
             file == links[p.row].file
             at == "act"
             q == [p EXCEPT !.at = at, !.file = file]
  <2>1. /\ p.at = "route" /\ p.route \in SharedRoutes /\ UNCHANGED tables /\ Runs(p)
        /\ p \in RequestType /\ Fits(r, p)
    BY <1>1, Running DEF getShareLinkAccessRow, Runs
  <2>2. ASSUME ~Live(p.row) PROVE WorkspacesInv'
    <3>1. Answer(r, 404, {})
      BY <1>1, <2>2 DEF getShareLinkAccessRow
    <3> QED BY <2>1, <3>1, Refusal
  <2>3. ASSUME Live(p.row) PROVE WorkspacesInv'
    <3>1. req' = [req EXCEPT ![r] = q]
      BY <1>1, <2>3 DEF getShareLinkAccessRow
    <3>2. p.row \in DOMAIN links /\ links[p.row].revoked = Nil /\ file \in DOMAIN files
      BY <2>3 DEF Live, WorkspacesInv, RowsFit
    <3>3. p.row # Nil /\ file \in Ids /\ at \in States
      BY <3>2, RowsShown, NilAssumption DEF Ids, States
    <3>4. workspace = "live"
      BY <3>2 DEF WorkspacesInv, RowsFit
    <3> HIDE DEF p, file
    <3>5. /\ q \in RequestType /\ Same(q, p) /\ q.at = "act" /\ q.rows = p.rows
          /\ q.route = p.route /\ q.page = p.page /\ q.body = p.body /\ q.file = file
          /\ q.live = p.live
      BY <2>1, <3>3 DEF RequestType, Same
    <3> HIDE DEF q
    <3>6. Becomes(r, q)
      BY <3>1, <3>5, RequestChanges DEF WorkspacesInv
    <3>7. p.rows = NoRows /\ p.body = {}
      BY <2>1 DEF Fits, WritesFit, Answered
    <3>8. p.live
      BY <2>1, <3>2, <3>3, <3>4 DEF Fits, LinkFits
    <3>9. LinkFits(q)
      BY <3>2, <3>5, <3>8 DEF LinkFits
    <3>10. Checked(q)
      <4>1. Checks(q) = <<>>
        BY <2>1, <3>5 DEF Checks, ChecksOf, SharedRoutes
      <4> QED BY <3>5, <4>1 DEF Checked
    <3>11. Admitted(q) /\ OrderFits(q)
      BY <2>1, <3>5 DEF Admitted, OrderFits, SharedRoutes, MemberRoutes, WriterRoutes
    <3> QED BY <2>1, <3>5, <3>6, <3>7, <3>9, <3>10, <3>11, QuietMove DEF p
  <2> QED BY <2>2, <2>3
<1>2. ASSUME getSharedFileOpenDetails(r) PROVE WorkspacesInv'
  <2>1. /\ req[r].route = "openShared" /\ req[r].at = "act" /\ UNCHANGED tables /\ Runs(req[r])
        /\ Answer(r, 200, PagesOf(req[r].file)) \/ Answer(r, 404, {})
    BY <1>2 DEF getSharedFileOpenDetails, At, Runs
  <2>2. req[r].live /\ (workspace # "deleted" => req[r].file \in DOMAIN files)
    BY <2>1, Running DEF Fits, LinkFits, SharedRoutes
  <2>3. workspace # "deleted" => PagesOf(req[r].file) # {}
    BY <2>2, FileHasPages
  <2>4. PagesOf(req[r].file) \in SUBSET Shown
    BY RowsShown DEF Shown, PagesOf
  <2>5. ReplyFits(req[r], 200, PagesOf(req[r].file))
    BY <2>1, <2>2, <2>3 DEF ReplyFits, MemberRoutes, WriterRoutes
  <2> QED BY <2>1, <2>4, <2>5, QuietAnswer, Refusal
<1>3. ASSUME getSharedCollabPageSession(r) PROVE WorkspacesInv'
  <2>1. /\ req[r].route = "sharedSession" /\ req[r].at = "act" /\ UNCHANGED tables /\ Runs(req[r])
        /\ Answer(r, 200, {"read"}) \/ Answer(r, 404, {})
    BY <1>3 DEF getSharedCollabPageSession, At, Runs
  <2>2. req[r].live
    BY <2>1, Running DEF Fits, LinkFits, SharedRoutes
  <2>3. {"read"} \in SUBSET Shown
    BY DEF Shown
  <2>4. ReplyFits(req[r], 200, {"read"})
    BY <2>1, <2>2 DEF ReplyFits, MemberRoutes, WriterRoutes
  <2> QED BY <2>1, <2>3, <2>4, QuietAnswer, Refusal
<1> QED BY <1>1, <1>2, <1>3

\* A request for a writer that is past its checks; its file or project is
\* there, or the workspace is gone.
LEMMA WriterFound ==
  ASSUME WorkspacesInv, NEW r \in Requests, req[r].at \in {"act", "insert"}
  PROVE  /\ req[r].route \in {"createProject", "createFile", "createPage", "createComment",
                              "resolveComment", "createLink", "revokeLink"}
              => req[r].held \cap Mutating # {}
         /\ req[r].route = "createFile" /\ workspace # "deleted"
              => req[r].project \in DOMAIN projects
         /\ req[r].route \in {"createPage", "createLink", "createComment"}
              /\ workspace # "deleted" => req[r].file \in DOMAIN files
<1> DEFINE p == req[r]
<1>1. \A i \in 1 .. Len(Checks(p)) : StillFound(p, Checks(p)[i])
  BY ActFacts
<1>2. p.route \in WriterRoutes => p.held \cap Mutating # {}
  BY ActFacts
<1> HIDE DEF p
<1>3. ASSUME p.route \in {"createPage", "createLink"}
      PROVE  StillFound(p, "writer") /\ StillFound(p, "file")
  <2>1. Checks(p) = <<"writer", "file">>
    BY <1>3 DEF Checks, ChecksOf
  <2> QED BY <1>1, <2>1
<1>4. ASSUME p.route = "createFile" PROVE StillFound(p, "project")
  <2>1. Checks(p) = <<"writer", "project">>
    BY <1>4 DEF Checks, ChecksOf
  <2> QED BY <1>1, <2>1
<1>5. ASSUME p.route = "createComment" PROVE StillFound(p, "file")
  <2>1. Checks(p) = <<"writer", "file">> \/ Checks(p) = Append(<<"writer", "file">>, "page")
    BY <1>5 DEF Checks, ChecksOf, Scoped
  <2>2. Len(Checks(p)) \in {2, 3} /\ Checks(p)[2] = "file"
    <3> DEFINE two == <<"writer", "file">>
               three == Append(two, "page")
    <3>1. Len(two) = 2 /\ two[2] = "file"
      OBVIOUS
    <3>2. Len(three) = 3 /\ three[2] = "file"
      OBVIOUS
    <3> HIDE DEF two, three
    <3>3. Checks(p) \in {two, three}
      BY <2>1 DEF two, three
    <3> QED BY <3>1, <3>2, <3>3
  <2> QED BY <1>1, <2>2
<1>6. p.route \in {"createProject", "createFile", "createComment", "resolveComment",
                   "createLink", "revokeLink"} => p.held \cap Mutating # {}
  BY <1>2 DEF WriterRoutes
<1> QED BY <1>3, <1>4, <1>5, <1>6 DEF StillFound, p

\* A new project: the workspace is its parent.
LEMMA StagedProjectKeeps ==
  ASSUME WorkspacesInv, NEW r \in Requests, createProject(r)
  PROVE  WorkspacesInv'
<1>1. ASSUME Checking(r, "createProject", <<"writer">>) PROVE WorkspacesInv'
  <2>1. At(r, "createProject", "check") => <<"writer">> = Checks(req[r])
    BY DEF At, Checks, ChecksOf
  <2> QED BY <1>1, <2>1, CheckingKeeps DEF SharedRoutes
<1>2. ASSUME At(r, "createProject", "act"), UNCHANGED tables,
             Stage(r, workspace = "live", [NoRows EXCEPT !.projects = OneRow(r, r)])
      PROVE  WorkspacesInv'
  <2> DEFINE rows == [NoRows EXCEPT !.projects = OneRow(r, r)]
  <2>1. req[r].route = "createProject" /\ req[r].at = "act" /\ Runs(req[r])
    BY <1>2 DEF At, Runs
  <2>2. rows \in Staging
    <3>1. OneRow(r, r) \in Tables(Ids, Ids)
      BY OneRowTable DEF Ids
    <3> QED BY <3>1, NoRowsStaged DEF Staging
  <2>3. workspace \in {"live", "deleted"}
    BY <2>1, Running DEF WorkspacesInv, TablesOK
  <2>4. workspace # "live" => ReplyFits(req[r], 500, {})
    BY <2>1, <2>3 DEF ReplyFits
  <2>5. workspace = "live" => \A q : StagedAs(q, req[r], rows) => StagedFits(r, q) /\ OrderFits(q)
    BY <2>1 DEF StagedAs, StagedFits, OrderFits
  <2>6. req[r].held \cap Mutating # {}
    BY <2>1, WriterFound
  <2> HIDE DEF rows
  <2>7. Stage(r, workspace = "live", rows)
    BY <1>2 DEF rows
  <2> QED BY <1>2, <2>1, <2>2, <2>4, <2>5, <2>6, <2>7, StageKeeps
<1> QED BY <1>1, <1>2 DEF createProject

\* The first page of a file.
LEMMA SeedPagesTable ==
  ASSUME NEW f \in Ids
  PROVE  /\ SeedPages(f) \in Tables(PageIds, PageRow) /\ DOMAIN SeedPages(f) = {<<f, 1>>}
         /\ SeedPages(f)[<<f, 1>>] = [file |-> f, order |-> 0, name |-> f]
<1> DEFINE row == [file |-> f, order |-> 0, name |-> f]
<1>1. <<f, 1>> \in PageIds /\ row \in PageRow
  BY DEF PageIds, PageRow
<1>2. SeedPages(f) = OneRow(<<f, 1>>, row)
  BY DEF SeedPages
<1> HIDE DEF row
<1>3. /\ OneRow(<<f, 1>>, row) \in Tables(PageIds, PageRow)
      /\ DOMAIN OneRow(<<f, 1>>, row) = {<<f, 1>>} /\ OneRow(<<f, 1>>, row)[<<f, 1>>] = row
  BY <1>1, OneRowTable
<1> QED BY <1>2, <1>3 DEF row

\* A new file with its first page.
LEMMA StagedFileKeeps ==
  ASSUME WorkspacesInv, NEW r \in Requests, createFileWithPages(r)
  PROVE  WorkspacesInv'
<1>1. ASSUME Checking(r, "createFile", <<"writer", "project">>) PROVE WorkspacesInv'
  <2>1. At(r, "createFile", "check") => <<"writer", "project">> = Checks(req[r])
    BY DEF At, Checks, ChecksOf
  <2> QED BY <1>1, <2>1, CheckingKeeps DEF SharedRoutes
<1>2. ASSUME At(r, "createFile", "act"), UNCHANGED tables,
             Stage(r, req[r].project \in DOMAIN projects,
                   [NoRows EXCEPT !.files = NewFile(r), !.pages = SeedPages(r)])
      PROVE  WorkspacesInv'
  <2> DEFINE rows == [NoRows EXCEPT !.files = NewFile(r), !.pages = SeedPages(r)]
  <2>1. req[r].route = "createFile" /\ req[r].at = "act" /\ Runs(req[r])
    BY <1>2 DEF At, Runs
  <2>2. ASSUME req[r].project \in DOMAIN projects PROVE WorkspacesInv'
    <3>1. req[r].project \in Ids /\ r \in Ids
      BY <2>2, RowsShown DEF Ids
    <3>2. rows \in Staging
      <4>1. NewFile(r) \in Tables(Ids, FileRow)
        BY <3>1, OneRowTable DEF NewFile, FileRow
      <4>2. SeedPages(r) \in Tables(PageIds, PageRow)
        BY <3>1, SeedPagesTable
      <4> QED BY <4>1, <4>2, NoRowsStaged DEF Staging
    <3>3. \A q : StagedAs(q, req[r], rows) => StagedFits(r, q) /\ OrderFits(q)
      BY <2>1, <2>2 DEF StagedAs, StagedFits, OrderFits, NewFile
    <3> HIDE DEF rows
    <3>4. Stage(r, TRUE, rows)
      BY <1>2, <2>2 DEF rows, Stage
    <3> QED BY <1>2, <2>1, <3>2, <3>3, <3>4, WriterFound, StageKeeps
  <2>3. ASSUME req[r].project \notin DOMAIN projects PROVE WorkspacesInv'
    <3>1. Answer(r, 500, {})
      BY <1>2, <2>3 DEF Stage
    <3>2. ReplyFits(req[r], 500, {})
      BY <2>1, <2>3, WriterFound DEF ReplyFits
    <3> QED BY <1>2, <2>1, <3>1, <3>2, QuietAnswer
  <2> QED BY <2>2, <2>3
<1> QED BY <1>1, <1>2 DEF createFileWithPages

\* A new link to a file that was found.
LEMMA StagedLinkKeeps ==
  ASSUME WorkspacesInv, NEW r \in Requests, createFileShareLink(r)
  PROVE  WorkspacesInv'
<1>1. ASSUME Checking(r, "createLink", <<"writer", "file">>) PROVE WorkspacesInv'
  <2>1. At(r, "createLink", "check") => <<"writer", "file">> = Checks(req[r])
    BY DEF At, Checks, ChecksOf
  <2> QED BY <1>1, <2>1, CheckingKeeps DEF SharedRoutes
<1>2. ASSUME At(r, "createLink", "act"), UNCHANGED tables,
             Stage(r, req[r].file \in DOMAIN files,
                   [NoRows EXCEPT !.links = OneRow(r, [file |-> req[r].file, revoked |-> Nil])])
      PROVE  WorkspacesInv'
  <2> DEFINE link == OneRow(r, [file |-> req[r].file, revoked |-> Nil])
             rows == [NoRows EXCEPT !.links = link]
  <2>1. req[r].route = "createLink" /\ req[r].at = "act" /\ Runs(req[r])
    BY <1>2 DEF At, Runs
  <2>2. ASSUME req[r].file \in DOMAIN files PROVE WorkspacesInv'
    <3>1. req[r].file \in Ids /\ r \in Ids
      BY <2>2, RowsShown DEF Ids
    <3>2. rows \in Staging
      <4>1. link \in Tables(Ids, LinkRow)
        BY <3>1, OneRowTable DEF LinkRow
      <4> QED BY <4>1, NoRowsStaged DEF Staging
    <3>3. \A q : StagedAs(q, req[r], rows) => StagedFits(r, q) /\ OrderFits(q)
      BY <2>1, <2>2 DEF StagedAs, StagedFits, OrderFits
    <3> HIDE DEF rows
    <3>4. Stage(r, TRUE, rows)
      BY <1>2, <2>2 DEF rows, Stage
    <3> QED BY <1>2, <2>1, <3>2, <3>3, <3>4, WriterFound, StageKeeps
  <2>3. ASSUME req[r].file \notin DOMAIN files PROVE WorkspacesInv'
    <3>1. Answer(r, 500, {})
      BY <1>2, <2>3 DEF Stage
    <3>2. ReplyFits(req[r], 500, {})
      BY <2>1, <2>3, WriterFound DEF ReplyFits
    <3> QED BY <1>2, <2>1, <3>1, <3>2, QuietAnswer
  <2> QED BY <2>2, <2>3
<1> QED BY <1>1, <1>2 DEF createFileShareLink

\* The smoke fixture makes the workspace's first rows.
LEMMA StagedFixtureKeeps ==
  ASSUME WorkspacesInv, NEW r \in Requests, createSmokeCollabFixture(r)
  PROVE  WorkspacesInv'
<1> DEFINE rows == [NoRows EXCEPT !.projects = SeedProjects, !.files = SeedFiles(Seed),
                                  !.pages = SeedPages(Seed)]
<1>1. /\ req[r].route = "bootstrap" /\ req[r].at = "route" /\ UNCHANGED tables /\ Runs(req[r])
      /\ Stage(r, TRUE, rows)
  BY DEF createSmokeCollabFixture, At, Runs
<1>2. workspace = "unborn"
  BY <1>1, Running
<1>3. rows \in Staging
  <2>1. Seed \in Ids
    BY DEF Ids
  <2>2. SeedProjects \in Tables(Ids, Ids) /\ SeedFiles(Seed) \in Tables(Ids, FileRow)
    BY <2>1, OneRowTable DEF SeedProjects, SeedFiles, FileRow
  <2>3. SeedPages(Seed) \in Tables(PageIds, PageRow)
    BY <2>1, SeedPagesTable
  <2> QED BY <2>2, <2>3, NoRowsStaged DEF Staging
<1>4. \A q : StagedAs(q, req[r], rows) => StagedFits(r, q) /\ OrderFits(q)
  BY <1>1, <1>2 DEF StagedAs, StagedFits, OrderFits
<1> HIDE DEF rows
<1> QED BY <1>1, <1>3, <1>4, StageKeeps

-----------------------------------------------------------------------------
(* The number of a new page.                                               *)

\* The greatest number below n.
LEMMA MaxOfInterval ==
  ASSUME NEW n \in Nat, n # 0
  PROVE  Max(0 .. n - 1) = n - 1
<1>1. n - 1 \in 0 .. n - 1 /\ \A y \in 0 .. n - 1 : n - 1 >= y
  OBVIOUS
<1>2. \A x \in 0 .. n - 1 : (\A y \in 0 .. n - 1 : x >= y) => x = n - 1
  BY <1>1
<1> QED BY <1>1, <1>2, Zenon DEF Max

\* All smaller numbers are taken, and the next one is what comes after them.
LEMMA NextOrderFits ==
  ASSUME WorkspacesInv, NEW f, f \in DOMAIN files \/ Orders(f) = {}
  PROVE  NextOrder(f) \in Nat /\ 0 .. NextOrder(f) - 1 \subseteq Orders(f)
<1>1. CASE Orders(f) = {}
  <2>1. NextOrder(f) = 0
    BY <1>1 DEF NextOrder
  <2> QED BY <2>1
<1>2. CASE f \in DOMAIN files
  <2>1. PICK n \in Nat : Numbered(f, n)
    BY <1>2 DEF WorkspacesInv, NumberedFiles
  <2>2. n # 0 /\ Orders(f) = 0 .. n - 1
    BY <2>1 DEF Numbered
  <2>3. Max(Orders(f)) = n - 1 /\ Orders(f) # {}
    BY <2>2, MaxOfInterval
  <2>4. NextOrder(f) = n
    BY <2>3 DEF NextOrder
  <2> QED BY <2>2, <2>4
<1> QED BY <1>1, <1>2

\* A number with all smaller ones below it, and not among them, is the next.
LEMMA FreeOrderIsNext ==
  ASSUME WorkspacesInv, NEW f \in DOMAIN files, NEW order \in Nat, order \notin Orders(f),
         0 .. order - 1 \subseteq Orders(f)
  PROVE  Numbered(f, order)
<1>1. PICK n \in Nat : Numbered(f, n)
  BY DEF WorkspacesInv, NumberedFiles
<1>2. Orders(f) = 0 .. n - 1 /\ n # 0
  BY <1>1 DEF Numbered
<1>3. order >= n
  BY <1>2
<1>4. order <= n
  BY <1>2
<1>5. order = n
  BY <1>3, <1>4
<1> QED BY <1>1, <1>5

\* There are no pages of what is not a file.
LEMMA NoFileNoOrders ==
  ASSUME WorkspacesInv, NEW f, f \notin DOMAIN files
  PROVE  PagesOf(f) = {} /\ Orders(f) = {}
BY DEF WorkspacesInv, RowsFit, PagesOf, Orders

\* A new page: the number is read in one statement, the row inserted in
\* the next, where a committed page with the number makes it an error.
LEMMA StagedPageKeeps ==
  ASSUME WorkspacesInv, NEW r \in Requests, createPage(r)
  PROVE  WorkspacesInv'
<1> DEFINE p == req[r]
<1>1. ASSUME Checking(r, "createPage", <<"writer", "file">>) PROVE WorkspacesInv'
  <2>1. At(r, "createPage", "check") => <<"writer", "file">> = Checks(req[r])
    BY DEF At, Checks, ChecksOf
  <2> QED BY <1>1, <2>1, CheckingKeeps DEF SharedRoutes
<1>2. ASSUME At(r, "createPage", "act"), UNCHANGED tables,
             req' = [req EXCEPT ![r].at = "insert", ![r].order = NextOrder(req[r].file)]
      PROVE  WorkspacesInv'
  <2> DEFINE at == "insert"
             order == NextOrder(p.file)
             q == [p EXCEPT !.at = at, !.order = order]
  <2>1. p.route = "createPage" /\ p.at = "act" /\ Runs(p) /\ p \in RequestType /\ at \in States
    BY <1>2, Running DEF At, Runs, States
  <2>2. order \in Nat /\ 0 .. order - 1 \subseteq Orders(p.file)
    BY NextOrderFits, NoFileNoOrders
  <2>3. req' = [req EXCEPT ![r] = q]
    BY <1>2
  <2> HIDE DEF p, order
  <2>4. /\ q \in RequestType /\ Same(q, p) /\ q.at = "insert" /\ q.rows = p.rows
        /\ q.route = p.route /\ q.page = p.page /\ q.file = p.file /\ q.order = order
        /\ q.body = p.body /\ q.held = p.held /\ q.project = p.project
    BY <2>1, <2>2 DEF RequestType, Same
  <2> HIDE DEF q
  <2>5. Becomes(r, q)
    BY <2>3, <2>4, RequestChanges DEF WorkspacesInv
  <2>6. p.rows = NoRows /\ p.body = {}
    BY <2>1, ActFacts, Running DEF p, Fits, Answered
  <2>7. Checked(q)
    <3>1. \A i \in 1 .. Len(Checks(p)) : StillFound(p, Checks(p)[i])
      BY <2>1, ActFacts DEF p
    <3>2. Checks(q) = Checks(p)
      BY <2>4, SameChecks
    <3>3. \A i \in 1 .. Len(Checks(q)) : StillFound(q, Checks(q)[i])
      BY <2>4, <3>1, <3>2 DEF StillFound
    <3> QED BY <2>4, <3>3 DEF Checked
  <2>8. Admitted(q)
    <3>1. p.held \ {"none"} # {} /\ p.held \cap Mutating # {} /\ q.route \notin WriterRoutes
      BY <2>1, <2>4, ActFacts, WriterFound DEF p, MemberRoutes, WriterRoutes
    <3> QED BY <2>4, <3>1 DEF Admitted
  <2>9. OrderFits(q) /\ LinkFits(q)
    BY <2>1, <2>2, <2>4 DEF OrderFits, LinkFits, SharedRoutes
  <2> QED BY <1>2, <2>1, <2>4, <2>5, <2>6, <2>7, <2>8, <2>9, QuietMove DEF p
<1>3. ASSUME At(r, "createPage", "insert"), UNCHANGED tables,
             ~\E s \in Requests : \E g \in DOMAIN req[s].rows.pages :
                req[s].rows.pages[g].file = p.file /\ req[s].rows.pages[g].order = p.order,
             Stage(r, p.file \in DOMAIN files /\ p.order \notin Orders(p.file),
                   [NoRows EXCEPT !.pages =
                      OneRow(<<r, 1>>, [file |-> p.file, order |-> p.order, name |-> r])])
      PROVE  WorkspacesInv'
  <2> DEFINE row == [file |-> p.file, order |-> p.order, name |-> r]
             page == OneRow(<<r, 1>>, row)
             rows == [NoRows EXCEPT !.pages = page]
             parent == p.file \in DOMAIN files /\ p.order \notin Orders(p.file)
  <2>1. /\ p.route = "createPage" /\ p.at = "insert" /\ Runs(p) /\ p \in RequestType
        /\ Fits(r, p) /\ p.held \cap Mutating # {}
    BY <1>3, Running, WriterFound DEF At, Runs
  <2>2. p.order \in Nat
    BY <2>1 DEF RequestType
  <2>3. ASSUME parent PROVE WorkspacesInv'
    <3>1. rows \in Staging
      <4>1. p.file \in Ids /\ r \in Ids /\ <<r, 1>> \in PageIds
        BY <2>3, RowsShown DEF Ids, PageIds
      <4>2. row \in PageRow
        BY <2>2, <4>1 DEF PageRow
      <4> HIDE DEF row
      <4>3. page \in Tables(PageIds, PageRow)
        BY <4>1, <4>2, OneRowTable
      <4> QED BY <4>3, NoRowsStaged DEF Staging
    <3>2. workspace # "deleted"
      BY <2>3 DEF WorkspacesInv, RowsFit
    <3>3. 0 .. p.order - 1 \subseteq Orders(p.file)
      BY <2>1, <3>2 DEF Fits, OrderFits
    <3>4. \A q : StagedAs(q, p, rows) => StagedFits(r, q) /\ OrderFits(q)
      BY <2>1, <2>3, <3>3 DEF StagedAs, StagedFits, OrderFits
    <3>5. \A q : StagedAs(q, p, rows) => \A s \in Requests : s # r => ~SameNumber(q, req[s])
      <4>1. SUFFICES ASSUME NEW s \in Requests, req[s].at = "staged",
                            req[s].route = "createPage", req[s].file = p.file,
                            req[s].order = p.order
                     PROVE  FALSE
        BY DEF StagedAs, SameNumber
      <4> DEFINE that == OneRow(<<s, 1>>, [file |-> p.file, order |-> p.order, name |-> s])
      <4>2. StagedFits(s, req[s])
        BY Running DEF Fits
      <4>3. req[s].rows = [NoRows EXCEPT !.pages = that]
        BY <4>1, <4>2 DEF StagedFits
      <4>4. req[s].rows.pages = that
        BY <4>3 DEF NoRows
      <4>5. <<s, 1>> \in DOMAIN that /\ that[<<s, 1>>].file = p.file
            /\ that[<<s, 1>>].order = p.order
        BY DEF OneRow
      <4> HIDE DEF that
      <4> QED BY <1>3, <4>4, <4>5
    <3> HIDE DEF rows
    <3>6. Stage(r, TRUE, rows)
      BY <1>3, <2>3 DEF rows, Stage
    <3> QED BY <1>3, <2>1, <3>1, <3>4, <3>5, <3>6, StageKeeps
  <2>4. ASSUME ~parent PROVE WorkspacesInv'
    <3>1. Answer(r, 500, {})
      BY <1>3, <2>4 DEF Stage
    <3>2. workspace = "deleted" \/ \E g \in DOMAIN pages : pages[g].order = p.order
      <4>1. workspace # "deleted" => p.file \in DOMAIN files
        BY <2>1, WriterFound
      <4>2. workspace # "deleted" => p.order \in Orders(p.file)
        BY <2>4, <4>1
      <4> QED BY <4>2 DEF Orders, PagesOf
    <3>3. ReplyFits(p, 500, {})
      BY <2>1, <3>2 DEF ReplyFits
    <3>4. UNCHANGED tables /\ Runs(p)
      BY <1>3, <2>1
    <3> HIDE DEF p
    <3> QED BY <3>1, <3>3, <3>4, QuietAnswer DEF p
  <2> QED BY <2>3, <2>4
<1> QED BY <1>1, <1>2, <1>3 DEF createPage

-----------------------------------------------------------------------------
(* Steps that change the tables.                                           *)

\* Rows only come, and what the other requests have found stays.
Grows ==
  /\ DOMAIN projects \subseteq DOMAIN projects'
  /\ DOMAIN files \subseteq DOMAIN files'
  /\ \A g \in DOMAIN pages : /\ g \in DOMAIN pages'
                             /\ pages'[g].file = pages[g].file
                             /\ pages'[g].order = pages[g].order
  /\ \A l \in DOMAIN links : /\ l \in DOMAIN links'
                             /\ links[l].revoked # Nil => links'[l].revoked # Nil

\* Tables that grow keep every file's pages and numbers.
LEMMA PagesGrow ==
  ASSUME Grows, NEW f
  PROVE  PagesOf(f) \subseteq PagesOf(f)' /\ Orders(f) \subseteq Orders(f)'
<1>1. PagesOf(f) \subseteq PagesOf(f)'
  BY DEF Grows, PagesOf
<1>2. \A g \in PagesOf(f) : pages'[g].order = pages[g].order
  BY DEF Grows, PagesOf
<1> QED BY <1>1, <1>2 DEF Orders

\* What fits still fits when rows were added and none taken away.
LEMMA FitsGrows ==
  ASSUME NEW s, NEW q, Fits(s, q), Grows, Wrote(s)' => Wrote(s),
         q.at = "staged" /\ q.route = "createPage" /\ q.order \notin Orders(q.file)
           => q.order \notin Orders(q.file)',
         \/ UNCHANGED <<workspace, role>>
         \/ ~Runs(q) /\ workspace # "deleted" /\ workspace' # "deleted"
  PROVE  Fits(s, q)'
<1>1. PagesOf(q.file) \subseteq PagesOf(q.file)' /\ Orders(q.file) \subseteq Orders(q.file)'
  BY PagesGrow
<1>2. /\ DOMAIN projects \subseteq DOMAIN projects' /\ DOMAIN files \subseteq DOMAIN files'
      /\ \A g \in DOMAIN pages : g \in DOMAIN pages' /\ pages'[g].order = pages[g].order
      /\ \A l \in DOMAIN links : /\ l \in DOMAIN links'
                                 /\ links[l].revoked # Nil => links'[l].revoked # Nil
  BY DEF Grows
<1>3. CASE UNCHANGED <<workspace, role>>
  <2>1. Checked(q)'
    <3>1. \A check : StillFound(q, check) => StillFound(q, check)'
      BY <1>1, <1>2, <1>3 DEF StillFound
    <3> QED BY <3>1 DEF Fits, Checked
  <2>2. Admitted(q)'
    BY DEF Fits, Admitted
  <2>3. OrderFits(q)'
    BY <1>1, <1>3 DEF Fits, OrderFits
  <2>4. LinkFits(q)'
    BY <1>2, <1>3 DEF Fits, LinkFits
  <2>5. StagedFits(s, q)'
    BY <1>2, <1>3 DEF Fits, StagedFits
  <2>6. WritesFit(s, q)'
    BY DEF Fits, WritesFit
  <2>7. LifeFits(q)'
    BY <1>3 DEF Fits, LifeFits
  <2>8. Answered(q)'
    BY <1>2, <1>3 DEF Fits, Answered, ReplyFits
  <2> QED BY <2>1, <2>2, <2>3, <2>4, <2>5, <2>6, <2>7, <2>8 DEF Fits
<1>4. CASE ~Runs(q) /\ workspace # "deleted" /\ workspace' # "deleted"
  <2>1. q.at \in {"free", "done", "lost"}
    BY <1>4 DEF Runs
  <2>2. Checked(q)' /\ Admitted(q)' /\ OrderFits(q)' /\ LinkFits(q)' /\ StagedFits(s, q)'
    BY <2>1 DEF Checked, Admitted, OrderFits, LinkFits, StagedFits
  <2>3. WritesFit(s, q)' /\ LifeFits(q)'
    BY <2>1 DEF Fits, WritesFit, LifeFits, Runs
  <2>4. Answered(q)'
    BY <1>2, <1>4 DEF Fits, Answered, ReplyFits
  <2> QED BY <2>2, <2>3, <2>4 DEF Fits
<1> QED BY <1>3, <1>4

\* An answer with the change it makes.
LEMMA WritingAnswer ==
  ASSUME WorkspacesInv, NEW r \in Requests, Runs(req[r]), NEW code \in {200, 201},
         Answer(r, code, {}), req[r].route \notin SharedRoutes \cup {"openFile", "launchpad"},
         req[r].route \in MemberRoutes \cup WriterRoutes => req[r].held \cap Mutating # {},
         Wrote(r)' => req[r].held \cap Mutating # {},
         TablesOK', RowsFit', NumberedFiles',
         \A s \in Requests : s # r => Fits(s, req[s])'
  PROVE  WorkspacesInv'
<1>1. PICK q \in RequestType :
           /\ Becomes(r, q)
           /\ q.at = "done" /\ q.reply = code /\ q.body = {} /\ q.rows = NoRows
           /\ q.route = req[r].route /\ q.order = req[r].order /\ q.held = req[r].held
           /\ q.live = req[r].live
  BY AnswerEffect DEF WorkspacesInv
<1>2. q.route \in Routes /\ q.route # "none"
  BY <1>1, Running DEF Routes, SharedRoutes, MemberRoutes, WriterRoutes
<1>3. /\ Checked(q)' /\ Admitted(q)' /\ OrderFits(q)' /\ LinkFits(q)' /\ StagedFits(r, q)'
  BY <1>1 DEF Checked, Admitted, OrderFits, LinkFits, StagedFits
<1>4. WritesFit(r, q)' /\ LifeFits(q)'
  BY <1>1, <1>2 DEF WritesFit, LifeFits, Runs
<1>5. q.held \cap Mutating # {} => q.held \ {"none"} # {}
  BY DEF Mutating
<1>6. Answered(q)'
  BY <1>1, <1>5 DEF Answered, ReplyFits, SharedRoutes
<1>7. Fits(r, q)'
  BY <1>3, <1>4, <1>6 DEF Fits
<1>8. ~Runs(q) /\ q.at # "staged"
  BY <1>1 DEF Runs
<1>9. /\ req' \in [Requests -> RequestType]
      /\ \A s \in Requests : Fits(s, req[s])'
      /\ NumbersDiffer' /\ BootstrapAlone'
  BY <1>1, <1>7, <1>8, RequestsFit
<1> QED BY <1>9 DEF WorkspacesInv

\* The others after an answer that leaves the numbers of the pages.
LEMMA OthersGrow ==
  ASSUME WorkspacesInv, NEW r \in Requests, NEW code, Answer(r, code, {}), Grows,
         UNCHANGED <<workspace, role>>, \A s \in Requests : s # r /\ Wrote(s)' => Wrote(s),
         \A f : Orders(f)' = Orders(f)
  PROVE  \A s \in Requests : s # r => Fits(s, req[s])'
<1> SUFFICES ASSUME NEW s \in Requests, s # r PROVE Fits(s, req[s])'
  OBVIOUS
<1>1. req'[s] = req[s] /\ Fits(s, req[s])
  BY Running DEF Answer, WorkspacesInv
<1>2. \A q : q = req[s] => Fits(s, q)'
  BY <1>1, FitsGrows
<1> QED BY <1>1, <1>2, FitsBecomes

\* A writer's update, of a row it finds.
LEMMA RenameEffect ==
  ASSUME WorkspacesInv, NEW r \in Requests, NEW route, NEW found \in BOOLEAN,
         Rename(r, route, found)
  PROVE  /\ Runs(req[r]) /\ req[r].route = route
         /\ found /\ IsWriter(r) => Answer(r, 200, {}) /\ req[r].held \cap Mutating # {}
         /\ ~(found /\ IsWriter(r)) => Answer(r, 404, {})
<1>1. req[r].at = "act" /\ req[r].route = route
  BY DEF Rename, At
<1>2. IsWriter(r) => req[r].held \cap Mutating # {}
  BY <1>1, ActFacts DEF IsWriter, CanMutate, Mutating
<1> QED BY <1>1, <1>2 DEF Rename, Runs

\* The same pages with the same numbers.
LEMMA SamePages ==
  ASSUME DOMAIN pages' = DOMAIN pages,
         \A g \in DOMAIN pages : /\ pages'[g].file = pages[g].file
                                 /\ pages'[g].order = pages[g].order
  PROVE  \A f : PagesOf(f)' = PagesOf(f) /\ Orders(f)' = Orders(f)
<1> SUFFICES ASSUME NEW f PROVE PagesOf(f)' = PagesOf(f) /\ Orders(f)' = Orders(f)
  OBVIOUS
<1>1. PagesOf(f)' = PagesOf(f)
  BY DEF PagesOf
<1>2. \A g \in PagesOf(f) : pages'[g].order = pages[g].order
  BY DEF PagesOf
<1> QED BY <1>1, <1>2 DEF Orders

\* Changes that leave pages alone leave them numbered.
LEMMA StillNumbered ==
  ASSUME WorkspacesInv, DOMAIN files' = DOMAIN files,
         \A f : PagesOf(f)' = PagesOf(f) /\ Orders(f)' = Orders(f)
  PROVE  NumberedFiles'
BY DEF WorkspacesInv, NumberedFiles, Numbered

\* A project's new name.
LEMMA RenameProjectKeeps ==
  ASSUME WorkspacesInv, NEW r \in Requests, renameProject(r)
  PROVE  WorkspacesInv'
<1> DEFINE p == req[r].project
           found == p \in DOMAIN projects
<1>1. /\ Rename(r, "renameProject", found)
      /\ projects' = IF found /\ IsWriter(r) THEN [projects EXCEPT ![p] = r] ELSE projects
      /\ UNCHANGED <<workspace, role, files, pages, comments, links, roleChanges>>
  BY DEF renameProject
<1>2. /\ Runs(req[r]) /\ req[r].route = "renameProject"
      /\ found /\ IsWriter(r) => Answer(r, 200, {}) /\ req[r].held \cap Mutating # {}
      /\ ~(found /\ IsWriter(r)) => Answer(r, 404, {})
  <2>1. found \in BOOLEAN
    OBVIOUS
  <2> HIDE DEF found
  <2> QED BY <1>1, <2>1, RenameEffect
<1>3. CASE ~(found /\ IsWriter(r))
  <2>1. UNCHANGED tables
    BY <1>1, <1>3 DEF tables
  <2> QED BY <1>2, <1>3, <2>1, Refusal
<1>4. CASE found /\ IsWriter(r)
  <2>1. Runs(req[r]) /\ Answer(r, 200, {}) /\ req[r].held \cap Mutating # {}
        /\ req[r].route = "renameProject"
    BY <1>2, <1>4
  <2>2. projects' \in Tables(Ids, Ids) /\ DOMAIN projects' = DOMAIN projects
    BY <1>1, <1>4, ChangedRow DEF WorkspacesInv, TablesOK, Ids
  <2>3. \A k \in DOMAIN projects' : projects'[k] \in {projects[k], r}
    BY <1>1, <1>4
  <2>4. \A f : PagesOf(f)' = PagesOf(f) /\ Orders(f)' = Orders(f)
    BY <1>1, SamePages
  <2>5. TablesOK' /\ RowsFit'
    BY <1>1, <2>2 DEF WorkspacesInv, TablesOK, RowsFit
  <2>6. NumberedFiles'
    BY <1>1, <2>4, StillNumbered
  <2>7. Grows
    BY <1>1, <2>2 DEF Grows
  <2>8. \A s \in Requests : s # r /\ Wrote(s)' => Wrote(s)
    BY <1>1, <2>2, <2>3 DEF Wrote
  <2>9. \A s \in Requests : s # r => Fits(s, req[s])'
    BY <1>1, <2>1, <2>4, <2>7, <2>8, OthersGrow
  <2> QED BY <2>1, <2>5, <2>6, <2>9, WritingAnswer DEF SharedRoutes
<1> QED BY <1>3, <1>4

\* A file's new name.
LEMMA RenameFileKeeps ==
  ASSUME WorkspacesInv, NEW r \in Requests, renameFile(r)
  PROVE  WorkspacesInv'
<1> DEFINE f == req[r].file
           found == f \in DOMAIN files
           row == [files[f] EXCEPT !.name = r]
<1>1. /\ Rename(r, "renameFile", found)
      /\ files' = IF found /\ IsWriter(r) THEN [files EXCEPT ![f] = row] ELSE files
      /\ UNCHANGED <<workspace, role, projects, pages, comments, links, roleChanges>>
  BY DEF renameFile
<1>2. /\ Runs(req[r]) /\ req[r].route = "renameFile"
      /\ found /\ IsWriter(r) => Answer(r, 200, {}) /\ req[r].held \cap Mutating # {}
      /\ ~(found /\ IsWriter(r)) => Answer(r, 404, {})
  <2>1. found \in BOOLEAN
    OBVIOUS
  <2> HIDE DEF found
  <2> QED BY <1>1, <2>1, RenameEffect
<1>3. CASE ~(found /\ IsWriter(r))
  <2>1. UNCHANGED tables
    BY <1>1, <1>3 DEF tables
  <2> QED BY <1>2, <1>3, <2>1, Refusal
<1>4. CASE found /\ IsWriter(r)
  <2>1. Runs(req[r]) /\ Answer(r, 200, {}) /\ req[r].held \cap Mutating # {}
        /\ req[r].route = "renameFile"
    BY <1>2, <1>4
  <2>2. /\ files \in Tables(Ids, FileRow) /\ files[f] \in FileRow
        /\ row \in FileRow /\ row.name = r /\ row.project = files[f].project
    <3>1. files \in Tables(Ids, FileRow)
      BY DEF WorkspacesInv, TablesOK
    <3>2. files[f] \in FileRow
      BY <1>4, <3>1, TableFacts
    <3> QED BY <3>1, <3>2 DEF FileRow, Ids
  <2> HIDE DEF row
  <2>3. files' \in Tables(Ids, FileRow) /\ DOMAIN files' = DOMAIN files
    BY <1>1, <1>4, <2>2, ChangedRow
  <2>4. \A k \in DOMAIN files : /\ files'[k].project = files[k].project
                                /\ files'[k].name \in {files[k].name, r}
    BY <1>1, <1>4, <2>2
  <2>5. \A g : PagesOf(g)' = PagesOf(g) /\ Orders(g)' = Orders(g)
    BY <1>1, SamePages
  <2>6. TablesOK' /\ RowsFit'
    BY <1>1, <2>3, <2>4 DEF WorkspacesInv, TablesOK, RowsFit
  <2>7. NumberedFiles'
    BY <2>3, <2>5, StillNumbered
  <2>8. Grows
    BY <1>1, <2>3 DEF Grows
  <2>9. \A s \in Requests : s # r /\ Wrote(s)' => Wrote(s)
    BY <1>1, <2>3, <2>4 DEF Wrote
  <2>10. \A s \in Requests : s # r => Fits(s, req[s])'
    BY <1>1, <2>1, <2>5, <2>8, <2>9, OthersGrow
  <2> QED BY <2>1, <2>6, <2>7, <2>10, WritingAnswer DEF SharedRoutes
<1> QED BY <1>3, <1>4

\* A page's new name.
LEMMA RenamePageKeeps ==
  ASSUME WorkspacesInv, NEW r \in Requests, renamePage(r)
  PROVE  WorkspacesInv'
<1> DEFINE g == req[r].page
           found == g \in PagesOf(req[r].file)
           row == [pages[g] EXCEPT !.name = r]
<1>1. /\ Rename(r, "renamePage", found)
      /\ pages' = IF found /\ IsWriter(r) THEN [pages EXCEPT ![g] = row] ELSE pages
      /\ UNCHANGED <<workspace, role, projects, files, comments, links, roleChanges>>
  BY DEF renamePage
<1>2. /\ Runs(req[r]) /\ req[r].route = "renamePage"
      /\ found /\ IsWriter(r) => Answer(r, 200, {}) /\ req[r].held \cap Mutating # {}
      /\ ~(found /\ IsWriter(r)) => Answer(r, 404, {})
  <2>1. found \in BOOLEAN
    OBVIOUS
  <2> HIDE DEF found
  <2> QED BY <1>1, <2>1, RenameEffect
<1>3. CASE ~(found /\ IsWriter(r))
  <2>1. UNCHANGED tables
    BY <1>1, <1>3 DEF tables
  <2> QED BY <1>2, <1>3, <2>1, Refusal
<1>4. CASE found /\ IsWriter(r)
  <2>1. Runs(req[r]) /\ Answer(r, 200, {}) /\ req[r].held \cap Mutating # {}
        /\ req[r].route = "renamePage"
    BY <1>2, <1>4
  <2>2. /\ pages \in Tables(PageIds, PageRow) /\ g \in DOMAIN pages /\ pages[g] \in PageRow
        /\ row \in PageRow /\ row.name = r /\ row.file = pages[g].file
        /\ row.order = pages[g].order
    <3>1. pages \in Tables(PageIds, PageRow) /\ g \in DOMAIN pages
      BY <1>4 DEF WorkspacesInv, TablesOK, PagesOf
    <3>2. pages[g] \in PageRow
      BY <3>1, TableFacts
    <3> QED BY <3>1, <3>2 DEF PageRow, Ids
  <2> HIDE DEF row
  <2>3. pages' \in Tables(PageIds, PageRow) /\ DOMAIN pages' = DOMAIN pages
    BY <1>1, <1>4, <2>2, ChangedRow
  <2>4. \A k \in DOMAIN pages : /\ pages'[k].file = pages[k].file
                                /\ pages'[k].order = pages[k].order
                                /\ pages'[k].name \in {pages[k].name, r}
    BY <1>1, <1>4, <2>2
  <2>5. \A f : PagesOf(f)' = PagesOf(f) /\ Orders(f)' = Orders(f)
    BY <2>3, <2>4, SamePages
  <2>6. TablesOK' /\ RowsFit'
    BY <1>1, <2>3, <2>4 DEF WorkspacesInv, TablesOK, RowsFit
  <2>7. NumberedFiles'
    BY <1>1, <2>5, StillNumbered
  <2>8. Grows
    BY <1>1, <2>3, <2>4 DEF Grows
  <2>9. \A s \in Requests : s # r /\ Wrote(s)' => Wrote(s)
    BY <1>1, <2>3, <2>4 DEF Wrote
  <2>10. \A s \in Requests : s # r => Fits(s, req[s])'
    BY <1>1, <2>1, <2>5, <2>8, <2>9, OthersGrow
  <2> QED BY <2>1, <2>6, <2>7, <2>10, WritingAnswer DEF SharedRoutes
<1> QED BY <1>3, <1>4

\* A step on comments or links leaves the rest.
LEMMA CommentsOnly ==
  ASSUME WorkspacesInv, UNCHANGED <<workspace, role, projects, files, pages, links>>,
         comments' \in Tables(Ids, CommentRow),
         \A c \in DOMAIN comments' : comments'[c].file \in DOMAIN files
  PROVE  /\ TablesOK' /\ RowsFit' /\ NumberedFiles' /\ Grows
         /\ \A f : Orders(f)' = Orders(f)
<1>1. \A f : PagesOf(f)' = PagesOf(f) /\ Orders(f)' = Orders(f)
  BY SamePages
<1>2. NumberedFiles'
  BY <1>1, StillNumbered
<1>3. TablesOK'
  BY DEF WorkspacesInv, TablesOK
<1>4. RowsFit'
  <2>1. workspace # "live" => DOMAIN comments' = {}
    BY DEF WorkspacesInv, RowsFit
  <2> QED BY <2>1 DEF WorkspacesInv, RowsFit
<1>5. Grows
  BY DEF Grows
<1> QED BY <1>1, <1>2, <1>3, <1>4, <1>5

\* A comment is added by one statement.
LEMMA CreateCommentKeeps ==
  ASSUME WorkspacesInv, NEW r \in Requests, createComment(r)
  PROVE  WorkspacesInv'
<1> DEFINE q == req[r]
           parent == q.file \in DOMAIN files /\ q.page \in PagesOf(q.file) \cup {Nil}
           row == [file |-> q.file, page |-> q.page, resolved |-> Nil]
<1>1. ASSUME Checking(r, "createComment", Scope(r, <<"writer", "file">>)) PROVE WorkspacesInv'
  <2>1. At(r, "createComment", "check") => Scope(r, <<"writer", "file">>) = Checks(req[r])
    BY DEF At, Scope, Scoped, Checks, ChecksOf
  <2> QED BY <1>1, <2>1, CheckingKeeps DEF SharedRoutes
<1>2. ASSUME At(r, "createComment", "act"), Answer(r, IF parent THEN 201 ELSE 500, {}),
             comments' = IF parent THEN Insert(OneRow(r, row), comments) ELSE comments,
             UNCHANGED <<workspace, role, projects, files, pages, links, roleChanges>>
      PROVE  WorkspacesInv'
  <2>1. /\ q.route = "createComment" /\ q.at = "act" /\ Runs(q) /\ q \in RequestType
        /\ q.held \cap Mutating # {} /\ ~Wrote(r)
    BY <1>2, Running, WriterFound DEF At, Runs
  <2>2. ASSUME ~parent PROVE WorkspacesInv'
    <3>1. Answer(r, 500, {}) /\ UNCHANGED tables
      BY <1>2, <2>2 DEF tables
    <3>2. workspace = "deleted"
      <4>1. workspace # "deleted" => q.file \in DOMAIN files
        BY <2>1, WriterFound
      <4>2. workspace # "deleted" /\ q.page # Nil => q.page \in PagesOf(q.file)
        <5>1. SUFFICES ASSUME workspace # "deleted", q.page # Nil
                       PROVE  StillFound(q, "page")
          BY DEF StillFound
        <5>2. Checks(q) = Append(<<"writer", "file">>, "page")
          BY <2>1, <5>1 DEF Checks, ChecksOf, Scoped
        <5>3. Len(Checks(q)) = 3 /\ Checks(q)[3] = "page"
          BY <5>2
        <5> QED BY <2>1, <5>3, ActFacts
      <4> QED BY <2>2, <4>1, <4>2
    <3>3. ReplyFits(q, 500, {})
      BY <2>1, <3>2 DEF ReplyFits
    <3> QED BY <2>1, <3>1, <3>3, QuietAnswer
  <2>3. ASSUME parent PROVE WorkspacesInv'
    <3>1. Answer(r, 201, {}) /\ comments' = Insert(OneRow(r, row), comments)
      BY <1>2, <2>3
    <3>2. row \in CommentRow /\ row.file = q.file /\ row.resolved = Nil
      BY <2>1, <2>3, RowsShown DEF CommentRow, RequestType
    <3>3. comments \in Tables(Ids, CommentRow) /\ r \in Ids
      BY DEF WorkspacesInv, TablesOK, Ids
    <3> HIDE DEF row
    <3> DEFINE new == OneRow(r, row)
    <3>4. new \in Tables(Ids, CommentRow) /\ DOMAIN new = {r} /\ new[r] = row
      BY <3>2, <3>3, OneRowTable
    <3>5. comments' = Insert(new, comments)
      BY <3>1
    <3> HIDE DEF new
    <3>6. /\ comments' \in Tables(Ids, CommentRow)
          /\ DOMAIN comments' = {r} \cup DOMAIN comments /\ comments'[r] = row
          /\ \A c \in DOMAIN comments \ {r} : comments'[c] = comments[c]
      BY <3>3, <3>4, <3>5, InsertedRows
    <3>7. \A c \in DOMAIN comments' : comments'[c].file \in DOMAIN files
      BY <2>3, <3>2, <3>6 DEF WorkspacesInv, RowsFit
    <3>8. /\ TablesOK' /\ RowsFit' /\ NumberedFiles' /\ Grows /\ \A f : Orders(f)' = Orders(f)
      BY <1>2, <3>6, <3>7, CommentsOnly
    <3>9. \A s \in Requests : s # r /\ Wrote(s)' => Wrote(s)
      BY <1>2, <3>2, <3>6, NilAssumption DEF Wrote
    <3>10. \A s \in Requests : s # r => Fits(s, req[s])'
      BY <1>2, <3>1, <3>8, <3>9, OthersGrow
    <3> QED BY <2>1, <3>1, <3>8, <3>10, WritingAnswer DEF SharedRoutes
  <2> QED BY <2>2, <2>3
<1> QED BY <1>1, <1>2 DEF createComment

\* A comment is resolved, for the first time or again.
LEMMA ResolveKeeps ==
  ASSUME WorkspacesInv, NEW r \in Requests, resolveComment(r)
  PROVE  WorkspacesInv'
<1> DEFINE q == req[r]
           found == q.row \in DOMAIN comments /\ comments[q.row].file = q.file
           row == [comments[q.row] EXCEPT !.resolved = Earliest(@, r)]
<1>1. ASSUME Checking(r, "resolveComment", <<"writer", "file">>) PROVE WorkspacesInv'
  <2>1. At(r, "resolveComment", "check") => <<"writer", "file">> = Checks(req[r])
    BY DEF At, Checks, ChecksOf
  <2> QED BY <1>1, <2>1, CheckingKeeps DEF SharedRoutes
<1>2. ASSUME At(r, "resolveComment", "act"), Answer(r, IF found THEN 200 ELSE 404, {}),
             comments' = IF found THEN [comments EXCEPT ![q.row] = row] ELSE comments,
             UNCHANGED <<workspace, role, projects, files, pages, links, roleChanges>>
      PROVE  WorkspacesInv'
  <2>1. /\ q.route = "resolveComment" /\ q.at = "act" /\ Runs(q) /\ q \in RequestType
        /\ q.held \cap Mutating # {}
    BY <1>2, Running, WriterFound DEF At, Runs
  <2>2. ASSUME ~found PROVE WorkspacesInv'
    <3>1. Answer(r, 404, {}) /\ UNCHANGED tables
      BY <1>2, <2>2 DEF tables
    <3> QED BY <2>1, <3>1, Refusal
  <2>3. ASSUME found PROVE WorkspacesInv'
    <3>1. Answer(r, 200, {}) /\ comments' = [comments EXCEPT ![q.row] = row]
      BY <1>2, <2>3
    <3>2. comments \in Tables(Ids, CommentRow) /\ comments[q.row] \in CommentRow
      BY <2>3, TableFacts DEF WorkspacesInv, TablesOK
    <3>3. /\ row \in CommentRow /\ row.file = comments[q.row].file
          /\ row.resolved \in {comments[q.row].resolved, r}
      BY <3>2 DEF CommentRow, Earliest
    <3> HIDE DEF row
    <3>4. comments' \in Tables(Ids, CommentRow) /\ DOMAIN comments' = DOMAIN comments
      BY <2>3, <3>1, <3>2, <3>3, ChangedRow
    <3>5. \A c \in DOMAIN comments : /\ comments'[c].file = comments[c].file
                                     /\ comments'[c].resolved \in {comments[c].resolved, r}
      BY <3>1, <3>3
    <3>6. \A c \in DOMAIN comments' : comments'[c].file \in DOMAIN files
      BY <3>4, <3>5 DEF WorkspacesInv, RowsFit
    <3>7. /\ TablesOK' /\ RowsFit' /\ NumberedFiles' /\ Grows /\ \A f : Orders(f)' = Orders(f)
      BY <1>2, <3>4, <3>6, CommentsOnly
    <3>8. \A s \in Requests : s # r /\ Wrote(s)' => Wrote(s)
      BY <1>2, <3>4, <3>5 DEF Wrote
    <3>9. \A s \in Requests : s # r => Fits(s, req[s])'
      BY <1>2, <3>1, <3>7, <3>8, OthersGrow
    <3> QED BY <2>1, <3>1, <3>7, <3>9, WritingAnswer DEF SharedRoutes
  <2> QED BY <2>2, <2>3
<1> QED BY <1>1, <1>2 DEF resolveComment

\* A link is revoked, for the first time or again.
LEMMA RevokeKeeps ==
  ASSUME WorkspacesInv, NEW r \in Requests, revokeFileShareLink(r)
  PROVE  WorkspacesInv'
<1> DEFINE q == req[r]
           found == q.row \in DOMAIN links /\ links[q.row].file = q.file
           row == [links[q.row] EXCEPT !.revoked = Earliest(@, r)]
<1>1. ASSUME Checking(r, "revokeLink", <<"writer", "file">>) PROVE WorkspacesInv'
  <2>1. At(r, "revokeLink", "check") => <<"writer", "file">> = Checks(req[r])
    BY DEF At, Checks, ChecksOf
  <2> QED BY <1>1, <2>1, CheckingKeeps DEF SharedRoutes
<1>2. ASSUME At(r, "revokeLink", "act"), Answer(r, IF found THEN 200 ELSE 404, {}),
             links' = IF found THEN [links EXCEPT ![q.row] = row] ELSE links,
             UNCHANGED <<workspace, role, projects, files, pages, comments, roleChanges>>
      PROVE  WorkspacesInv'
  <2>1. /\ q.route = "revokeLink" /\ q.at = "act" /\ Runs(q) /\ q \in RequestType
        /\ q.held \cap Mutating # {}
    BY <1>2, Running, WriterFound DEF At, Runs
  <2>2. ASSUME ~found PROVE WorkspacesInv'
    <3>1. Answer(r, 404, {}) /\ UNCHANGED tables
      BY <1>2, <2>2 DEF tables
    <3> QED BY <2>1, <3>1, Refusal
  <2>3. ASSUME found PROVE WorkspacesInv'
    <3>1. Answer(r, 200, {}) /\ links' = [links EXCEPT ![q.row] = row]
      BY <1>2, <2>3
    <3>2. links \in Tables(Ids, LinkRow) /\ links[q.row] \in LinkRow
      BY <2>3, TableFacts DEF WorkspacesInv, TablesOK
    <3>3. /\ row \in LinkRow /\ row.file = links[q.row].file
          /\ row.revoked \in {links[q.row].revoked, r} /\ row.revoked # Nil
      BY <3>2, NilAssumption DEF LinkRow, Earliest
    <3> HIDE DEF row
    <3>4. links' \in Tables(Ids, LinkRow) /\ DOMAIN links' = DOMAIN links
      BY <2>3, <3>1, <3>2, <3>3, ChangedRow
    <3>5. \A l \in DOMAIN links : /\ links'[l].file = links[l].file
                                  /\ links'[l].revoked \in {links[l].revoked, r}
                                  /\ links[l].revoked # Nil => links'[l].revoked # Nil
      BY <3>1, <3>3
    <3>6. \A f : PagesOf(f)' = PagesOf(f) /\ Orders(f)' = Orders(f)
      BY <1>2, SamePages
    <3>7. TablesOK' /\ RowsFit' /\ NumberedFiles'
      BY <1>2, <3>4, <3>5, <3>6, StillNumbered DEF WorkspacesInv, TablesOK, RowsFit
    <3>8. Grows
      BY <1>2, <3>4, <3>5 DEF Grows
    <3>9. \A s \in Requests : s # r /\ Wrote(s)' => Wrote(s)
      BY <1>2, <3>4, <3>5 DEF Wrote
    <3>10. \A s \in Requests : s # r => Fits(s, req[s])'
      BY <1>2, <3>1, <3>6, <3>8, <3>9, OthersGrow
    <3> QED BY <2>1, <3>1, <3>7, <3>10, WritingAnswer DEF SharedRoutes
  <2> QED BY <2>2, <2>3
<1> QED BY <1>1, <1>2 DEF revokeFileShareLink

-----------------------------------------------------------------------------
(* Commits.                                                                *)

\* What is known of an open transaction.
LEMMA StagedRoutes ==
  ASSUME WorkspacesInv, NEW r \in Requests, req[r].at = "staged"
  PROVE  /\ Runs(req[r]) /\ StagedFits(r, req[r]) /\ req[r].rows \in Staging /\ ~Wrote(r)
         /\ req[r].route \in {"createProject", "createFile", "createPage", "createLink",
                             "bootstrap"}
         /\ req[r].route # "bootstrap" => req[r].held \cap Mutating # {}
         /\ req[r].order \in Nat
<1>1. Runs(req[r])
  BY DEF Runs
<1>2. req[r] \in RequestType /\ Fits(r, req[r]) /\ ~Wrote(r)
  BY <1>1, Running
<1>3. req[r].rows \in Staging /\ req[r].order \in Nat
  BY <1>2 DEF RequestType
<1>4. StagedFits(r, req[r]) /\ Admitted(req[r])
  BY <1>2 DEF Fits
<1> QED BY <1>1, <1>2, <1>3, <1>4 DEF StagedFits, Admitted

\* The tables take the rows and keep their own.
LEMMA CommitTables ==
  ASSUME WorkspacesInv, NEW r \in Requests, Commit(r)
  PROVE  /\ req[r].at = "staged" /\ Answer(r, 201, {}) /\ comments' = comments
         /\ projects' = Insert(req[r].rows.projects, projects)
         /\ files' = Insert(req[r].rows.files, files)
         /\ pages' = Insert(req[r].rows.pages, pages)
         /\ links' = Insert(req[r].rows.links, links)
         /\ projects' \in Tables(Ids, Ids) /\ files' \in Tables(Ids, FileRow)
         /\ pages' \in Tables(PageIds, PageRow) /\ links' \in Tables(Ids, LinkRow)
         /\ req[r].route # "bootstrap" => UNCHANGED <<workspace, role>> /\ TablesOK'
<1> DEFINE rows == req[r].rows
<1>1. /\ req[r].at = "staged" /\ Answer(r, 201, {}) /\ comments' = comments
      /\ projects' = Insert(rows.projects, projects) /\ files' = Insert(rows.files, files)
      /\ pages' = Insert(rows.pages, pages) /\ links' = Insert(rows.links, links)
      /\ req[r].route # "bootstrap" => UNCHANGED <<workspace, role>>
  BY DEF Commit
<1>2. rows \in Staging
  BY <1>1, StagedRoutes
<1> HIDE DEF rows
<1>3. /\ rows.projects \in Tables(Ids, Ids) /\ rows.files \in Tables(Ids, FileRow)
      /\ rows.pages \in Tables(PageIds, PageRow) /\ rows.links \in Tables(Ids, LinkRow)
  BY <1>2 DEF Staging
<1>4. /\ projects \in Tables(Ids, Ids) /\ files \in Tables(Ids, FileRow)
      /\ pages \in Tables(PageIds, PageRow) /\ links \in Tables(Ids, LinkRow)
  BY DEF WorkspacesInv, TablesOK
<1>5. /\ projects' \in Tables(Ids, Ids) /\ files' \in Tables(Ids, FileRow)
      /\ pages' \in Tables(PageIds, PageRow) /\ links' \in Tables(Ids, LinkRow)
  BY <1>1, <1>3, <1>4, InsertedRows
<1>6. req[r].route # "bootstrap" => TablesOK'
  BY <1>1, <1>5 DEF WorkspacesInv, TablesOK
<1> QED BY <1>1, <1>5, <1>6 DEF rows

\* One new row of a table, and the others as they were.
Added(k, v, new, old) ==
  /\ DOMAIN new = DOMAIN old \cup {k} /\ new[k] = v
  /\ \A x \in DOMAIN old : x # k => new[x] = old[x]

\* Inserting a table of one row adds it.
LEMMA AddedRow ==
  ASSUME NEW k, NEW v, NEW t
  PROVE  Added(k, v, Insert(OneRow(k, v), t), t)
<1>1. DOMAIN OneRow(k, v) = {k} /\ OneRow(k, v)[k] = v
  BY DEF OneRow
<1>2. /\ DOMAIN Insert(OneRow(k, v), t) = DOMAIN t \cup {k}
      /\ \A x \in DOMAIN t \cup {k} :
           Insert(OneRow(k, v), t)[x] = IF x = k THEN OneRow(k, v)[x] ELSE t[x]
  BY <1>1 DEF Insert
<1> QED BY <1>1, <1>2 DEF Added

\* A commit without rows of a table leaves it.
LEMMA AddedNothing ==
  ASSUME WorkspacesInv
  PROVE  /\ Insert(Empty, projects) = projects /\ Insert(Empty, files) = files
         /\ Insert(Empty, pages) = pages /\ Insert(Empty, links) = links
BY InsertedNothing DEF WorkspacesInv, TablesOK

\* The others after a commit: an open transaction's number is still free.
LEMMA OthersCommit ==
  ASSUME WorkspacesInv, NEW r \in Requests, Answer(r, 201, {}), Grows,
         UNCHANGED <<workspace, role>>, \A s \in Requests : s # r /\ Wrote(s)' => Wrote(s),
         \A s \in Requests, f \in DOMAIN files :
           /\ s # r /\ req[s].at = "staged" /\ req[s].route = "createPage" /\ f = req[s].file
           /\ req[s].order \notin Orders(f)
           => req[s].order \notin Orders(f)'
  PROVE  \A s \in Requests : s # r => Fits(s, req[s])'
<1> SUFFICES ASSUME NEW s \in Requests, s # r PROVE Fits(s, req[s])'
  OBVIOUS
<1>1. req'[s] = req[s] /\ Fits(s, req[s])
  BY Running DEF Answer, WorkspacesInv
<1>2. req[s].at = "staged" /\ req[s].route = "createPage" => req[s].file \in DOMAIN files
  BY <1>1 DEF Fits, StagedFits
<1>3. \A q : q = req[s] => Fits(s, q)'
  <2> SUFFICES ASSUME NEW q, q = req[s] PROVE Fits(s, q)'
    OBVIOUS
  <2>1. q.at = "staged" /\ q.route = "createPage" /\ q.order \notin Orders(q.file)
          => q.order \notin Orders(q.file)'
    BY <1>2
  <2> QED BY <1>1, <2>1, FitsGrows
<1> QED BY <1>1, <1>3, FitsBecomes

\* The commit of a project.
LEMMA CommitProjectKeeps ==
  ASSUME WorkspacesInv, NEW r \in Requests, Commit(r), req[r].route = "createProject"
  PROVE  WorkspacesInv'
<1> DEFINE p == req[r]
<1>1. /\ workspace = "live" /\ p.rows = [NoRows EXCEPT !.projects = OneRow(r, r)]
      /\ Runs(p) /\ p.held \cap Mutating # {} /\ ~Wrote(r)
  BY StagedRoutes DEF StagedFits, Commit
<1>2. /\ p.rows.projects = OneRow(r, r) /\ p.rows.files = Empty /\ p.rows.pages = Empty
      /\ p.rows.links = Empty
  BY <1>1 DEF NoRows
<1>3. /\ UNCHANGED <<workspace, role, files, pages, comments, links>> /\ TablesOK'
      /\ projects' = Insert(OneRow(r, r), projects) /\ Answer(r, 201, {})
  BY <1>2, CommitTables, AddedNothing
<1>4. Added(r, r, projects', projects)
  BY <1>3, AddedRow DEF WorkspacesInv, TablesOK, Ids
<1>5. \A f : PagesOf(f)' = PagesOf(f) /\ Orders(f)' = Orders(f)
  BY <1>3, SamePages
<1>6. RowsFit' /\ NumberedFiles'
  BY <1>1, <1>3, <1>4, <1>5, StillNumbered DEF WorkspacesInv, RowsFit, Added
<1>7. Grows
  BY <1>3, <1>4 DEF Grows, Added
<1>8. \A s \in Requests : s # r /\ Wrote(s)' => Wrote(s)
  BY <1>3, <1>4 DEF Wrote, Added
<1>9. \A s \in Requests : s # r => Fits(s, req[s])'
  BY <1>3, <1>5, <1>7, <1>8, OthersCommit
<1> QED BY <1>1, <1>3, <1>6, <1>9, WritingAnswer DEF SharedRoutes

\* The commit of a link.
LEMMA CommitLinkKeeps ==
  ASSUME WorkspacesInv, NEW r \in Requests, Commit(r), req[r].route = "createLink"
  PROVE  WorkspacesInv'
<1> DEFINE p == req[r]
           row == [file |-> p.file, revoked |-> Nil]
<1>1. /\ p.file \in DOMAIN files /\ p.rows = [NoRows EXCEPT !.links = OneRow(r, row)]
      /\ Runs(p) /\ p.held \cap Mutating # {} /\ ~Wrote(r)
  BY StagedRoutes DEF StagedFits, Commit
<1>2. row \in LinkRow /\ row.file = p.file /\ row.revoked = Nil /\ r \in Ids
  BY <1>1, RowsShown DEF LinkRow, Ids
<1> HIDE DEF row
<1>3. /\ p.rows.links = OneRow(r, row) /\ p.rows.files = Empty /\ p.rows.pages = Empty
      /\ p.rows.projects = Empty
  BY <1>1 DEF NoRows
<1>4. /\ UNCHANGED <<workspace, role, projects, files, pages, comments>> /\ TablesOK'
      /\ links' = Insert(OneRow(r, row), links) /\ Answer(r, 201, {})
  BY <1>3, CommitTables, AddedNothing
<1>5. Added(r, row, links', links) /\ r \notin DOMAIN links
  BY <1>1, <1>2, <1>4, AddedRow DEF WorkspacesInv, TablesOK, Wrote
<1>6. \A f : PagesOf(f)' = PagesOf(f) /\ Orders(f)' = Orders(f)
  BY <1>4, SamePages
<1>7. RowsFit' /\ NumberedFiles'
  <2>1. workspace = "live"
    BY <1>1 DEF WorkspacesInv, RowsFit
  <2> QED BY <1>1, <1>2, <1>4, <1>5, <1>6, <2>1, StillNumbered DEF WorkspacesInv, RowsFit, Added
<1>8. Grows
  BY <1>4, <1>5 DEF Grows, Added
<1>9. \A s \in Requests : s # r /\ Wrote(s)' => Wrote(s)
  BY <1>2, <1>4, <1>5, NilAssumption DEF Wrote, Added
<1>10. \A s \in Requests : s # r => Fits(s, req[s])'
  BY <1>4, <1>6, <1>8, <1>9, OthersCommit
<1> QED BY <1>1, <1>4, <1>7, <1>10, WritingAnswer DEF SharedRoutes

\* A file that is new has one page; the others have theirs.
LEMMA NewFilePages ==
  ASSUME WorkspacesInv, NEW f, f \notin DOMAIN files, <<f, 1>> \notin DOMAIN pages,
         Added(<<f, 1>>, [file |-> f, order |-> 0, name |-> f], pages', pages)
  PROVE  /\ PagesOf(f)' = {<<f, 1>>} /\ Orders(f)' = {0}
         /\ \A g : g # f => PagesOf(g)' = PagesOf(g) /\ Orders(g)' = Orders(g)
<1>1. \A p \in DOMAIN pages : /\ pages[p].file # f /\ pages'[p] = pages[p]
  BY DEF WorkspacesInv, RowsFit, Added
<1>2. /\ DOMAIN pages' = DOMAIN pages \cup {<<f, 1>>}
      /\ pages'[<<f, 1>>].file = f /\ pages'[<<f, 1>>].order = 0
  BY DEF Added
<1>3. PagesOf(f)' = {<<f, 1>>}
  BY <1>1, <1>2 DEF PagesOf
<1>4. Orders(f)' = {0}
  BY <1>2, <1>3 DEF Orders
<1>5. ASSUME NEW g, g # f PROVE PagesOf(g)' = PagesOf(g) /\ Orders(g)' = Orders(g)
  <2>1. PagesOf(g)' = PagesOf(g)
    BY <1>1, <1>2, <1>5 DEF PagesOf
  <2>2. \A p \in PagesOf(g) : pages'[p].order = pages[p].order
    BY <1>1 DEF PagesOf
  <2> QED BY <2>1, <2>2 DEF Orders
<1> QED BY <1>3, <1>4, <1>5

\* The commit of a file and its page.
LEMMA CommitFileKeeps ==
  ASSUME WorkspacesInv, NEW r \in Requests, Commit(r), req[r].route = "createFile"
  PROVE  WorkspacesInv'
<1> DEFINE p == req[r]
           row == [project |-> p.project, name |-> r]
           page == [file |-> r, order |-> 0, name |-> r]
<1>1. /\ p.project \in DOMAIN projects
      /\ p.rows = [NoRows EXCEPT !.files = OneRow(r, row), !.pages = SeedPages(r)]
      /\ Runs(p) /\ p.held \cap Mutating # {} /\ ~Wrote(r)
  BY StagedRoutes DEF StagedFits, Commit
<1>2. /\ row \in FileRow /\ row.project = p.project /\ row.name = r /\ r \in Ids
      /\ page \in PageRow /\ page.file = r /\ page.name = r /\ <<r, 1>> \in PageIds
      /\ page.order = 0
  BY <1>1, RowsShown DEF FileRow, PageRow, Ids, PageIds
<1>3. SeedPages(r) = OneRow(<<r, 1>>, page)
  BY DEF SeedPages
<1> HIDE DEF row
<1>4. /\ p.rows.files = OneRow(r, row) /\ p.rows.pages = SeedPages(r)
      /\ p.rows.projects = Empty /\ p.rows.links = Empty
  BY <1>1 DEF NoRows
<1>5. /\ UNCHANGED <<workspace, role, projects, comments, links>> /\ TablesOK'
      /\ files' = Insert(OneRow(r, row), files) /\ Answer(r, 201, {})
      /\ pages' = Insert(OneRow(<<r, 1>>, page), pages)
  BY <1>3, <1>4, CommitTables, AddedNothing
<1>6. Added(r, row, files', files) /\ Added(<<r, 1>>, page, pages', pages)
  <2> HIDE DEF page
  <2> QED BY <1>2, <1>5, AddedRow DEF WorkspacesInv, TablesOK
<1>7. r \notin DOMAIN files /\ <<r, 1>> \notin DOMAIN pages
  BY <1>1 DEF Wrote
<1>8. /\ PagesOf(r)' = {<<r, 1>>} /\ Orders(r)' = {0}
      /\ \A g : g # r => PagesOf(g)' = PagesOf(g) /\ Orders(g)' = Orders(g)
  BY <1>6, <1>7, NewFilePages
<1> HIDE DEF page
<1>9. RowsFit'
  <2>1. workspace = "live"
    BY <1>1 DEF WorkspacesInv, RowsFit
  <2> QED BY <1>1, <1>2, <1>5, <1>6, <2>1 DEF WorkspacesInv, RowsFit, Added
<1>10. NumberedFiles'
  <2>1. Numbered(r, 1)'
    <3>1. Cardinality({<<r, 1>>}) = 1 /\ IsFiniteSet({<<r, 1>>})
      BY FS_Singleton
    <3>2. 0 .. 1 - 1 = {0}
      OBVIOUS
    <3> QED BY <1>8, <3>1, <3>2 DEF Numbered
  <2>2. ASSUME NEW f \in DOMAIN files, NEW n \in Nat, Numbered(f, n) PROVE Numbered(f, n)'
    BY <1>7, <1>8, <2>2 DEF Numbered
  <2>3. DOMAIN files' = DOMAIN files \cup {r}
    BY <1>6 DEF Added
  <2> QED BY <2>1, <2>2, <2>3 DEF WorkspacesInv, NumberedFiles
<1>11. Grows
  BY <1>5, <1>6, <1>7 DEF Grows, Added
<1>12. \A s \in Requests : s # r /\ Wrote(s)' => Wrote(s)
  BY <1>2, <1>5, <1>6 DEF Wrote, Added
<1>13. \A s \in Requests : s # r => Fits(s, req[s])'
  BY <1>5, <1>7, <1>8, <1>11, <1>12, OthersCommit
<1> QED BY <1>1, <1>5, <1>9, <1>10, <1>13, WritingAnswer DEF SharedRoutes

\* A page more, with the next number.
LEMMA NewPageNumbered ==
  ASSUME WorkspacesInv, NEW f \in DOMAIN files, NEW n \in Nat, NEW k, NEW v, v.file = f,
         v.order = n, k \notin DOMAIN pages, Added(k, v, pages', pages), Numbered(f, n)
  PROVE  /\ Numbered(f, n + 1)' /\ Orders(f)' = Orders(f) \cup {n}
         /\ \A g : g # f => PagesOf(g)' = PagesOf(g) /\ Orders(g)' = Orders(g)
<1>1. \A p \in DOMAIN pages : pages'[p] = pages[p]
  BY DEF Added
<1>2. DOMAIN pages' = DOMAIN pages \cup {k} /\ pages'[k].file = f /\ pages'[k].order = n
  BY DEF Added
<1>3. PagesOf(f)' = PagesOf(f) \cup {k} /\ k \notin PagesOf(f)
  BY <1>1, <1>2 DEF PagesOf
<1>4. Orders(f)' = Orders(f) \cup {n}
  <2>1. \A p \in PagesOf(f) : pages'[p].order = pages[p].order
    BY <1>1 DEF PagesOf
  <2> QED BY <1>2, <1>3, <2>1 DEF Orders
<1>5. IsFiniteSet(PagesOf(f)) /\ Cardinality(PagesOf(f)) = n /\ Orders(f) = 0 .. n - 1
  BY DEF Numbered
<1>6. /\ IsFiniteSet(PagesOf(f) \cup {k})
      /\ Cardinality(PagesOf(f) \cup {k}) = n + 1
  BY <1>3, <1>5, FS_AddElement
<1>7. 0 .. n + 1 - 1 = (0 .. n - 1) \cup {n}
  OBVIOUS
<1>8. Numbered(f, n + 1)'
  BY <1>3, <1>4, <1>5, <1>6, <1>7 DEF Numbered
<1>9. ASSUME NEW g, g # f PROVE PagesOf(g)' = PagesOf(g) /\ Orders(g)' = Orders(g)
  <2>1. PagesOf(g)' = PagesOf(g)
    BY <1>1, <1>2, <1>9 DEF PagesOf
  <2>2. \A p \in PagesOf(g) : pages'[p].order = pages[p].order
    BY <1>1 DEF PagesOf
  <2> QED BY <2>1, <2>2 DEF Orders
<1> QED BY <1>4, <1>8, <1>9

\* The commit of a page: no other open transaction has its number, and it is
\* the next after those that are there.
LEMMA CommitPageKeeps ==
  ASSUME WorkspacesInv, NEW r \in Requests, Commit(r), req[r].route = "createPage"
  PROVE  WorkspacesInv'
<1> DEFINE p == req[r]
           row == [file |-> p.file, order |-> p.order, name |-> r]
<1>1. /\ p.file \in DOMAIN files /\ p.order \notin Orders(p.file) /\ p.order \in Nat
      /\ p.rows = [NoRows EXCEPT !.pages = OneRow(<<r, 1>>, row)]
      /\ Runs(p) /\ p.held \cap Mutating # {} /\ ~Wrote(r) /\ p.at = "staged"
  BY StagedRoutes DEF StagedFits, Commit
<1>2. /\ row \in PageRow /\ row.file = p.file /\ row.order = p.order /\ row.name = r
      /\ <<r, 1>> \in PageIds
  BY <1>1, RowsShown DEF PageRow, Ids, PageIds
<1> HIDE DEF row
<1>3. /\ p.rows.pages = OneRow(<<r, 1>>, row) /\ p.rows.files = Empty
      /\ p.rows.projects = Empty /\ p.rows.links = Empty
  BY <1>1 DEF NoRows
<1>4. /\ UNCHANGED <<workspace, role, projects, files, comments, links>> /\ TablesOK'
      /\ pages' = Insert(OneRow(<<r, 1>>, row), pages) /\ Answer(r, 201, {})
  BY <1>3, CommitTables, AddedNothing
<1>5. Added(<<r, 1>>, row, pages', pages) /\ <<r, 1>> \notin DOMAIN pages
  BY <1>1, <1>2, <1>4, AddedRow DEF WorkspacesInv, TablesOK, Wrote
<1>6. workspace = "live"
  BY <1>1 DEF WorkspacesInv, RowsFit
<1>7. Numbered(p.file, p.order)
  <2>1. 0 .. p.order - 1 \subseteq Orders(p.file)
    BY <1>1, <1>6, Running DEF Fits, OrderFits
  <2> QED BY <1>1, <2>1, FreeOrderIsNext
<1>8. /\ \E n \in Nat : \A f : f = p.file => Numbered(f, n)'
      /\ \A f : Orders(f)' = IF f = p.file THEN Orders(f) \cup {p.order} ELSE Orders(f)
      /\ \A f : f # p.file => PagesOf(f)' = PagesOf(f)
  <2> SUFFICES ASSUME NEW f, NEW n, f = p.file, n = p.order
               PROVE  /\ n + 1 \in Nat /\ Numbered(f, n + 1)' /\ Orders(f)' = Orders(f) \cup {n}
                      /\ \A g : g # f => PagesOf(g)' = PagesOf(g) /\ Orders(g)' = Orders(g)
    OBVIOUS
  <2> QED BY <1>1, <1>2, <1>5, <1>7, NewPageNumbered
<1>9. RowsFit'
  BY <1>1, <1>2, <1>4, <1>5, <1>6 DEF WorkspacesInv, RowsFit, Added
<1>10. NumberedFiles'
  <2>1. ASSUME NEW f \in DOMAIN files, f # p.file, NEW n \in Nat, Numbered(f, n)
        PROVE  Numbered(f, n)'
    BY <1>8, <2>1 DEF Numbered
  <2> QED BY <1>4, <1>8, <2>1 DEF WorkspacesInv, NumberedFiles
<1>11. Grows
  BY <1>4, <1>5 DEF Grows, Added
<1>12. \A s \in Requests : s # r /\ Wrote(s)' => Wrote(s)
  BY <1>2, <1>4, <1>5 DEF Wrote, Added
<1>13. \A s \in Requests, f \in DOMAIN files :
         /\ s # r /\ req[s].at = "staged" /\ req[s].route = "createPage" /\ f = req[s].file
         /\ req[s].order \notin Orders(f)
         => req[s].order \notin Orders(f)'
  BY <1>1, <1>8 DEF WorkspacesInv, NumbersDiffer, SameNumber
<1>14. \A s \in Requests : s # r => Fits(s, req[s])'
  BY <1>4, <1>11, <1>12, <1>13, OthersCommit
<1> QED BY <1>1, <1>4, <1>9, <1>10, <1>14, WritingAnswer DEF SharedRoutes

\* An unborn workspace has no rows.
LEMMA NothingYet ==
  ASSUME WorkspacesInv, workspace # "live"
  PROVE  /\ DOMAIN projects = {} /\ DOMAIN files = {} /\ DOMAIN pages = {}
         /\ DOMAIN comments = {} /\ DOMAIN links = {}
BY DEF WorkspacesInv, RowsFit

\* The commit of the smoke fixture: the workspace is there with its first rows.
LEMMA CommitFixtureKeeps ==
  ASSUME WorkspacesInv, NEW r \in Requests, Commit(r), req[r].route = "bootstrap"
  PROVE  WorkspacesInv'
<1> DEFINE p == req[r]
           file == [project |-> Seed, name |-> Seed]
           page == [file |-> Seed, order |-> 0, name |-> Seed]
<1>1. /\ workspace = "unborn" /\ Runs(p) /\ ~Wrote(r)
      /\ p.rows = [NoRows EXCEPT !.projects = SeedProjects, !.files = SeedFiles(Seed),
                                 !.pages = SeedPages(Seed)]
  BY StagedRoutes DEF StagedFits, Commit
<1>2. /\ p.rows.projects = OneRow(Seed, Seed) /\ p.rows.files = OneRow(Seed, file)
      /\ p.rows.pages = OneRow(<<Seed, 1>>, page) /\ p.rows.links = Empty
  BY <1>1 DEF NoRows, SeedProjects, SeedFiles, SeedPages
<1>3. /\ Added(Seed, Seed, projects', projects) /\ Added(Seed, file, files', files)
      /\ Added(<<Seed, 1>>, page, pages', pages) /\ links' = links /\ comments' = comments
      /\ Answer(r, 201, {})
  <2> HIDE DEF file, page
  <2> QED BY <1>2, CommitTables, AddedNothing, AddedRow
<1>4. workspace' = "live" /\ \E u \in Users : role' = [role EXCEPT ![u] = "owner"]
  BY DEF Commit
<1>5. /\ Seed \notin DOMAIN files /\ <<Seed, 1>> \notin DOMAIN pages
      /\ DOMAIN projects = {} /\ DOMAIN files = {} /\ DOMAIN pages = {}
      /\ DOMAIN comments = {} /\ DOMAIN links = {}
  BY <1>1, NothingYet
<1>6. PagesOf(Seed)' = {<<Seed, 1>>} /\ Orders(Seed)' = {0}
  BY <1>3, <1>5, NewFilePages
<1>7. /\ file.project = Seed /\ file.name = Seed /\ page.file = Seed /\ page.name = Seed
  OBVIOUS
<1> HIDE DEF file, page
<1>8. TablesOK'
  <2>1. role' \in [Users \cup {Anonymous} -> Roles]
    BY <1>4 DEF WorkspacesInv, TablesOK, Roles
  <2> QED BY <1>3, <1>4, <2>1, CommitTables DEF WorkspacesInv, TablesOK
<1>9. RowsFit'
  BY <1>3, <1>4, <1>5, <1>7 DEF RowsFit, Added
<1>10. NumberedFiles'
  <2>1. Numbered(Seed, 1)'
    <3>1. Cardinality({<<Seed, 1>>}) = 1 /\ IsFiniteSet({<<Seed, 1>>})
      BY FS_Singleton
    <3>2. 0 .. 1 - 1 = {0}
      OBVIOUS
    <3> QED BY <1>6, <3>1, <3>2 DEF Numbered
  <2>2. DOMAIN files' = {Seed}
    BY <1>3, <1>5 DEF Added
  <2> QED BY <2>1, <2>2 DEF NumberedFiles
<1>11. Grows
  BY <1>3, <1>5 DEF Grows, Added
<1>12. \A s \in Requests : ~Wrote(s)'
  <2> SUFFICES ASSUME NEW s \in Requests PROVE ~Wrote(s)'
    OBVIOUS
  <2>1. s # Seed
    BY NilAssumption
  <2> QED BY <1>3, <1>5, <1>7, <2>1 DEF Wrote, Added
<1>13. \A s \in Requests : s # r => Fits(s, req[s])'
  <2> SUFFICES ASSUME NEW s \in Requests, s # r PROVE Fits(s, req[s])'
    OBVIOUS
  <2>1. req'[s] = req[s] /\ Fits(s, req[s])
    BY <1>3, Running DEF Answer, WorkspacesInv
  <2>2. ~Runs(req[s])
    BY <1>1 DEF WorkspacesInv, BootstrapAlone
  <2>3. \A q : q = req[s] => Fits(s, q)'
    <3> SUFFICES ASSUME NEW q, q = req[s] PROVE Fits(s, q)'
      OBVIOUS
    <3>1. q.at # "staged"
      BY <2>2 DEF Runs
    <3> QED BY <1>1, <1>4, <1>11, <1>12, <2>1, <2>2, <3>1, FitsGrows
  <2> QED BY <2>1, <2>3, FitsBecomes
<1> QED
  BY <1>1, <1>3, <1>8, <1>9, <1>10, <1>12, <1>13, WritingAnswer
     DEF SharedRoutes, MemberRoutes, WriterRoutes

-----------------------------------------------------------------------------
(* The cleanup.                                                            *)

\* The deletion of the workspace, which waits for every open transaction.
LEMMA CleanupKeeps ==
  ASSUME WorkspacesInv, NEW r \in Requests, cleanupSmokeCollabFixture(r)
  PROVE  WorkspacesInv'
<1>1. /\ req[r].route = "cleanup" /\ Runs(req[r]) /\ Answer(r, 200, {})
      /\ workspace' = "deleted" /\ role' = [u \in DOMAIN role |-> "none"]
      /\ projects' = Empty /\ files' = Empty /\ pages' = Empty
      /\ comments' = Empty /\ links' = Empty
      /\ \A s \in Requests : req[s].at # "staged"
  BY DEF cleanupSmokeCollabFixture, At, Runs
<1>2. DOMAIN Empty = {}
  BY DEF Empty
<1>3. TablesOK'
  <2>1. role' \in [Users \cup {Anonymous} -> Roles]
    BY <1>1 DEF WorkspacesInv, TablesOK, Roles
  <2> QED BY <1>1, <2>1, EmptyTable DEF TablesOK
<1>4. RowsFit' /\ NumberedFiles'
  BY <1>1, <1>2 DEF RowsFit, NumberedFiles
<1>5. \A s \in Requests : ~Wrote(s)'
  BY <1>1, <1>2 DEF Wrote
<1>6. workspace # "unborn"
  BY <1>1, Running
<1>7. ASSUME NEW s \in Requests, s # r PROVE Fits(s, req[s])'
  <2>1. Fits(s, req[s]) /\ req[s] \in RequestType
    BY Running
  <2>2. req'[s] = req[s]
    BY <1>1, <1>7 DEF Answer, WorkspacesInv
  <2>3. ASSUME NEW q, q = req[s] PROVE Fits(s, q)'
    <3>1. Fits(s, q) /\ q.at # "staged" /\ q.user \in Users \cup {Anonymous}
      BY <1>1, <2>1, <2>3 DEF RequestType
    <3>2. Checked(q)'
      <4>1. \A check : StillFound(q, check) => StillFound(q, check)'
        BY <1>1 DEF StillFound
      <4> QED BY <3>1, <4>1 DEF Fits, Checked
    <3>3. Admitted(q)' /\ OrderFits(q)' /\ StagedFits(s, q)'
      BY <1>1, <3>1 DEF Fits, Admitted, OrderFits, StagedFits
    <3>4. LinkFits(q)'
      BY <1>1, <3>1 DEF Fits, LinkFits
    <3>5. WritesFit(s, q)'
      BY <1>5, <3>1 DEF Fits, WritesFit
    <3>6. LifeFits(q)'
      <4>1. role'[q.user] = "none"
        BY <1>1, <3>1 DEF WorkspacesInv, TablesOK
      <4> QED BY <1>1, <1>6, <3>1, <4>1 DEF Fits, LifeFits
    <3>7. Answered(q)'
      BY <1>1, <3>1 DEF Fits, Answered, ReplyFits
    <3> QED BY <3>2, <3>3, <3>4, <3>5, <3>6, <3>7 DEF Fits
  <2> QED BY <2>2, <2>3, FitsBecomes
<1> QED
  BY <1>1, <1>3, <1>4, <1>5, <1>7, WritingAnswer DEF SharedRoutes, MemberRoutes, WriterRoutes

-----------------------------------------------------------------------------
(* An administrator, and the end of the process.                           *)

\* The same request, with a role more that its sender held meanwhile.
Noted(q, p, u, new) ==
  /\ q.route = p.route /\ q.user = p.user /\ q.project = p.project /\ q.file = p.file
  /\ q.page = p.page /\ q.row = p.row /\ q.at = p.at /\ q.check = p.check
  /\ q.order = p.order /\ q.rows = p.rows /\ q.reply = p.reply /\ q.body = p.body
  /\ q.live = p.live /\ p.held \subseteq q.held
  /\ Runs(p) /\ p.user = u => new \in q.held

\* A membership changes; the requests under way note it.
LEMMA ChangeRoleKeeps ==
  ASSUME WorkspacesInv, NEW u \in Users, NEW new \in Roles, ChangeRole(u, new)
  PROVE  WorkspacesInv'
<1>1. /\ role' = [role EXCEPT ![u] = new]
      /\ UNCHANGED <<workspace, projects, files, pages, comments, links>>
      /\ req' = [r \in Requests |->
                   IF req[r].user = u /\ InFlight(r)
                   THEN [req[r] EXCEPT !.held = @ \cup {new}] ELSE req[r]]
  BY DEF ChangeRole
<1>2. role \in [Users \cup {Anonymous} -> Roles]
  BY DEF WorkspacesInv, TablesOK
<1>3. role' \in [Users \cup {Anonymous} -> Roles] /\ role'[u] = new
      /\ \A v \in Users \cup {Anonymous} : v # u => role'[v] = role[v]
  BY <1>1, <1>2
<1>4. \A f : PagesOf(f)' = PagesOf(f) /\ Orders(f)' = Orders(f)
  BY <1>1, SamePages
<1>5. NumberedFiles'
  BY <1>1, <1>4, StillNumbered
<1>6. TablesOK' /\ RowsFit'
  BY <1>1, <1>3 DEF WorkspacesInv, TablesOK, RowsFit
<1>7. ASSUME NEW r \in Requests
      PROVE  \E q \in RequestType : req'[r] = q /\ Noted(q, req[r], u, new)
  <2> DEFINE p == req[r]
             held == IF p.user = u /\ Runs(p) THEN p.held \cup {new} ELSE p.held
             q == [p EXCEPT !.held = held]
  <2>1. p \in RequestType
    BY DEF WorkspacesInv
  <2>2. held \in SUBSET Roles
    BY <2>1 DEF RequestType
  <2>3. req'[r] = q
    <3>1. CASE p.user = u /\ InFlight(r)
      BY <1>1, <3>1 DEF InFlight, Runs
    <3>2. CASE ~(p.user = u /\ InFlight(r))
      <4>1. req'[r] = p /\ held = p.held
        BY <1>1, <3>2 DEF InFlight, Runs
      <4> HIDE DEF p, held
      <4> QED BY <2>1, <4>1 DEF RequestType
    <3> QED BY <3>1, <3>2
  <2>4. p.held \subseteq held /\ (Runs(p) /\ p.user = u => new \in held)
    OBVIOUS
  <2> HIDE DEF p, held
  <2>5. q \in RequestType
    BY <2>1, <2>2 DEF RequestType
  <2>6. Noted(q, p, u, new)
    BY <2>1, <2>4 DEF RequestType, Noted
  <2> HIDE DEF q
  <2> QED BY <2>3, <2>5, <2>6 DEF p
<1>8. req' \in [Requests -> RequestType]
  BY <1>1, <1>7
<1>9. NumbersDiffer' /\ BootstrapAlone'
  <2>1. \A r \in Requests : Noted(req'[r], req[r], u, new)
    BY <1>7
  <2> QED BY <2>1 DEF WorkspacesInv, NumbersDiffer, SameNumber, BootstrapAlone, Runs, Noted
<1>10. ASSUME NEW r \in Requests PROVE Fits(r, req[r])'
  <2>1. PICK q \in RequestType : req'[r] = q /\ Noted(q, req[r], u, new)
    BY <1>7
  <2>2. ASSUME NEW p, p = req[r] PROVE Fits(r, q)'
    <3>1. Fits(r, p) /\ Noted(q, p, u, new) /\ p.user \in Users \cup {Anonymous}
      BY <2>1, <2>2, Running DEF RequestType
    <3>2. Checked(q)'
      <4>1. \A check : StillFound(p, check) => StillFound(q, check)'
        BY <1>1, <1>4, <3>1 DEF StillFound, Noted
      <4>2. Checks(q) = Checks(p)
        BY <3>1, SameChecks DEF Noted
      <4> QED BY <3>1, <4>1, <4>2 DEF Fits, Checked, Noted
    <3>3. Admitted(q)' /\ OrderFits(q)' /\ StagedFits(r, q)'
      BY <1>1, <1>4, <3>1 DEF Fits, Admitted, OrderFits, StagedFits, Noted
    <3>4. LinkFits(q)'
      BY <1>1, <3>1 DEF Fits, LinkFits, Noted
    <3>5. WritesFit(r, q)'
      BY <1>1, <3>1 DEF Fits, WritesFit, Wrote, Noted
    <3>6. LifeFits(q)'
      BY <1>1, <1>3, <3>1 DEF Fits, LifeFits, Runs, Noted
    <3>7. Answered(q)'
      BY <1>1, <3>1 DEF Fits, Answered, ReplyFits, Noted
    <3> QED BY <3>2, <3>3, <3>4, <3>5, <3>6, <3>7 DEF Fits
  <2> QED BY <2>1, <2>2, FitsBecomes
<1> QED BY <1>5, <1>6, <1>8, <1>9, <1>10 DEF WorkspacesInv

\* A request that is of no account.
LEMMA IdleFits ==
  ASSUME NEW r, NEW q, q = [NoRequest EXCEPT !.at = "lost"] \/ q = NoRequest, ~Wrote(r)
  PROVE  Fits(r, q)
<1>1. /\ q.at \in {"lost", "free"} /\ q.route = "none" /\ q.rows = NoRows
      /\ q.reply = 0 /\ q.body = {}
  BY DEF NoRequest
<1>2. Checked(q) /\ Admitted(q) /\ OrderFits(q) /\ StagedFits(r, q) /\ WritesFit(r, q)
  BY <1>1 DEF Checked, Admitted, OrderFits, StagedFits, WritesFit
<1>3. LinkFits(q) /\ LifeFits(q) /\ Answered(q)
  BY <1>1 DEF LinkFits, LifeFits, Answered, Runs
<1> QED BY <1>2, <1>3 DEF Fits

\* Requests of no account are requests.
LEMMA IdleType ==
  NoRequest \in RequestType /\ [NoRequest EXCEPT !.at = "lost"] \in RequestType
BY NoRowsStaged DEF NoRequest, RequestType, States

\* A restart loses what is under way and no row.
LEMMA RestartKeeps ==
  ASSUME WorkspacesInv, Restart
  PROVE  WorkspacesInv'
<1> DEFINE lost == [NoRequest EXCEPT !.at = "lost"]
<1>1. /\ UNCHANGED tables
      /\ req' = [r \in Requests |-> IF InFlight(r) THEN lost ELSE req[r]]
  BY DEF Restart
<1>2. lost.at = "lost" /\ lost \in RequestType
  BY IdleType DEF NoRequest
<1>3. TablesOK' /\ RowsFit' /\ NumberedFiles'
  BY <1>1, TablesStay
<1>4. ASSUME NEW r \in Requests PROVE Fits(r, req[r])'
  <2>1. CASE InFlight(r)
    <3>1. req'[r] = lost /\ ~Wrote(r)
      BY <1>1, <2>1, Running DEF InFlight, Runs
    <3>2. Fits(r, lost)
      BY <3>1, IdleFits
    <3> HIDE DEF lost
    <3>3. Fits(r, lost)'
      BY <1>1, <3>2, FitsStays
    <3> QED BY <3>1, <3>3, FitsBecomes
  <2>2. CASE ~InFlight(r)
    <3>1. req'[r] = req[r]
      BY <1>1, <2>2
    <3> QED BY <1>1, <3>1, OthersStay
  <2> QED BY <2>1, <2>2
<1> HIDE DEF lost
<1>5. req' \in [Requests -> RequestType]
  BY <1>1, <1>2, Running
<1>6. NumbersDiffer' /\ BootstrapAlone'
  <2>1. \A r \in Requests : req'[r] = req[r] \/ req'[r].at = "lost"
    BY <1>1, <1>2
  <2> QED BY <2>1 DEF WorkspacesInv, NumbersDiffer, SameNumber, BootstrapAlone, Runs
<1> QED BY <1>3, <1>4, <1>5, <1>6 DEF WorkspacesInv

\* The request that Receive makes.
Received(route, u, good, p, f, g, x, at, held, live) ==
  [NoRequest EXCEPT !.route = route, !.user = u, !.good = good, !.project = p, !.file = f,
     !.page = g, !.row = x, !.at = at, !.held = held, !.live = live]

\* A request's fields are given a few at a time.
LEMMA NewRequest ==
  ASSUME NEW z \in RequestType
  PROVE  /\ \A route \in Routes, u \in Users \cup {Anonymous} :
              [z EXCEPT !.route = route, !.user = u] \in RequestType
         /\ \A good \in BOOLEAN, p \in Ids \cup {Nil} :
              [z EXCEPT !.good = good, !.project = p] \in RequestType
         /\ \A f \in Ids \cup {Nil}, g \in PageIds \cup {Nil}, x \in Ids \cup {Nil} :
              [z EXCEPT !.file = f, !.page = g, !.row = x] \in RequestType
         /\ \A at \in States, held \in SUBSET Roles, live \in BOOLEAN :
              [z EXCEPT !.at = at, !.held = held, !.live = live] \in RequestType
<1>1. \A route \in Routes, u \in Users \cup {Anonymous} :
        [z EXCEPT !.route = route, !.user = u] \in RequestType
  BY DEF RequestType
<1>2. \A good \in BOOLEAN, p \in Ids \cup {Nil} :
        [z EXCEPT !.good = good, !.project = p] \in RequestType
  BY DEF RequestType
<1>3. \A f \in Ids \cup {Nil}, g \in PageIds \cup {Nil}, x \in Ids \cup {Nil} :
        [z EXCEPT !.file = f, !.page = g, !.row = x] \in RequestType
  BY DEF RequestType
<1>4. \A at \in States, held \in SUBSET Roles, live \in BOOLEAN :
        [z EXCEPT !.at = at, !.held = held, !.live = live] \in RequestType
  BY DEF RequestType
<1> QED BY <1>1, <1>2, <1>3, <1>4

\* A request comes in.
LEMMA ReceiveKeeps ==
  ASSUME WorkspacesInv, NEW r \in Requests, NEW route \in Routes, Receive(r, route)
  PROVE  WorkspacesInv'
<1>1. /\ req[r].at = "free" /\ UNCHANGED tables
      /\ (workspace = "unborn") <=> (route = "bootstrap")
      /\ route = "bootstrap" => \A s \in Requests : ~Runs(req[s])
  BY DEF Receive, InFlight, Runs
<1>2. PICK u \in IF route \in Sessionless THEN {Anonymous} ELSE Users \cup {Anonymous},
           good \in IF route \in WithBody THEN BOOLEAN ELSE {TRUE},
           p \in {Nil} \cup IF route \in OfProject THEN DOMAIN projects ELSE {},
           f \in {Nil} \cup IF route \in OfFile THEN DOMAIN files ELSE {},
           g \in {Nil} \cup IF route \in OfPage \cup SharedRoutes THEN DOMAIN pages ELSE {},
           x \in {Nil} \cup IF route = "resolveComment" THEN DOMAIN comments
                            ELSE IF route \in {"revokeLink"} \cup SharedRoutes
                                 THEN DOMAIN links ELSE {} :
        req' = [req EXCEPT ![r] =
          [NoRequest EXCEPT !.route = route, !.user = u, !.good = good, !.project = p,
             !.file = f, !.page = g, !.row = x, !.at = "route",
             !.held = {role[u]},
             !.live = x \in DOMAIN links /\ links[x].revoked = Nil]]
  BY DEF Receive
<1>3. /\ u \in Users \cup {Anonymous} /\ good \in BOOLEAN
      /\ p \in {Nil} \cup DOMAIN projects /\ f \in {Nil} \cup DOMAIN files
      /\ g \in {Nil} \cup DOMAIN pages /\ x \in {Nil} \cup DOMAIN comments \cup DOMAIN links
      /\ route \in SharedRoutes /\ x # Nil => x \in DOMAIN links
  <2>1. "resolveComment" \notin SharedRoutes
    BY DEF SharedRoutes
  <2> QED BY <2>1
<1>4. PICK held, live, at : /\ held = {role[u]} /\ at = "route"
                           /\ live = (x \in DOMAIN links /\ links[x].revoked = Nil)
  OBVIOUS
<1>5. /\ live \in BOOLEAN /\ held \in SUBSET Roles /\ role[u] \in held /\ at \in States
      /\ p \in Ids \cup {Nil} /\ f \in Ids \cup {Nil} /\ g \in PageIds \cup {Nil}
      /\ x \in Ids \cup {Nil} /\ route \in Routes \cup {"none"} /\ route # "none"
  BY <1>3, <1>4, RowsShown DEF WorkspacesInv, TablesOK, States, Routes, SharedRoutes,
                               MemberRoutes, WriterRoutes
<1>6. route \in SharedRoutes /\ ~live /\ x # Nil => x \in DOMAIN links /\ links[x].revoked # Nil
  BY <1>3, <1>4
<1> DEFINE q == Received(route, u, good, p, f, g, x, at, held, live)
<1>7. req' = [req EXCEPT ![r] = q]
  BY <1>2, <1>4, Zenon DEF Received
<1>8. q \in RequestType
  <2>1. /\ route \in Routes /\ u \in Users \cup {Anonymous} /\ good \in BOOLEAN
        /\ p \in Ids \cup {Nil} /\ f \in Ids \cup {Nil} /\ g \in PageIds \cup {Nil}
        /\ x \in Ids \cup {Nil} /\ at \in States /\ held \in SUBSET Roles /\ live \in BOOLEAN
    BY <1>3, <1>5
  <2> DEFINE q1 == [NoRequest EXCEPT !.route = route, !.user = u]
             q2 == [q1 EXCEPT !.good = good, !.project = p]
             q3 == [q2 EXCEPT !.file = f, !.page = g, !.row = x]
             q4 == [q3 EXCEPT !.at = at, !.held = held, !.live = live]
  <2>2. q1 \in RequestType
    BY <2>1, NewRequest, IdleType
  <2> HIDE DEF q1
  <2>3. q2 \in RequestType
    BY <2>1, <2>2, NewRequest
  <2> HIDE DEF q2
  <2>4. q3 \in RequestType
    BY <2>1, <2>3, NewRequest
  <2> HIDE DEF q3
  <2>5. q4 \in RequestType
    BY <2>1, <2>4, NewRequest
  <2> QED BY <2>5 DEF q1, q2, q3, Received
<1>9. /\ q.route = route /\ q.user = u /\ q.row = x /\ q.at = "route" /\ q.held = held
      /\ q.live = live /\ q.check = 1 /\ q.rows = NoRows /\ q.reply = 0 /\ q.body = {}
  BY <1>4 DEF Received, NoRequest
<1> HIDE DEF q
<1>10. Becomes(r, q)
  BY <1>7, <1>8, RequestChanges DEF WorkspacesInv
<1>11. ~Wrote(r)
  BY <1>1, Running DEF Fits, WritesFit
<1>12. Fits(r, q)
  <2>1. Checked(q) /\ Admitted(q) /\ OrderFits(q) /\ StagedFits(r, q) /\ WritesFit(r, q)
    BY <1>9, <1>11 DEF Checked, Admitted, OrderFits, StagedFits, WritesFit
  <2>2. LinkFits(q)
    BY <1>6, <1>9 DEF LinkFits
  <2>3. LifeFits(q) /\ Answered(q)
    BY <1>1, <1>5, <1>9 DEF LifeFits, Answered, Runs
  <2> QED BY <2>1, <2>2, <2>3 DEF Fits
<1>13. \A s \in Requests : Fits(s, req[s])'
  <2>1. \A s \in Requests : s # r => Fits(s, req[s])'
    BY <1>1, <1>10, OthersStay DEF Becomes
  <2>2. \A z : z = q => Fits(r, z)'
    BY <1>1, <1>12, FitsStays
  <2>3. \A z : z = q => Fits(r, req[r])'
    BY <1>10, <2>2, FitsBecomes DEF Becomes
  <2> QED BY <2>1, <2>3
<1>14. NumbersDiffer'
  BY <1>9, <1>10 DEF WorkspacesInv, NumbersDiffer, SameNumber, Becomes
<1>15. BootstrapAlone'
  <2>1. \A s \in Requests : Runs(req[s]) /\ req[s].route = "bootstrap" => workspace = "unborn"
    BY Running
  <2>2. \A s \in Requests : s # r /\ Runs(req[s])
          => req[s].route # "bootstrap" /\ route # "bootstrap"
    BY <1>1, <2>1
  <2> QED BY <1>9, <1>10, <2>2 DEF WorkspacesInv, BootstrapAlone, Becomes
<1>16. TablesOK' /\ RowsFit' /\ NumberedFiles'
  BY <1>1, TablesStay
<1> QED BY <1>10, <1>13, <1>14, <1>15, <1>16 DEF WorkspacesInv, Becomes

-----------------------------------------------------------------------------
(* The invariant.                                                          *)

\* At first there is a workspace with a file and a page, or none.
LEMMA InitFits ==
  ASSUME WorkspacesInit
  PROVE  WorkspacesInv
<1> DEFINE file == [project |-> Seed, name |-> Seed]
           page == [file |-> Seed, order |-> 0, name |-> Seed]
           comment == [file |-> Seed, page |-> Nil, resolved |-> Nil]
           link == [file |-> Seed, revoked |-> Nil]
<1>1. req = [r \in Requests |-> NoRequest] /\ NoRequest.at = "free"
  BY DEF WorkspacesInit, NoRequest
<1>2. ASSUME /\ TablesOK /\ RowsFit /\ NumberedFiles
             /\ \A r \in Requests : ~Wrote(r)
      PROVE  WorkspacesInv
  <2>1. \A r \in Requests : Fits(r, req[r])
    BY <1>1, <1>2, IdleFits
  <2>2. NumbersDiffer /\ BootstrapAlone
    BY <1>1 DEF NumbersDiffer, SameNumber, BootstrapAlone, Runs
  <2>3. req \in [Requests -> RequestType]
    BY <1>1, IdleType
  <2> QED BY <1>2, <2>1, <2>2, <2>3 DEF WorkspacesInv
<1>3. /\ file \in FileRow /\ page \in PageRow /\ comment \in CommentRow /\ link \in LinkRow
      /\ file.project = Seed /\ file.name = Seed /\ page.file = Seed /\ page.name = Seed
      /\ page.order = 0 /\ comment.file = Seed /\ comment.resolved = Nil
      /\ link.file = Seed /\ link.revoked = Nil /\ Seed \in Ids /\ <<Seed, 1>> \in PageIds
  BY DEF FileRow, PageRow, CommentRow, LinkRow, Ids, PageIds
<1>4. ASSUME workspace = "live", role \in InitialRoles, projects = OneRow(Seed, Seed),
             files = OneRow(Seed, file), pages = OneRow(<<Seed, 1>>, page),
             comments = OneRow(Seed, comment), links = OneRow(Seed, link)
      PROVE  WorkspacesInv
  <2> HIDE DEF file, page, comment, link
  <2>1. /\ projects \in Tables(Ids, Ids) /\ files \in Tables(Ids, FileRow)
        /\ pages \in Tables(PageIds, PageRow) /\ comments \in Tables(Ids, CommentRow)
        /\ links \in Tables(Ids, LinkRow)
    BY <1>3, <1>4, OneRowTable
  <2>2. /\ DOMAIN projects = {Seed} /\ projects[Seed] = Seed
        /\ DOMAIN files = {Seed} /\ files[Seed] = file
        /\ DOMAIN pages = {<<Seed, 1>>} /\ pages[<<Seed, 1>>] = page
        /\ DOMAIN comments = {Seed} /\ comments[Seed] = comment
        /\ DOMAIN links = {Seed} /\ links[Seed] = link
    BY <1>4 DEF OneRow
  <2>3. TablesOK
    BY <1>4, <2>1, InitialRolesAssumption DEF TablesOK
  <2>4. RowsFit
    BY <1>3, <1>4, <2>2 DEF RowsFit
  <2>5. PagesOf(Seed) = {<<Seed, 1>>} /\ Orders(Seed) = {0}
    BY <1>3, <2>2 DEF PagesOf, Orders
  <2>6. NumberedFiles
    <3>1. Cardinality({<<Seed, 1>>}) = 1 /\ IsFiniteSet({<<Seed, 1>>})
      BY FS_Singleton
    <3>2. 0 .. 1 - 1 = {0}
      OBVIOUS
    <3>3. Numbered(Seed, 1)
      BY <2>5, <3>1, <3>2 DEF Numbered
    <3> QED BY <2>2, <3>3 DEF NumberedFiles
  <2>7. \A r \in Requests : ~Wrote(r)
    <3> SUFFICES ASSUME NEW r \in Requests PROVE ~Wrote(r)
      OBVIOUS
    <3>1. r # Seed /\ r # Nil
      BY NilAssumption
    <3> QED BY <1>3, <2>2, <3>1 DEF Wrote
  <2> QED BY <1>2, <2>3, <2>4, <2>6, <2>7
<1>5. ASSUME workspace = "unborn", role = [u \in Users \cup {Anonymous} |-> "none"],
             projects = Empty, files = Empty, pages = Empty, comments = Empty, links = Empty
      PROVE  WorkspacesInv
  <2>1. DOMAIN Empty = {}
    BY DEF Empty
  <2>2. TablesOK
    BY <1>5, EmptyTable DEF TablesOK, Roles
  <2>3. RowsFit /\ NumberedFiles /\ \A r \in Requests : ~Wrote(r)
    BY <1>5, <2>1 DEF RowsFit, NumberedFiles, Wrote
  <2> QED BY <1>2, <2>2, <2>3
<1> QED BY <1>4, <1>5 DEF WorkspacesInit, SeedProjects, SeedFiles, SeedPages

\* Every statement of every function keeps the invariant.
LEMMA QueryKeeps ==
  ASSUME WorkspacesInv, NEW r \in Requests, Query(r)
  PROVE  WorkspacesInv'
<1>1. ASSUME Commit(r) PROVE WorkspacesInv'
  <2>1. req[r].at = "staged"
    BY <1>1 DEF Commit
  <2> QED BY <1>1, <2>1, StagedRoutes, CommitProjectKeeps, CommitFileKeeps, CommitPageKeeps,
             CommitLinkKeeps, CommitFixtureKeeps
<1> QED
  BY <1>1, ListsKeep, LaunchpadKeeps, StagedProjectKeeps, RenameProjectKeeps, StagedFileKeeps,
     RenameFileKeeps, OpenFileKeeps, StagedPageKeeps, RenamePageKeeps, CreateCommentKeeps,
     ResolveKeeps, StagedLinkKeeps, RevokeKeeps, CollabSessionKeeps, SharedKeeps,
     StagedFixtureKeeps, CleanupKeeps
     DEF Query

\* Every step keeps the invariant.
LEMMA StepKeeps ==
  ASSUME WorkspacesInv, [WorkspacesNext]_wsVars
  PROVE  WorkspacesInv'
<1>1. ASSUME UNCHANGED wsVars PROVE WorkspacesInv'
  <2>1. /\ UNCHANGED tables /\ req' = req
    BY <1>1 DEF wsVars, tables
  <2>2. TablesOK' /\ RowsFit' /\ NumberedFiles'
    BY <2>1, TablesStay
  <2>3. \A r \in Requests : Fits(r, req[r])'
    BY <2>1, OthersStay
  <2>4. /\ NumbersDiffer' /\ BootstrapAlone' /\ req' \in [Requests -> RequestType]
    BY <2>1 DEF WorkspacesInv, NumbersDiffer, BootstrapAlone
  <2> QED BY <2>2, <2>3, <2>4 DEF WorkspacesInv
<1> QED
  BY <1>1, ReceiveKeeps, AdmitKeeps, QueryKeeps, ChangeRoleKeeps, RestartKeeps
     DEF WorkspacesNext

\* The invariant holds in every state of the API's requests.
THEOREM WorkspacesAlwaysFit == WorkspacesSpec => []WorkspacesInv
BY InitFits, StepKeeps, PTL DEF WorkspacesSpec

-----------------------------------------------------------------------------
(* What the requests promise.                                              *)

\* Whoever wrote anything, or was answered with anything, held at some moment
\* of the request the membership it takes, or a link that was not revoked when
\* the request came: between a route's check and a function's statements
\* memberships may change in any way.
THEOREM RequestsAuthorized == WorkspacesSpec => []RequestsAreAuthorized
<1>1. WorkspacesInv => RequestsAreAuthorized
  <2> SUFFICES ASSUME WorkspacesInv, NEW r \in Requests
               PROVE  /\ Wrote(r) => req[r].held \cap Mutating # {}
                      /\ req[r].reply # 0 => ReplyFits(req[r], req[r].reply, req[r].body)
                      /\ req[r].body = {"write"} /\ req[r].route = "collabSession"
                           => req[r].held \cap Mutating # {}
    BY DEF RequestsAreAuthorized, AccessWasHeld, RevokedLinksOpenNothing, ReplyFits
  <2>1. Fits(r, req[r])
    BY Running
  <2>2. Wrote(r) => req[r].held \cap Mutating # {}
    BY <2>1 DEF Fits, WritesFit
  <2>3. req[r].at = "done" => ReplyFits(req[r], req[r].reply, req[r].body)
    BY <2>1 DEF Fits, Answered
  <2>4. req[r].at # "done" /\ req[r].route = "collabSession"
          => req[r].reply = 0 /\ req[r].body = {}
    BY <2>1 DEF Fits, Answered
  <2>5. req[r].at # "done" => req[r].reply = 0
    BY <2>1 DEF Fits, Answered
  <2> QED BY <2>2, <2>3, <2>4, <2>5 DEF ReplyFits
<1> QED BY <1>1, WorkspacesAlwaysFit, PTL

\* However requests interleave, every row's parent is a row, a file's pages
\* are numbered from 0 without a gap or a repetition, and whoever is shown a
\* file sees it with a page.
THEOREM FilesWhole == WorkspacesSpec => []FilesAreWhole
<1>1. WorkspacesInv => WorkspacesTypeOK
  <2> SUFFICES ASSUME WorkspacesInv PROVE WorkspacesTypeOK
    OBVIOUS
  <2>1. ASSUME NEW r \in Requests PROVE (req[r].at = "staged") <=> (req[r].rows # NoRows)
    <3>1. WritesFit(r, req[r]) /\ StagedFits(r, req[r])
      BY Running DEF Fits
    <3>2. \A k, v : OneRow(k, v) # Empty
      <4>1. \A k, v : DOMAIN OneRow(k, v) = {k} /\ DOMAIN Empty = {}
        BY DEF OneRow, Empty
      <4> QED BY <4>1
    <3>3. req[r].at = "staged" => req[r].rows # NoRows
      <4>1. SUFFICES ASSUME req[r].at = "staged", req[r].rows = NoRows PROVE FALSE
        OBVIOUS
      <4>2. \A k, v : /\ NoRows # [NoRows EXCEPT !.projects = OneRow(k, v)]
                      /\ NoRows # [NoRows EXCEPT !.pages = OneRow(k, v)]
                      /\ NoRows # [NoRows EXCEPT !.links = OneRow(k, v)]
        BY <3>2 DEF NoRows
      <4>3. \A k, v, w : NoRows # [NoRows EXCEPT !.files = OneRow(k, v), !.pages = w]
        BY <3>2 DEF NoRows
      <4>4. \A k, v, w, x : NoRows # [NoRows EXCEPT !.projects = OneRow(k, v), !.files = w,
                                                  !.pages = x]
        BY <3>2 DEF NoRows
      <4>5. NoRows # [NoRows EXCEPT !.projects = OneRow(r, r)]
        BY <4>2
      <4>6. \A row : NoRows # [NoRows EXCEPT !.files = OneRow(r, row), !.pages = SeedPages(r)]
        BY <4>3
      <4>7. \A row : NoRows # [NoRows EXCEPT !.pages = OneRow(<<r, 1>>, row)]
        BY <4>2
      <4>8. \A row : NoRows # [NoRows EXCEPT !.links = OneRow(r, row)]
        BY <4>2
      <4>9. NoRows # [NoRows EXCEPT !.projects = SeedProjects, !.files = SeedFiles(Seed),
                                    !.pages = SeedPages(Seed)]
        BY <4>4 DEF SeedProjects
      <4> QED BY <3>1, <4>1, <4>5, <4>6, <4>7, <4>8, <4>9, Zenon DEF StagedFits
    <3> QED BY <3>1, <3>3 DEF WritesFit
  <2>2. \A p \in DOMAIN pages : pages[p].order \in Nat
    <3>1. \A p \in DOMAIN pages : pages[p] \in PageRow
      BY TableFacts DEF WorkspacesInv, TablesOK
    <3> QED BY <3>1 DEF PageRow
  <2> QED BY <2>1, <2>2 DEF WorkspacesInv, TablesOK, RowsFit, WorkspacesTypeOK
<1>2. WorkspacesInv => PagesAreNumbered
  BY DEF WorkspacesInv, NumberedFiles, Numbered, PagesAreNumbered
<1>3. WorkspacesInv => OpenedFilesAreWhole
  <2> SUFFICES ASSUME WorkspacesInv, NEW r \in Requests, workspace = "live", req[r].reply = 200
               PROVE  /\ req[r].route \in {"openFile", "openShared"} => req[r].body # {}
                      /\ req[r].route = "launchpad" => \A shown \in req[r].body : shown[2] > 0
    BY DEF OpenedFilesAreWhole
  <2>1. Answered(req[r])
    BY Running DEF Fits
  <2>2. ReplyFits(req[r], 200, req[r].body)
    BY <2>1 DEF Answered
  <2> QED BY <2>2 DEF ReplyFits
<1> QED BY <1>1, <1>2, <1>3, WorkspacesAlwaysFit, PTL DEF FilesAreWhole

\* An error is the loser of a race: for the number of a page, or with the
\* deletion of the workspace.
THEOREM ErrorsRace == WorkspacesSpec => []ErrorsAreRaces
<1>1. WorkspacesInv => ErrorsAreRaces
  <2> SUFFICES ASSUME WorkspacesInv, NEW r \in Requests, req[r].reply = 500
               PROVE  \/ workspace = "deleted"
                      \/ /\ req[r].route = "createPage"
                         /\ \E p \in DOMAIN pages : pages[p].order = req[r].order
    BY DEF ErrorsAreRaces
  <2>1. Answered(req[r])
    BY Running DEF Fits
  <2>2. ReplyFits(req[r], 500, req[r].body)
    BY <2>1 DEF Answered
  <2> QED BY <2>2 DEF ReplyFits
<1> QED BY <1>1, WorkspacesAlwaysFit, PTL

\* A deleted workspace stays empty, whatever was under way when it went.
THEOREM NothingOutlives == WorkspacesSpec => []NothingOutlivesTheWorkspace
<1>1. WorkspacesInv => NothingOutlivesTheWorkspace
  BY DEF WorkspacesInv, RowsFit, NothingOutlivesTheWorkspace
<1> QED BY <1>1, WorkspacesAlwaysFit, PTL

\* Routes write no rows.
LEMMA AdmitWritesNothing ==
  ASSUME NEW r \in Requests, Admit(r)
  PROVE  UNCHANGED <<comments, links>>
BY DEF Admit, ListWorkspacesRoute, LaunchpadRoute, ListProjectsRoute, CreateProjectRoute,
       RenameProjectRoute, ListFilesRoute, CreateFileRoute, RenameFileRoute, OpenFileRoute,
       CreatePageRoute, RenamePageRoute, ListCommentsRoute, CreateCommentRoute,
       ResolveCommentRoute, ListLinksRoute, CreateLinkRoute, RevokeLinkRoute,
       CollabSessionRoute, CleanupRoute, Refused, Enter, tables

\* The queries that leave comments and links as they are.
LEMMA QueryLeaves ==
  ASSUME NEW r \in Requests, Query(r)
  PROVE  \/ UNCHANGED <<comments, links>>
         \/ createComment(r) \/ resolveComment(r) \/ revokeFileShareLink(r) \/ Commit(r)
         \/ cleanupSmokeCollabFixture(r)
<1>1. \A route, checks : Checking(r, route, checks) => UNCHANGED <<comments, links>>
  BY DEF Checking, tables
<1>2. \A route, body : Reading(r, route, body) => UNCHANGED <<comments, links>>
  BY DEF Reading, tables
<1>3. \/ listAuthorizedWorkspaces(r) \/ listWorkspaceProjects(r) \/ listProjectFiles(r)
      \/ listComments(r) \/ listFileShareLinks(r) \/ getFileOpenDetails(r)
      => UNCHANGED <<comments, links>>
  BY <1>1, <1>2
     DEF listAuthorizedWorkspaces, listWorkspaceProjects, listProjectFiles, listComments,
         listFileShareLinks, getFileOpenDetails
<1>4. \/ getWorkspaceLaunchpad(r) \/ createProject(r) \/ createFileWithPages(r)
      \/ createPage(r) \/ createFileShareLink(r)
      => UNCHANGED <<comments, links>>
  BY <1>1
     DEF getWorkspaceLaunchpad, createProject, createFileWithPages, createPage,
         createFileShareLink, tables
<1>5. \/ renameProject(r) \/ renameFile(r) \/ renamePage(r)
      \/ getAuthorizedCollabPageSession(r) \/ getShareLinkAccessRow(r)
      \/ getSharedFileOpenDetails(r) \/ getSharedCollabPageSession(r)
      \/ createSmokeCollabFixture(r)
      => UNCHANGED <<comments, links>>
  BY DEF renameProject, renameFile, renamePage, getAuthorizedCollabPageSession,
         getShareLinkAccessRow, getSharedFileOpenDetails, getSharedCollabPageSession,
         createSmokeCollabFixture, tables
<1> QED BY <1>3, <1>4, <1>5 DEF Query

\* A decision on a comment or a link that is there is not changed.
Decided ==
  /\ \A c \in DOMAIN comments \cap DOMAIN comments' :
       comments[c].resolved # Nil => comments'[c].resolved = comments[c].resolved
  /\ \A l \in DOMAIN links \cap DOMAIN links' :
       links[l].revoked # Nil => links'[l].revoked = links[l].revoked

\* No step takes a decision back.
LEMMA StepDecides ==
  ASSUME WorkspacesInv, [WorkspacesNext]_wsVars
  PROVE  Decided
<1>1. ASSUME UNCHANGED <<comments, links>> PROVE Decided
  BY <1>1 DEF Decided
<1>2. ASSUME NEW r \in Requests, createComment(r) PROVE Decided
  <2>1. links' = links
    BY <1>2 DEF createComment, Checking, tables
  <2>2. \/ comments' = comments
        \/ Runs(req[r]) /\ \E row : comments' = Insert(OneRow(r, row), comments)
    BY <1>2 DEF createComment, Checking, At, Runs, tables
  <2>3. ASSUME NEW row, Runs(req[r]), comments' = Insert(OneRow(r, row), comments)
        PROVE  \A c \in DOMAIN comments : comments'[c] = comments[c]
    <3>1. r \notin DOMAIN comments
      BY <2>3, Running DEF Wrote
    <3>2. Added(r, row, comments', comments)
      BY <2>3, <3>1, AddedRow
    <3> QED BY <3>1, <3>2 DEF Added
  <2> QED BY <2>1, <2>2, <2>3 DEF Decided
<1>3. ASSUME NEW r \in Requests, resolveComment(r) PROVE Decided
  <2>1. links' = links
    BY <1>3 DEF resolveComment, Checking, tables
  <2>2. \/ comments' = comments
        \/ \E c : comments' = [comments EXCEPT ![c].resolved = Earliest(@, r)]
    BY <1>3 DEF resolveComment, Checking, tables
  <2>3. comments \in Tables(Ids, CommentRow)
    BY DEF WorkspacesInv, TablesOK
  <2>4. \A c \in DOMAIN comments : comments[c] \in CommentRow
    BY <2>3, TableFacts
  <2>5. ASSUME NEW c, comments' = [comments EXCEPT ![c].resolved = Earliest(@, r)]
        PROVE  \A d \in DOMAIN comments : comments[d].resolved # Nil =>
                  comments'[d].resolved = comments[d].resolved
    BY <2>4, <2>5 DEF Earliest, CommentRow
  <2> QED BY <2>1, <2>2, <2>5 DEF Decided
<1>4. ASSUME NEW r \in Requests, revokeFileShareLink(r) PROVE Decided
  <2>1. comments' = comments
    BY <1>4 DEF revokeFileShareLink, Checking, tables
  <2>2. \/ links' = links
        \/ \E l : links' = [links EXCEPT ![l].revoked = Earliest(@, r)]
    BY <1>4 DEF revokeFileShareLink, Checking, tables
  <2>3. links \in Tables(Ids, LinkRow)
    BY DEF WorkspacesInv, TablesOK
  <2>4. \A l \in DOMAIN links : links[l] \in LinkRow
    BY <2>3, TableFacts
  <2>5. ASSUME NEW l, links' = [links EXCEPT ![l].revoked = Earliest(@, r)]
        PROVE  \A d \in DOMAIN links : links[d].revoked # Nil =>
                  links'[d].revoked = links[d].revoked
    BY <2>4, <2>5 DEF Earliest, LinkRow
  <2> QED BY <2>1, <2>2, <2>5 DEF Decided
<1>5. ASSUME NEW r \in Requests, Commit(r) PROVE Decided
  <2>1. comments' = comments /\ links' = Insert(req[r].rows.links, links) /\ req[r].at = "staged"
    BY <1>5, CommitTables
  <2>2. StagedFits(r, req[r]) /\ ~Wrote(r)
    BY <2>1, StagedRoutes
  <2>3. \/ req[r].rows.links = Empty
        \/ \E row : req[r].rows.links = OneRow(r, row)
    BY <2>1, <2>2 DEF StagedFits, NoRows
  <2>4. \A l \in DOMAIN links : links'[l] = links[l]
    <3>1. CASE req[r].rows.links = Empty
      BY <2>1, <3>1, AddedNothing
    <3>2. ASSUME NEW row, req[r].rows.links = OneRow(r, row)
          PROVE  \A l \in DOMAIN links : links'[l] = links[l]
      <4>1. r \notin DOMAIN links
        BY <2>2 DEF Wrote
      <4>2. Added(r, row, links', links)
        BY <2>1, <3>2, <4>1, AddedRow
      <4> QED BY <4>1, <4>2 DEF Added
    <3> QED BY <2>3, <3>1, <3>2
  <2> QED BY <2>1, <2>4 DEF Decided
<1>6. ASSUME NEW r \in Requests, cleanupSmokeCollabFixture(r) PROVE Decided
  <2>1. DOMAIN comments' = {} /\ DOMAIN links' = {}
    BY <1>6 DEF cleanupSmokeCollabFixture, Empty
  <2> QED BY <2>1 DEF Decided
<1>7. ASSUME NEW r \in Requests, NEW route \in Routes, Receive(r, route) PROVE Decided
  BY <1>1, <1>7 DEF Receive, tables
<1>8. ASSUME NEW u \in Users, NEW new \in Roles, ChangeRole(u, new) PROVE Decided
  BY <1>1, <1>8 DEF ChangeRole
<1>9. ASSUME Restart \/ UNCHANGED wsVars PROVE Decided
  BY <1>1, <1>9 DEF Restart, tables, wsVars
<1> QED
  BY <1>1, <1>2, <1>3, <1>4, <1>5, <1>6, <1>7, <1>8, <1>9, AdmitWritesNothing, QueryLeaves
     DEF WorkspacesNext

\* What is resolved or revoked stays so from the first time, however many
\* requests decide again.
THEOREM DecisionsLast == WorkspacesSpec => DecisionsStay
<1>1. WorkspacesInv /\ [WorkspacesNext]_wsVars => [Decided]_wsVars
  BY StepDecides
<1>2. WorkspacesSpec => [][Decided]_wsVars
  BY <1>1, WorkspacesAlwaysFit, PTL DEF WorkspacesSpec
<1> QED BY <1>2 DEF DecisionsStay, Decided
=============================================================================
