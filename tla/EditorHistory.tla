--------------------------- MODULE EditorHistory ---------------------------
(***************************************************************************)
(* One page edited in several tabs, with the undo and redo of              *)
(* apps/web/src/editor/session.ts.  A session keeps the page in two keys   *)
(* of a Y.Map, rootNodeIds and nodes, which one transaction sets together: *)
(* every commit, undo and redo writes the whole page.  What a tab shows is *)
(* therefore one of the writes it knows, the one Yjs puts last in the      *)
(* key's list: a write stands behind the write it replaced, and of two     *)
(* that replaced the same one the higher doc.clientID stands last.         *)
(*                                                                         *)
(* Writes reach the service and the tabs in causal order, which is what    *)
(* CollabServer does with them.  A tab that is reloaded has a new clientID *)
(* and no history: it is another member of Tabs.                           *)
(***************************************************************************)
EXTENDS Integers, Sequences

CONSTANTS
  Tabs,         \* doc.clientID of each session
  Nodes,        \* nodes of the page, a changed node being another one
  MaxWrites     \* bound: writes of the page

ASSUME TabAssumption == Tabs \subseteq Nat
ASSUME WriteBoundAssumption == MaxWrites \in Nat

VARIABLES
  writes,   \* every writePageDocument, in the order they were made
  known,    \* [Tabs -> the writes in the tab's Y.Doc]
  served,   \* the writes in the service's Y.Doc
  shown,    \* [Tabs -> the write the tab's snapshot shows], 0 the empty page
  past,     \* [Tabs -> stack of commands to undo]
  future    \* [Tabs -> stack of commands to redo]

historyVars == <<writes, known, served, shown, past, future>>

Ids == 1..Len(writes)

\* snapshot.document of a tab that shows write s, as readPageDocument reads it.
Document(s) == IF s = 0 THEN {} ELSE writes[s].nodes

\* The writes that lie under s in the list, s included.
Path(s) == IF s = 0 THEN {} ELSE writes[s].under \cup {s}

HistoryInit ==
  /\ writes = <<>>
  /\ known = [c \in Tabs |-> {}]
  /\ served = {}
  /\ shown = [c \in Tabs |-> 0]
  /\ past = [c \in Tabs |-> <<>>]
  /\ future = [c \in Tabs |-> <<>>]

\* writePageDocument in tab c: one transaction over what the tab shows.  kind,
\* node, under (all it lies over) and seen (all c knew) are history.
WritePage(c, kind, node, nodes) ==
  LET id == Len(writes) + 1 IN
  /\ id <= MaxWrites
  /\ writes' = Append(writes, [tab |-> c, kind |-> kind, node |-> node, nodes |-> nodes,
                               over |-> shown[c], under |-> Path(shown[c]), seen |-> known[c]])
  /\ known' = [known EXCEPT ![c] = @ \cup {id}]
  /\ shown' = [shown EXCEPT ![c] = id]
  /\ UNCHANGED served

\* Faulty variant: emit is not called for remote updates, the snapshot is stale.
CommitStale(c, node) ==
  LET before == IF past[c] = <<>> THEN {} ELSE past[c][Len(past[c])].after
      after  == IF node \in before THEN before \ {node} ELSE before \cup {node} IN
  /\ node \in before \/ \A i \in Ids : writes[i].node # node
  /\ past' = [past EXCEPT ![c] = Append(@, [node |-> node, before |-> before, after |-> after])]
  /\ future' = [future EXCEPT ![c] = <<>>]
  /\ WritePage(c, "commit", node, after)

\* Faulty variant: the redo stack survives a new command.
CommitKeepsFuture(c, node) ==
  LET before == Document(shown[c])
      after  == IF node \in before THEN before \ {node} ELSE before \cup {node} IN
  /\ node \in before \/ \A i \in Ids : writes[i].node # node
  /\ past' = [past EXCEPT ![c] = Append(@, [node |-> node, before |-> before, after |-> after])]
  /\ UNCHANGED future
  /\ WritePage(c, "commit", node, after)

\* commit: a command deletes a node of the page or creates a new one.
Commit(c, node) ==
  LET before == Document(shown[c])
      after  == IF node \in before THEN before \ {node} ELSE before \cup {node} IN
  /\ node \in before \/ \A i \in Ids : writes[i].node # node
  /\ past' = [past EXCEPT ![c] = Append(@, [node |-> node, before |-> before, after |-> after])]
  /\ future' = [future EXCEPT ![c] = <<>>]
  /\ WritePage(c, "commit", node, after)

\* undo puts the whole document back that the command found.
Undo(c) ==
  LET entry == past[c][Len(past[c])] IN
  /\ past[c] # <<>>
  /\ past' = [past EXCEPT ![c] = SubSeq(@, 1, Len(@) - 1)]
  /\ future' = [future EXCEPT ![c] = Append(@, entry)]
  /\ WritePage(c, "undo", entry.node, entry.before)

Redo(c) ==
  LET entry == future[c][Len(future[c])] IN
  /\ future[c] # <<>>
  /\ future' = [future EXCEPT ![c] = SubSeq(@, 1, Len(@) - 1)]
  /\ past' = [past EXCEPT ![c] = Append(@, entry)]
  /\ WritePage(c, "redo", entry.node, entry.after)

\* The tab's updates reach the service, at once or with a later handshake.
Send(c, w) ==
  /\ w \in known[c] \ served
  /\ writes[w].seen \subseteq served
  /\ served' = served \cup {w}
  /\ UNCHANGED <<writes, known, shown, past, future>>

\* Item.integrate of Yjs: does write w come to stand behind s?
TakesOver(w, s) ==
  \/ writes[w].over = s
  \/ \E a \in Path(s) : writes[a].over = writes[w].over /\ writes[a].tab < writes[w].tab

\* Faulty variant: an update is applied although what it builds on is missing.
ReceiveUnordered(c, w) ==
  /\ w \in served \ known[c]
  /\ known' = [known EXCEPT ![c] = @ \cup {w}]
  /\ shown' = IF TakesOver(w, shown[c]) THEN [shown EXCEPT ![c] = w] ELSE shown
  /\ UNCHANGED <<writes, served, past, future>>

\* readSyncMessage with origin "remote": merge, and emit the new snapshot.
\* The stacks stay as they are.
Receive(c, w) ==
  /\ w \in served \ known[c]
  /\ writes[w].seen \subseteq known[c]
  /\ known' = [known EXCEPT ![c] = @ \cup {w}]
  /\ shown' = IF TakesOver(w, shown[c]) THEN [shown EXCEPT ![c] = w] ELSE shown
  /\ UNCHANGED <<writes, served, past, future>>

HistoryNext ==
  \E c \in Tabs :
    \/ \E node \in Nodes : Commit(c, node)
    \/ Undo(c) \/ Redo(c)
    \/ \E w \in known[c] : Send(c, w)
    \/ \E w \in served : Receive(c, w)

HistorySpec == HistoryInit /\ [][HistoryNext]_historyVars

-----------------------------------------------------------------------------
(* Properties.                                                             *)

Command == [node : Nodes, before : SUBSET Nodes, after : SUBSET Nodes]

Write == [tab : Tabs, kind : {"commit", "undo", "redo"}, node : Nodes, nodes : SUBSET Nodes,
          over : Nat, under : SUBSET (Nat \ {0}), seen : SUBSET (Nat \ {0})]

(* Writes, snapshots and stacks stay in their types, and whoever knows a   *)
(* write knows all its author knew.                                        *)
HistoryTypeOK ==
  /\ writes \in Seq(Write)
  /\ Len(writes) <= MaxWrites
  /\ known \in [Tabs -> SUBSET Ids]
  /\ served \in SUBSET Ids
  /\ shown \in [Tabs -> Ids \cup {0}]
  /\ past \in [Tabs -> Seq(Command)]
  /\ future \in [Tabs -> Seq(Command)]
  /\ \A w \in served : writes[w].seen \subseteq served
  /\ \A c \in Tabs : \A w \in known[c] : writes[w].seen \subseteq known[c]

(* Two tabs that know the same writes show the same page, in whatever      *)
(* order commits, undos and redos of all tabs reached them.                *)
Convergence == \A c, d \in Tabs : known[c] = known[d] => shown[c] = shown[d]

(* No tab shows a page that somebody, having seen it, has replaced: a tab  *)
(* that knows the newer write shows that one or another, however many      *)
(* concurrent writes there are.                                            *)
NeverOutdated == \A c \in Tabs : \A w \in known[c] : shown[c] \notin writes[w].seen \cup {writes[w].over}

\* The stacks of c chain through the page that is shown.
StacksChain(c) ==
  /\ past[c] # <<>> => past[c][Len(past[c])].after = Document(shown[c])
  /\ future[c] # <<>> => future[c][Len(future[c])].before = Document(shown[c])
  /\ \A i \in 1..Len(past[c]) - 1 : past[c][i].after = past[c][i + 1].before
  /\ \A i \in 1..Len(future[c]) - 1 : future[c][i + 1].after = future[c][i].before

(* A user alone on a page has an exact history: undoing and redoing visit  *)
(* every page again as it was, whatever was undone before the last command. *)
SoloHistoryIsExact ==
  \A c \in Tabs : (\A w \in known[c] : writes[w].tab = c) => StacksChain(c)

(* Users who take turns lose nothing: when every command was made by a tab *)
(* that knew all earlier ones and nobody undid anything, the last page has *)
(* exactly the nodes that were created and not deleted.                    *)
TakingTurnsLosesNothing ==
  (\A i \in Ids : writes[i].kind = "commit" /\ writes[i].seen = 1..i - 1) =>
    \A i \in Ids : writes[i].nodes =
      {n \in Nodes : \E j \in 1..i : /\ writes[j].node = n
                                     /\ n \in writes[j].nodes
                                     /\ \A k \in j + 1..i : writes[k].node # n}

Changed(before, after) == (before \ after) \cup (after \ before)

(* The editor design's "local history over collaborative page state":      *)
(* undoing a command changes what that command changed and nothing else.   *)
UndoLeavesOthersAlone ==
  [][\A c \in Tabs : Len(past'[c]) < Len(past[c]) =>
       Changed(Document(shown[c]), Document(shown[c])') \subseteq {past[c][Len(past[c])].node}
    ]_historyVars
=============================================================================
