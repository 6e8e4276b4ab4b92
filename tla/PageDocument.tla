---------------------------- MODULE PageDocument ----------------------------
(***************************************************************************)
(* The tree of a page and the commands of apps/web/src/editor/commands.ts. *)
(* A document is a pair: the ids of the root nodes in paint order, and the *)
(* nodes by id.  x is relative to the parent, as in the code; y behaves as *)
(* x does and is left out, as are style, content and visibility, which no  *)
(* command reads.  The commands are those that PageEditorScreen and        *)
(* interactions.ts build, over any selection; ids that a collaborator has  *)
(* deleted drop out of a move and a deletion, and forbid a grouping.       *)
(***************************************************************************)
EXTENDS Integers, SequencesExt

CONSTANTS
  Shapes,     \* ids of rectangles, ellipses, texts and images
  Lines,      \* ids of lines
  Frames,     \* ids of frames
  Groups,     \* ids of groups
  Null,       \* the parentId of a root node
  PageWidth,  \* bound: commands that leave 0..PageWidth are not given
  MaxScale,   \* bound: a group is resized to a multiple of its width
  MaxCommits  \* bound: commands given

PageIds == Shapes \cup Lines \cup Frames \cup Groups
Containers == Frames \cup Groups

ASSUME KindsAreDisjoint ==
  /\ Shapes \cap Lines = {} /\ (Shapes \cup Lines) \cap Containers = {}
  /\ Frames \cap Groups = {}
ASSUME NullIsNoId == Null \notin PageIds
ASSUME PageBounds == PageWidth \in Nat /\ MaxScale \in Nat /\ MaxCommits \in Nat

VARIABLES
  page,     \* snapshot.document
  commits   \* the number of commands so far

pageVars == <<page, commits>>

-----------------------------------------------------------------------------
(* Reading a document.                                                     *)

NodeIds(d) == DOMAIN d.nodes

\* getOrderedSiblingIds
SiblingIds(d, p) == IF p = Null THEN d.rootNodeIds ELSE d.nodes[p].childIds

\* setOrderedSiblingIds
WithSiblings(d, p, ids) ==
  IF p = Null THEN [d EXCEPT !.rootNodeIds = ids] ELSE [d EXCEPT !.nodes[p].childIds = ids]

\* removeIds.  SelectSeq would say it, but no proof can look into that.
RemoveIds(ids, S) ==
  LET kept[i \in 0..Len(ids)] ==
        IF i = 0 THEN <<>>
        ELSE IF ids[i] \in S THEN kept[i - 1] ELSE Append(kept[i - 1], ids[i])
  IN kept[Len(ids)]

PlaceOf(ids, n) == SelectInSeq(ids, LAMBDA m : m = n)

\* getAncestorIds, of every node.
Ancestors(d) ==
  LET above[n \in NodeIds(d)] ==
        LET p == d.nodes[n].parentId IN IF p = Null THEN {} ELSE {p} \cup above[p]
  IN above

\* collectDescendantIds, of every node.
Descendants(d) ==
  LET below[n \in NodeIds(d)] == {n} \cup UNION {below[c] : c \in ToSet(d.nodes[n].childIds)}
  IN below

\* hasLockedAncestorOrSelf
IsLocked(d, n) == \E m \in Ancestors(d)[n] \cup {n} : d.nodes[m].locked

\* canMutateParent
CanMutateParent(d, p) == p = Null \/ (p \in NodeIds(d) \cap Containers /\ ~IsLocked(d, p))

\* Faulty variant: a node selected with its container counts as well.
TopLevelAll(d, S) == S

\* getTopLevelNodeIds
TopLevel(d, S) ==
  LET above == Ancestors(d) IN {n \in S : n \in NodeIds(d) => above[n] \cap S = {}}

\* getNodeAbsolutePosition, of every node.
Positions(d) ==
  LET at[n \in NodeIds(d)] ==
        LET p == d.nodes[n].parentId IN d.nodes[n].x + (IF p = Null THEN 0 ELSE at[p])
  IN at

Hull(boxes) ==
  LET left == Min({b.x : b \in boxes}) IN
  [x |-> left, width |-> Max({b.x + b.width : b \in boxes}) - left]

Larger(i, j) == IF i < j THEN j ELSE i

\* getNodeBounds, of every node.
Boxes(d) ==
  LET at == Positions(d)
      box[n \in NodeIds(d)] ==
        LET node == d.nodes[n]
            end == at[n] - node.x + node.x2
        IN CASE n \in Lines ->
                  [x |-> Min({at[n], end}), width |-> Larger(1, Larger(end - at[n], at[n] - end))]
             [] n \in Groups /\ node.childIds # <<>> -> Hull({box[c] : c \in ToSet(node.childIds)})
             [] OTHER -> [x |-> at[n], width |-> node.width]
  IN box

-----------------------------------------------------------------------------
(* What every command does at its end.                                     *)

\* normalizeGroups: a group takes the hull of its children and moves the x of
\* its children the other way; the x2 of a line stays.  A line's width is |x2 - x|.
NormalizeGroups(d) ==
  LET at == Positions(d)
      box == Boxes(d)
      Hugs(n) == n \in Groups /\ d.nodes[n].childIds # <<>>
      Left(n) == IF n = Null THEN 0 ELSE IF Hugs(n) THEN box[n].x ELSE at[n]
  IN [d EXCEPT !.nodes = [n \in NodeIds(d) |->
        [d.nodes[n] EXCEPT !.x = Left(n) - Left(d.nodes[n].parentId),
                           !.width = IF Hugs(n) \/ n \in Lines THEN box[n].width ELSE @]]]

\* Faulty variant: only the siblings at the root are numbered again.
NormalizeZIndicesRoot(d) ==
  [d EXCEPT !.nodes = [n \in NodeIds(d) |->
     IF d.nodes[n].parentId = Null
     THEN [d.nodes[n] EXCEPT !.zIndex = PlaceOf(d.rootNodeIds, n) - 1]
     ELSE d.nodes[n]]]

\* normalizeDocumentZIndices
NormalizeZIndices(d) ==
  [d EXCEPT !.nodes = [n \in NodeIds(d) |->
     [d.nodes[n] EXCEPT !.zIndex = PlaceOf(SiblingIds(d, d.nodes[n].parentId), n) - 1]]]

Normalized(d) == NormalizeZIndices(NormalizeGroups(d))

-----------------------------------------------------------------------------
(* Commands: what applyEditorCommand makes of a document.                  *)

WithNode(d, n, node) ==
  [d EXCEPT !.nodes = [m \in NodeIds(d) \cup {n} |-> IF m = n THEN node ELSE d.nodes[m]]]

NewNode(p, x, width, x2) ==
  [parentId |-> p, childIds |-> <<>>, x |-> x, width |-> width, x2 |-> x2,
   locked |-> FALSE, zIndex |-> 0]

ParentPosition(d, p) == IF p = Null THEN 0 ELSE Positions(d)[p]

\* applyCreateNode of a node the editor inserts last into container p, at the
\* page position at.
CanCreate(d, n, p) == n \in PageIds \ (NodeIds(d) \cup Groups) /\ CanMutateParent(d, p)

Created(d, n, p, at, width) ==
  LET x == at - ParentPosition(d, p)
      node == IF n \in Lines THEN NewNode(p, x, width, x + width) ELSE NewNode(p, x, width, 0)
  IN Normalized(WithSiblings(WithNode(d, n, node), p, Append(SiblingIds(d, p), n)))

\* applyMoveNode and applyResizeNode: every update or none.
CanUpdate(d, updates) ==
  /\ DOMAIN updates # {}
  /\ \A n \in DOMAIN updates : n \in NodeIds(d) /\ ~IsLocked(d, n)

\* Faulty variant: the groups around are not normalized.
UpdatedUnnormalized(d, updates) ==
  NormalizeZIndices([d EXCEPT !.nodes = [n \in NodeIds(d) |->
    IF n \in DOMAIN updates
    THEN [d.nodes[n] EXCEPT !.x = updates[n].x, !.width = updates[n].width, !.x2 = updates[n].x2]
    ELSE d.nodes[n]]])

Updated(d, updates) ==
  Normalized([d EXCEPT !.nodes = [n \in NodeIds(d) |->
    IF n \in DOMAIN updates
    THEN [d.nodes[n] EXCEPT !.x = updates[n].x, !.width = updates[n].width, !.x2 = updates[n].x2]
    ELSE d.nodes[n]]])

\* deriveMoveUpdates
MoveUpdates(d, S, delta) ==
  [n \in TopLevel(d, S) \cap NodeIds(d) |->
    [x |-> d.nodes[n].x + delta, width |-> d.nodes[n].width,
     x2 |-> IF n \in Lines THEN d.nodes[n].x2 + delta ELSE 0]]

\* deriveResizeUpdates of a node that is no line, to left and width: what a
\* group holds is scaled with it, from the outside in.
ResizeUpdates(d, n, left, width) ==
  LET at == Positions(d)
      box == Boxes(d)
      scale == IF n \in Groups THEN width \div box[n].width ELSE 1
      Below == IF n \in Groups THEN Descendants(d)[n] \ {n} ELSE {}
      NewLeft(m) == left + (box[m].x - box[n].x) * scale
      NewEnd(m) == left + (at[m] - d.nodes[m].x + d.nodes[m].x2 - box[n].x) * scale
      ParentLeft(m) == NewLeft(d.nodes[m].parentId)
  IN [m \in Below \cup {n} |->
       IF m = n
       THEN [x |-> left - ParentPosition(d, d.nodes[n].parentId), width |-> width, x2 |-> 0]
       ELSE [x |-> NewLeft(m) - ParentLeft(m), width |-> box[m].width * scale,
             x2 |-> IF m \in Lines THEN NewEnd(m) - ParentLeft(m) ELSE 0]]

\* deriveResizeUpdates of a line, to two page positions.
LineUpdates(d, n, start, end) ==
  LET origin == ParentPosition(d, d.nodes[n].parentId) IN
  [m \in {n} |-> [x |-> start - origin, width |-> Larger(1, Larger(end - start, start - end)),
                  x2 |-> end - origin]]

\* applyUpdateNode with the patch of the lock button: allowed on locked nodes.
LockToggled(d, n) == Normalized([d EXCEPT !.nodes[n].locked = ~@])

\* applyReorderNode, from place i among the siblings to place i + delta.
CanReorder(d, n, delta) ==
  /\ n \in NodeIds(d) /\ ~IsLocked(d, n)
  /\ LET ids == SiblingIds(d, d.nodes[n].parentId) IN
       PlaceOf(ids, n) + delta \in 1..Len(ids)

Reordered(d, n, delta) ==
  LET p == d.nodes[n].parentId
      ids == SiblingIds(d, p)
  IN NormalizeZIndices(
       WithSiblings(d, p, InsertAt(RemoveIds(ids, {n}), PlaceOf(ids, n) + delta, n)))

\* applyDeleteNode: what is locked stays, the rest goes with all below it.
Deletable(d, S) == {n \in TopLevel(d, S) \cap NodeIds(d) : ~IsLocked(d, n)}

Deleted(d, S) ==
  LET gone == UNION {Descendants(d)[n] : n \in Deletable(d, S)}
  IN Normalized([rootNodeIds |-> RemoveIds(d.rootNodeIds, gone),
                 nodes |-> [n \in NodeIds(d) \ gone |->
                   [d.nodes[n] EXCEPT !.childIds = RemoveIds(@, gone)]]])

\* applyGroupNodes: at least two unlocked nodes with one parent.
CanGroup(d, S, g) ==
  LET tops == TopLevel(d, S) IN
  /\ Cardinality(tops) >= 2
  /\ g \in Groups \ NodeIds(d)
  /\ tops \subseteq NodeIds(d)
  /\ \E p \in NodeIds(d) \cup {Null} :
       (\A n \in tops : d.nodes[n].parentId = p) /\ CanMutateParent(d, p)
  /\ \A n \in tops : ~IsLocked(d, n)

Grouped(d, S, g) ==
  LET tops == TopLevel(d, S)
      p == d.nodes[CHOOSE n \in tops : TRUE].parentId
      siblings == SiblingIds(d, p)
      others == RemoveIds(siblings, tops)
      index == Max({i \in 1..Len(siblings) : siblings[i] \in tops})
      hull == Hull({Boxes(d)[n] : n \in tops})
      group == [NewNode(p, hull.x - ParentPosition(d, p), hull.width, 0)
                  EXCEPT !.childIds = RemoveIds(siblings, ToSet(siblings) \ tops)]
      inside == [d EXCEPT !.nodes = [n \in NodeIds(d) |->
                   IF n \in tops
                   THEN [d.nodes[n] EXCEPT !.parentId = g, !.x = Positions(d)[n] - hull.x]
                   ELSE d.nodes[n]]]
  IN Normalized(WithSiblings(WithNode(inside, g, group), p,
                             InsertAt(others, Min({index, Len(others) + 1}), g)))

\* Faulty variant: the children keep the x they had in the group.
UngroupedUnshifted(d, g) ==
  LET p == d.nodes[g].parentId
      siblings == SiblingIds(d, p)
      i == PlaceOf(siblings, g)
      promoted == d.nodes[g].childIds
      placed == WithSiblings(d, p, SubSeq(siblings, 1, i - 1) \o promoted
                                     \o SubSeq(siblings, i + 1, Len(siblings)))
  IN Normalized([placed EXCEPT !.nodes = [n \in NodeIds(d) \ {g} |->
       IF n \in ToSet(promoted)
       THEN [placed.nodes[n] EXCEPT !.parentId = p]
       ELSE placed.nodes[n]]])

\* applyUngroupNode: the children take the group's place among its siblings.
CanUngroup(d, g) == g \in Groups \cap NodeIds(d) /\ ~IsLocked(d, g)

Ungrouped(d, g) ==
  LET p == d.nodes[g].parentId
      siblings == SiblingIds(d, p)
      i == PlaceOf(siblings, g)
      promoted == d.nodes[g].childIds
      placed == WithSiblings(d, p, SubSeq(siblings, 1, i - 1) \o promoted
                                     \o SubSeq(siblings, i + 1, Len(siblings)))
  IN Normalized([placed EXCEPT !.nodes = [n \in NodeIds(d) \ {g} |->
       IF n \in ToSet(promoted)
       THEN [placed.nodes[n] EXCEPT !.parentId = p, !.x = Positions(d)[n] - ParentPosition(d, p)]
       ELSE placed.nodes[n]]])

-----------------------------------------------------------------------------
(* The editor: one command after the other.                                *)

\* commit writes what the command made, unless nothing changed.
CommitPage(d) ==
  /\ commits < MaxCommits
  /\ d # page
  /\ LET box == Boxes(d) IN
       \A n \in NodeIds(d) : box[n].x >= 0 /\ box[n].x + box[n].width <= PageWidth
  /\ page' = d
  /\ commits' = commits + 1

PageInit ==
  /\ page = [rootNodeIds |-> <<>>, nodes |-> [n \in {} |-> 0]]
  /\ commits = 0

CreateNode(n, p, at) == CanCreate(page, n, p) /\ CommitPage(Created(page, n, p, at, 1))

MoveNodes(S, delta) ==
  LET updates == MoveUpdates(page, S, delta) IN
  CanUpdate(page, updates) /\ CommitPage(Updated(page, updates))

\* A drag on a handle keeps the other edge where it is.
ResizeNode(n, left, width) ==
  /\ n \in NodeIds(page) \ Lines
  /\ LET box == Boxes(page)[n] IN
       /\ left = box.x \/ left + width = box.x + box.width
       /\ n \in Groups => \E k \in 1..MaxScale : width = k * box.width
  /\ LET updates == ResizeUpdates(page, n, left, width) IN
       CanUpdate(page, updates) /\ CommitPage(Updated(page, updates))

ResizeLine(n, start, end) ==
  /\ n \in NodeIds(page) \cap Lines
  /\ LET updates == LineUpdates(page, n, start, end)
         from == Positions(page)[n]
         to == from - page.nodes[n].x + page.nodes[n].x2
     IN /\ start = from \/ end = to
        /\ CanUpdate(page, updates) /\ CommitPage(Updated(page, updates))

ToggleLock(n) == n \in NodeIds(page) /\ CommitPage(LockToggled(page, n))

\* The layer list moves a node one place down or up.
ReorderNode(n, delta) == CanReorder(page, n, delta) /\ CommitPage(Reordered(page, n, delta))

DeleteNodes(S) == Deletable(page, S) # {} /\ CommitPage(Deleted(page, S))

GroupNodes(S, g) == CanGroup(page, S, g) /\ CommitPage(Grouped(page, S, g))

UngroupNode(g) == CanUngroup(page, g) /\ CommitPage(Ungrouped(page, g))

PageNext ==
  \/ \E n \in PageIds, p \in NodeIds(page) \cup {Null}, at \in 0..PageWidth - 1 :
       CreateNode(n, p, at)
  \/ \E S \in SUBSET NodeIds(page), delta \in {-1, 1} : MoveNodes(S, delta)
  \/ \E n \in PageIds, left \in 0..PageWidth, width \in 1..PageWidth : ResizeNode(n, left, width)
  \/ \E n \in Lines, start, end \in 0..PageWidth : ResizeLine(n, start, end)
  \/ \E n \in PageIds : ToggleLock(n)
  \/ \E n \in PageIds, delta \in {-1, 1} : ReorderNode(n, delta)
  \/ \E S \in SUBSET NodeIds(page) : DeleteNodes(S)
  \/ \E S \in SUBSET NodeIds(page), g \in Groups : GroupNodes(S, g)
  \/ \E g \in Groups : UngroupNode(g)

PageSpec == PageInit /\ [][PageNext]_pageVars

-----------------------------------------------------------------------------
(* Properties.                                                             *)

Node == [parentId : PageIds \cup {Null}, childIds : Seq(PageIds), x : Int, width : Nat \ {0},
         x2 : Int, locked : BOOLEAN, zIndex : Nat]

(* Documents stay in their type.                                           *)
PageTypeOK ==
  /\ DOMAIN page = {"rootNodeIds", "nodes"}
  /\ page.rootNodeIds \in Seq(PageIds)
  /\ NodeIds(page) \subseteq PageIds
  /\ \A n \in NodeIds(page) : page.nodes[n] \in Node
  /\ commits \in 0..MaxCommits

(* The page is a tree, and the three ways the code stores it agree: a node *)
(* is once in the child list of its parent and in no other, only containers *)
(* have children, no node is its own ancestor, zIndex is the place in the  *)
(* list.  The loops of commands.ts and the painting rely on all of it.     *)
TreeIsWellFormed ==
  /\ PageTypeOK
  /\ \A n \in NodeIds(page) : page.nodes[n].parentId \in (NodeIds(page) \cap Containers) \cup {Null}
  /\ \A p \in NodeIds(page) \cup {Null} :
       /\ IsInjective(SiblingIds(page, p))
       /\ ToSet(SiblingIds(page, p)) = {n \in NodeIds(page) : page.nodes[n].parentId = p}
       /\ \A i \in 1..Len(SiblingIds(page, p)) : page.nodes[SiblingIds(page, p)[i]].zIndex = i - 1
  /\ \A S \in SUBSET NodeIds(page) : S # {} => \E n \in S : page.nodes[n].parentId \notin S

(* After every command a group is exactly the hull of what it holds, at    *)
(* every level, so that handles and hits are where the content is.  Lines  *)
(* do not keep it: normalizeGroupNode moves the x of a line and not its x2. *)
GroupsHugTheirChildren ==
  LET below == Descendants(page)
      box == Boxes(page) IN
  \A g \in NodeIds(page) \cap Groups :
    below[g] \cap Lines = {} =>
      box[g] = [x |-> Positions(page)[g], width |-> page.nodes[g].width]

Structure(d) == [n \in NodeIds(d) |->
  <<d.nodes[n].parentId, d.nodes[n].zIndex, d.nodes[n].locked>>]

(* Commands that change the structure, the order or a lock leave every     *)
(* node that stays where it is on the page, however deep the regrouping    *)
(* is.  "Where it is" is what is painted, and groups paint nothing.        *)
StructureKeepsPlaces ==
  [][Structure(page') # Structure(page) =>
       LET box == Boxes(page)
           now == Boxes(page') IN
       \A n \in (NodeIds(page) \cap NodeIds(page')) \ (Groups \cup Lines) : now[n] = box[n]
    ]_pageVars

(* A drag moves the selected nodes with all they hold by the distance of   *)
(* the pointer, and nothing else: not the siblings in a group that takes   *)
(* its new hull, and no node twice that is selected with its container.    *)
MovesExactlyTheSelection ==
  LET box == Boxes(page)
      above == Ancestors(page) IN
  \A k, m \in NodeIds(page) :
    LET updates == MoveUpdates(page, {k, m}, 1)
        moved == Updated(page, updates)
        now == Boxes(moved) IN
    CanUpdate(page, updates) =>
      /\ moved.nodes # page.nodes
      /\ \A n \in NodeIds(page) \ (Groups \cup Lines) :
           now[n].x = box[n].x + (IF (above[n] \cup {n}) \cap {k, m} # {} THEN 1 ELSE 0)

(* Resizing a group scales the picture: every node in it, at any depth and *)
(* through frames and groups, keeps its place and size relative to the     *)
(* group, the group gets the size of the handle, and the rest stays.       *)
ResizeScalesThePicture ==
  LET box == Boxes(page)
      below == Descendants(page) IN
  \A g \in NodeIds(page) \cap Groups, scale \in 1..MaxScale :
    LET updates == ResizeUpdates(page, g, box[g].x + 1, scale * box[g].width)
        resized == Updated(page, updates)
        now == Boxes(resized) IN
    (CanUpdate(page, updates) /\ below[g] \cap Lines = {}) =>
      /\ resized.nodes # page.nodes
      /\ \A n \in NodeIds(page) \ Lines :
           IF n \in below[g]
           THEN /\ now[n].x = box[g].x + 1 + scale * (box[n].x - box[g].x)
                /\ now[n].width = scale * box[n].width
           ELSE n \in Groups \/ now[n] = box[n]

(* A drag and a handle do to the picture exactly what the pointer shows.   *)
GesturesAreExact == MovesExactlyTheSelection /\ ResizeScalesThePicture
=============================================================================
