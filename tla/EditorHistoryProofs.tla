------------------------ MODULE EditorHistoryProofs ------------------------
(***************************************************************************)
(* Proofs about EditorHistory for any tabs, nodes and number of writes.    *)
(***************************************************************************)
EXTENDS EditorHistory, SequenceTheorems, NaturalsInduction, WellFoundedInduction, TLAPS

-----------------------------------------------------------------------------
(* The inductive invariant: what a tab shows is the last write of the list *)
(* it knows, and so was what every author replaced.                        *)

\* Nothing of S replaced s, and at every fork below s the path took the higher tab.
LatestIn(s, S) ==
  /\ \A i \in S : writes[i].over # s
  /\ \A a \in Path(s) : \A b \in S :
       writes[b].over = writes[a].over => writes[b].tab <= writes[a].tab

\* Whoever knows a write of S knows all its author knew.
Closed(S) == \A i \in S : writes[i].seen \subseteq S

\* Each write was made over what its author saw last.
WellMade ==
  \A i \in Ids : /\ writes[i].over \in 0..i - 1
                 /\ writes[i].seen \subseteq 1..i - 1
                 /\ writes[i].under = Path(writes[i].over)
                 /\ writes[i].under \subseteq writes[i].seen
                 /\ Closed(writes[i].seen)
                 /\ LatestIn(writes[i].over, writes[i].seen)

\* The writes under a write form one path down to the empty page.
PathsLinked ==
  \A i \in Ids : /\ \A b \in writes[i].under \cup {0} : \E a \in Path(i) : writes[a].over = b
                 /\ \A b \in writes[i].under : writes[b].under \subseteq writes[i].under

SiblingsDiffer ==
  \A i, j \in Ids : writes[i].over = writes[j].over /\ writes[i].tab = writes[j].tab => i = j

OwnWritesKnown == \A i \in Ids : i \in known[writes[i].tab]

ShownIsLatest ==
  \A c \in Tabs : shown[c] \in known[c] \cup {0} /\ LatestIn(shown[c], known[c])

HistoryInv ==
  /\ HistoryTypeOK
  /\ WellMade /\ PathsLinked /\ SiblingsDiffer /\ OwnWritesKnown /\ ShownIsLatest

-----------------------------------------------------------------------------
(* The latest write of a set is unique.                                    *)

\* A set of natural numbers that is not empty has a smallest member.
LEMMA LeastMember ==
  ASSUME NEW U \in SUBSET Nat, U # {}
  PROVE  \E m \in U : \A u \in U : m <= u
<1>1. IsWellFoundedOn(OpToRel(<, Nat), Nat)
  BY NatLessThanWellFounded
<1>2. PICK m \in U : \A u \in U : <<u, m>> \notin OpToRel(<, Nat)
  BY <1>1, WFMin
<1>3. \A u \in U : ~ (u < m)
  BY <1>2 DEF OpToRel
<1> QED BY <1>3

\* What the type invariant says of one write.
LEMMA WriteFacts ==
  ASSUME HistoryTypeOK, WellMade, NEW i \in Ids
  PROVE  /\ i \in Nat /\ i > 0
         /\ writes[i] \in Write
         /\ writes[i].tab \in Nat
         /\ writes[i].over \in Nat /\ writes[i].over < i
         /\ \A a \in writes[i].under \cup writes[i].seen : a \in Ids /\ a < i
<1>1. Len(writes) \in Nat /\ i \in Nat /\ i > 0 /\ i <= Len(writes)
  BY DEF HistoryTypeOK, Ids
<1>2. writes[i] \in Write
  BY <1>1 DEF HistoryTypeOK, Ids
<1>3. writes[i].tab \in Nat
  BY <1>2, TabAssumption DEF Write
<1>4. /\ writes[i].over \in 0..i - 1
      /\ writes[i].seen \subseteq 1..i - 1
      /\ writes[i].under \subseteq 1..i - 1
  BY DEF WellMade
<1>5. \A a \in 1..i - 1 : a \in Ids /\ a < i
  BY <1>1 DEF Ids
<1>6. writes[i].over \in Nat /\ writes[i].over < i
  BY <1>1, <1>4
<1> QED BY <1>1, <1>2, <1>3, <1>4, <1>5, <1>6

\* A path lies within a closed set that holds its end, and the numbers on it descend.
LEMMA PathFacts ==
  ASSUME HistoryTypeOK, WellMade, NEW S \in SUBSET Ids, Closed(S), NEW s \in S \cup {0}
  PROVE  /\ Path(s) \subseteq S
         /\ \A a \in Path(s) : a <= s /\ writes[a].over < s
<1>1. CASE s = 0
  BY <1>1 DEF Path
<1>2. CASE s \in S
  <2>1. s \in Ids /\ writes[s].under \subseteq writes[s].seen /\ writes[s].seen \subseteq S
    BY <1>2 DEF WellMade, Closed
  <2>2. Path(s) \subseteq writes[s].under \cup {s}
    BY DEF Path
  <2>3. \A a \in Path(s) : a \in Ids /\ a <= s
    BY <2>1, <2>2, WriteFacts
  <2>4. \A a \in Path(s) : writes[a].over < s
    BY <2>1, <2>3, WriteFacts
  <2> QED BY <2>1, <2>2, <2>3, <2>4, <1>2
<1> QED BY <1>1, <1>2

\* Below a member of a path, the path is linked.
LEMMA PathStep ==
  ASSUME HistoryTypeOK, WellMade, PathsLinked, NEW v \in Ids, NEW b \in writes[v].under \cup {0}
  PROVE  \E a \in Path(v) : writes[a].over = b
BY DEF PathsLinked

\* Where a member of one path leaves another, both have replaced the same write.
LEMMA PathsMeet ==
  ASSUME HistoryTypeOK, WellMade, PathsLinked,
         NEW S \in SUBSET Ids, Closed(S), NEW w \in S \cup {0}, NEW v \in S \cup {0},
         w \notin Path(v) \cup {0}, v \notin Path(w) \cup {0}
  PROVE  \E a \in Path(w), b \in Path(v) : a # b /\ writes[a].over = writes[b].over
<1> DEFINE D == Path(w) \ Path(v)
<1>1. w \in Ids /\ v \in Ids /\ w \in D /\ Path(w) \subseteq Ids /\ Path(v) \subseteq Ids
  BY PathFacts DEF Path
<1>2. D \in SUBSET Nat /\ D # {}
  BY <1>1 DEF Ids
<1>3. PICK a \in D : \A u \in D : a <= u
  BY <1>2, LeastMember
<1>4. a \in Ids /\ writes[a].over \in Nat /\ writes[a].over < a
  BY <1>1, <1>3, WriteFacts
<1>5. writes[a].over \in Path(w) \cup {0}
  <2>1. CASE a = w
    <3>1. writes[w].under = Path(writes[w].over)
      BY <1>1 DEF WellMade
    <3>2. writes[w].over = 0 \/ writes[w].over \in writes[w].under
      BY <3>1 DEF Path
    <3> QED BY <2>1, <3>2, <1>1 DEF Path
  <2>2. CASE a # w
    <3>1. a \in writes[w].under
      BY <2>2, <1>1, <1>3 DEF Path
    <3>2. writes[a].under \subseteq writes[w].under
      BY <3>1, <1>1 DEF PathsLinked
    <3>3. writes[a].under = Path(writes[a].over)
      BY <1>4 DEF WellMade
    <3>4. writes[a].over = 0 \/ writes[a].over \in writes[a].under
      BY <3>3 DEF Path
    <3> QED BY <3>2, <3>4, <1>1 DEF Path
  <2> QED BY <2>1, <2>2
<1>6. writes[a].over \in Path(v) \cup {0}
  <2>1. writes[a].over \notin D
    BY <1>3, <1>4, <1>2
  <2> QED BY <2>1, <1>5
<1>7. writes[a].over \in writes[v].under \cup {0}
  <2>1. writes[a].over # v
    BY <1>5
  <2> QED BY <2>1, <1>6, <1>1 DEF Path
<1>8. PICK b \in Path(v) : writes[b].over = writes[a].over
  BY <1>1, <1>7, PathStep
<1>9. a \in Path(w) /\ a \notin Path(v)
  BY <1>3
<1> QED BY <1>8, <1>9

\* A closed set of writes has one latest write at most.
LEMMA LatestIsUnique ==
  ASSUME HistoryTypeOK, WellMade, PathsLinked, SiblingsDiffer,
         NEW S \in SUBSET Ids, Closed(S), NEW w \in S \cup {0}, NEW v \in S \cup {0},
         LatestIn(w, S), LatestIn(v, S)
  PROVE  w = v
<1>1. ASSUME NEW x \in S \cup {0}, NEW y \in S \cup {0}, LatestIn(x, S), x # y
      PROVE  x \notin Path(y) \cup {0}
  <2> SUFFICES ASSUME x \in Path(y) \cup {0} PROVE FALSE
    OBVIOUS
  <2>1. y \in Ids /\ x \in writes[y].under \cup {0}
    BY <1>1 DEF Path
  <2>2. PICK a \in Path(y) : writes[a].over = x
    BY <2>1, PathStep
  <2>3. a \in S
    BY <2>2, PathFacts
  <2> QED BY <2>2, <2>3, <1>1 DEF LatestIn
<1> SUFFICES ASSUME w # v PROVE FALSE
  OBVIOUS
<1>2. w \notin Path(v) \cup {0} /\ v \notin Path(w) \cup {0}
  BY <1>1
<1>3. PICK a \in Path(w), b \in Path(v) : a # b /\ writes[a].over = writes[b].over
  BY <1>2, PathsMeet
<1>4. a \in S /\ b \in S
  BY <1>3, PathFacts
<1>5. writes[a].tab <= writes[b].tab /\ writes[b].tab <= writes[a].tab
  BY <1>3, <1>4 DEF LatestIn
<1>6. writes[a].tab = writes[b].tab
  BY <1>4, <1>5, WriteFacts
<1> QED BY <1>3, <1>4, <1>6 DEF SiblingsDiffer

-----------------------------------------------------------------------------
(* The steps.                                                              *)

\* Item.integrate moves the end of the list to its new end.
LEMMA IntegrateKeepsLatest ==
  ASSUME HistoryTypeOK, WellMade, PathsLinked,
         NEW S \in SUBSET Ids, Closed(S), NEW w \in Ids \ S, writes[w].seen \subseteq S,
         NEW s \in S \cup {0}, LatestIn(s, S)
  PROVE  LatestIn(IF TakesOver(w, s) THEN w ELSE s, S \cup {w})
<1>1. \A i \in S : writes[i].over # w
  <2> SUFFICES ASSUME NEW i \in S, writes[i].over = w PROVE FALSE
    OBVIOUS
  <2>1. w \in Path(writes[i].over) /\ i \in Ids
    BY WriteFacts DEF Path
  <2>2. w \in writes[i].seen
    BY <2>1 DEF WellMade
  <2> QED BY <2>2 DEF Closed
<1>2. writes[w].over # w /\ w \in Nat /\ w > 0 /\ writes[w].over < w
  BY WriteFacts
<1>3. Path(s) \subseteq S /\ \A a \in Path(s) : writes[a].over < s
  BY PathFacts
<1>4. Path(w) = Path(writes[w].over) \cup {w}
  <2>1. writes[w].under = Path(writes[w].over)
    BY DEF WellMade
  <2>2. Path(w) = writes[w].under \cup {w}
    BY <1>2 DEF Path
  <2> QED BY <2>1, <2>2
<1>5. \A a \in Path(s) : writes[a].over # s
  <2>1. s = 0 \/ s \in Ids
    OBVIOUS
  <2>2. s \in Nat
    BY <2>1, WriteFacts
  <2>3. \A a \in Path(s) : writes[a].over \in Nat
    BY <1>3, WriteFacts
  <2> QED BY <2>2, <2>3, <1>3
<1>6. CASE writes[w].over = s
  <2>1. TakesOver(w, s)
    BY <1>6 DEF TakesOver
  <2>2. \A i \in S \cup {w} : writes[i].over # w
    BY <1>1, <1>2
  <2>3. ASSUME NEW a \in Path(w), NEW b \in S \cup {w}, writes[b].over = writes[a].over
        PROVE  writes[b].tab <= writes[a].tab
    <3>1. CASE a = w
      <4>1. b = w
        BY <3>1, <2>3, <1>6 DEF LatestIn
      <4> QED BY <3>1, <4>1, WriteFacts
    <3>2. CASE a \in Path(s)
      <4>1. b \in S
        BY <3>2, <1>5, <1>6, <2>3
      <4> QED BY <4>1, <3>2, <2>3 DEF LatestIn
    <3> QED BY <3>1, <3>2, <1>4, <1>6
  <2> QED BY <2>1, <2>2, <2>3 DEF LatestIn
<1>7. CASE writes[w].over # s /\ TakesOver(w, s)
  <2>1. PICK f \in Path(s) : writes[f].over = writes[w].over /\ writes[f].tab < writes[w].tab
    BY <1>7 DEF TakesOver
  <2>2. s \in Ids /\ f \in Ids /\ Path(writes[w].over) \subseteq Path(s)
    <3>1. s \in Ids /\ f \in S
      BY <2>1, <1>3 DEF Path
    <3>2. Path(writes[f].over) = writes[f].under
      BY <3>1 DEF WellMade
    <3>3. CASE f = s
      BY <3>2, <3>3, <2>1 DEF Path
    <3>4. CASE f # s
      <4>1. f \in writes[s].under
        BY <3>4, <2>1 DEF Path
      <4>2. writes[f].under \subseteq writes[s].under
        BY <4>1, <3>1 DEF PathsLinked
      <4> QED BY <4>2, <3>1, <3>2, <2>1 DEF Path
    <3> QED BY <3>1, <3>3, <3>4
  <2>3. \A i \in S \cup {w} : writes[i].over # w
    BY <1>1, <1>2
  <2>4. ASSUME NEW a \in Path(w), NEW b \in S \cup {w}, writes[b].over = writes[a].over
        PROVE  writes[b].tab <= writes[a].tab
    <3>1. CASE a = w /\ b = w
      BY <3>1, WriteFacts
    <3>2. CASE a = w /\ b \in S
      <4>1. writes[b].tab <= writes[f].tab
        BY <3>2, <2>1, <2>4 DEF LatestIn
      <4>2. writes[b].tab \in Nat /\ writes[f].tab \in Nat /\ writes[w].tab \in Nat
        BY <3>2, <2>2, WriteFacts
      <4> QED BY <4>1, <4>2, <2>1, <3>2
    <3>3. CASE a \in Path(writes[w].over)
      <4>1. writes[a].over # writes[w].over
        <5>1. writes[w].over \in Nat /\ writes[w].over \in writes[w].seen \cup {0}
          BY <1>2, WriteFacts DEF WellMade, Path
        <5>2. a \in Ids /\ a <= writes[w].over
          BY <5>1, <3>3, PathFacts
        <5>3. writes[a].over \in Nat /\ writes[a].over < a /\ a \in Nat
          BY <5>2, WriteFacts
        <5> QED BY <5>1, <5>2, <5>3
      <4>2. b \in S
        BY <4>1, <2>4
      <4> QED BY <4>2, <3>3, <2>2, <2>4 DEF LatestIn
    <3> QED BY <3>1, <3>2, <3>3, <1>4
  <2> QED BY <1>7, <2>3, <2>4 DEF LatestIn
<1>8. CASE ~ TakesOver(w, s)
  <2>1. \A i \in S \cup {w} : writes[i].over # s
    BY <1>8 DEF TakesOver, LatestIn
  <2>2. ASSUME NEW a \in Path(s), NEW b \in S \cup {w}, writes[b].over = writes[a].over
        PROVE  writes[b].tab <= writes[a].tab
    <3>1. CASE b \in S
      BY <3>1, <2>2 DEF LatestIn
    <3>2. CASE b = w
      <4>1. ~ (writes[a].tab < writes[w].tab)
        BY <1>8, <2>2, <3>2 DEF TakesOver
      <4>2. writes[a].tab \in Nat /\ writes[w].tab \in Nat
        BY <1>3, WriteFacts
      <4> QED BY <4>1, <4>2, <3>2
    <3> QED BY <3>1, <3>2
  <2> QED BY <1>8, <2>1, <2>2 DEF LatestIn
<1> QED BY <1>6, <1>7, <1>8

\* What a new write does to the log: old writes keep their place and their meaning.
LEMMA LogGrows ==
  ASSUME HistoryInv, NEW c \in Tabs, NEW kind, NEW node, NEW nodes, WritePage(c, kind, node, nodes)
  PROVE  /\ Len(writes) \in Nat
         /\ Ids' = Ids \cup {Len(writes) + 1} /\ Len(writes) + 1 \notin Ids
         /\ \A i \in Ids : writes'[i] = writes[i]
         /\ writes'[Len(writes) + 1].tab = c
         /\ writes'[Len(writes) + 1].nodes = nodes
         /\ writes'[Len(writes) + 1].over = shown[c]
         /\ writes'[Len(writes) + 1].under = Path(shown[c])
         /\ writes'[Len(writes) + 1].seen = known[c]
         /\ \A s \in Ids \cup {0} : Path(s)' = Path(s)
         /\ \A S \in SUBSET Ids : Closed(S)' <=> Closed(S)
         /\ \A s \in Ids \cup {0}, S \in SUBSET Ids : LatestIn(s, S) => LatestIn(s, S)'
<1> DEFINE rec == [tab |-> c, kind |-> kind, node |-> node, nodes |-> nodes,
                   over |-> shown[c], under |-> Path(shown[c]), seen |-> known[c]]
<1>1. writes \in Seq(Write) /\ Len(writes) \in Nat /\ writes' = Append(writes, rec)
  BY DEF HistoryInv, HistoryTypeOK, WritePage
<1>2. Len(writes') = Len(writes) + 1 /\ (\A i \in Ids : writes'[i] = writes[i])
      /\ writes'[Len(writes) + 1] = rec
  <2> HIDE DEF rec
  <2> QED BY <1>1 DEF Ids
<1>3. Ids' = Ids \cup {Len(writes) + 1} /\ Len(writes) + 1 \notin Ids
  BY <1>1, <1>2 DEF Ids
<1>4. 0 \notin Ids
  BY DEF Ids
<1>5. \A s \in Ids \cup {0} : Path(s)' = Path(s)
  BY <1>2, <1>4 DEF Path
<1>6. \A S \in SUBSET Ids : Closed(S)' <=> Closed(S)
  BY <1>2 DEF Closed
<1>7. ASSUME NEW s \in Ids \cup {0}, NEW S \in SUBSET Ids, LatestIn(s, S) PROVE LatestIn(s, S)'
  <2>1. Path(s) \subseteq Ids
    <3>1. HistoryTypeOK /\ WellMade /\ Closed(Ids)
      BY DEF HistoryInv, WellMade, Closed, Ids
    <3> QED BY <3>1, PathFacts
  <2>2. Path(s)' = Path(s)
    BY <1>5
  <2> QED BY <1>2, <1>7, <2>1, <2>2 DEF LatestIn
<1>8. /\ writes'[Len(writes) + 1].tab = c
      /\ writes'[Len(writes) + 1].nodes = nodes
      /\ writes'[Len(writes) + 1].over = shown[c]
      /\ writes'[Len(writes) + 1].under = Path(shown[c])
      /\ writes'[Len(writes) + 1].seen = known[c]
  BY <1>2
<1> QED BY <1>1, <1>2, <1>3, <1>5, <1>6, <1>7, <1>8

\* commit, undo and redo keep the invariant, whatever they write.
LEMMA WriteKeepsInv ==
  ASSUME HistoryInv, NEW c \in Tabs, NEW kind \in {"commit", "undo", "redo"},
         NEW node \in Nodes, NEW nodes \in SUBSET Nodes, WritePage(c, kind, node, nodes),
         past' \in [Tabs -> Seq(Command)], future' \in [Tabs -> Seq(Command)]
  PROVE  HistoryInv'
<1>0. PICK s, K, id : s = shown[c] /\ K = known[c] /\ id = Len(writes) + 1
  OBVIOUS
<1> USE <1>0
<1>1. /\ HistoryTypeOK /\ WellMade /\ PathsLinked /\ SiblingsDiffer /\ OwnWritesKnown
      /\ ShownIsLatest
  BY DEF HistoryInv
<1>2. /\ id \in Nat /\ id > 0 /\ id <= MaxWrites
      /\ Ids' = Ids \cup {id} /\ id \notin Ids
      /\ \A i \in Ids : writes'[i] = writes[i]
      /\ \A r \in Ids \cup {0} : Path(r)' = Path(r)
      /\ \A S \in SUBSET Ids : Closed(S)' <=> Closed(S)
      /\ \A r \in Ids \cup {0}, S \in SUBSET Ids : LatestIn(r, S) => LatestIn(r, S)'
  <2>1. id <= MaxWrites
    BY DEF WritePage
  <2>2. Len(writes) \in Nat
    BY LogGrows
  <2>3. id \in Nat /\ id > 0
    BY <2>2
  <2>4. Ids' = Ids \cup {id} /\ id \notin Ids /\ \A i \in Ids : writes'[i] = writes[i]
    BY LogGrows
  <2>5. /\ \A r \in Ids \cup {0} : Path(r)' = Path(r)
        /\ \A S \in SUBSET Ids : Closed(S)' <=> Closed(S)
        /\ \A r \in Ids \cup {0}, S \in SUBSET Ids : LatestIn(r, S) => LatestIn(r, S)'
    BY LogGrows
  <2> QED BY <2>1, <2>3, <2>4, <2>5
<1>3. /\ writes'[id].tab = c /\ writes'[id].over = s
      /\ writes'[id].under = Path(s) /\ writes'[id].seen = K
  BY <1>0, LogGrows
<1>4. /\ known' = [known EXCEPT ![c] = @ \cup {id}]
      /\ shown' = [shown EXCEPT ![c] = id]
      /\ served' = served
  BY DEF WritePage
<1>5. /\ \A d \in Tabs : known[d] \in SUBSET Ids /\ Closed(known[d])
      /\ served \in SUBSET Ids /\ Closed(served)
      /\ \A d \in Tabs : shown[d] \in known[d] \cup {0} /\ LatestIn(shown[d], known[d])
      /\ known \in [Tabs -> SUBSET Ids] /\ shown \in [Tabs -> Ids \cup {0}]
  BY <1>1 DEF HistoryTypeOK, ShownIsLatest, Closed
<1>6. /\ s \in K \cup {0} /\ K \in SUBSET Ids /\ Closed(K) /\ LatestIn(s, K)
      /\ Path(s) \subseteq K
  <2>1. s \in K \cup {0} /\ K \in SUBSET Ids /\ Closed(K) /\ LatestIn(s, K)
    BY <1>0, <1>5
  <2> QED BY <2>1, <1>1, PathFacts
<1>7. \A i \in Ids : i \in Nat /\ i < id
  BY <1>1 DEF HistoryTypeOK, Ids
<1>8. id \in Ids' /\ id # 0 /\ 0 \notin Ids
  BY <1>2 DEF Ids
<1>9. Path(id)' = Path(s) \cup {id}
  BY <1>3, <1>8 DEF Path
<1>10. HistoryTypeOK'
  <2>1. writes' \in Seq(Write) /\ Len(writes') <= MaxWrites
    <3>1. K \in SUBSET (Nat \ {0}) /\ Path(s) \in SUBSET (Nat \ {0})
      BY <1>5, <1>6 DEF Ids
    <3>2. s \in Nat
      BY <1>5, <1>7
    <3> DEFINE rec == [tab |-> c, kind |-> kind, node |-> node, nodes |-> nodes,
                       over |-> shown[c], under |-> Path(shown[c]), seen |-> known[c]]
    <3>3. rec \in Write
      BY <3>1, <3>2 DEF Write
    <3>4. writes' = Append(writes, rec)
      BY DEF WritePage
    <3> HIDE DEF rec
    <3> QED BY <3>3, <3>4, <1>1, <1>2 DEF HistoryTypeOK
  <2>2. known' \in [Tabs -> SUBSET Ids'] /\ shown' \in [Tabs -> Ids' \cup {0}]
    BY <1>2, <1>4, <1>5
  <2>3. served' \in SUBSET Ids' /\ \A w \in served' : writes'[w].seen \subseteq served'
    BY <1>2, <1>4, <1>5 DEF Closed
  <2>4. ASSUME NEW d \in Tabs, NEW w \in known'[d] PROVE writes'[w].seen \subseteq known'[d]
    <3>1. CASE w = id /\ d = c
      BY <3>1, <1>3, <1>4, <1>5
    <3>2. CASE w \in known[d]
      <4>1. writes'[w] = writes[w] /\ writes[w].seen \subseteq known[d]
        BY <3>2, <1>2, <1>5 DEF Closed
      <4>2. known[d] \subseteq known'[d]
        BY <1>4, <1>5
      <4> QED BY <4>1, <4>2
    <3>3. known'[d] = IF d = c THEN known[d] \cup {id} ELSE known[d]
      BY <1>4, <1>5
    <3> QED BY <3>1, <3>2, <3>3
  <2> QED BY <2>1, <2>2, <2>3, <2>4 DEF HistoryTypeOK
<1>11. WellMade'
  <2> SUFFICES ASSUME NEW i \in Ids'
      PROVE (/\ writes[i].over \in 0..i - 1
             /\ writes[i].seen \subseteq 1..i - 1
             /\ writes[i].under = Path(writes[i].over)
             /\ writes[i].under \subseteq writes[i].seen
             /\ Closed(writes[i].seen)
             /\ LatestIn(writes[i].over, writes[i].seen))'
    BY DEF WellMade
  <2>1. CASE i \in Ids
    <3>1. writes'[i] = writes[i]
      BY <2>1, <1>2
    <3>2. writes[i].over \in Ids \cup {0} /\ writes[i].seen \in SUBSET Ids
      <4>1. \A a \in writes[i].seen : a \in Ids
        BY <2>1, <1>1, WriteFacts
      <4>2. writes[i].over \in Path(writes[i].over) \cup {0}
        BY DEF Path
      <4> QED BY <4>1, <4>2, <2>1, <1>1 DEF WellMade
    <3>3. /\ writes[i].over \in 0..i - 1 /\ writes[i].seen \subseteq 1..i - 1
          /\ writes[i].under = Path(writes[i].over)
          /\ writes[i].under \subseteq writes[i].seen
          /\ Closed(writes[i].seen) /\ LatestIn(writes[i].over, writes[i].seen)
      BY <2>1, <1>1 DEF WellMade
    <3> QED BY <3>1, <3>2, <3>3, <1>2
  <2>2. CASE i = id
    <3>1. s \in Ids \cup {0} /\ K \in SUBSET Ids
      BY <1>5
    <3>2. s \in 0..id - 1
      BY <3>1, <1>2, <1>7
    <3>3. K \subseteq 1..id - 1
      BY <3>1, <1>2, <1>7 DEF Ids
    <3>4. Path(s)' = Path(s) /\ Closed(K)' /\ LatestIn(s, K)'
      BY <3>1, <1>2, <1>5
    <3> QED BY <2>2, <3>2, <3>3, <3>4, <1>3, <1>6
  <2> QED BY <2>1, <2>2, <1>2
<1>12. PathsLinked'
  <2> SUFFICES ASSUME NEW i \in Ids'
      PROVE /\ \A b \in writes'[i].under \cup {0} : \E a \in Path(i)' : writes'[a].over = b
            /\ \A b \in writes'[i].under : writes'[b].under \subseteq writes'[i].under
    BY DEF PathsLinked
  <2>1. \A j \in Ids : writes[j].under \subseteq Ids /\ Path(j) \subseteq Ids
    BY <1>1, WriteFacts DEF Path
  <2>2. CASE i \in Ids
    <3>1. \A b \in writes[i].under \cup {0} : \E a \in Path(i) : writes[a].over = b
      BY <2>2, <1>1 DEF PathsLinked
    <3>2. \A b \in writes[i].under : writes[b].under \subseteq writes[i].under
      BY <2>2, <1>1 DEF PathsLinked
    <3>3. /\ writes'[i] = writes[i] /\ Path(i)' = Path(i)
          /\ \A a \in writes[i].under \cup Path(i) : writes'[a] = writes[a]
      BY <2>1, <2>2, <1>2
    <3> QED BY <3>1, <3>2, <3>3
  <2>3. CASE i = id
    <3>1. writes'[i].under = Path(s) /\ Path(i)' = Path(s) \cup {id}
      BY <2>3, <1>3, <1>9
    <3>2. CASE s = 0
      BY <3>1, <3>2, <2>3, <1>3 DEF Path
    <3>3. CASE s \in Ids
      <4>1. Path(s) = writes[s].under \cup {s} /\ Path(s) \subseteq Ids
        BY <3>3, <1>8, <2>1 DEF Path
      <4>2. \A b \in writes[s].under \cup {0} : \E a \in Path(s) : writes[a].over = b
        BY <3>3, <1>1 DEF PathsLinked
      <4>3. \A b \in writes[s].under : writes[b].under \subseteq writes[s].under
        BY <3>3, <1>1 DEF PathsLinked
      <4>4. \A a \in Path(s) : writes'[a] = writes[a]
        BY <4>1, <1>2
      <4>5. writes'[id].over = s
        BY <1>3
      <4>6. ASSUME NEW b \in Path(s) \cup {0} PROVE \E a \in Path(i)' : writes'[a].over = b
        <5>1. CASE b = s
          BY <5>1, <4>5, <3>1
        <5>2. CASE b # s
          <6>1. PICK a \in Path(s) : writes[a].over = b
            BY <5>2, <4>1, <4>2
          <6> QED BY <6>1, <4>4, <3>1
        <5> QED BY <5>1, <5>2
      <4>7. \A b \in Path(s) : writes'[b].under \subseteq Path(s)
        BY <4>1, <4>3, <4>4
      <4> QED BY <3>1, <4>6, <4>7
    <3> QED BY <3>2, <3>3, <1>5
  <2> QED BY <2>2, <2>3, <1>2
<1>13. SiblingsDiffer'
  <2>1. ASSUME NEW i \in Ids, writes[i].over = s, writes[i].tab = c PROVE FALSE
    <3>1. i \in K
      BY <2>1, <1>1 DEF OwnWritesKnown
    <3> QED BY <3>1, <2>1, <1>5 DEF LatestIn
  <2>2. ASSUME NEW i \in Ids', NEW j \in Ids', writes'[i].over = writes'[j].over,
               writes'[i].tab = writes'[j].tab
        PROVE  i = j
    <3>1. CASE i \in Ids /\ j \in Ids
      BY <3>1, <2>2, <1>1, <1>2 DEF SiblingsDiffer
    <3>2. CASE i \in Ids /\ j = id
      BY <3>2, <2>1, <2>2, <1>2, <1>3
    <3>3. CASE i = id /\ j \in Ids
      BY <3>3, <2>1, <2>2, <1>2, <1>3
    <3> QED BY <3>1, <3>2, <3>3, <1>2
  <2> QED BY <2>2 DEF SiblingsDiffer
<1>14. OwnWritesKnown'
  <2> SUFFICES ASSUME NEW i \in Ids' PROVE i \in known'[writes'[i].tab]
    BY DEF OwnWritesKnown
  <2>1. CASE i \in Ids
    <3>1. writes'[i] = writes[i] /\ i \in known[writes[i].tab] /\ writes[i].tab \in Tabs
      BY <2>1, <1>1, <1>2, WriteFacts DEF OwnWritesKnown, Write
    <3> QED BY <3>1, <1>4, <1>5
  <2>2. CASE i = id
    BY <2>2, <1>3, <1>4, <1>5
  <2> QED BY <2>1, <2>2, <1>2
<1>15. ShownIsLatest'
  <2> SUFFICES ASSUME NEW d \in Tabs
      PROVE (shown[d] \in known[d] \cup {0} /\ LatestIn(shown[d], known[d]))'
    BY DEF ShownIsLatest
  <2>1. CASE d # c
    <3>1. shown'[d] = shown[d] /\ known'[d] = known[d]
      BY <2>1, <1>4, <1>5
    <3> QED BY <3>1, <1>2, <1>5
  <2>2. CASE d = c
    <3>1. shown'[c] = id /\ known'[c] = K \cup {id}
      BY <1>4, <1>5
    <3>2. LatestIn(s, K)'
      BY <1>2, <1>5
    <3>3. \A i \in K : writes'[i].over # id
      <4>1. \A i \in K : writes'[i] = writes[i] /\ writes[i].over < id /\ writes[i].over \in Nat
        <5>1. \A i \in K : i \in Ids /\ i \in Nat /\ i < id
          BY <1>5, <1>7
        <5>2. \A i \in K : writes[i].over \in Nat /\ writes[i].over < i
          BY <5>1, <1>1, WriteFacts
        <5> QED BY <5>1, <5>2, <1>2
      <4> QED BY <4>1, <1>2
    <3>4. writes'[id].over # id
      BY <1>3, <1>5, <1>8, <1>2
    <3>5. ASSUME NEW a \in Path(id)', NEW b \in K \cup {id}, writes'[b].over = writes'[a].over
          PROVE  writes'[b].tab <= writes'[a].tab
      <4>1. CASE a = id
        <5>1. b \notin K
          BY <4>1, <3>2, <3>5, <1>3 DEF LatestIn
        <5>2. writes'[id].tab \in Nat
          BY <1>3, TabAssumption
        <5> QED BY <4>1, <5>1, <5>2
      <4>2. CASE a \in Path(s)
        <5>1. a \in K /\ writes'[a] = writes[a] /\ writes[a].over # s
          BY <4>2, <1>2, <1>5, <1>6 DEF LatestIn
        <5>2. b \in K
          BY <5>1, <3>5, <1>3
        <5>3. a \in Path(s)'
          BY <4>2, <1>2, <1>5
        <5> QED BY <5>2, <5>3, <3>2, <3>5 DEF LatestIn
      <4> QED BY <4>1, <4>2, <1>9
    <3> QED BY <2>2, <3>1, <3>3, <3>4, <3>5 DEF LatestIn
  <2> QED BY <2>1, <2>2
<1> QED BY <1>10, <1>11, <1>12, <1>13, <1>14, <1>15 DEF HistoryInv

\* A step that writes nothing leaves the facts about the log alone.
LEMMA LogStays ==
  ASSUME writes' = writes
  PROVE  /\ Ids' = Ids
         /\ \A s : Path(s)' = Path(s)
         /\ \A S : Closed(S)' <=> Closed(S)
         /\ \A s, S : LatestIn(s, S)' <=> LatestIn(s, S)
         /\ WellMade => WellMade'
         /\ PathsLinked => PathsLinked'
         /\ SiblingsDiffer => SiblingsDiffer'
<1>1. Ids' = Ids
  BY DEF Ids
<1>2. \A s : Path(s)' = Path(s)
  BY DEF Path
<1>3. \A S : Closed(S)' <=> Closed(S)
  BY DEF Closed
<1>4. \A s, S : LatestIn(s, S)' <=> LatestIn(s, S)
  BY DEF LatestIn, Path
<1>5. WellMade => WellMade'
  <2> SUFFICES ASSUME WellMade, NEW i \in Ids
      PROVE (/\ writes[i].over \in 0..i - 1
             /\ writes[i].seen \subseteq 1..i - 1
             /\ writes[i].under = Path(writes[i].over)
             /\ writes[i].under \subseteq writes[i].seen
             /\ Closed(writes[i].seen)
             /\ LatestIn(writes[i].over, writes[i].seen))'
    BY <1>1 DEF WellMade
  <2>1. /\ writes[i].over \in 0..i - 1 /\ writes[i].seen \subseteq 1..i - 1
        /\ writes[i].under = Path(writes[i].over)
        /\ writes[i].under \subseteq writes[i].seen
        /\ Closed(writes[i].seen) /\ LatestIn(writes[i].over, writes[i].seen)
    BY DEF WellMade
  <2> QED BY <2>1 DEF Path, Closed, LatestIn
<1>6. PathsLinked => PathsLinked'
  BY DEF PathsLinked, Ids, Path
<1>7. SiblingsDiffer => SiblingsDiffer'
  BY DEF SiblingsDiffer, Ids
<1> QED BY <1>1, <1>2, <1>3, <1>4, <1>5, <1>6, <1>7

\* An update that arrives keeps the invariant.
LEMMA ReceiveKeepsInv ==
  ASSUME HistoryInv, NEW c \in Tabs, NEW w \in served, Receive(c, w)
  PROVE  HistoryInv'
<1>0. PICK s, K : s = shown[c] /\ K = known[c]
  OBVIOUS
<1> USE <1>0
<1>1. /\ HistoryTypeOK /\ WellMade /\ PathsLinked /\ SiblingsDiffer /\ OwnWritesKnown
      /\ ShownIsLatest
  BY DEF HistoryInv
<1>2. /\ writes' = writes /\ served' = served /\ past' = past /\ future' = future
      /\ known' = [known EXCEPT ![c] = @ \cup {w}]
      /\ w \in Ids \ K /\ writes[w].seen \subseteq K
  BY <1>1 DEF Receive, HistoryTypeOK
<1>3. /\ K \in SUBSET Ids /\ Closed(K) /\ s \in K \cup {0} /\ LatestIn(s, K)
      /\ known \in [Tabs -> SUBSET Ids] /\ shown \in [Tabs -> Ids \cup {0}]
  BY <1>1 DEF HistoryTypeOK, ShownIsLatest, Closed
<1>4. PICK t : t = IF TakesOver(w, s) THEN w ELSE s
  OBVIOUS
<1>5. shown' = [shown EXCEPT ![c] = t] /\ t \in K \cup {w, 0}
  BY <1>3, <1>4 DEF Receive
<1>6. LatestIn(t, K \cup {w})
  BY <1>1, <1>2, <1>3, <1>4, IntegrateKeepsLatest
<1>7. WellMade' /\ PathsLinked' /\ SiblingsDiffer'
  BY <1>1, <1>2, LogStays
<1>8. OwnWritesKnown'
  <2> SUFFICES ASSUME NEW i \in Ids PROVE i \in known'[writes[i].tab]
    BY <1>2 DEF OwnWritesKnown, Ids
  <2>1. i \in known[writes[i].tab] /\ writes[i].tab \in Tabs
    BY <1>1, WriteFacts DEF OwnWritesKnown, Write
  <2> QED BY <2>1, <1>2, <1>3
<1>9. ShownIsLatest'
  <2> SUFFICES ASSUME NEW d \in Tabs
      PROVE (shown[d] \in known[d] \cup {0} /\ LatestIn(shown[d], known[d]))'
    BY DEF ShownIsLatest
  <2>1. CASE d = c
    <3>1. shown'[d] = t /\ known'[d] = K \cup {w}
      BY <2>1, <1>2, <1>3, <1>5
    <3>2. LatestIn(t, K \cup {w})'
      BY <1>2, <1>6 DEF LatestIn, Path
    <3> QED BY <3>1, <3>2, <1>5
  <2>2. CASE d # c
    <3>1. shown'[d] = shown[d] /\ known'[d] = known[d]
      BY <2>2, <1>2, <1>3, <1>5
    <3>2. shown[d] \in known[d] \cup {0} /\ LatestIn(shown[d], known[d])
      BY <1>1 DEF ShownIsLatest
    <3> QED BY <3>1, <3>2, <1>2 DEF LatestIn, Path
  <2> QED BY <2>1, <2>2
<1>10. HistoryTypeOK'
  <2>1. known' \in [Tabs -> SUBSET Ids'] /\ shown' \in [Tabs -> Ids' \cup {0}]
    BY <1>2, <1>3, <1>5 DEF Ids
  <2>2. ASSUME NEW d \in Tabs, NEW v \in known'[d] PROVE writes[v].seen \subseteq known'[d]
    <3>1. known'[d] = IF d = c THEN K \cup {w} ELSE known[d]
      BY <1>2, <1>3
    <3>2. \A u \in known[d] : writes[u].seen \subseteq known[d]
      BY <1>1 DEF HistoryTypeOK
    <3> QED BY <2>2, <3>1, <3>2, <1>2
  <2>3. /\ writes' \in Seq(Write) /\ Len(writes') <= MaxWrites
        /\ past' \in [Tabs -> Seq(Command)] /\ future' \in [Tabs -> Seq(Command)]
        /\ served' \in SUBSET Ids' /\ \A v \in served' : writes'[v].seen \subseteq served'
    BY <1>1, <1>2 DEF HistoryTypeOK, Ids
  <2> QED BY <2>1, <2>2, <2>3, <1>2 DEF HistoryTypeOK
<1> QED BY <1>7, <1>8, <1>9, <1>10 DEF HistoryInv

\* An update on its way to the service keeps the invariant.
LEMMA SendKeepsInv ==
  ASSUME HistoryInv, NEW c \in Tabs, NEW w \in known[c], Send(c, w)
  PROVE  HistoryInv'
<1>1. /\ UNCHANGED <<writes, known, shown, past, future>>
      /\ served' = served \cup {w} /\ writes[w].seen \subseteq served
  BY DEF Send
<1>2. w \in Ids
  BY DEF HistoryInv, HistoryTypeOK
<1>3. HistoryTypeOK'
  BY <1>1, <1>2 DEF HistoryInv, HistoryTypeOK, Ids
<1>4. WellMade' /\ PathsLinked' /\ SiblingsDiffer'
  BY <1>1, LogStays DEF HistoryInv
<1>5. OwnWritesKnown' /\ ShownIsLatest'
  BY <1>1 DEF HistoryInv, OwnWritesKnown, ShownIsLatest, Ids, Path, LatestIn
<1> QED BY <1>3, <1>4, <1>5 DEF HistoryInv

\* A push and a pop of a stack of commands.
LEMMA Stacks ==
  ASSUME NEW st \in Seq(Command), NEW e \in Command
  PROVE  /\ Append(st, e) \in Seq(Command)
         /\ st # <<>> => /\ SubSeq(st, 1, Len(st) - 1) \in Seq(Command)
                         /\ st[Len(st)] \in Command
OBVIOUS

\* The command commit pushes.
LEMMA CommitFacts ==
  ASSUME HistoryInv, NEW c \in Tabs, NEW node \in Nodes, Commit(c, node)
  PROVE  \E before, after \in SUBSET Nodes :
           /\ before = Document(shown[c])
           /\ past' = [past EXCEPT ![c] = Append(@, [node |-> node, before |-> before,
                                                      after |-> after])]
           /\ future' = [future EXCEPT ![c] = <<>>]
           /\ WritePage(c, "commit", node, after)
<1> DEFINE before == Document(shown[c])
           after  == IF node \in before THEN before \ {node} ELSE before \cup {node}
<1>1. HistoryTypeOK /\ WellMade /\ shown[c] \in Ids \cup {0}
  BY DEF HistoryInv, HistoryTypeOK
<1>2. before \in SUBSET Nodes
  <2>1. CASE shown[c] = 0
    BY <2>1 DEF Document
  <2>2. CASE shown[c] \in Ids
    <3>1. writes[shown[c]] \in Write
      BY <2>2, <1>1, WriteFacts
    <3> QED BY <3>1 DEF Document, Write
  <2> QED BY <1>1, <2>1, <2>2
<1>3. after \in SUBSET Nodes
  BY <1>2
<1> QED BY <1>2, <1>3 DEF Commit

\* The initial states satisfy the invariant.
LEMMA HistoryInitInv == HistoryInit => HistoryInv
<1> SUFFICES ASSUME HistoryInit PROVE HistoryInv
  OBVIOUS
<1>1. Ids = {} /\ writes = <<>> /\ Len(writes) = 0
  BY DEF HistoryInit, Ids
<1>2. HistoryTypeOK
  BY <1>1, WriteBoundAssumption DEF HistoryInit, HistoryTypeOK
<1>3. WellMade /\ PathsLinked /\ SiblingsDiffer /\ OwnWritesKnown
  BY <1>1 DEF WellMade, PathsLinked, SiblingsDiffer, OwnWritesKnown
<1>4. ShownIsLatest
  BY DEF HistoryInit, ShownIsLatest, LatestIn, Path
<1> QED BY <1>2, <1>3, <1>4 DEF HistoryInv

\* Every step keeps the invariant.
LEMMA HistoryStepInv == HistoryInv /\ [HistoryNext]_historyVars => HistoryInv'
<1> SUFFICES ASSUME HistoryInv, [HistoryNext]_historyVars PROVE HistoryInv'
  OBVIOUS
<1>0. past \in [Tabs -> Seq(Command)] /\ future \in [Tabs -> Seq(Command)]
  BY DEF HistoryInv, HistoryTypeOK
<1>1. ASSUME NEW c \in Tabs, NEW node \in Nodes, Commit(c, node) PROVE HistoryInv'
  <2>1. PICK before \in SUBSET Nodes, after \in SUBSET Nodes :
           /\ past' = [past EXCEPT ![c] = Append(@, [node |-> node, before |-> before,
                                                      after |-> after])]
           /\ future' = [future EXCEPT ![c] = <<>>]
           /\ WritePage(c, "commit", node, after)
    BY <1>1, CommitFacts
  <2>2. [node |-> node, before |-> before, after |-> after] \in Command
    BY DEF Command
  <2>3. past' \in [Tabs -> Seq(Command)] /\ future' \in [Tabs -> Seq(Command)]
    BY <1>0, <2>1, <2>2, Stacks
  <2> QED BY <2>1, <2>3, WriteKeepsInv
<1>2. ASSUME NEW c \in Tabs, Undo(c) PROVE HistoryInv'
  <2>1. PICK entry \in Command :
           /\ past' = [past EXCEPT ![c] = SubSeq(@, 1, Len(@) - 1)]
           /\ future' = [future EXCEPT ![c] = Append(@, entry)]
           /\ WritePage(c, "undo", entry.node, entry.before)
    <3>1. past[c] \in Seq(Command) /\ past[c] # <<>>
      BY <1>0, <1>2 DEF Undo
    <3>2. past[c][Len(past[c])] \in Command
      BY <3>1, Stacks
    <3> QED BY <1>2, <3>2 DEF Undo
  <2>2. past' \in [Tabs -> Seq(Command)] /\ future' \in [Tabs -> Seq(Command)]
    BY <1>0, <1>2, <2>1, Stacks DEF Undo
  <2>3. entry.node \in Nodes /\ entry.before \in SUBSET Nodes
    BY DEF Command
  <2> QED BY <2>1, <2>2, <2>3, WriteKeepsInv
<1>3. ASSUME NEW c \in Tabs, Redo(c) PROVE HistoryInv'
  <2>1. PICK entry \in Command :
           /\ future' = [future EXCEPT ![c] = SubSeq(@, 1, Len(@) - 1)]
           /\ past' = [past EXCEPT ![c] = Append(@, entry)]
           /\ WritePage(c, "redo", entry.node, entry.after)
    <3>1. future[c] \in Seq(Command) /\ future[c] # <<>>
      BY <1>0, <1>3 DEF Redo
    <3>2. future[c][Len(future[c])] \in Command
      BY <3>1, Stacks
    <3> QED BY <1>3, <3>2 DEF Redo
  <2>2. past' \in [Tabs -> Seq(Command)] /\ future' \in [Tabs -> Seq(Command)]
    BY <1>0, <1>3, <2>1, Stacks DEF Redo
  <2>3. entry.node \in Nodes /\ entry.after \in SUBSET Nodes
    BY DEF Command
  <2> QED BY <2>1, <2>2, <2>3, WriteKeepsInv
<1>4. CASE UNCHANGED historyVars
  <2>1. UNCHANGED <<writes, known, served, shown, past, future>>
    BY <1>4 DEF historyVars
  <2>2. HistoryTypeOK'
    BY <2>1 DEF HistoryInv, HistoryTypeOK, Ids
  <2>3. WellMade' /\ PathsLinked' /\ SiblingsDiffer'
    BY <2>1, LogStays DEF HistoryInv
  <2>4. OwnWritesKnown' /\ ShownIsLatest'
    BY <2>1 DEF HistoryInv, OwnWritesKnown, ShownIsLatest, Ids, Path, LatestIn
  <2> QED BY <2>2, <2>3, <2>4 DEF HistoryInv
<1> QED BY <1>1, <1>2, <1>3, <1>4, SendKeepsInv, ReceiveKeepsInv DEF HistoryNext

\* The invariant holds in every state.
THEOREM HistoryInvariant == HistorySpec => []HistoryInv
<1> QED BY HistoryInitInv, HistoryStepInv, PTL DEF HistorySpec

-----------------------------------------------------------------------------
(* The properties.                                                         *)

(* Writes, snapshots and stacks of session.ts stay in their types, and     *)
(* known writes stay causally closed, for any number of tabs.              *)
THEOREM HistoryTypes == HistorySpec => []HistoryTypeOK
<1>1. HistoryInv => HistoryTypeOK
  BY DEF HistoryInv
<1> QED BY <1>1, HistoryInvariant, PTL

(* Any number of tabs that know the same writes show the same page.        *)
THEOREM TabsConverge == HistorySpec => []Convergence
<1>1. HistoryInv => Convergence
  <2> SUFFICES ASSUME HistoryInv, NEW c \in Tabs, NEW d \in Tabs, known[c] = known[d]
               PROVE  shown[c] = shown[d]
    BY DEF Convergence
  <2>1. known[c] \in SUBSET Ids /\ Closed(known[c])
    BY DEF HistoryInv, HistoryTypeOK, Closed
  <2>2. /\ shown[c] \in known[c] \cup {0} /\ LatestIn(shown[c], known[c])
        /\ shown[d] \in known[c] \cup {0} /\ LatestIn(shown[d], known[c])
    BY DEF HistoryInv, ShownIsLatest
  <2> QED BY <2>1, <2>2, LatestIsUnique DEF HistoryInv
<1> QED BY <1>1, HistoryInvariant, PTL

\* Neither what an author has seen nor what it replaced is shown by who knows its write.
LEMMA InvNeverOutdated == HistoryInv => NeverOutdated
<1> SUFFICES ASSUME HistoryInv, NEW c \in Tabs, NEW w \in known[c]
             PROVE  shown[c] \notin writes[w].seen \cup {writes[w].over}
  BY DEF NeverOutdated
<1>1. /\ HistoryTypeOK /\ WellMade /\ PathsLinked /\ SiblingsDiffer
      /\ w \in Ids /\ known[c] \in SUBSET Ids /\ Closed(known[c])
      /\ LatestIn(shown[c], known[c])
  BY DEF HistoryInv, HistoryTypeOK, ShownIsLatest, Closed
<1>2. writes[w].over # shown[c]
  BY <1>1 DEF LatestIn
<1> DEFINE S == writes[w].seen
<1>3. /\ S \in SUBSET Ids /\ S \subseteq known[c] /\ Closed(S)
      /\ LatestIn(writes[w].over, S) /\ writes[w].over \in S \cup {0}
  <2>1. \A a \in S : a \in Ids
    BY <1>1, WriteFacts
  <2>2. writes[w].under = Path(writes[w].over) /\ writes[w].under \subseteq S
    BY <1>1 DEF WellMade
  <2>3. writes[w].over = 0 \/ writes[w].over \in writes[w].under
    BY <2>2 DEF Path
  <2> QED BY <2>1, <2>2, <2>3, <1>1 DEF WellMade, Closed
<1>4. ASSUME shown[c] \in S PROVE FALSE
  <2>1. LatestIn(shown[c], S)
    BY <1>1, <1>3 DEF LatestIn
  <2>2. shown[c] = writes[w].over
    BY <2>1, <1>1, <1>3, <1>4, LatestIsUnique
  <2> QED BY <2>2, <1>2
<1> QED BY <1>2, <1>4

(* No tab shows a page that an author it knows of has seen and replaced.   *)
THEOREM ReplacedPagesStayReplaced == HistorySpec => []NeverOutdated
BY InvNeverOutdated, HistoryInvariant, PTL

-----------------------------------------------------------------------------
(* The history of a tab that is alone.                                     *)

Alone(c) == \A w \in known[c] : writes[w].tab = c

\* A write of a tab that is alone was made alone, and others' histories stay.
LEMMA WriteAlone ==
  ASSUME HistoryInv, NEW c \in Tabs, NEW kind, NEW node, NEW nodes, WritePage(c, kind, node, nodes),
         NEW d \in Tabs, Alone(d)'
  PROVE  /\ Alone(d)
         /\ d = c => Document(shown[d])' = nodes
         /\ d # c => Document(shown[d])' = Document(shown[d])
<1>1. /\ known' = [known EXCEPT ![c] = @ \cup {Len(writes) + 1}]
      /\ shown' = [shown EXCEPT ![c] = Len(writes) + 1]
  BY DEF WritePage
<1>2. /\ known[d] \in SUBSET Ids /\ shown[d] \in Ids \cup {0}
      /\ known \in [Tabs -> SUBSET Ids] /\ shown \in [Tabs -> Ids \cup {0}]
  BY DEF HistoryInv, HistoryTypeOK
<1>3. /\ \A i \in Ids : writes'[i] = writes[i]
      /\ writes'[Len(writes) + 1].nodes = nodes /\ Len(writes) \in Nat
  BY LogGrows
<1>4. Alone(d)
  <2>1. known[d] \subseteq known'[d]
    BY <1>1, <1>2
  <2> QED BY <2>1, <1>2, <1>3 DEF Alone
<1>5. CASE d = c
  BY <1>1, <1>2, <1>3, <1>4, <1>5 DEF Document
<1>6. CASE d # c
  <2>1. shown'[d] = shown[d]
    BY <1>1, <1>2, <1>6
  <2>2. Document(shown[d])' = Document(shown[d])
    BY <2>1, <1>2, <1>3 DEF Document
  <2> QED BY <1>4, <1>6, <2>2
<1> QED BY <1>5, <1>6

\* Stacks and page of a tab that takes no part in a step.
LEMMA OthersChain ==
  ASSUME NEW d, StacksChain(d), past'[d] = past[d], future'[d] = future[d],
         Document(shown[d])' = Document(shown[d])
  PROVE  StacksChain(d)'
BY DEF StacksChain

\* A command that is pushed on a chain continues it.
LEMMA PushChains ==
  ASSUME NEW st \in Seq(Command), NEW e \in Command,
         st # <<>> => st[Len(st)].after = e.before,
         \A i \in 1..Len(st) - 1 : st[i].after = st[i + 1].before
  PROVE  LET to == Append(st, e) IN
         /\ to[Len(to)] = e
         /\ \A i \in 1..Len(to) - 1 : to[i].after = to[i + 1].before
<1>1. Len(st) \in Nat /\ Len(Append(st, e)) = Len(st) + 1 /\ Append(st, e)[Len(st) + 1] = e
      /\ \A i \in 1..Len(st) : Append(st, e)[i] = st[i]
  OBVIOUS
<1>2. ASSUME NEW i \in 1..Len(st) PROVE Append(st, e)[i].after = Append(st, e)[i + 1].before
  <2>1. CASE i = Len(st)
    <3>1. st # <<>>
      BY <1>1, <1>2
    <3> QED BY <2>1, <3>1, <1>1
  <2>2. CASE i # Len(st)
    <3>1. i \in 1..Len(st) - 1 /\ i + 1 \in 1..Len(st)
      BY <2>2, <1>1
    <3> QED BY <3>1, <1>1
  <2> QED BY <2>1, <2>2
<1>3. Len(Append(st, e)) - 1 = Len(st)
  BY <1>1
<1> QED BY <1>1, <1>2, <1>3

\* The same of the redo stack, which runs the other way.
LEMMA PushBackChains ==
  ASSUME NEW st \in Seq(Command), NEW e \in Command,
         st # <<>> => st[Len(st)].before = e.after,
         \A i \in 1..Len(st) - 1 : st[i + 1].after = st[i].before
  PROVE  LET to == Append(st, e) IN
         /\ to[Len(to)] = e
         /\ \A i \in 1..Len(to) - 1 : to[i + 1].after = to[i].before
<1>1. Len(st) \in Nat /\ Len(Append(st, e)) = Len(st) + 1 /\ Append(st, e)[Len(st) + 1] = e
      /\ \A i \in 1..Len(st) : Append(st, e)[i] = st[i]
  OBVIOUS
<1>2. ASSUME NEW i \in 1..Len(st) PROVE Append(st, e)[i + 1].after = Append(st, e)[i].before
  <2>1. CASE i = Len(st)
    <3>1. st # <<>>
      BY <1>1, <1>2
    <3> QED BY <2>1, <3>1, <1>1
  <2>2. CASE i # Len(st)
    <3>1. i \in 1..Len(st) - 1 /\ i + 1 \in 1..Len(st)
      BY <2>2, <1>1
    <3> QED BY <3>1, <1>1
  <2> QED BY <2>1, <2>2
<1>3. Len(Append(st, e)) - 1 = Len(st)
  BY <1>1
<1> QED BY <1>1, <1>2, <1>3

\* What is left of a stack after a pop.
LEMMA PopStack ==
  ASSUME NEW st \in Seq(Command), st # <<>>
  PROVE  LET left == SubSeq(st, 1, Len(st) - 1) IN
         /\ Len(left) = Len(st) - 1
         /\ \A i \in 1..Len(st) - 1 : left[i] = st[i]
         /\ left # <<>> => Len(st) - 1 \in 1..Len(st) - 1
<1>1. Len(st) \in Nat /\ Len(st) > 0 /\ \A i \in 1..Len(st) : st[i] \in Command
  OBVIOUS
<1>2. PICK n : n = Len(st) - 1
  OBVIOUS
<1>3. n \in Int /\ n \in Nat /\ 1 \in Int /\ \A i \in 1..n : i \in 1..Len(st) /\ st[i] \in Command
  BY <1>1, <1>2
<1>4. /\ Len(SubSeq(st, 1, n)) = IF 1 <= n THEN n - 1 + 1 ELSE 0
      /\ \A i \in 1..n - 1 + 1 : SubSeq(st, 1, n)[i] = st[1 + i - 1]
  BY <1>3, SubSeqProperties
<1>5. Len(SubSeq(st, 1, n)) = n
  BY <1>3, <1>4
<1>6. \A i \in 1..n : SubSeq(st, 1, n)[i] = st[i]
  <2> SUFFICES ASSUME NEW i \in 1..n PROVE SubSeq(st, 1, n)[i] = st[i]
    OBVIOUS
  <2>1. n - 1 + 1 = n /\ 1 + i - 1 = i
    BY <1>3
  <2>2. SubSeq(st, 1, n)[i] = st[1 + i - 1]
    BY <1>4, <2>1
  <2> QED BY <2>1, <2>2
<1>7. n = 0 => SubSeq(st, 1, n) = <<>>
  <2> SUFFICES ASSUME n = 0 PROVE SubSeq(st, 1, 0) = <<>>
    OBVIOUS
  <2>1. 0 \in Int /\ 1 \in Int /\ 0 < 1
    OBVIOUS
  <2> QED BY <2>1, SubSeqEmpty
<1>8. SubSeq(st, 1, n) # <<>> => n \in 1..n
  BY <1>3, <1>7
<1> QED BY <1>2, <1>5, <1>6, <1>8

\* Commands, undos and redos of a tab that is alone continue its chains.
LEMMA AloneStep ==
  ASSUME HistoryInv, SoloHistoryIsExact, HistoryNext, NEW d \in Tabs, Alone(d)'
  PROVE  StacksChain(d)'
<1>1. /\ past \in [Tabs -> Seq(Command)] /\ future \in [Tabs -> Seq(Command)]
      /\ past[d] \in Seq(Command) /\ future[d] \in Seq(Command)
      /\ known \in [Tabs -> SUBSET Ids] /\ shown \in [Tabs -> Ids \cup {0}]
  BY DEF HistoryInv, HistoryTypeOK
<1>2. ASSUME Alone(d) PROVE StacksChain(d)
  BY <1>2 DEF SoloHistoryIsExact, Alone
<1>3. ASSUME NEW c \in Tabs, NEW node \in Nodes, Commit(c, node) PROVE StacksChain(d)'
  <2>1. PICK before \in SUBSET Nodes, after \in SUBSET Nodes :
           /\ before = Document(shown[c])
           /\ past' = [past EXCEPT ![c] = Append(@, [node |-> node, before |-> before,
                                                      after |-> after])]
           /\ future' = [future EXCEPT ![c] = <<>>]
           /\ WritePage(c, "commit", node, after)
    BY <1>3, CommitFacts
  <2>2. /\ StacksChain(d)
        /\ d = c => Document(shown[d])' = after
        /\ d # c => Document(shown[d])' = Document(shown[d])
    BY <2>1, <1>2, WriteAlone
  <2>3. CASE d # c
    BY <2>1, <2>2, <2>3, <1>1, OthersChain
  <2>4. CASE d = c
    <3> DEFINE e == [node |-> node, before |-> before, after |-> after]
    <3>1. e \in Command
      BY DEF Command
    <3>2. past'[d] = Append(past[d], e) /\ future'[d] = <<>>
      BY <2>1, <2>4, <1>1
    <3>3. e.before = Document(shown[d]) /\ e.after = after
      BY <2>1, <2>4
    <3> HIDE DEF e
    <3>4. /\ past[d] # <<>> => past[d][Len(past[d])].after = e.before
          /\ \A i \in 1..Len(past[d]) - 1 : past[d][i].after = past[d][i + 1].before
      BY <2>2, <3>3 DEF StacksChain
    <3>5. /\ past'[d][Len(past'[d])] = e
          /\ \A i \in 1..Len(past'[d]) - 1 : past'[d][i].after = past'[d][i + 1].before
      BY <3>1, <3>2, <3>4, <1>1, PushChains
    <3>6. \A i \in 1..Len(future'[d]) - 1 : future'[d][i + 1].after = future'[d][i].before
      BY <3>2
    <3> QED BY <3>2, <3>3, <3>5, <3>6, <2>2, <2>4 DEF StacksChain
  <2> QED BY <2>3, <2>4
<1>4. ASSUME NEW c \in Tabs, Undo(c) PROVE StacksChain(d)'
  <2>1. PICK entry : /\ entry = past[c][Len(past[c])] /\ past[c] # <<>>
                     /\ past' = [past EXCEPT ![c] = SubSeq(@, 1, Len(@) - 1)]
                     /\ future' = [future EXCEPT ![c] = Append(@, entry)]
                     /\ WritePage(c, "undo", entry.node, entry.before)
    BY <1>4 DEF Undo
  <2>2. /\ StacksChain(d)
        /\ d = c => Document(shown[d])' = entry.before
        /\ d # c => Document(shown[d])' = Document(shown[d])
    BY <2>1, <1>2, WriteAlone
  <2>3. CASE d # c
    BY <2>1, <2>2, <2>3, <1>1, OthersChain
  <2>4. CASE d = c
    <3>1. entry \in Command /\ entry = past[d][Len(past[d])] /\ past[d] # <<>>
      BY <2>1, <2>4, <1>1, Stacks
    <3>2. past'[d] = SubSeq(past[d], 1, Len(past[d]) - 1) /\ future'[d] = Append(future[d], entry)
      BY <2>1, <2>4, <1>1
    <3>3. /\ entry.after = Document(shown[d])
          /\ future[d] # <<>> => future[d][Len(future[d])].before = entry.after
          /\ \A i \in 1..Len(future[d]) - 1 : future[d][i + 1].after = future[d][i].before
          /\ \A i \in 1..Len(past[d]) - 1 : past[d][i].after = past[d][i + 1].before
      BY <2>2, <3>1 DEF StacksChain
    <3>4. /\ future'[d][Len(future'[d])] = entry
          /\ \A i \in 1..Len(future'[d]) - 1 : future'[d][i + 1].after = future'[d][i].before
      BY <3>1, <3>2, <3>3, <1>1, PushBackChains
    <3>5. /\ Len(past[d]) \in Nat /\ Len(past[d]) > 0
          /\ Len(past'[d]) = Len(past[d]) - 1
          /\ \A i \in 1..Len(past[d]) - 1 : past'[d][i] = past[d][i]
          /\ past'[d] # <<>> => Len(past[d]) - 1 \in 1..Len(past[d]) - 1
      BY <3>1, <3>2, <1>1, PopStack
    <3>6. past'[d] # <<>> => past'[d][Len(past'[d])].after = entry.before
      <4> SUFFICES ASSUME past'[d] # <<>> PROVE past'[d][Len(past'[d])].after = entry.before
        OBVIOUS
      <4> DEFINE k == Len(past[d]) - 1
      <4>1. k \in 1..Len(past[d]) - 1 /\ past'[d][Len(past'[d])] = past[d][k]
        BY <3>5
      <4>2. past[d][k].after = past[d][k + 1].before
        BY <4>1, <3>3
      <4>3. k + 1 = Len(past[d])
        BY <3>5
      <4> QED BY <4>1, <4>2, <4>3, <3>1
    <3>7. \A i \in 1..Len(past'[d]) - 1 : past'[d][i].after = past'[d][i + 1].before
      <4> SUFFICES ASSUME NEW i \in 1..Len(past'[d]) - 1
                   PROVE  past'[d][i].after = past'[d][i + 1].before
        OBVIOUS
      <4>1. i \in 1..Len(past[d]) - 1 /\ i + 1 \in 1..Len(past[d]) - 1
        BY <3>5
      <4> QED BY <4>1, <3>3, <3>5
    <3> QED BY <3>4, <3>6, <3>7, <2>2, <2>4 DEF StacksChain
  <2> QED BY <2>3, <2>4
<1>5. ASSUME NEW c \in Tabs, Redo(c) PROVE StacksChain(d)'
  <2>1. PICK entry : /\ entry = future[c][Len(future[c])] /\ future[c] # <<>>
                     /\ future' = [future EXCEPT ![c] = SubSeq(@, 1, Len(@) - 1)]
                     /\ past' = [past EXCEPT ![c] = Append(@, entry)]
                     /\ WritePage(c, "redo", entry.node, entry.after)
    BY <1>5 DEF Redo
  <2>2. /\ StacksChain(d)
        /\ d = c => Document(shown[d])' = entry.after
        /\ d # c => Document(shown[d])' = Document(shown[d])
    BY <2>1, <1>2, WriteAlone
  <2>3. CASE d # c
    BY <2>1, <2>2, <2>3, <1>1, OthersChain
  <2>4. CASE d = c
    <3>1. entry \in Command /\ entry = future[d][Len(future[d])] /\ future[d] # <<>>
      BY <2>1, <2>4, <1>1, Stacks
    <3>2. future'[d] = SubSeq(future[d], 1, Len(future[d]) - 1) /\ past'[d] = Append(past[d], entry)
      BY <2>1, <2>4, <1>1
    <3>3. /\ entry.before = Document(shown[d])
          /\ past[d] # <<>> => past[d][Len(past[d])].after = entry.before
          /\ \A i \in 1..Len(future[d]) - 1 : future[d][i + 1].after = future[d][i].before
          /\ \A i \in 1..Len(past[d]) - 1 : past[d][i].after = past[d][i + 1].before
      BY <2>2, <3>1 DEF StacksChain
    <3>4. /\ past'[d][Len(past'[d])] = entry
          /\ \A i \in 1..Len(past'[d]) - 1 : past'[d][i].after = past'[d][i + 1].before
      BY <3>1, <3>2, <3>3, <1>1, PushChains
    <3>5. /\ Len(future[d]) \in Nat /\ Len(future[d]) > 0
          /\ Len(future'[d]) = Len(future[d]) - 1
          /\ \A i \in 1..Len(future[d]) - 1 : future'[d][i] = future[d][i]
          /\ future'[d] # <<>> => Len(future[d]) - 1 \in 1..Len(future[d]) - 1
      BY <3>1, <3>2, <1>1, PopStack
    <3>6. future'[d] # <<>> => future'[d][Len(future'[d])].before = entry.after
      <4> SUFFICES ASSUME future'[d] # <<>>
                   PROVE  future'[d][Len(future'[d])].before = entry.after
        OBVIOUS
      <4> DEFINE k == Len(future[d]) - 1
      <4>1. k \in 1..Len(future[d]) - 1 /\ future'[d][Len(future'[d])] = future[d][k]
        BY <3>5
      <4>2. future[d][k + 1].after = future[d][k].before
        BY <4>1, <3>3
      <4>3. k + 1 = Len(future[d])
        BY <3>5
      <4> QED BY <4>1, <4>2, <4>3, <3>1
    <3>7. \A i \in 1..Len(future'[d]) - 1 : future'[d][i + 1].after = future'[d][i].before
      <4> SUFFICES ASSUME NEW i \in 1..Len(future'[d]) - 1
                   PROVE  future'[d][i + 1].after = future'[d][i].before
        OBVIOUS
      <4>1. i \in 1..Len(future[d]) - 1 /\ i + 1 \in 1..Len(future[d]) - 1
        BY <3>5
      <4> QED BY <4>1, <3>3, <3>5
    <3> QED BY <3>4, <3>6, <3>7, <2>2, <2>4 DEF StacksChain
  <2> QED BY <2>3, <2>4
<1>6. ASSUME NEW c \in Tabs, NEW w \in known[c], Send(c, w) PROVE StacksChain(d)'
  <2>1. UNCHANGED <<writes, known, shown, past, future>>
    BY <1>6 DEF Send
  <2>2. Alone(d)
    BY <2>1 DEF Alone
  <2> QED BY <2>1, <2>2, <1>2 DEF StacksChain, Document
<1>7. ASSUME NEW c \in Tabs, NEW w \in served, Receive(c, w) PROVE StacksChain(d)'
  <2>1. /\ UNCHANGED <<writes, past, future>> /\ w \in Ids \ known[c]
        /\ known' = [known EXCEPT ![c] = @ \cup {w}]
    BY <1>7 DEF Receive, HistoryInv, HistoryTypeOK
  <2>2. c # d
    <3>1. w \in known[writes[w].tab]
      BY <2>1 DEF HistoryInv, OwnWritesKnown
    <3>2. c = d => writes'[w].tab = d
      BY <2>1, <1>1 DEF Alone
    <3> QED BY <3>1, <3>2, <2>1
  <2>3. known'[d] = known[d] /\ shown'[d] = shown[d]
    BY <1>1, <1>7, <2>2 DEF Receive
  <2>4. Alone(d)
    BY <2>1, <2>3 DEF Alone
  <2> QED BY <2>1, <2>3, <2>4, <1>2 DEF StacksChain, Document
<1> QED BY <1>3, <1>4, <1>5, <1>6, <1>7 DEF HistoryNext

(* A tab that is alone on its page undoes and redoes exactly, for any      *)
(* sequence of commands, undos and redos.                                  *)
THEOREM AloneHistoryIsExact == HistorySpec => []SoloHistoryIsExact
<1>1. HistoryInit => SoloHistoryIsExact
  BY DEF HistoryInit, SoloHistoryIsExact, StacksChain
<1>2. HistoryInv /\ SoloHistoryIsExact /\ [HistoryNext]_historyVars => SoloHistoryIsExact'
  <2> SUFFICES ASSUME HistoryInv, SoloHistoryIsExact, [HistoryNext]_historyVars
               PROVE  SoloHistoryIsExact'
    OBVIOUS
  <2>1. CASE HistoryNext
    <3>1. \A d \in Tabs : Alone(d)' => StacksChain(d)'
      BY <2>1, AloneStep
    <3> QED BY <3>1 DEF SoloHistoryIsExact, Alone
  <2>2. CASE UNCHANGED historyVars
    BY <2>2 DEF historyVars, SoloHistoryIsExact, StacksChain, Document
  <2> QED BY <2>1, <2>2
<1> QED BY <1>1, <1>2, HistoryInvariant, PTL DEF HistorySpec

-----------------------------------------------------------------------------
(* Users who take turns.                                                   *)

\* The writes of which every author knew all earlier ones, nothing being undone.
TurnsTaken == \A i \in Ids : writes[i].kind = "commit" /\ writes[i].seen = 1..i - 1

\* The nodes that the first i writes created and did not delete again.
Created(i) ==
  {n \in Nodes : \E j \in 1..i : /\ writes[j].node = n
                                 /\ n \in writes[j].nodes
                                 /\ \A k \in j + 1..i : writes[k].node # n}

\* Whoever knows all writes of users who take turns shows the last one.
LEMMA LastIsShown ==
  ASSUME HistoryInv, TurnsTaken, NEW c \in Tabs, known[c] = Ids
  PROVE  shown[c] = Len(writes)
<1>1. Len(writes) \in Nat /\ Ids = 1..Len(writes) /\ shown[c] \in Ids \cup {0}
  BY DEF HistoryInv, HistoryTypeOK, Ids
<1>2. \A w \in known[c] : shown[c] \notin writes[w].seen \cup {writes[w].over}
  BY InvNeverOutdated DEF NeverOutdated
<1>3. CASE shown[c] = 0
  <2>1. ASSUME 1 \in Ids PROVE FALSE
    <3>1. writes[1].over \in 0..1 - 1
      BY <2>1 DEF HistoryInv, WellMade
    <3> QED BY <3>1, <2>1, <1>2, <1>3
  <2> QED BY <2>1, <1>1, <1>3
<1>4. CASE shown[c] \in Ids
  <2>1. Len(writes) \in Ids
    BY <1>1, <1>4
  <2>2. shown[c] \notin 1..Len(writes) - 1
    BY <2>1, <1>2 DEF TurnsTaken
  <2> QED BY <2>2, <1>1, <1>4
<1> QED BY <1>1, <1>3, <1>4

\* A commit made over the last write adds what it created and takes what it deleted.
LEMMA CommitTakesItsTurn ==
  ASSUME HistoryInv, TakingTurnsLosesNothing, NEW c \in Tabs, NEW node \in Nodes,
         Commit(c, node)
  PROVE  TakingTurnsLosesNothing'
<1> SUFFICES ASSUME TurnsTaken'
             PROVE  \A i \in Ids' : writes'[i].nodes = Created(i)'
  BY DEF TakingTurnsLosesNothing, TurnsTaken, Created
<1>0. PICK last, id : last = Len(writes) /\ id = last + 1
  OBVIOUS
<1> DEFINE before == Document(shown[c])
           after == IF node \in before THEN before \ {node} ELSE before \cup {node}
<1>1. WritePage(c, "commit", node, after)
  BY DEF Commit
<1>2. /\ last \in Nat /\ Ids = 1..last /\ Ids' = Ids \cup {id}
      /\ \A i \in Ids : writes'[i] = writes[i]
      /\ writes'[id].nodes = after /\ writes'[id].seen = known[c]
  <2> HIDE DEF after
  <2> QED BY <1>0, <1>1, LogGrows DEF Ids
<1>3. writes'[id].node = node
  <2> HIDE DEF after
  <2> QED BY <1>0, <1>1 DEF WritePage, HistoryInv, HistoryTypeOK
<1>4. TurnsTaken /\ known[c] = Ids
  <2>1. TurnsTaken
    BY <1>2 DEF TurnsTaken
  <2>2. writes'[id].seen = 1..id - 1
    BY <1>2 DEF TurnsTaken
  <2>3. 1..id - 1 = 1..last
    BY <1>0, <1>2
  <2> QED BY <2>1, <2>2, <2>3, <1>2
<1>5. before = IF last = 0 THEN {} ELSE writes[last].nodes
  BY <1>0, <1>4, LastIsShown DEF Document
<1>6. before = Created(last)
  <2>1. CASE last = 0
    BY <2>1, <1>5 DEF Created
  <2>2. CASE last # 0
    <3>1. last \in Ids /\ \A i \in Ids : writes[i].nodes = Created(i)
      BY <2>2, <1>2, <1>4 DEF TakingTurnsLosesNothing, TurnsTaken, Created
    <3> QED BY <3>1, <2>2, <1>5
  <2> QED BY <2>1, <2>2
<1>7. \A i \in Ids : Created(i)' = Created(i)
  <2> SUFFICES ASSUME NEW i \in Ids PROVE Created(i)' = Created(i)
    OBVIOUS
  <2>0. last \in Nat /\ i \in 1..last /\ Ids = 1..last
    BY <1>2
  <2>1. \A j \in 1..i : j \in Ids /\ \A k \in j + 1..i : k \in Ids
    BY <2>0
  <2> QED BY <2>1, <1>2 DEF Created
<1>8. Created(id)' = after
  <2> HIDE DEF before
  <2>0. last \in Nat
    BY <1>2
  <2>1. \A j \in 1..last : writes'[j] = writes[j]
    BY <1>2
  <2>2. ASSUME NEW n \in Nodes, n # node PROVE n \in Created(id)' <=> n \in Created(last)
    <3>1. ASSUME NEW j \in 1..last, \A k \in j + 1..last : writes[k].node # n
          PROVE  \A k \in j + 1..id : writes'[k].node # n
      <4> SUFFICES ASSUME NEW k \in j + 1..id PROVE writes'[k].node # n
        OBVIOUS
      <4>1. k = id \/ (k \in 1..last /\ k \in j + 1..last)
        BY <1>0, <2>0, <3>1
      <4> QED BY <4>1, <3>1, <2>1, <2>2, <1>3
    <3>2. ASSUME NEW j \in 1..last, \A k \in j + 1..id : writes'[k].node # n
          PROVE  \A k \in j + 1..last : writes[k].node # n
      <4> SUFFICES ASSUME NEW k \in j + 1..last PROVE writes[k].node # n
        OBVIOUS
      <4>1. k \in 1..last /\ k \in j + 1..id
        BY <1>0, <2>0, <3>2
      <4> QED BY <4>1, <3>2, <2>1
    <3>3. \A j \in 1..id : writes'[j].node = n => j \in 1..last
      BY <1>0, <2>0, <1>3, <2>2
    <3>4. \A j \in 1..last : j \in 1..id
      BY <1>0, <2>0
    <3>5. n \in Created(last) <=> \E j \in 1..last : /\ writes[j].node = n
                                                    /\ n \in writes[j].nodes
                                                    /\ \A k \in j + 1..last : writes[k].node # n
      BY DEF Created
    <3>6. n \in Created(id)' <=> \E j \in 1..id : /\ writes'[j].node = n
                                                  /\ n \in writes'[j].nodes
                                                  /\ \A k \in j + 1..id : writes'[k].node # n
      BY DEF Created
    <3> QED BY <3>1, <3>2, <3>3, <3>4, <3>5, <3>6, <2>1
  <2>3. node \in Created(id)' <=> node \in after
    <3>1. id \in 1..id /\ (\A k \in id + 1..id : FALSE)
      BY <1>0, <2>0
    <3>2. \A j \in 1..id : j # id => id \in j + 1..id
      BY <1>0, <2>0
    <3> HIDE DEF after
    <3> QED BY <3>1, <3>2, <1>2, <1>3 DEF Created
  <2>4. after \subseteq Nodes /\ Created(id)' \subseteq Nodes
    BY <1>6 DEF Created
  <2> QED BY <2>2, <2>3, <2>4, <1>6
<1>9. \A i \in Ids : writes'[i].nodes = Created(i)'
  BY <1>2, <1>4, <1>7 DEF TakingTurnsLosesNothing, TurnsTaken, Created
<1> QED BY <1>2, <1>8, <1>9

(* Users of session.ts who take turns, each knowing every earlier command  *)
(* and nobody undoing one, lose nothing: the page has what was created and *)
(* not deleted, however many users, nodes and commands there are.          *)
THEOREM TurnsLoseNothing == HistorySpec => []TakingTurnsLosesNothing
<1>1. HistoryInit => TakingTurnsLosesNothing
  BY DEF HistoryInit, TakingTurnsLosesNothing, Ids
<1>2. HistoryInv /\ TakingTurnsLosesNothing /\ [HistoryNext]_historyVars
        => TakingTurnsLosesNothing'
  <2> SUFFICES ASSUME HistoryInv, TakingTurnsLosesNothing, [HistoryNext]_historyVars
               PROVE  TakingTurnsLosesNothing'
    OBVIOUS
  <2>1. ASSUME NEW c \in Tabs, NEW kind \in {"undo", "redo"}, NEW node, NEW nodes,
               WritePage(c, kind, node, nodes)
        PROVE  TakingTurnsLosesNothing'
    <3>1. Len(writes) + 1 \in Ids' /\ writes'[Len(writes) + 1].kind = kind
      <4>1. Len(writes) + 1 \in Ids'
        BY <2>1, LogGrows
      <4>2. writes'[Len(writes) + 1].kind = kind
        BY <2>1 DEF WritePage, HistoryInv, HistoryTypeOK
      <4> QED BY <4>1, <4>2
    <3> QED BY <3>1 DEF TakingTurnsLosesNothing
  <2>2. ASSUME UNCHANGED writes PROVE TakingTurnsLosesNothing'
    <3>1. Ids' = Ids
      BY <2>2 DEF Ids
    <3>2. TurnsTaken' => TurnsTaken
      BY <2>2, <3>1 DEF TurnsTaken
    <3>3. \A i \in Ids : Created(i)' = Created(i)
      BY <2>2 DEF Created
    <3>4. TurnsTaken => \A i \in Ids : writes[i].nodes = Created(i)
      BY DEF TakingTurnsLosesNothing, TurnsTaken, Created
    <3>5. TurnsTaken' => \A i \in Ids' : writes'[i].nodes = Created(i)'
      BY <2>2, <3>1, <3>2, <3>3, <3>4
    <3> QED BY <3>5 DEF TakingTurnsLosesNothing, TurnsTaken, Created
  <2>3. ASSUME NEW c \in Tabs, Undo(c) \/ Redo(c) PROVE TakingTurnsLosesNothing'
    BY <2>1, <2>3 DEF Undo, Redo
  <2>4. ASSUME NEW c \in Tabs, NEW w, Send(c, w) \/ Receive(c, w)
        PROVE  TakingTurnsLosesNothing'
    BY <2>2, <2>4 DEF Send, Receive
  <2>5. CASE UNCHANGED historyVars
    BY <2>2, <2>5 DEF historyVars
  <2> QED BY <2>3, <2>4, <2>5, CommitTakesItsTurn DEF HistoryNext
<1> QED BY <1>1, <1>2, HistoryInvariant, PTL DEF HistorySpec
=============================================================================
