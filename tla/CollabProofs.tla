---------------------------- MODULE CollabProofs ----------------------------
(***************************************************************************)
(* The properties of CollabPersistence for any edits, calls and bounds,    *)
(* and those of CollabServer, for any number of tabs: the running service  *)
(* uses the tables as CollabPersistence allows, so that the theorems about *)
(* the tables hold of it.                                                  *)
(***************************************************************************)
EXTENDS CollabServer, SequenceTheorems, FiniteSetTheorems, WellFoundedInduction, TLAPS

-----------------------------------------------------------------------------
(* Facts about the operators of the model.                                 *)

\* A set of natural numbers that is not empty has a smallest member.
LEMMA SmallestMember ==
  ASSUME NEW U \in SUBSET Nat, U # {}
  PROVE  \E m \in U : \A u \in U : m <= u
<1>1. IsWellFoundedOn(OpToRel(<, Nat), Nat)
  BY NatLessThanWellFounded
<1>2. PICK m \in U : \A u \in U : <<u, m>> \notin OpToRel(<, Nat)
  BY <1>1, WFMin
<1>3. \A u \in U : ~ (u < m)
  BY <1>2 DEF OpToRel
<1> QED BY <1>3

\* Max of a bounded set of natural numbers is its largest member.
LEMMA MaxIsLargest ==
  ASSUME NEW S \in SUBSET Nat, S # {}, NEW bound \in Nat, \A x \in S : x <= bound
  PROVE  Max(S) \in S /\ \A x \in S : x <= Max(S)
<1> DEFINE U == {n \in Nat : \A x \in S : x <= n}
<1>1. U \in SUBSET Nat /\ bound \in U
  OBVIOUS
<1>2. PICK m \in U : \A u \in U : m <= u
  BY <1>1, SmallestMember
<1>3. m \in S
  <2> SUFFICES ASSUME m \notin S PROVE FALSE
    OBVIOUS
  <2>1. m \in Nat /\ \A x \in S : x \in Nat /\ x <= m /\ x # m
    BY <1>2
  <2>2. PICK x \in S : TRUE
    OBVIOUS
  <2>3. m - 1 \in U
    BY <2>1, <2>2
  <2> QED BY <2>3, <1>2
<1>4. \E x \in S : \A y \in S : x >= y
  BY <1>2, <1>3
<1> QED BY <1>4 DEF Max

\* An edit is in a set of rows when one of the rows carries it.
LEMMA EditsOfMember ==
  ASSUME NEW rs, NEW e
  PROVE  e \in EditsOf(rs) <=> \E r \in rs : e \in r.edits
BY DEF EditsOf

-----------------------------------------------------------------------------
(* The inductive invariant.  TransactionsIsolated carries the argument; it *)
(* needs to know that the sequence numbers are bounded, and that whatever  *)
(* a row, a snapshot or a call carries came from the document it names.    *)

RowsBounded == \E bound \in Nat : \A r \in rows : r.seq <= bound

RowsDistinct == \A r1, r2 \in rows : r1.seq = r2.seq => r1 = r2

FromDocuments ==
  /\ \A r \in rows : r.doc \in 1..built /\ r.edits \subseteq docs[r.doc]
  /\ snapshot.doc = 0 => snapshot.edits = {}
  /\ snapshot.doc # 0 => snapshot.doc \in 1..built /\ snapshot.edits \subseteq docs[snapshot.doc]
  /\ \A t \in Calls : call[t].pc # "idle" =>
       call[t].doc \in 1..built /\ call[t].edits \subseteq docs[call[t].doc]

LoaderWaits == loader.pc = "updates" => live = 0 /\ built < MaxDocs

NumbersPositive ==
  \A t \in Calls : call[t].pc \in {"inserted", "encoded"} => call[t].seq > 0

PersistenceInv ==
  /\ PersistenceTypeOK
  /\ TransactionsIsolated
  /\ RowsBounded
  /\ RowsDistinct
  /\ FromDocuments
  /\ LoaderWaits
  /\ NumbersPositive
  /\ DurableUntilCompacted
  /\ FirstDocumentLosesNothing

LEMMA InitInv == PersistenceInit => PersistenceInv
<1> SUFFICES ASSUME PersistenceInit PROVE PersistenceInv
  OBVIOUS
<1> USE ThresholdAssumption, CallAssumption, BoundAssumption DEF PersistenceInit
<1>1. PersistenceTypeOK
  BY FS_EmptySet DEF PersistenceTypeOK, CallType, IdleCall, IdleLoader, DocIds
<1>2. TransactionsIsolated /\ NumbersPositive /\ FromDocuments /\ LoaderWaits
  BY DEF TransactionsIsolated, NumbersPositive, FromDocuments, LoaderWaits, IdleCall, IdleLoader
<1>3. RowsBounded /\ RowsDistinct
  BY DEF RowsBounded, RowsDistinct
<1>4. DurableUntilCompacted /\ FirstDocumentLosesNothing
  BY DEF DurableUntilCompacted, FirstDocumentLosesNothing
<1> QED BY <1>1, <1>2, <1>3, <1>4 DEF PersistenceInv

-----------------------------------------------------------------------------
(* One lemma per action.                                                   *)

LEMMA LoadSnapshotInv == PersistenceInv /\ LoadSnapshot => PersistenceInv'
<1> SUFFICES ASSUME PersistenceInv, LoadSnapshot PROVE PersistenceInv'
  OBVIOUS
<1> USE BoundAssumption DEF PersistenceInv, LoadSnapshot
<1>1. Loadable \subseteq Edits
  BY EditsOfMember DEF PersistenceTypeOK, Loadable, RowsAfter, RowType
<1>2. PersistenceTypeOK'
  BY <1>1 DEF PersistenceTypeOK
<1>3. TransactionsIsolated' /\ NumbersPositive' /\ FromDocuments' /\ LoaderWaits'
  BY DEF TransactionsIsolated, NumbersPositive, FromDocuments, LoaderWaits, RowsAfter,
         PersistenceTypeOK
<1>4. RowsBounded' /\ RowsDistinct'
  BY DEF RowsBounded, RowsDistinct
<1>5. DurableUntilCompacted' /\ FirstDocumentLosesNothing'
  BY DEF DurableUntilCompacted, FirstDocumentLosesNothing, Loadable, RowsAfter, EditsOf
<1> QED BY <1>2, <1>3, <1>4, <1>5

LEMMA LoadUpdatesInv == PersistenceInv /\ LoadUpdates => PersistenceInv'
<1> SUFFICES ASSUME PersistenceInv, LoadUpdates PROVE PersistenceInv'
  OBVIOUS
<1> USE BoundAssumption DEF PersistenceInv
<1> DEFINE content == loader.edits \cup EditsOf(RowsAfter(loader.seq))
<1>1. /\ built' = built + 1 /\ live' = built + 1
      /\ docs' = [docs EXCEPT ![built + 1] = content]
      /\ loader' = IdleLoader(content)
      /\ UNCHANGED <<rows, snapshot, lock, call, committed, faults, crashes>>
  BY DEF LoadUpdates
<1>2. content \subseteq Edits
  BY EditsOfMember DEF PersistenceTypeOK, RowsAfter, RowType
<1>3. built \in Nat /\ built + 1 \in DocIds
  BY DEF LoadUpdates, LoaderWaits, PersistenceTypeOK, DocIds
<1> HIDE DEF content
<1>4. PersistenceTypeOK'
  BY <1>1, <1>2, <1>3 DEF PersistenceTypeOK, IdleLoader, DocIds
<1>5. \A d \in 1..built : d # built + 1 /\ d \in 1..built' /\ docs'[d] = docs[d]
  BY <1>1, <1>3 DEF PersistenceTypeOK, DocIds
<1>6. FromDocuments'
  BY <1>1, <1>5 DEF FromDocuments
<1>7. TransactionsIsolated' /\ NumbersPositive' /\ LoaderWaits'
  BY <1>1 DEF TransactionsIsolated, NumbersPositive, LoaderWaits, RowsAfter, IdleLoader
<1>8. RowsBounded' /\ RowsDistinct'
  BY <1>1 DEF RowsBounded, RowsDistinct
<1>9. DurableUntilCompacted' /\ FirstDocumentLosesNothing'
  BY <1>1, <1>3 DEF DurableUntilCompacted, FirstDocumentLosesNothing, Loadable, RowsAfter, EditsOf
<1> QED BY <1>4, <1>6, <1>7, <1>8, <1>9

LEMMA LoadFailsInv == PersistenceInv /\ LoadFails => PersistenceInv'
<1> SUFFICES ASSUME PersistenceInv, LoadFails PROVE PersistenceInv'
  OBVIOUS
<1> USE BoundAssumption DEF PersistenceInv, LoadFails
<1>1. PersistenceTypeOK'
  BY DEF PersistenceTypeOK, IdleLoader
<1>2. TransactionsIsolated' /\ NumbersPositive' /\ FromDocuments' /\ LoaderWaits'
  BY DEF TransactionsIsolated, NumbersPositive, FromDocuments, LoaderWaits, RowsAfter, IdleLoader
<1>3. RowsBounded' /\ RowsDistinct'
  BY DEF RowsBounded, RowsDistinct
<1>4. DurableUntilCompacted' /\ FirstDocumentLosesNothing'
  BY DEF DurableUntilCompacted, FirstDocumentLosesNothing, Loadable, RowsAfter, EditsOf
<1> QED BY <1>1, <1>2, <1>3, <1>4

LEMMA OnChangeInv ==
  ASSUME NEW t \in Calls, NEW es \in SUBSET Edits, PersistenceInv, OnChange(t, es)
  PROVE  PersistenceInv'
<1> USE BoundAssumption DEF PersistenceInv
<1>1. /\ live # 0 /\ live \in DocIds /\ live \in 1..built
      /\ docs' = [docs EXCEPT ![live] = docs[live] \cup es]
      /\ call' = [call EXCEPT ![t] = [IdleCall EXCEPT !.pc = "append", !.edits = es, !.doc = live]]
      /\ UNCHANGED <<rows, snapshot, lock, loader, built, live, committed, faults, crashes>>
  BY DEF OnChange, PersistenceTypeOK, DocIds
<1>2. /\ call'[t].pc = "append" /\ call'[t].edits = es /\ call'[t].doc = live
      /\ \A u \in Calls : u # t => call'[u] = call[u]
  BY <1>1 DEF PersistenceTypeOK, CallType, IdleCall
<1>3. \A d \in DocIds : docs[d] \subseteq docs'[d]
  BY <1>1 DEF PersistenceTypeOK
<1>4. es \subseteq docs'[live]
  BY <1>1 DEF PersistenceTypeOK
<1>5. PersistenceTypeOK'
  <2>1. call' \in [Calls -> CallType]
    BY <1>1 DEF PersistenceTypeOK, CallType, IdleCall
  <2> QED BY <1>1, <2>1 DEF PersistenceTypeOK
<1>6. TransactionsIsolated' /\ NumbersPositive'
  BY <1>1, <1>2 DEF TransactionsIsolated, NumbersPositive, RowsAfter
<1>7. 1..built \subseteq DocIds
  BY DEF PersistenceTypeOK, DocIds
<1>8. FromDocuments'
  BY <1>1, <1>2, <1>3, <1>4, <1>7 DEF FromDocuments
<1>9. LoaderWaits' /\ RowsBounded' /\ RowsDistinct'
  BY <1>1 DEF LoaderWaits, RowsBounded, RowsDistinct
<1>10. DurableUntilCompacted' /\ FirstDocumentLosesNothing'
  BY <1>1 DEF DurableUntilCompacted, FirstDocumentLosesNothing, Loadable, RowsAfter, EditsOf
<1> QED BY <1>5, <1>6, <1>8, <1>9, <1>10

\* The number an append computes is positive and above every row.
LEMMA NextSeqAbove ==
  ASSUME PersistenceTypeOK, RowsBounded
  PROVE  NextSeq \in Nat \ {0} /\ \A r \in rows : r.seq < NextSeq
<1> DEFINE S == {r.seq : r \in rows}
<1>1. S \in SUBSET Nat
  BY DEF PersistenceTypeOK, RowType
<1>2. CASE rows = {}
  BY <1>2 DEF NextSeq
<1>3. CASE rows # {}
  <2>1. PICK bound \in Nat : \A x \in S : x <= bound
    BY DEF RowsBounded
  <2>2. S # {}
    BY <1>3
  <2>3. Max(S) \in S /\ \A x \in S : x <= Max(S)
    BY <1>1, <2>1, <2>2, MaxIsLargest
  <2>4. NextSeq = Max(S) + 1
    BY <1>3 DEF NextSeq
  <2>5. \A r \in rows : r.seq \in S
    OBVIOUS
  <2>6. Max(S) \in Nat
    BY <1>1, <2>3
  <2> HIDE DEF S
  <2>7. \A r \in rows : r.seq \in Nat
    BY DEF PersistenceTypeOK, RowType
  <2> QED BY <2>3, <2>4, <2>5, <2>6, <2>7
<1> QED BY <1>2, <1>3

LEMMA AppendInsertInv ==
  ASSUME NEW t \in Calls, PersistenceInv, AppendInsert(t)
  PROVE  PersistenceInv'
<1> USE CallAssumption DEF PersistenceInv
<1>1. /\ call[t].pc = "append" /\ lock = NoCall /\ lock' = t
      /\ UNCHANGED <<rows, snapshot, loader, docs, built, live, committed, faults, crashes>>
  BY DEF AppendInsert
<1>2. NextSeq \in Nat \ {0} /\ \A r \in rows : r.seq < NextSeq
  BY NextSeqAbove
<1>3. /\ call'[t].pc = "inserted" /\ call'[t].seq = NextSeq
      /\ call'[t].edits = call[t].edits /\ call'[t].doc = call[t].doc
      /\ \A u \in Calls : u # t => call'[u] = call[u]
  BY DEF AppendInsert, PersistenceTypeOK, CallType
<1>4. PersistenceTypeOK'
  <2>1. call' \in [Calls -> CallType]
    <3>1. NextSeq \in Nat
      BY <1>2
    <3>2. call \in [Calls -> CallType] /\ call' = [call EXCEPT ![t].pc = "inserted", ![t].seq = NextSeq]
      BY DEF AppendInsert, PersistenceTypeOK
    <3> QED BY <3>1, <3>2 DEF CallType
  <2> QED BY <1>1, <2>1 DEF PersistenceTypeOK
<1>5. TransactionsIsolated' /\ NumbersPositive'
  BY <1>1, <1>2, <1>3 DEF TransactionsIsolated, NumbersPositive, RowsAfter
<1>6. FromDocuments'
  BY <1>1, <1>3 DEF FromDocuments
<1>7. LoaderWaits' /\ RowsBounded' /\ RowsDistinct'
  BY <1>1 DEF LoaderWaits, RowsBounded, RowsDistinct
<1>8. DurableUntilCompacted' /\ FirstDocumentLosesNothing'
  BY <1>1 DEF DurableUntilCompacted, FirstDocumentLosesNothing, Loadable, RowsAfter, EditsOf
<1> QED BY <1>4, <1>5, <1>6, <1>7, <1>8

LEMMA AppendCommitInv ==
  ASSUME NEW t \in Calls, PersistenceInv, AppendCommit(t)
  PROVE  PersistenceInv'
<1> USE CallAssumption DEF PersistenceInv
<1> DEFINE row == [seq |-> call[t].seq, edits |-> call[t].edits, doc |-> call[t].doc]
<1>1. /\ call[t].pc = "inserted" /\ rows' = rows \cup {row}
      /\ committed' = committed \cup call[t].edits /\ lock' = NoCall
      /\ UNCHANGED <<snapshot, loader, docs, built, live, faults, crashes>>
  BY DEF AppendCommit
<1>2. /\ call'[t].pc = "compact" /\ call'[t].edits = call[t].edits /\ call'[t].doc = call[t].doc
      /\ \A u \in Calls : u # t => call'[u] = call[u]
  BY DEF AppendCommit, PersistenceTypeOK, CallType
<1>3. /\ call[t].seq \in Nat \ {0} /\ \A r \in rows : r.seq < call[t].seq
      /\ call[t].doc \in 1..built /\ call[t].edits \subseteq docs[call[t].doc]
      /\ call[t].doc \in DocIds
  BY <1>1 DEF NumbersPositive, TransactionsIsolated, FromDocuments, PersistenceTypeOK, CallType, DocIds
<1>4. PersistenceTypeOK'
  <2>1. call' \in [Calls -> CallType]
    BY DEF AppendCommit, PersistenceTypeOK, CallType
  <2>2. row \in RowType /\ call[t].edits \subseteq Edits
    BY <1>3 DEF PersistenceTypeOK, CallType, RowType
  <2>3. rows' \subseteq RowType /\ IsFiniteSet(rows')
    BY <1>1, <2>2, FS_AddElement DEF PersistenceTypeOK
  <2> QED BY <1>1, <2>1, <2>2, <2>3 DEF PersistenceTypeOK
<1>5. \A u \in Calls \ {t} : call'[u].pc \notin {"inserted", "selected", "encoded"}
  BY <1>1, <1>2 DEF TransactionsIsolated
<1>6. TransactionsIsolated' /\ NumbersPositive'
  BY <1>2, <1>5 DEF TransactionsIsolated, NumbersPositive
<1>7. FromDocuments'
  BY <1>1, <1>2, <1>3 DEF FromDocuments
<1>8. LoaderWaits'
  BY <1>1 DEF LoaderWaits
<1>9. RowsDistinct'
  BY <1>1, <1>3 DEF RowsDistinct, PersistenceTypeOK, RowType
<1>10. RowsBounded'
  <2>1. \A r \in rows' : r.seq <= call[t].seq
    BY <1>1, <1>3 DEF PersistenceTypeOK, RowType
  <2> QED BY <2>1, <1>3 DEF RowsBounded
<1>11. \A r \in rows : r \in rows'
  BY <1>1
<1>12. DurableUntilCompacted'
  <2> SUFFICES ASSUME snapshot.seq = 0, NEW e \in committed' PROVE e \in Loadable'
    BY <1>1 DEF DurableUntilCompacted
  <2>1. CASE e \in call[t].edits
    <3>1. row \in RowsAfter(snapshot.seq)'
      BY <1>1, <1>3 DEF RowsAfter
    <3>2. e \in EditsOf(RowsAfter(snapshot.seq)')
      BY <2>1, <3>1, EditsOfMember
    <3> QED BY <3>2 DEF Loadable, EditsOf
  <2>2. CASE e \in committed
    <3>1. e \in snapshot.edits \/ \E r \in RowsAfter(snapshot.seq) : e \in r.edits
      BY <2>2, EditsOfMember DEF DurableUntilCompacted, Loadable
    <3> QED BY <3>1, <1>1, <1>11, EditsOfMember DEF Loadable, RowsAfter
  <2> QED BY <1>1, <2>1, <2>2
<1>13. FirstDocumentLosesNothing'
  <2> SUFFICES ASSUME built <= 1, NEW e \in committed' PROVE e \in snapshot.edits \/ e \in EditsOf(rows')
    BY <1>1 DEF FirstDocumentLosesNothing, EditsOf
  <2>1. CASE e \in call[t].edits
    BY <2>1, <1>1, EditsOfMember
  <2>2. CASE e \in committed
    BY <2>2, <1>11, EditsOfMember DEF FirstDocumentLosesNothing
  <2> QED BY <1>1, <2>1, <2>2
<1> QED BY <1>4, <1>6, <1>7, <1>8, <1>9, <1>10, <1>12, <1>13

\* Steps that change only the calls and the lock: what is left to prove of them.
LEMMA TablesUnchanged ==
  ASSUME PersistenceInv,
         UNCHANGED <<rows, snapshot, loader, docs, built, live, committed>>
  PROVE  LoaderWaits' /\ RowsBounded' /\ RowsDistinct'
         /\ DurableUntilCompacted' /\ FirstDocumentLosesNothing'
<1>1. LoaderWaits' /\ RowsBounded' /\ RowsDistinct'
  BY DEF PersistenceInv, LoaderWaits, RowsBounded, RowsDistinct
<1>2. DurableUntilCompacted' /\ FirstDocumentLosesNothing'
  BY DEF PersistenceInv, DurableUntilCompacted, FirstDocumentLosesNothing, Loadable, RowsAfter, EditsOf
<1> QED BY <1>1, <1>2

LEMMA CompactSelectInv ==
  ASSUME NEW t \in Calls, PersistenceInv, CompactSelect(t)
  PROVE  PersistenceInv'
<1> USE CallAssumption DEF PersistenceInv
<1> DEFINE seqs == {r.seq : r \in RowsAfter(snapshot.seq)}
<1>1. /\ call[t].pc = "compact" /\ lock = NoCall /\ lock' = t
      /\ UNCHANGED <<rows, snapshot, loader, docs, built, live, committed, faults, crashes>>
  BY DEF CompactSelect
<1>2. /\ call'[t].pc = "selected" /\ call'[t].seen = seqs
      /\ call'[t].edits = call[t].edits /\ call'[t].doc = call[t].doc
      /\ \A u \in Calls : u # t => call'[u] = call[u]
  BY DEF CompactSelect, PersistenceTypeOK, CallType
<1>3. seqs \in SUBSET Nat
  BY DEF PersistenceTypeOK, RowType, RowsAfter
<1>4. PersistenceTypeOK'
  <2>1. call \in [Calls -> CallType] /\ call' = [call EXCEPT ![t].pc = "selected", ![t].seen = seqs]
    BY DEF CompactSelect, PersistenceTypeOK
  <2>2. call' \in [Calls -> CallType]
    BY <2>1, <1>3 DEF CallType
  <2> QED BY <1>1, <2>2 DEF PersistenceTypeOK
<1>5. TransactionsIsolated' /\ NumbersPositive'
  BY <1>1, <1>2 DEF TransactionsIsolated, NumbersPositive, RowsAfter
<1>6. FromDocuments'
  BY <1>1, <1>2 DEF FromDocuments
<1> QED BY <1>1, <1>4, <1>5, <1>6, TablesUnchanged

\* A call that ends without touching the tables.
LEMMA CallEndsInv ==
  ASSUME NEW t \in Calls, PersistenceInv,
         call' = [call EXCEPT ![t] = IdleCall],
         lock' = IF lock = t THEN NoCall ELSE lock,
         faults' \in 0..MaxFaults,
         UNCHANGED <<rows, snapshot, loader, docs, built, live, committed, crashes>>
  PROVE  PersistenceInv'
<1> USE CallAssumption DEF PersistenceInv
<1>1. call'[t].pc = "idle" /\ \A u \in Calls : u # t => call'[u] = call[u]
  BY DEF PersistenceTypeOK, CallType, IdleCall
<1>2. PersistenceTypeOK'
  <2>1. call' \in [Calls -> CallType]
    BY DEF PersistenceTypeOK, CallType, IdleCall
  <2> QED BY <2>1 DEF PersistenceTypeOK
<1>3. TransactionsIsolated' /\ NumbersPositive'
  BY <1>1 DEF TransactionsIsolated, NumbersPositive, RowsAfter
<1>4. FromDocuments'
  BY <1>1 DEF FromDocuments
<1> QED BY <1>2, <1>3, <1>4, TablesUnchanged

LEMMA CompactSkipInv ==
  ASSUME NEW t \in Calls, PersistenceInv, CompactSkip(t)
  PROVE  PersistenceInv'
<1>1. lock = t
  BY DEF PersistenceInv, TransactionsIsolated, CompactSkip
<1>2. faults \in 0..MaxFaults
  BY DEF PersistenceInv, PersistenceTypeOK
<1> QED BY <1>1, <1>2, CallEndsInv DEF CompactSkip

LEMMA CallFailsInv ==
  ASSUME NEW t \in Calls, PersistenceInv, CallFails(t)
  PROVE  PersistenceInv'
<1>1. faults' \in 0..MaxFaults
  BY BoundAssumption DEF PersistenceInv, PersistenceTypeOK, CallFails
<1> QED BY <1>1, CallEndsInv DEF CallFails

LEMMA CompactEncodeInv ==
  ASSUME NEW t \in Calls, PersistenceInv, CompactEncode(t)
  PROVE  PersistenceInv'
<1> USE BoundAssumption DEF PersistenceInv
<1> DEFINE seen == call[t].seen
<1>1. /\ call[t].pc = "selected" /\ Cardinality(seen) >= Threshold
      /\ UNCHANGED <<rows, snapshot, lock, loader, docs, built, live, committed, faults, crashes>>
  BY DEF CompactEncode
<1>2. seen = {r.seq : r \in RowsAfter(snapshot.seq)}
  BY <1>1 DEF TransactionsIsolated
<1>3. \A n \in seen : n \in Nat \ {0}
  BY <1>2 DEF RowsAfter, PersistenceTypeOK, RowType
<1>4. seen # {}
  BY <1>1, ThresholdAssumption, FS_EmptySet
<1>5. Max(seen) \in Nat \ {0}
  <2>1. PICK bound \in Nat : \A r \in rows : r.seq <= bound
    BY DEF RowsBounded
  <2>2. \A n \in seen : n <= bound
    BY <1>2, <2>1 DEF RowsAfter
  <2>3. seen \in SUBSET Nat
    BY <1>3
  <2>4. Max(seen) \in seen
    BY <1>4, <2>2, <2>3, MaxIsLargest
  <2> QED BY <1>3, <2>4
<1>6. /\ call'[t].pc = "encoded" /\ call'[t].seq = Max(seen)
      /\ call'[t].edits = docs[call[t].doc] /\ call'[t].doc = call[t].doc
      /\ \A u \in Calls : u # t => call'[u] = call[u]
  BY DEF CompactEncode, PersistenceTypeOK, CallType
<1>7. call[t].doc \in DocIds /\ call[t].doc \in 1..built
  BY <1>1 DEF FromDocuments, PersistenceTypeOK, DocIds
<1>8. PersistenceTypeOK'
  <2> DEFINE content == docs[call[t].doc]
             last == Max(seen)
  <2>1. /\ call \in [Calls -> CallType]
        /\ call' = [call EXCEPT ![t] = [pc |-> "encoded", edits |-> content, doc |-> call[t].doc,
                                         seq |-> last, seen |-> {}]]
    BY DEF CompactEncode, PersistenceTypeOK
  <2>2. content \in SUBSET Edits /\ last \in Nat
    BY <1>5, <1>7 DEF PersistenceTypeOK
  <2> HIDE DEF content, last
  <2>3. call' \in [Calls -> CallType]
    BY <2>1, <2>2 DEF CallType
  <2> QED BY <1>1, <2>3 DEF PersistenceTypeOK
<1>9. TransactionsIsolated'
  BY <1>1, <1>6 DEF TransactionsIsolated, FromDocuments, RowsAfter
<1>10. NumbersPositive'
  BY <1>5, <1>6 DEF NumbersPositive
<1>11. FromDocuments'
  BY <1>1, <1>6, <1>7 DEF FromDocuments
<1> QED BY <1>1, <1>8, <1>9, <1>10, <1>11, TablesUnchanged

LEMMA CompactCommitInv ==
  ASSUME NEW t \in Calls, PersistenceInv, CompactCommit(t)
  PROVE  PersistenceInv'
<1> USE CallAssumption, BoundAssumption DEF PersistenceInv
<1>1. /\ call[t].pc = "encoded"
      /\ snapshot' = [seq |-> call[t].seq, edits |-> call[t].edits, doc |-> call[t].doc]
      /\ rows' = RowsAfter(call[t].seq)
      /\ committed' = committed \cup call[t].edits
      /\ lock' = NoCall
      /\ call' = [call EXCEPT ![t] = IdleCall]
      /\ UNCHANGED <<loader, docs, built, live, faults, crashes>>
  BY DEF CompactCommit
<1>2. call'[t].pc = "idle" /\ \A u \in Calls : u # t => call'[u] = call[u]
  BY <1>1 DEF PersistenceTypeOK, CallType, IdleCall
<1>3. /\ call[t].seq \in Nat \ {0} /\ call[t].doc \in 1..built
      /\ call[t].edits \subseteq docs[call[t].doc]
      /\ call[t].doc \in DocIds /\ call[t].edits \subseteq Edits
  BY <1>1 DEF NumbersPositive, FromDocuments, PersistenceTypeOK, CallType, DocIds
<1>4. rows' \in SUBSET rows
  BY <1>1 DEF RowsAfter
<1>5. PersistenceTypeOK'
  <2>1. call' \in [Calls -> CallType]
    BY <1>1 DEF PersistenceTypeOK, CallType, IdleCall
  <2>2. rows' \subseteq RowType /\ IsFiniteSet(rows')
    BY <1>4, FS_Subset DEF PersistenceTypeOK
  <2>3. snapshot' \in [seq : Nat, edits : SUBSET Edits, doc : DocIds \cup {0}]
    BY <1>1, <1>3
  <2> QED BY <1>1, <1>3, <2>1, <2>2, <2>3 DEF PersistenceTypeOK
<1>6. \A u \in Calls : call'[u].pc \notin {"inserted", "selected", "encoded"}
  BY <1>1, <1>2 DEF TransactionsIsolated
<1>7. TransactionsIsolated' /\ NumbersPositive'
  BY <1>6 DEF TransactionsIsolated, NumbersPositive
<1>8. FromDocuments'
  <2>1. snapshot'.doc = call[t].doc /\ snapshot'.edits = call[t].edits /\ call[t].doc # 0
    BY <1>1, <1>3
  <2> QED BY <1>1, <1>2, <1>3, <1>4, <2>1 DEF FromDocuments
<1>9. RowsBounded' /\ RowsDistinct' /\ LoaderWaits'
  BY <1>1, <1>4 DEF RowsBounded, RowsDistinct, LoaderWaits
<1>10. DurableUntilCompacted'
  BY <1>1, <1>3 DEF DurableUntilCompacted
<1>11. FirstDocumentLosesNothing'
  <2> SUFFICES ASSUME built <= 1, NEW e \in committed'
               PROVE  e \in snapshot'.edits \/ e \in EditsOf(rows')
    BY <1>1 DEF FirstDocumentLosesNothing, EditsOf
  <2>1. call[t].doc = 1 /\ built = 1
    BY <1>3 DEF PersistenceTypeOK
  <2>2. snapshot'.edits = call[t].edits
    BY <1>1
  <2>3. CASE e \in call[t].edits
    BY <2>2, <2>3
  <2>4. CASE e \in snapshot.edits
    <3>1. snapshot.doc \in {0, 1}
      BY <2>1 DEF FromDocuments
    <3> QED BY <1>1, <2>1, <2>2, <2>4, <3>1 DEF TransactionsIsolated, FromDocuments
  <2>5. CASE e \in EditsOf(rows)
    <3>1. PICK r \in rows : e \in r.edits
      BY <2>5, EditsOfMember
    <3>2. r.doc = call[t].doc
      BY <2>1 DEF FromDocuments
    <3> QED BY <1>1, <2>2, <3>1, <3>2 DEF TransactionsIsolated
  <2> QED BY <1>1, <2>3, <2>4, <2>5 DEF FirstDocumentLosesNothing
<1> QED BY <1>5, <1>7, <1>8, <1>9, <1>10, <1>11

LEMMA UnloadInv == PersistenceInv /\ Unload => PersistenceInv'
<1> SUFFICES ASSUME PersistenceInv, Unload PROVE PersistenceInv'
  OBVIOUS
<1> USE DEF PersistenceInv, Unload
<1>1. PersistenceTypeOK'
  BY DEF PersistenceTypeOK
<1>2. TransactionsIsolated' /\ NumbersPositive' /\ FromDocuments' /\ LoaderWaits'
  BY DEF TransactionsIsolated, NumbersPositive, FromDocuments, LoaderWaits, RowsAfter
<1>3. RowsBounded' /\ RowsDistinct'
  BY DEF RowsBounded, RowsDistinct
<1>4. DurableUntilCompacted' /\ FirstDocumentLosesNothing'
  BY DEF DurableUntilCompacted, FirstDocumentLosesNothing, Loadable, RowsAfter, EditsOf
<1> QED BY <1>1, <1>2, <1>3, <1>4

LEMMA ServerCrashInv == PersistenceInv /\ ServerCrash => PersistenceInv'
<1> SUFFICES ASSUME PersistenceInv, ServerCrash PROVE PersistenceInv'
  OBVIOUS
<1> USE BoundAssumption DEF PersistenceInv, ServerCrash
<1>1. PersistenceTypeOK'
  BY DEF PersistenceTypeOK, CallType, IdleCall, IdleLoader
<1>2. \A t \in Calls : call'[t].pc = "idle"
  BY DEF IdleCall
<1>3. TransactionsIsolated' /\ NumbersPositive' /\ FromDocuments' /\ LoaderWaits'
  BY <1>2 DEF TransactionsIsolated, NumbersPositive, FromDocuments, LoaderWaits, IdleLoader
<1>4. RowsBounded' /\ RowsDistinct'
  BY DEF RowsBounded, RowsDistinct
<1>5. DurableUntilCompacted' /\ FirstDocumentLosesNothing'
  BY DEF DurableUntilCompacted, FirstDocumentLosesNothing, Loadable, RowsAfter, EditsOf
<1> QED BY <1>1, <1>3, <1>4, <1>5

LEMMA StutterInv == PersistenceInv /\ UNCHANGED persistenceVars => PersistenceInv'
<1> SUFFICES ASSUME PersistenceInv, UNCHANGED persistenceVars PROVE PersistenceInv'
  OBVIOUS
<1> USE DEF PersistenceInv, persistenceVars
<1>1. PersistenceTypeOK'
  BY DEF PersistenceTypeOK
<1>2. TransactionsIsolated' /\ NumbersPositive' /\ FromDocuments'
  BY DEF TransactionsIsolated, NumbersPositive, FromDocuments, RowsAfter
<1> QED BY <1>1, <1>2, TablesUnchanged

-----------------------------------------------------------------------------
(* The theorems.                                                           *)

LEMMA NextInv == PersistenceInv /\ [PersistenceNext]_persistenceVars => PersistenceInv'
<1> SUFFICES ASSUME PersistenceInv, [PersistenceNext]_persistenceVars PROVE PersistenceInv'
  OBVIOUS
<1>1. CASE LoadSnapshot
  BY <1>1, LoadSnapshotInv
<1>2. CASE LoadUpdates
  BY <1>2, LoadUpdatesInv
<1>3. CASE LoadFails
  BY <1>3, LoadFailsInv
<1>4. ASSUME NEW t \in Calls, NEW es \in SUBSET Edits, OnChange(t, es) PROVE PersistenceInv'
  BY <1>4, OnChangeInv
<1>5. ASSUME NEW t \in Calls, CallStep(t) PROVE PersistenceInv'
  BY <1>5, AppendInsertInv, AppendCommitInv, CompactSelectInv, CompactSkipInv,
     CompactEncodeInv, CompactCommitInv DEF CallStep
<1>6. ASSUME NEW t \in Calls, CallFails(t) PROVE PersistenceInv'
  BY <1>6, CallFailsInv
<1>7. CASE Unload
  BY <1>7, UnloadInv
<1>8. CASE ServerCrash
  BY <1>8, ServerCrashInv
<1>9. CASE UNCHANGED persistenceVars
  BY <1>9, StutterInv
<1> QED BY <1>1, <1>2, <1>3, <1>4, <1>5, <1>6, <1>7, <1>8, <1>9 DEF PersistenceNext

\* The inductive invariant of the two tables holds in every state, for any
\* edits, calls, documents and threshold.
THEOREM PersistenceInvariant == PersistenceSpec => []PersistenceInv
<1>1. PersistenceInit => PersistenceInv
  BY InitInv
<1>2. PersistenceInv /\ [PersistenceNext]_persistenceVars => PersistenceInv'
  BY NextInv
<1> QED BY <1>1, <1>2, PTL DEF PersistenceSpec

(* The tables, the calls, the loader and the documents always have their   *)
(* types: no step builds a row, a snapshot or a number out of range.       *)
THEOREM PersistenceTypes == PersistenceSpec => []PersistenceTypeOK
BY PersistenceInvariant, PTL DEF PersistenceInv

(* The advisory lock isolates the append and compaction transactions of    *)
(* any number of concurrent onChange calls.                                *)
THEOREM LockIsolatesTransactions == PersistenceSpec => []TransactionsIsolated
BY PersistenceInvariant, PTL DEF PersistenceInv

(* max(seq) + 1 never collides, so appendUpdate never fails on its unique  *)
(* index.                                                                  *)
THEOREM SequencesNeverConflict == PersistenceSpec => []NoSequenceConflict
<1>1. PersistenceInv => NoSequenceConflict
  <2> SUFFICES ASSUME PersistenceInv PROVE NoSequenceConflict
    OBVIOUS
  <2>1. \A t \in Calls : call[t].pc = "inserted" =>
          lock = t /\ \A r \in rows : r.seq < call[t].seq
    BY DEF PersistenceInv, TransactionsIsolated
  <2>2. \A r \in rows : r.seq \in Nat
    BY DEF PersistenceInv, PersistenceTypeOK, RowType
  <2>3. \A t \in Calls : call[t].seq \in Nat
    BY DEF PersistenceInv, PersistenceTypeOK, CallType
  <2>4. RowsDistinct
    BY DEF PersistenceInv
  <2> QED BY <2>1, <2>2, <2>3, <2>4 DEF NoSequenceConflict, RowsDistinct
<1> QED BY <1>1, PersistenceInvariant, PTL

(* Before its first compaction a page loses no committed edit, whatever    *)
(* calls fail and however often the process crashes and reloads.           *)
THEOREM DurableBeforeCompaction == PersistenceSpec => []DurableUntilCompacted
BY PersistenceInvariant, PTL DEF PersistenceInv

(* As long as the page's document object was built once only, compaction   *)
(* removes no committed edit from the tables.                              *)
THEOREM FirstDocumentIsSafe == PersistenceSpec => []FirstDocumentLosesNothing
BY PersistenceInvariant, PTL DEF PersistenceInv

(* Compaction from a document object never drops a row that object         *)
(* received nor shrinks the snapshot it wrote.                             *)
THEOREM CompactionCoversItsDocument == PersistenceSpec => CompactionKeepsOwnUpdates
<1> DEFINE Covers == /\ \A r \in rows \ rows' : r.doc = snapshot'.doc => r.edits \subseteq snapshot'.edits
                     /\ snapshot'.doc = snapshot.doc => snapshot.edits \subseteq snapshot'.edits
<1>1. PersistenceInv /\ [PersistenceNext]_persistenceVars => [Covers]_persistenceVars
  <2> SUFFICES ASSUME PersistenceInv, PersistenceNext PROVE Covers
    OBVIOUS
  <2>1. ASSUME NEW t \in Calls, CompactCommit(t) PROVE Covers
    <3>1. call[t].pc = "encoded" /\ snapshot'.doc = call[t].doc /\ snapshot'.edits = call[t].edits
      BY <2>1 DEF CompactCommit
    <3> QED BY <3>1 DEF PersistenceInv, TransactionsIsolated
  <2>2. ASSUME NEW t \in Calls, AppendCommit(t) PROVE Covers
    BY <2>2 DEF AppendCommit
  <2>3. ASSUME rows' = rows, snapshot' = snapshot PROVE Covers
    BY <2>3
  <2> QED BY <2>1, <2>2, <2>3 DEF PersistenceNext, LoadSnapshot, LoadUpdates, LoadFails, OnChange,
             CallStep, AppendInsert, CompactSelect, CompactSkip, CompactEncode, CallFails, Unload,
             ServerCrash
<1> QED BY <1>1, PersistenceInvariant, PTL DEF PersistenceSpec, CompactionKeepsOwnUpdates
-----------------------------------------------------------------------------
(* The refinement of DurablePage.                                          *)

\* What the tables hold was committed, and so was what a load has found and
\* what it must find; before the first compaction there is no snapshot.
LoadsFit ==
  /\ snapshot.edits \cup EditsOf(rows) \subseteq committed
  /\ loader.base \cup loader.edits \subseteq committed
  /\ loader.pc = "idle" => loader.base = {}
  /\ snapshot.seq = 0 => snapshot.edits = {}
  /\ loader.pc = "updates" /\ snapshot.seq = 0 => loader.seq = 0

LEMMA LoadsStayFit ==
  ASSUME PersistenceInv, LoadsFit, [PersistenceNext]_persistenceVars
  PROVE  LoadsFit'
<1> USE DEF LoadsFit, IdleLoader
<1>1. CASE LoadSnapshot
  BY <1>1 DEF LoadSnapshot, PersistenceInv, PersistenceTypeOK
<1>2. CASE LoadUpdates \/ LoadFails \/ ServerCrash
  BY <1>2 DEF LoadUpdates, LoadFails, ServerCrash
<1>3. ASSUME NEW t \in Calls, AppendCommit(t) PROVE LoadsFit'
  <2> DEFINE new == [seq |-> call[t].seq, edits |-> call[t].edits, doc |-> call[t].doc]
  <2>1. rows' = rows \cup {new} /\ new.edits = call[t].edits
    BY <1>3 DEF AppendCommit
  <2> HIDE DEF new
  <2>2. EditsOf(rows') = EditsOf(rows) \cup call[t].edits
    BY <2>1 DEF EditsOf
  <2> QED BY <1>3, <2>2 DEF AppendCommit
<1>4. ASSUME NEW t \in Calls, CompactCommit(t) PROVE LoadsFit'
  <2>1. EditsOf(rows') \subseteq EditsOf(rows)
    BY <1>4 DEF CompactCommit, EditsOf, RowsAfter
  <2>2. snapshot'.seq # 0 /\ snapshot'.edits = call[t].edits
    BY <1>4 DEF CompactCommit, PersistenceInv, NumbersPositive
  <2> QED BY <1>4, <2>1, <2>2 DEF CompactCommit
<1>5. CASE UNCHANGED <<rows, snapshot, loader, committed>>
  BY <1>5
<1> QED BY <1>1, <1>2, <1>3, <1>4, <1>5 DEF PersistenceNext, persistenceVars, OnChange, CallStep,
           AppendInsert, CompactSelect, CompactSkip, CompactEncode, CallFails, Unload

\* What a load has found, and all the tables hold, was committed.
LEMMA LoadsAlwaysFit == PersistenceSpec => []LoadsFit
<1>1. PersistenceInit => LoadsFit
  BY EditsOfMember DEF PersistenceInit, LoadsFit, IdleLoader, EditsOf
<1>2. PersistenceInv /\ LoadsFit /\ [PersistenceNext]_persistenceVars => LoadsFit'
  BY LoadsStayFit
<1> QED BY <1>1, <1>2, PersistenceInvariant, PTL DEF PersistenceSpec

\* The mapping of one step, as long as nothing has compacted.
LEMMA StepsAreOfThePage ==
  ASSUME PersistenceInv, LoadsFit, PersistenceNext, snapshot'.seq = 0
  PROVE  Page!PageNext \/ UNCHANGED Page!pageVars
<1> USE DEF IdleLoader
<1>1. CASE LoadSnapshot
  BY <1>1 DEF LoadSnapshot, PersistenceInv, PersistenceTypeOK, Page!PageNext, Page!BeginOpen
<1>2. CASE LoadUpdates
  <2> DEFINE content == loader.edits \cup EditsOf(RowsAfter(loader.seq))
  <2>1. /\ loader.pc = "updates" /\ loader'.pc = "idle" /\ loader'.base = {}
        /\ loader'.result = content /\ UNCHANGED <<committed, snapshot>>
    BY <1>2 DEF LoadUpdates
  <2>2. loader.seq = 0 /\ snapshot.seq = 0 /\ snapshot.edits = {}
    BY <2>1 DEF LoadsFit
  <2>3. content \subseteq committed
    BY EditsOfMember DEF LoadsFit, RowsAfter, EditsOf
  <2>4. committed \subseteq content
    BY <2>2 DEF PersistenceInv, DurableUntilCompacted, Loadable
  <2>5. loader.base \subseteq content
    BY <2>4 DEF LoadsFit
  <2> HIDE DEF content
  <2>6. Page!EndOpen
    BY <2>1, <2>3, <2>5 DEF Page!EndOpen
  <2> QED BY <2>6 DEF Page!PageNext
<1>3. CASE LoadFails
  BY <1>3 DEF LoadFails, Page!PageNext, Page!AbandonOpen
<1>4. CASE ServerCrash
  <2>1. loader.pc \in {"idle", "updates"}
    BY DEF PersistenceInv, PersistenceTypeOK
  <2>2. CASE loader.pc = "updates"
    BY <1>4, <2>2 DEF ServerCrash, Page!PageNext, Page!AbandonOpen
  <2>3. CASE loader.pc = "idle"
    BY <1>4, <2>3 DEF ServerCrash, LoadsFit, Page!pageVars
  <2> QED BY <2>1, <2>2, <2>3
<1>5. ASSUME NEW t \in Calls, AppendCommit(t) PROVE Page!PageNext
  <2>1. call[t].edits \in SUBSET Edits
    BY DEF PersistenceInv, PersistenceTypeOK, CallType
  <2>2. Page!Save(call[t].edits)
    BY <1>5 DEF AppendCommit, Page!Save
  <2> QED BY <2>1, <2>2 DEF Page!PageNext
<1>6. ASSUME NEW t \in Calls, CompactCommit(t) PROVE FALSE
  BY <1>6 DEF CompactCommit, PersistenceInv, NumbersPositive
<1>7. CASE UNCHANGED <<loader, committed>>
  BY <1>7 DEF Page!pageVars
<1> QED BY <1>1, <1>2, <1>3, <1>4, <1>5, <1>6, <1>7 DEF PersistenceNext, OnChange, CallStep,
           AppendInsert, CompactSelect, CompactSkip, CompactEncode, CallFails, Unload

(* Until the page is compacted the tables implement a durable store: every *)
(* step of any number of calls, loads, errors and crashes is a save, a     *)
(* part of an open that returns all that was safe when it began, or none.  *)
THEOREM TablesImplementDurablePage == PersistenceSpec => ImplementsDurablePage
<1>1. PersistenceInit => Page!PageInit
  BY DEF PersistenceInit, IdleLoader, Page!PageInit
<1>2. PersistenceInv /\ LoadsFit /\ [PersistenceNext]_persistenceVars
        => [snapshot'.seq = 0 => Page!PageNext]_Page!pageVars
  <2>1. CASE UNCHANGED persistenceVars
    BY <2>1 DEF persistenceVars, Page!pageVars
  <2> QED BY <2>1, StepsAreOfThePage
<1> QED BY <1>1, <1>2, PersistenceInvariant, LoadsAlwaysFit, PTL
       DEF PersistenceSpec, ImplementsDurablePage

-----------------------------------------------------------------------------
(* The service: tabs, sockets and the served document.                     *)
(* Messages and queues.                                                    *)

LEMMA MessageTypes ==
  /\ AuthMessage \in Message
  /\ Step1Message \in Message
  /\ \A es \in SUBSET Edits : EditMessage(es) \in Message /\ SyncMessage(es) \in Message
BY DEF AuthMessage, Step1Message, EditMessage, SyncMessage, Message

\* Sending to one queue and taking from one queue keep the queues' type.
LEMMA QueueTypes ==
  ASSUME NEW q \in [Clients -> Seq(Message)], NEW c \in Clients
  PROVE  /\ \A m \in Message : [q EXCEPT ![c] = Append(@, m)] \in [Clients -> Seq(Message)]
         /\ q[c] # <<>> => /\ Head(q[c]) \in Message
                           /\ [q EXCEPT ![c] = Tail(@)] \in [Clients -> Seq(Message)]
         /\ [q EXCEPT ![c] = <<>>] \in [Clients -> Seq(Message)]
<1>1. q[c] \in Seq(Message)
  OBVIOUS
<1>2. \A m \in Message : Append(q[c], m) \in Seq(Message)
  BY <1>1, AppendProperties
<1>3. q[c] # <<>> => Head(q[c]) \in Message /\ Tail(q[c]) \in Seq(Message)
  BY <1>1, HeadTailProperties
<1>4. <<>> \in Seq(Message)
  BY EmptySeq
<1> QED BY <1>2, <1>3, <1>4

-----------------------------------------------------------------------------
(* Every step of the service is a step of the persistence or leaves it     *)
(* alone.                                                                  *)

LEMMA ServerStep ==
  ASSUME ClientTypeOK, [ServerNext]_serverVars
  PROVE  [PersistenceNext]_persistenceVars
<1>1. ASSUME NEW c \in Clients, TabNext(c) PROVE UNCHANGED persistenceVars
  BY <1>1 DEF TabNext, Commit, Connect, ReceiveAuth, ReceiveSync, ReceiveUpdate, Drop, Reopen
<1>2. ASSUME NEW c \in Clients, NEW t \in Calls, ApplyUpdate(c, t) PROVE PersistenceNext
  <2> DEFINE es == Head(toServer[c]).edits \ docs[live]
  <2>1. OnChange(t, es)
    BY <1>2 DEF ApplyUpdate
  <2>2. toServer[c] # <<>> /\ toServer \in [Clients -> Seq(Message)]
    BY <1>2 DEF ApplyUpdate, ClientTypeOK
  <2>3. Head(toServer[c]) \in Message
    BY <2>2, QueueTypes
  <2>4. es \in SUBSET Edits
    BY <2>3 DEF Message
  <2> QED BY <2>1, <2>4 DEF PersistenceNext
<1>3. ASSUME NEW c \in Clients,
             Authenticate(c) \/ Attach(c) \/ AnswerStep1(c) \/ IgnoreKnown(c)
      PROVE  UNCHANGED persistenceVars
  BY <1>3 DEF Authenticate, Attach, AnswerStep1, IgnoreKnown
<1>4. CASE StartLoad \/ FinishLoad \/ LoadRejected
  BY <1>4 DEF StartLoad, FinishLoad, LoadRejected, PersistenceNext
<1>5. ASSUME NEW t \in Calls, CallMoves(t) PROVE PersistenceNext
  BY <1>5 DEF CallMoves, PersistenceNext
<1>6. CASE UnloadDocument
  BY <1>6 DEF UnloadDocument, PersistenceNext
<1>7. CASE Crash
  BY <1>7 DEF Crash, PersistenceNext
<1>8. CASE UNCHANGED serverVars
  BY <1>8 DEF serverVars
<1> QED BY <1>1, <1>2, <1>3, <1>4, <1>5, <1>6, <1>7, <1>8 DEF ServerNext, ServiceNext

-----------------------------------------------------------------------------
(* The types of the tabs and of the queues.                                *)

LEMMA TabTypes ==
  ASSUME ClientTypeOK, NEW c \in Clients, TabNext(c)
  PROVE  ClientTypeOK'
<1> USE DEF ClientTypeOK
<1>1. ASSUME NEW e \in Edits, Commit(c, e) PROVE ClientTypeOK'
  BY <1>1, MessageTypes, QueueTypes DEF Commit
<1>2. CASE Connect(c)
  BY <1>2 DEF Connect
<1>3. CASE ReceiveAuth(c)
  BY <1>3, MessageTypes, QueueTypes DEF ReceiveAuth
<1>4. CASE ReceiveSync(c)
  <2> DEFINE message == Head(toClient[c])
  <2>1. message \in Message
    BY <1>4, QueueTypes DEF ReceiveSync
  <2>2. message.edits \in SUBSET Edits /\ local[c] \ message.have \in SUBSET Edits
    BY <2>1 DEF Message
  <2> QED BY <1>4, <2>2, MessageTypes, QueueTypes DEF ReceiveSync
<1>5. CASE ReceiveUpdate(c)
  <2>1. Head(toClient[c]) \in Message
    BY <1>5, QueueTypes DEF ReceiveUpdate
  <2>2. Head(toClient[c]).edits \in SUBSET Edits
    BY <2>1 DEF Message
  <2> QED BY <1>5, <2>2, QueueTypes DEF ReceiveUpdate
<1>6. CASE Drop(c)
  BY <1>6, ClientBoundAssumption, QueueTypes DEF Drop, Hangup
<1>7. CASE Reopen(c)
  BY <1>7, ClientBoundAssumption, QueueTypes DEF Reopen, Hangup
<1> QED BY <1>1, <1>2, <1>3, <1>4, <1>5, <1>6, <1>7 DEF TabNext

\* Only a served document has attached tabs.
AttachedServed == \A c \in Clients : conn[c] = "attached" => live # 0

LEMMA ServiceTypes ==
  ASSUME ClientTypeOK, PersistenceTypeOK, AttachedServed, ServiceNext
  PROVE  ClientTypeOK'
<1> USE DEF ClientTypeOK
<1>1. ASSUME NEW c \in Clients, Authenticate(c) \/ Attach(c) PROVE ClientTypeOK'
  <2>1. CASE Authenticate(c)
    <3>1. [toClient EXCEPT ![c] = Append(@, AuthMessage)] \in [Clients -> Seq(Message)]
      BY MessageTypes, QueueTypes
    <3> QED BY <2>1, <3>1 DEF Authenticate
  <2>2. CASE Attach(c)
    BY <2>2 DEF Attach
  <2> QED BY <1>1, <2>1, <2>2
<1>2. ASSUME NEW c \in Clients, IgnoreKnown(c) PROVE ClientTypeOK'
  BY <1>2, QueueTypes DEF IgnoreKnown
<1>3. ASSUME NEW c \in Clients, AnswerStep1(c) PROVE ClientTypeOK'
  <2>1. live \in DocIds
    BY <1>3, BoundAssumption DEF AnswerStep1, Attached, AttachedServed, PersistenceTypeOK, DocIds
  <2>2. SyncMessage(docs[live]) \in Message
    BY <2>1, MessageTypes DEF PersistenceTypeOK
  <2> QED BY <1>3, <2>2, QueueTypes DEF AnswerStep1
<1>4. ASSUME NEW c \in Clients, NEW t \in Calls, ApplyUpdate(c, t) PROVE ClientTypeOK'
  <2> DEFINE new == Head(toServer[c]).edits \ docs[live]
  <2>1. Head(toServer[c]) \in Message
    BY <1>4, QueueTypes DEF ApplyUpdate
  <2>2. new \in SUBSET Edits
    BY <2>1 DEF Message
  <2>3. EditMessage(new) \in Message
    BY <2>2, MessageTypes
  <2> HIDE DEF new
  <2>4. \A d \in Clients : Append(toClient[d], EditMessage(new)) \in Seq(Message)
    BY <2>3, AppendProperties
  <2>5. toClient' \in [Clients -> Seq(Message)]
    BY <1>4, <2>4 DEF ApplyUpdate, new
  <2> QED BY <1>4, <2>5, QueueTypes DEF ApplyUpdate
<1>5. CASE StartLoad \/ FinishLoad \/ UnloadDocument
  BY <1>5 DEF StartLoad, FinishLoad, UnloadDocument, clientVars
<1>6. ASSUME NEW t \in Calls, CallMoves(t) PROVE ClientTypeOK'
  BY <1>6 DEF CallMoves, clientVars
<1>7. <<>> \in Seq(Message)
  BY EmptySeq
<1>8. CASE LoadRejected
  BY <1>7, <1>8 DEF LoadRejected
<1>9. CASE Crash
  BY <1>7, <1>9 DEF Crash
<1> QED BY <1>1, <1>2, <1>3, <1>4, <1>5, <1>6, <1>8, <1>9 DEF ServiceNext

LEMMA ServedStep ==
  ASSUME ClientTypeOK, PersistenceTypeOK, AttachedServed, [ServerNext]_serverVars
  PROVE  AttachedServed'
<1> USE DEF AttachedServed, ClientTypeOK
<1>1. ASSUME NEW c \in Clients, TabNext(c) PROVE AttachedServed'
  <2>1. live' = live /\ \A d \in Clients : conn'[d] = "attached" => conn[d] = "attached"
    BY <1>1 DEF TabNext, Commit, Connect, ReceiveAuth, ReceiveSync, ReceiveUpdate, Drop, Reopen,
       Hangup, persistenceVars
  <2> QED BY <2>1
<1>2. ASSUME NEW c \in Clients, Authenticate(c) \/ Attach(c) \/ AnswerStep1(c) \/ IgnoreKnown(c)
      PROVE  AttachedServed'
  BY <1>2 DEF Authenticate, Attach, AnswerStep1, IgnoreKnown, persistenceVars
<1>3. ASSUME NEW c \in Clients, NEW t \in Calls, ApplyUpdate(c, t) PROVE AttachedServed'
  BY <1>3 DEF ApplyUpdate, OnChange
<1>4. CASE StartLoad
  BY <1>4 DEF StartLoad, LoadSnapshot, clientVars
<1>5. CASE FinishLoad
  BY <1>5 DEF FinishLoad, LoadUpdates, clientVars, PersistenceTypeOK
<1>6. CASE LoadRejected
  BY <1>6 DEF LoadRejected, LoadFails
<1>7. ASSUME NEW t \in Calls, CallMoves(t) PROVE AttachedServed'
  BY <1>7 DEF CallMoves, CallStep, CallFails, AppendInsert, AppendCommit, CompactSelect, CompactSkip,
     CompactEncode, CompactCommit, clientVars
<1>8. CASE UnloadDocument
  BY <1>8 DEF UnloadDocument, clientVars
<1>9. CASE Crash
  BY <1>9 DEF Crash
<1>10. CASE UNCHANGED serverVars
  BY <1>10 DEF serverVars, clientVars, persistenceVars
<1> QED BY <1>1, <1>2, <1>3, <1>4, <1>5, <1>6, <1>7, <1>8, <1>9, <1>10 DEF ServerNext, ServiceNext

-----------------------------------------------------------------------------
(* A tab follows the server's document.                                    *)

\* The messages of a queue, in whatever order, and the edits they bring.
Messages(q) == {q[i] : i \in DOMAIN q}
Pending(q, kind) == \E m \in Messages(q) : m.kind = kind
Carried(q) == UNION {m.edits : m \in Messages(q)}

\* Before its socket is authenticated a tab has sent nothing and was sent no
\* document; what it is sent comes from the document it is attached to.
QueuesFit(c) ==
  /\ ~ready[c] => toServer[c] = <<>> /\ ~Pending(toClient[c], "sync")
  /\ \A m \in Messages(toClient[c]) :
       /\ m.kind = "auth" => m.edits = {}
       /\ m.kind # "auth" => conn[c] = "attached" /\ m.edits \subseteq docs[live]
       /\ m.kind = "sync" => m.have \subseteq docs[live]

\* From the answer to its first message on, a tab has or is sent all the
\* document holds; from the sync on, the server has or is sent all it has.
TabFollows(c) ==
  ready[c] /\ ~Pending(toServer[c], "step1") =>
    /\ conn[c] = "attached"
    /\ docs[live] \subseteq local[c] \cup Carried(toClient[c])
    /\ ~Pending(toClient[c], "sync") => local[c] \subseteq docs[live] \cup Carried(toServer[c])

\* A tab without an admitted socket has nothing on its way.
SocketFits(c) ==
  conn[c] \in {"closed", "joining"} => ~ready[c] /\ toServer[c] = <<>> /\ toClient[c] = <<>>

TabFits(c) == QueuesFit(c) /\ TabFollows(c) /\ SocketFits(c)
TabsFit == \A c \in Clients : TabFits(c)

LEMMA EmptyQueue ==
  Messages(<<>>) = {} /\ Carried(<<>>) = {} /\ \A kind : ~Pending(<<>>, kind)
BY DEF Messages, Carried, Pending

\* What an appended message adds to a queue, and a taken one takes from it.
LEMMA QueueMessages ==
  ASSUME NEW q \in Seq(Message)
  PROVE  /\ Messages(q) \subseteq Message
         /\ \A m \in Message : Messages(Append(q, m)) = Messages(q) \cup {m}
         /\ q # <<>> => Messages(q) = Messages(Tail(q)) \cup {Head(q)} /\ Head(q) \in Message
<1>1. Messages(q) \subseteq Message
  BY DEF Messages
<1>2. ASSUME NEW m \in Message PROVE Messages(Append(q, m)) = Messages(q) \cup {m}
  <2>1. DOMAIN Append(q, m) = 1..(Len(q) + 1) /\ DOMAIN q = 1..Len(q) /\ Len(q) \in Nat
    BY AppendProperties, LenProperties
  <2>2. /\ \A i \in 1..Len(q) : Append(q, m)[i] = q[i]
        /\ Append(q, m)[Len(q) + 1] = m
    BY AppendProperties
  <2> QED BY <2>1, <2>2 DEF Messages
<1>3. ASSUME q # <<>> PROVE Messages(q) = Messages(Tail(q)) \cup {Head(q)} /\ Head(q) \in Message
  <2>1. /\ Head(q) = q[1] /\ Head(q) \in Message /\ Len(q) \in Nat /\ Len(q) # 0
        /\ DOMAIN q = 1..Len(q) /\ DOMAIN Tail(q) = 1..(Len(q) - 1)
        /\ \A i \in 1..(Len(q) - 1) : Tail(q)[i] = q[i + 1]
    BY <1>3, HeadTailProperties, LenProperties
  <2>2. \A i \in DOMAIN q : i = 1 \/ (i - 1 \in DOMAIN Tail(q) /\ Tail(q)[i - 1] = q[i])
    BY <2>1
  <2>3. \A i \in DOMAIN Tail(q) : i + 1 \in DOMAIN q /\ q[i + 1] = Tail(q)[i]
    BY <2>1
  <2>4. 1 \in DOMAIN q
    BY <2>1
  <2> QED BY <2>1, <2>2, <2>3, <2>4 DEF Messages
<1> QED BY <1>1, <1>2, <1>3

\* The same in terms of what waits and what is brought.
LEMMA QueueEffects ==
  ASSUME NEW q \in Seq(Message)
  PROVE  /\ \A m \in Message :
              /\ Carried(Append(q, m)) = Carried(q) \cup m.edits
              /\ \A kind : Pending(Append(q, m), kind) <=> Pending(q, kind) \/ m.kind = kind
         /\ q # <<>> =>
              /\ Carried(q) = Carried(Tail(q)) \cup Head(q).edits
              /\ \A kind : Pending(q, kind) <=> Pending(Tail(q), kind) \/ Head(q).kind = kind
              /\ \A m \in Messages(Tail(q)) : m \in Messages(q)
              /\ Head(q) \in Messages(q)
<1>1. ASSUME NEW m \in Message
      PROVE  /\ Carried(Append(q, m)) = Carried(q) \cup m.edits
             /\ \A kind : Pending(Append(q, m), kind) <=> Pending(q, kind) \/ m.kind = kind
  <2>1. Messages(Append(q, m)) = Messages(q) \cup {m}
    BY QueueMessages
  <2> QED BY <2>1 DEF Carried, Pending
<1>2. ASSUME q # <<>>
      PROVE  /\ Carried(q) = Carried(Tail(q)) \cup Head(q).edits
             /\ \A kind : Pending(q, kind) <=> Pending(Tail(q), kind) \/ Head(q).kind = kind
             /\ \A m \in Messages(Tail(q)) : m \in Messages(q)
             /\ Head(q) \in Messages(q)
  <2>1. Messages(q) = Messages(Tail(q)) \cup {Head(q)}
    BY <1>2, QueueMessages
  <2> QED BY <2>1 DEF Carried, Pending
<1> QED BY <1>1, <1>2

\* A tab nothing happens to still fits, if its document stays the same.
LEMMA TabUntouched ==
  ASSUME NEW c \in Clients, TabFits(c), conn'[c] = conn[c], ready'[c] = ready[c],
         local'[c] = local[c], toServer'[c] = toServer[c], toClient'[c] = toClient[c],
         docs'[live'] = docs[live] \/ conn[c] # "attached"
  PROVE  TabFits(c)'
BY DEF TabFits, QueuesFit, TabFollows, SocketFits

\* A tab whose socket was lost fits.
LEMMA TabHungUp ==
  ASSUME NEW c \in Clients, ~ready'[c], toServer'[c] = <<>>, toClient'[c] = <<>>
  PROVE  TabFits(c)'
BY EmptyQueue DEF TabFits, QueuesFit, TabFollows, SocketFits

\* What a tab does keeps it, and every other tab, fitting.
LEMMA TabsStayFit ==
  ASSUME ClientTypeOK, TabsFit, NEW c \in Clients, TabNext(c)
  PROVE  TabsFit'
<1>0. /\ toServer[c] \in Seq(Message) /\ toClient[c] \in Seq(Message)
      /\ DOMAIN toServer = Clients /\ DOMAIN toClient = Clients /\ DOMAIN local = Clients
      /\ DOMAIN conn = Clients /\ DOMAIN ready = Clients /\ ready[c] \in BOOLEAN
  BY DEF ClientTypeOK
<1>1. UNCHANGED <<docs, live>>
  BY DEF TabNext, Commit, Connect, ReceiveAuth, ReceiveSync, ReceiveUpdate, Drop, Reopen,
     persistenceVars
<1>2. ASSUME NEW d \in Clients, d # c PROVE TabFits(d)'
  <2>1. /\ conn'[d] = conn[d] /\ ready'[d] = ready[d] /\ local'[d] = local[d]
        /\ toServer'[d] = toServer[d] /\ toClient'[d] = toClient[d]
    BY <1>0, <1>2 DEF TabNext, Commit, Connect, ReceiveAuth, ReceiveSync, ReceiveUpdate, Drop,
       Reopen, Hangup, ClientTypeOK
  <2> QED BY <1>1, <2>1, TabUntouched DEF TabsFit
<1>3. QueuesFit(c) /\ TabFollows(c) /\ SocketFits(c)
  BY DEF TabsFit, TabFits
<1>4. ASSUME NEW e \in Edits, Commit(c, e) PROVE TabFits(c)'
  <2>1. /\ local'[c] = local[c] \cup {e} /\ UNCHANGED <<conn, ready, toClient>>
        /\ toServer' = IF ready[c] THEN [toServer EXCEPT ![c] = Append(@, EditMessage({e}))]
                                   ELSE toServer
    BY <1>0, <1>4 DEF Commit
  <2>2. EditMessage({e}) \in Message
    BY MessageTypes
  <2>3. CASE ready[c]
    <3>1. toServer'[c] = Append(toServer[c], EditMessage({e}))
      BY <1>0, <2>1, <2>3
    <3>2. /\ Carried(toServer'[c]) = Carried(toServer[c]) \cup {e}
          /\ Pending(toServer'[c], "step1") <=> Pending(toServer[c], "step1")
      BY <1>0, <2>2, <3>1, QueueEffects DEF EditMessage
    <3> QED BY <1>1, <1>3, <2>1, <2>3, <3>2 DEF TabFits, QueuesFit, TabFollows, SocketFits
  <2>4. CASE ~ready[c]
    BY <1>1, <1>3, <2>1, <2>4 DEF TabFits, QueuesFit, TabFollows, SocketFits
  <2> QED BY <2>3, <2>4
<1>5. ASSUME Connect(c) PROVE TabFits(c)'
  BY <1>0, <1>1, <1>3, <1>5, EmptyQueue DEF Connect, TabFits, QueuesFit, TabFollows, SocketFits
<1>6. ASSUME ReceiveAuth(c) PROVE TabFits(c)'
  <2>1. /\ toClient[c] # <<>> /\ Head(toClient[c]).kind = "auth"
        /\ toClient'[c] = Tail(toClient[c]) /\ ready'[c]
        /\ toServer'[c] = Append(toServer[c], Step1Message) /\ UNCHANGED <<local, conn>>
    BY <1>0, <1>6 DEF ReceiveAuth
  <2>2. Pending(toServer'[c], "step1")
    BY <1>0, <2>1, MessageTypes, QueueEffects DEF Step1Message
  <2>3. \A m \in Messages(toClient'[c]) : m \in Messages(toClient[c])
    BY <1>0, <2>1, QueueEffects
  <2>4. conn[c] \notin {"closed", "joining"}
    BY <1>3, <2>1 DEF SocketFits
  <2> QED BY <1>1, <1>3, <2>1, <2>2, <2>3, <2>4 DEF TabFits, QueuesFit, TabFollows, SocketFits
<1>7. ASSUME ReceiveSync(c) PROVE TabFits(c)'
  <2> DEFINE m == Head(toClient[c])
             reply == EditMessage(local[c] \ m.have)
  <2>1. /\ toClient[c] # <<>> /\ m.kind = "sync"
        /\ toClient'[c] = Tail(toClient[c]) /\ local'[c] = local[c] \cup m.edits
        /\ toServer'[c] = Append(toServer[c], reply) /\ UNCHANGED <<conn, ready>>
    BY <1>0, <1>7 DEF ReceiveSync
  <2>2. m \in Message /\ m \in Messages(toClient[c])
    BY <1>0, <2>1, QueueMessages, QueueEffects
  <2>3. local[c] \in SUBSET Edits /\ reply \in Message
    BY MessageTypes DEF ClientTypeOK
  <2>4. reply.kind = "update" /\ reply.edits = local[c] \ m.have
    BY DEF EditMessage
  <2>5. m.edits \subseteq docs[live] /\ m.have \subseteq docs[live] /\ conn[c] = "attached"
    BY <1>3, <2>1, <2>2 DEF QueuesFit
  <2>6. ready[c]
    BY <1>3, <2>1, <2>2 DEF QueuesFit, Pending
  <2> HIDE DEF reply
  <2>7. /\ Carried(toServer'[c]) = Carried(toServer[c]) \cup reply.edits
        /\ Pending(toServer'[c], "step1") <=> Pending(toServer[c], "step1")
    BY <1>0, <2>1, <2>3, <2>4, QueueEffects
  <2>8. /\ Carried(toClient[c]) = Carried(toClient'[c]) \cup m.edits
        /\ \A n \in Messages(toClient'[c]) : n \in Messages(toClient[c])
    BY <1>0, <2>1, QueueEffects
  <2> HIDE DEF m
  <2>9. QueuesFit(c)' /\ SocketFits(c)'
    BY <1>1, <1>3, <2>1, <2>5, <2>6, <2>8 DEF QueuesFit, SocketFits
  <2>10. TabFollows(c)'
    BY <1>1, <1>3, <2>1, <2>4, <2>5, <2>6, <2>7, <2>8 DEF TabFollows
  <2> QED BY <2>9, <2>10 DEF TabFits
<1>8. ASSUME ReceiveUpdate(c) PROVE TabFits(c)'
  <2> DEFINE m == Head(toClient[c])
  <2>1. /\ toClient[c] # <<>> /\ m.kind = "update"
        /\ toClient'[c] = Tail(toClient[c]) /\ local'[c] = local[c] \cup m.edits
        /\ UNCHANGED <<conn, ready, toServer>>
    BY <1>0, <1>8 DEF ReceiveUpdate
  <2>2. m \in Messages(toClient[c])
    BY <1>0, <2>1, QueueEffects
  <2>3. m.edits \subseteq docs[live] /\ conn[c] = "attached"
    BY <1>3, <2>1, <2>2 DEF QueuesFit
  <2>4. /\ Carried(toClient[c]) = Carried(toClient'[c]) \cup m.edits
        /\ \A n \in Messages(toClient'[c]) : n \in Messages(toClient[c])
        /\ Pending(toClient'[c], "sync") <=> Pending(toClient[c], "sync")
    BY <1>0, <2>1, QueueEffects
  <2> HIDE DEF m
  <2>5. QueuesFit(c)' /\ SocketFits(c)'
    BY <1>1, <1>3, <2>1, <2>3, <2>4 DEF QueuesFit, SocketFits
  <2>6. TabFollows(c)'
    BY <1>1, <1>3, <2>1, <2>3, <2>4 DEF TabFollows
  <2> QED BY <2>5, <2>6 DEF TabFits
<1>9. ASSUME Drop(c) \/ Reopen(c) PROVE TabFits(c)'
  <2>1. ~ready'[c] /\ toServer'[c] = <<>> /\ toClient'[c] = <<>>
    BY <1>0, <1>9 DEF Drop, Reopen, Hangup
  <2> QED BY <2>1, TabHungUp
<1>10. TabFits(c)'
  BY <1>4, <1>5, <1>6, <1>7, <1>8, <1>9 DEF TabNext
<1> QED BY <1>2, <1>10 DEF TabsFit

\* Attaching, and what waits for it, leaves the document alone.
LEMMA ServiceStaysFit ==
  ASSUME ClientTypeOK, PersistenceInv, AttachedServed, TabsFit, ServiceNext
  PROVE  TabsFit'
<1> USE DEF ClientTypeOK
<1>0. ASSUME NEW c \in Clients
      PROVE  /\ toServer[c] \in Seq(Message) /\ toClient[c] \in Seq(Message)
             /\ QueuesFit(c) /\ TabFollows(c) /\ SocketFits(c)
             /\ conn[c] = "attached" => docs[live] \in SUBSET Edits /\ live \in DocIds
  <2>1. live # 0 => live \in DocIds /\ docs[live] \in SUBSET Edits
    BY BoundAssumption DEF PersistenceInv, PersistenceTypeOK, DocIds
  <2> QED BY <2>1 DEF TabsFit, TabFits, AttachedServed
<1>1. ASSUME NEW c \in Clients, Authenticate(c) PROVE TabsFit'
  <2>1. /\ conn[c] = "joining" /\ conn'[c] = "authed" /\ toClient'[c] = Append(toClient[c], AuthMessage)
        /\ UNCHANGED <<docs, live, local, ready, toServer>>
        /\ \A d \in Clients : d # c => conn'[d] = conn[d] /\ toClient'[d] = toClient[d]
    BY <1>1 DEF Authenticate, persistenceVars
  <2>2. ~ready[c] /\ toServer[c] = <<>> /\ toClient[c] = <<>>
    BY <1>0, <2>1 DEF SocketFits
  <2>3. Messages(toClient'[c]) = Messages(toClient[c]) \cup {AuthMessage}
    BY <1>0, <2>1, MessageTypes, QueueMessages
  <2> DEFINE m == AuthMessage
  <2>4. m.kind = "auth" /\ m.edits = {}
    BY DEF AuthMessage
  <2> HIDE DEF m
  <2>5. Messages(toClient'[c]) = {m}
    BY <2>2, <2>3, EmptyQueue DEF m
  <2>6. QueuesFit(c)'
    BY <2>1, <2>2, <2>4, <2>5 DEF QueuesFit, Pending
  <2>7. TabFits(c)'
    BY <2>1, <2>2, <2>6 DEF TabFits, TabFollows, SocketFits
  <2> QED BY <2>1, <2>7, TabUntouched DEF TabsFit
<1>2. ASSUME NEW c \in Clients, Attach(c) PROVE TabsFit'
  <2>1. /\ conn[c] = "authed" /\ conn'[c] = "attached"
        /\ UNCHANGED <<docs, live, local, ready, toServer, toClient>>
        /\ \A d \in Clients : d # c => conn'[d] = conn[d]
    BY <1>2 DEF Attach, persistenceVars
  <2>2. TabFits(c)'
    BY <1>0, <2>1 DEF TabFits, QueuesFit, TabFollows, SocketFits
  <2> QED BY <2>1, <2>2, TabUntouched DEF TabsFit
<1>3. ASSUME NEW c \in Clients, AnswerStep1(c) PROVE TabsFit'
  <2> DEFINE m == Head(toServer[c])
             reply == SyncMessage(docs[live])
  <2>1. /\ conn[c] = "attached" /\ toServer[c] # <<>> /\ m.kind = "step1"
        /\ toServer'[c] = Tail(toServer[c]) /\ toClient'[c] = Append(toClient[c], reply)
        /\ UNCHANGED <<docs, live, local, conn, ready>>
        /\ \A d \in Clients : d # c => toServer'[d] = toServer[d] /\ toClient'[d] = toClient[d]
    BY <1>3 DEF AnswerStep1, persistenceVars, Attached
  <2>2. reply \in Message /\ reply.kind = "sync" /\ reply.edits = docs[live] /\ reply.have = docs[live]
    BY <1>0, <2>1, MessageTypes DEF SyncMessage
  <2>3. ready[c]
    BY <1>0, <2>1 DEF QueuesFit
  <2> HIDE DEF reply
  <2>4. /\ Carried(toClient'[c]) = Carried(toClient[c]) \cup reply.edits
        /\ Messages(toClient'[c]) = Messages(toClient[c]) \cup {reply}
        /\ Pending(toClient'[c], "sync")
    BY <1>0, <2>1, <2>2, QueueEffects, QueueMessages
  <2>5. TabFits(c)'
    BY <1>0, <2>1, <2>2, <2>3, <2>4 DEF TabFits, QueuesFit, TabFollows, SocketFits
  <2> QED BY <2>1, <2>5, TabUntouched DEF TabsFit
<1>4. ASSUME NEW c \in Clients, IgnoreKnown(c) PROVE TabsFit'
  <2> DEFINE m == Head(toServer[c])
  <2>1. /\ conn[c] = "attached" /\ toServer[c] # <<>> /\ m.kind = "update" /\ m.edits \subseteq docs[live]
        /\ toServer'[c] = Tail(toServer[c]) /\ UNCHANGED <<docs, live, local, conn, ready, toClient>>
        /\ \A d \in Clients : d # c => toServer'[d] = toServer[d]
    BY <1>4 DEF IgnoreKnown, persistenceVars, Attached
  <2>2. ready[c]
    BY <1>0, <2>1 DEF QueuesFit
  <2>3. /\ Carried(toServer[c]) = Carried(toServer'[c]) \cup m.edits
        /\ Pending(toServer'[c], "step1") <=> Pending(toServer[c], "step1")
    BY <1>0, <2>1, QueueEffects
  <2>4. TabFits(c)'
    BY <1>0, <2>1, <2>2, <2>3 DEF TabFits, QueuesFit, TabFollows, SocketFits
  <2> QED BY <2>1, <2>4, TabUntouched DEF TabsFit
<1>5. ASSUME NEW c \in Clients, NEW t \in Calls, ApplyUpdate(c, t) PROVE TabsFit'
  <2> DEFINE m == Head(toServer[c])
             new == m.edits \ docs[live]
             sent == EditMessage(new)
  <2>1. /\ conn[c] = "attached" /\ toServer[c] # <<>> /\ m.kind = "update" /\ OnChange(t, new)
        /\ toServer'[c] = Tail(toServer[c]) /\ UNCHANGED <<local, conn, ready>>
        /\ \A d \in Clients : toClient'[d] = IF conn[d] = "attached" THEN Append(toClient[d], sent)
                                                                    ELSE toClient[d]
        /\ \A d \in Clients : d # c => toServer'[d] = toServer[d]
    BY <1>5 DEF ApplyUpdate, Attached
  <2>2. m \in Message
    BY <1>0, <2>1, QueueMessages
  <2>3. new \in SUBSET Edits /\ sent \in Message /\ sent.kind = "update" /\ sent.edits = new
    BY <2>2, MessageTypes DEF Message, EditMessage
  <2> HIDE DEF sent, new
  <2>4. live' = live /\ docs'[live'] = docs[live] \cup new
    BY <1>0, <2>1 DEF OnChange, PersistenceInv, PersistenceTypeOK
  <2>5. ready[c]
    BY <1>0, <2>1 DEF QueuesFit
  <2>6. /\ Carried(toServer[c]) = Carried(toServer'[c]) \cup m.edits
        /\ Pending(toServer'[c], "step1") <=> Pending(toServer[c], "step1")
    BY <1>0, <2>1, QueueEffects
  <2>7. m.edits \subseteq docs[live] \cup new
    BY DEF new
  <2> HIDE DEF m
  <2>8. ASSUME NEW d \in Clients, conn[d] = "attached" PROVE TabFits(d)'
    <3>1. /\ Carried(toClient'[d]) = Carried(toClient[d]) \cup new
          /\ Messages(toClient'[d]) = Messages(toClient[d]) \cup {sent}
          /\ Pending(toClient'[d], "sync") <=> Pending(toClient[d], "sync")
      BY <1>0, <2>1, <2>3, <2>8, QueueEffects, QueueMessages
    <3>2. /\ ready[d] => Pending(toServer'[d], "step1") <=> Pending(toServer[d], "step1")
          /\ ready[d] => Carried(toServer[d]) \subseteq Carried(toServer'[d]) \cup docs'[live']
          /\ ~ready[d] => toServer'[d] = <<>>
      BY <1>0, <2>1, <2>4, <2>5, <2>6, <2>7 DEF QueuesFit
    <3>3. QueuesFit(d)'
      BY <1>0, <2>1, <2>3, <2>4, <2>8, <3>1, <3>2 DEF QueuesFit
    <3>4. TabFollows(d)' /\ SocketFits(d)'
      BY <1>0, <2>1, <2>4, <2>8, <3>1, <3>2 DEF TabFollows, SocketFits
    <3> QED BY <3>3, <3>4 DEF TabFits
  <2>9. ASSUME NEW d \in Clients, conn[d] # "attached" PROVE TabFits(d)'
    BY <2>1, <2>9, TabUntouched DEF TabsFit
  <2> QED BY <2>8, <2>9 DEF TabsFit
<1>6. CASE StartLoad \/ FinishLoad \/ UnloadDocument
  <2>1. UNCHANGED <<local, conn, ready, toServer, toClient>>
    BY <1>6 DEF StartLoad, FinishLoad, UnloadDocument, clientVars
  <2>2. \A d \in Clients : docs'[live'] = docs[live] \/ conn[d] # "attached"
    BY <1>6 DEF StartLoad, FinishLoad, UnloadDocument, LoadSnapshot, LoadUpdates, PersistenceInv,
       LoaderWaits, AttachedServed
  <2> QED BY <2>1, <2>2, TabUntouched DEF TabsFit
<1>7. ASSUME NEW t \in Calls, CallMoves(t) PROVE TabsFit'
  <2>1. UNCHANGED <<docs, live, local, conn, ready, toServer, toClient>>
    BY <1>7 DEF CallMoves, CallStep, CallFails, AppendInsert, AppendCommit, CompactSelect,
       CompactSkip, CompactEncode, CompactCommit, clientVars
  <2> QED BY <2>1, TabUntouched DEF TabsFit
<1>8. CASE LoadRejected
  <2>1. UNCHANGED <<docs, live, local>>
    BY <1>8 DEF LoadRejected, LoadFails
  <2>2. ASSUME NEW d \in Clients PROVE TabFits(d)'
    <3>1. CASE conn[d] = "authed"
      BY <1>8, <3>1, TabHungUp DEF LoadRejected
    <3>2. CASE conn[d] # "authed"
      <4>1. conn'[d] = conn[d] /\ ready'[d] = ready[d] /\ toServer'[d] = toServer[d]
            /\ toClient'[d] = toClient[d]
        BY <1>8, <3>2 DEF LoadRejected
      <4> QED BY <2>1, <4>1, TabUntouched DEF TabsFit
    <3> QED BY <3>1, <3>2
  <2> QED BY <2>2 DEF TabsFit
<1>9. CASE Crash
  BY <1>9, TabHungUp DEF Crash, TabsFit
<1> QED BY <1>1, <1>2, <1>3, <1>4, <1>5, <1>6, <1>7, <1>8, <1>9 DEF ServiceNext

-----------------------------------------------------------------------------
(* The theorems.                                                           *)

ServerInv == ClientTypeOK /\ PersistenceInv /\ AttachedServed /\ TabsFit

\* The invariant of the service holds in every state, for any tabs and calls.
LEMMA ServerInvariant == ServerSpec => []ServerInv
<1>1. ServerInit => ServerInv
  <2> SUFFICES ASSUME ServerInit PROVE ServerInv
    OBVIOUS
  <2>1. <<>> \in Seq(Message)
    BY EmptySeq
  <2>2. ClientTypeOK
    BY <2>1, ClientBoundAssumption DEF ServerInit, ClientTypeOK
  <2>3. TabsFit
    BY EmptyQueue DEF ServerInit, TabsFit, TabFits, QueuesFit, TabFollows, SocketFits
  <2> QED BY <2>2, <2>3, InitInv DEF ServerInit, ServerInv, AttachedServed
<1>2. ServerInv /\ [ServerNext]_serverVars => ServerInv'
  <2> SUFFICES ASSUME ServerInv, [ServerNext]_serverVars PROVE ServerInv'
    OBVIOUS
  <2> USE DEF ServerInv
  <2>1. PersistenceInv'
    BY ServerStep, NextInv
  <2>2. PersistenceTypeOK
    BY DEF PersistenceInv
  <2>3. ClientTypeOK'
    <3>1. CASE UNCHANGED serverVars
      BY <3>1 DEF serverVars, clientVars, ClientTypeOK
    <3>2. CASE ServerNext
      BY <3>2, <2>2, TabTypes, ServiceTypes DEF ServerNext
    <3> QED BY <3>1, <3>2
  <2>4. AttachedServed'
    BY <2>2, ServedStep
  <2>5. TabsFit'
    <3>1. CASE UNCHANGED serverVars
      BY <3>1, TabUntouched DEF serverVars, clientVars, persistenceVars, TabsFit
    <3>2. CASE ServerNext
      BY <3>2, TabsStayFit, ServiceStaysFit DEF ServerNext
    <3> QED BY <3>1, <3>2
  <2> QED BY <2>1, <2>3, <2>4, <2>5
<1> QED BY <1>1, <1>2, PTL DEF ServerSpec

(* The state of tabs, queues, documents and tables stays within its types. *)
THEOREM ServerTypes == ServerSpec => []ServerTypeOK
<1>1. ServerInv => ServerTypeOK
  BY DEF ServerInv, ServerTypeOK, PersistenceInv
<1> QED BY <1>1, ServerInvariant, PTL

(* A tab with nothing in flight shows what the server holds, for any       *)
(* number of tabs, edits, lost sockets, reopened tabs, crashes and loads.  *)
THEOREM QuietTabsMatch == ServerSpec => []QuietTabMatchesServer
<1>1. ServerInv => QuietTabMatchesServer
  <2> SUFFICES ASSUME ServerInv, NEW c \in Attached, ready[c], toServer[c] = <<>>, toClient[c] = <<>>
               PROVE  local[c] = docs[live]
    BY DEF QuietTabMatchesServer
  <2>1. TabFollows(c)
    BY DEF ServerInv, TabsFit, TabFits, Attached
  <2> QED BY <2>1, EmptyQueue DEF TabFollows
<1> QED BY <1>1, ServerInvariant, PTL

(* The service implements CollabPersistence: whatever tabs, sockets and    *)
(* Hocuspocus do, the tables see only loads, changes of the served         *)
(* document, and the steps of onChange calls.                              *)
THEOREM ServiceUsesPersistence == ServerSpec => UsesPersistence
<1>1. ServerInit => PersistenceInit
  BY DEF ServerInit
<1>2. ServerInv /\ [ServerNext]_serverVars => [PersistenceNext]_persistenceVars
  BY ServerStep DEF ServerInv
<1> QED BY <1>1, <1>2, ServerInvariant, PTL DEF ServerSpec, PersistenceSpec, UsesPersistence
=============================================================================
