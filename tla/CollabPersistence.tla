------------------------- MODULE CollabPersistence -------------------------
(***************************************************************************)
(* The update log and the snapshot that keep one page, as                  *)
(* packages/db/src/collab-persistence.ts writes and reads them, driven by  *)
(* the onChange and onLoadDocument hooks of apps/collab/src/index.ts.      *)
(*                                                                         *)
(* A Yjs update is abstracted to the set of edits it carries: applying it  *)
(* is set union, Y.encodeStateAsUpdate(document) is the document's set.    *)
(* Every call of onChange is a slot of Calls that walks through the awaits *)
(* of appendUpdate and compactPageDocument; between two awaits any other   *)
(* call, a load, an unload or a crash can take its steps.  Pages share     *)
(* nothing here but the connection pool, so one page is modelled.          *)
(***************************************************************************)
EXTENDS Integers, FiniteSets, FiniteSetsExt

CONSTANTS
  Edits,        \* the edits users make on the page
  Calls,        \* onChange calls that can be in flight together
  NoCall,       \* nobody holds the page's advisory lock
  Threshold,    \* compactionThreshold
  MaxDocs,      \* bound: how often the document is built from the database
  MaxFaults,    \* bound: database errors
  MaxCrashes    \* bound: crashes of the collab process

ASSUME ThresholdAssumption == Threshold \in Nat \ {0}
ASSUME CallAssumption == NoCall \notin Calls
ASSUME BoundAssumption == MaxDocs \in Nat /\ MaxFaults \in Nat /\ MaxCrashes \in Nat

VARIABLES
  rows,       \* collab_page_updates: [seq, edits, doc]; doc, the document
              \* object whose change the row is, exists for the properties only
  snapshot,   \* collab_page_snapshots: [seq, edits, doc]; seq 0 when no row
  lock,       \* who holds pg_advisory_xact_lock(hashtext(pageId))
  call,       \* [Calls -> state of one onChange call]
  loader,     \* the one load Hocuspocus may have under way
  docs,       \* content of every document object built so far
  built,      \* how many document objects were built
  live,       \* the document object the server serves, 0 when none
  committed,  \* edits some committed transaction has written (history)
  faults,     \* database errors so far
  crashes     \* crashes so far

persistenceVars ==
  <<rows, snapshot, lock, call, loader, docs, built, live, committed, faults, crashes>>

DocIds == 1..MaxDocs
\* Definitions called "faulty variant" are in no specification: each is an action
\* with a bug, kept to show that a property below can be violated.

IdleCall == [pc |-> "idle", edits |-> {}, doc |-> 0, seq |-> 0, seen |-> {}]

IdleLoader(result) == [pc |-> "idle", seq |-> 0, edits |-> {}, base |-> {}, result |-> result]

\* Faulty variant: off by one.
RowsAfterNext(seq) == {r \in rows : r.seq > seq + 1}

\* What select ... where seq > last_compacted_seq returns.
RowsAfter(seq) == {r \in rows : r.seq > seq}

EditsOf(rs) == UNION {r.edits : r \in rs}

\* coalesce(max(seq), 0) + 1 over the rows that are in the table now.
NextSeq == IF rows = {} THEN 1 ELSE Max({r.seq : r \in rows}) + 1

\* What a load that met no concurrent write would build.
Loadable == snapshot.edits \cup EditsOf(RowsAfter(snapshot.seq))

PersistenceInit ==
  /\ rows = {}
  /\ snapshot = [seq |-> 0, edits |-> {}, doc |-> 0]
  /\ lock = NoCall
  /\ call = [t \in Calls |-> IdleCall]
  /\ loader = IdleLoader({})
  /\ docs = [d \in DocIds |-> {}]
  /\ built = 0
  /\ live = 0
  /\ committed = {}
  /\ faults = 0
  /\ crashes = 0

-----------------------------------------------------------------------------
(* loadPageDocument: two queries, no transaction and no lock.              *)

LoadSnapshot ==
  /\ live = 0
  /\ loader.pc = "idle"
  /\ built < MaxDocs
  /\ loader' = [loader EXCEPT !.pc = "updates", !.seq = snapshot.seq,
                              !.edits = snapshot.edits, !.base = committed]
  /\ UNCHANGED <<rows, snapshot, lock, call, docs, built, live, committed, faults, crashes>>

LoadUpdates ==
  LET content == loader.edits \cup EditsOf(RowsAfter(loader.seq)) IN
  /\ loader.pc = "updates"
  /\ built' = built + 1
  /\ live' = built + 1
  /\ docs' = [docs EXCEPT ![built + 1] = content]
  /\ loader' = IdleLoader(content)
  /\ UNCHANGED <<rows, snapshot, lock, call, committed, faults, crashes>>

\* The query throws, onLoadDocument throws, no document is opened.
LoadFails ==
  /\ loader.pc = "updates"
  /\ faults < MaxFaults
  /\ faults' = faults + 1
  /\ loader' = IdleLoader(loader.result)
  /\ UNCHANGED <<rows, snapshot, lock, call, docs, built, live, committed, crashes>>

-----------------------------------------------------------------------------
(* onChange: the document already holds the update (and has broadcast it)  *)
(* when the hook starts; nobody awaits the hook.                           *)

OnChange(t, es) ==
  /\ live # 0
  /\ call[t].pc = "idle"
  /\ es # {}
  /\ es \cap docs[live] = {}
  /\ docs' = [docs EXCEPT ![live] = @ \cup es]
  /\ call' = [call EXCEPT ![t] = [IdleCall EXCEPT !.pc = "append", !.edits = es, !.doc = live]]
  /\ UNCHANGED <<rows, snapshot, lock, loader, built, live, committed, faults, crashes>>

\* appendUpdate: begin, take the lock, insert.  The row is not visible yet.
AppendInsert(t) ==
  /\ call[t].pc = "append"
  /\ lock = NoCall
  /\ lock' = t
  /\ call' = [call EXCEPT ![t].pc = "inserted", ![t].seq = NextSeq]
  /\ UNCHANGED <<rows, snapshot, loader, docs, built, live, committed, faults, crashes>>

\* commit releases the transaction's lock; compactPageDocument is called next.
AppendCommit(t) ==
  /\ call[t].pc = "inserted"
  /\ rows' = rows \cup {[seq |-> call[t].seq, edits |-> call[t].edits, doc |-> call[t].doc]}
  /\ committed' = committed \cup call[t].edits
  /\ lock' = NoCall
  /\ call' = [call EXCEPT ![t].pc = "compact"]
  /\ UNCHANGED <<snapshot, loader, docs, built, live, faults, crashes>>

\* compactPageDocument: take the lock, read the snapshot row and the rows after it.
CompactSelect(t) ==
  /\ call[t].pc = "compact"
  /\ lock = NoCall
  /\ lock' = t
  /\ call' = [call EXCEPT ![t].pc = "selected",
                          ![t].seen = {r.seq : r \in RowsAfter(snapshot.seq)}]
  /\ UNCHANGED <<rows, snapshot, loader, docs, built, live, committed, faults, crashes>>

\* Faulty variant: returning early without the rollback keeps the lock.
CompactSkipNoRollback(t) ==
  /\ call[t].pc = "selected"
  /\ Cardinality(call[t].seen) < Threshold
  /\ call' = [call EXCEPT ![t] = IdleCall]
  /\ UNCHANGED <<rows, snapshot, lock, loader, docs, built, live, committed, faults, crashes>>

\* Fewer rows than the threshold: roll back, return false.
CompactSkip(t) ==
  /\ call[t].pc = "selected"
  /\ Cardinality(call[t].seen) < Threshold
  /\ lock' = NoCall
  /\ call' = [call EXCEPT ![t] = IdleCall]
  /\ UNCHANGED <<rows, snapshot, loader, docs, built, live, committed, faults, crashes>>

\* Faulty variant: the snapshot is the update of this call, not the document.
CompactEncodeUpdate(t) ==
  /\ call[t].pc = "selected"
  /\ Cardinality(call[t].seen) >= Threshold
  /\ call' = [call EXCEPT ![t].pc = "encoded", ![t].seq = Max(call[t].seen)]
  /\ UNCHANGED <<rows, snapshot, lock, loader, docs, built, live, committed, faults, crashes>>

\* Faulty variant: the snapshot merges the selected rows, without the old snapshot.
CompactEncodeRows(t) ==
  /\ call[t].pc = "selected"
  /\ Cardinality(call[t].seen) >= Threshold
  /\ call' = [call EXCEPT ![t].pc = "encoded", ![t].seq = Max(call[t].seen),
                          ![t].edits = EditsOf(RowsAfter(snapshot.seq))]
  /\ UNCHANGED <<rows, snapshot, lock, loader, docs, built, live, committed, faults, crashes>>

\* Encode the caller's document object as it is now, whether it is served still or not.
CompactEncode(t) ==
  /\ call[t].pc = "selected"
  /\ Cardinality(call[t].seen) >= Threshold
  /\ call' = [call EXCEPT ![t] = [pc |-> "encoded", edits |-> docs[@.doc], doc |-> @.doc,
                                  seq |-> Max(@.seen), seen |-> {}]]
  /\ UNCHANGED <<rows, snapshot, lock, loader, docs, built, live, committed, faults, crashes>>

\* Faulty variant: delete first, then upsert, and not in one transaction.
CompactCommitTorn(t) ==
  /\ call[t].pc = "encoded"
  /\ rows' = RowsAfter(call[t].seq)
  /\ committed' = committed \cup call[t].edits
  /\ snapshot' \in {snapshot, [seq |-> call[t].seq, edits |-> call[t].edits, doc |-> call[t].doc]}
  /\ lock' = NoCall
  /\ call' = [call EXCEPT ![t] = IdleCall]
  /\ UNCHANGED <<loader, docs, built, live, faults, crashes>>

\* Upsert the snapshot, delete the rows up to lastSequence, commit.
CompactCommit(t) ==
  /\ call[t].pc = "encoded"
  /\ snapshot' = [seq |-> call[t].seq, edits |-> call[t].edits, doc |-> call[t].doc]
  /\ rows' = RowsAfter(call[t].seq)
  /\ committed' = committed \cup call[t].edits
  /\ lock' = NoCall
  /\ call' = [call EXCEPT ![t] = IdleCall]
  /\ UNCHANGED <<loader, docs, built, live, faults, crashes>>

\* A statement throws: rollback, release the client, onChange rejects unhandled.
CallFails(t) ==
  /\ call[t].pc # "idle"
  /\ faults < MaxFaults
  /\ faults' = faults + 1
  /\ lock' = IF lock = t THEN NoCall ELSE lock
  /\ call' = [call EXCEPT ![t] = IdleCall]
  /\ UNCHANGED <<rows, snapshot, loader, docs, built, live, committed, crashes>>

-----------------------------------------------------------------------------
(* The life of the document object and of the process.                     *)

\* Hocuspocus drops the document after its last connection closed.  Calls in
\* flight keep their reference to it.
Unload ==
  /\ live # 0
  /\ live' = 0
  /\ UNCHANGED <<rows, snapshot, lock, call, loader, docs, built, committed, faults, crashes>>

\* The process dies or is replaced by a deployment, and runs again: memory is
\* gone, PostgreSQL rolls open transactions back.
ServerCrash ==
  /\ crashes < MaxCrashes
  /\ crashes' = crashes + 1
  /\ lock' = NoCall
  /\ call' = [t \in Calls |-> IdleCall]
  /\ loader' = IdleLoader(loader.result)
  /\ live' = 0
  /\ UNCHANGED <<rows, snapshot, docs, built, committed, faults>>

CallStep(t) ==
  \/ AppendInsert(t) \/ AppendCommit(t)
  \/ CompactSelect(t) \/ CompactSkip(t) \/ CompactEncode(t) \/ CompactCommit(t)

PersistenceNext ==
  \/ LoadSnapshot \/ LoadUpdates \/ LoadFails
  \/ \E t \in Calls : \/ \E es \in SUBSET Edits : OnChange(t, es)
                      \/ CallStep(t)
                      \/ CallFails(t)
  \/ Unload
  \/ ServerCrash

PersistenceSpec == PersistenceInit /\ [][PersistenceNext]_persistenceVars

\* The process keeps running its calls and PostgreSQL grants a contended
\* advisory lock to its waiters in turn: weak fairness for a step that only
\* awaits a reply, strong fairness for the two that await the lock.
PersistenceFairness ==
  /\ WF_persistenceVars(LoadUpdates)
  /\ \A t \in Calls : /\ SF_persistenceVars(AppendInsert(t))
                      /\ SF_persistenceVars(CompactSelect(t))
                      /\ WF_persistenceVars(CallStep(t))

FairPersistenceSpec == PersistenceSpec /\ PersistenceFairness

-----------------------------------------------------------------------------
(* Properties.                                                             *)

\* The promise of DurablePage, over what was committed and what loads return.
Page == INSTANCE DurablePage WITH saved <- committed, opening <- loader.pc = "updates",
                                  base <- loader.base, opened <- loader.result

RowType == [seq : Nat \ {0}, edits : SUBSET Edits, doc : DocIds]

CallType == [pc : {"idle", "append", "inserted", "compact", "selected", "encoded"},
             edits : SUBSET Edits, doc : DocIds \cup {0}, seq : Nat, seen : SUBSET Nat]

(* Numbers, edits and states stay in their types: a row's number is never  *)
(* 0, which the loads and compactions take for "no snapshot yet".          *)
PersistenceTypeOK ==
  /\ rows \subseteq RowType
  /\ IsFiniteSet(rows)
  /\ snapshot \in [seq : Nat, edits : SUBSET Edits, doc : DocIds \cup {0}]
  /\ lock \in Calls \cup {NoCall}
  /\ call \in [Calls -> CallType]
  /\ loader \in [pc : {"idle", "updates"}, seq : Nat, edits : SUBSET Edits,
                 base : SUBSET Edits, result : SUBSET Edits]
  /\ docs \in [DocIds -> SUBSET Edits]
  /\ built \in 0..MaxDocs
  /\ live \in 0..built
  /\ committed \subseteq Edits
  /\ faults \in 0..MaxFaults
  /\ crashes \in 0..MaxCrashes

(* However the appends, compactions and failures of concurrent onChange    *)
(* calls interleave, the sequence number an append computes from max(seq)  *)
(* is never the number of another row of the page, committed or about to   *)
(* be: the unique (page_id, seq) index never rejects an update.            *)
NoSequenceConflict ==
  /\ \A r1, r2 \in rows : r1.seq = r2.seq => r1 = r2
  /\ \A t \in Calls : call[t].pc = "inserted" =>
       /\ \A r \in rows : r.seq # call[t].seq
       /\ \A u \in Calls \ {t} : call[u].pc = "inserted" => call[u].seq # call[t].seq

(* What the page's advisory lock is for.  At most one call is between its  *)
(* lock and its commit; meanwhile the number it will commit is above every *)
(* row, the rows it selected are the rows there are, and the document it   *)
(* encoded covers every row and snapshot of that document.                 *)
TransactionsIsolated ==
  \A t \in Calls :
    /\ call[t].pc \in {"inserted", "selected", "encoded"} => lock = t
    /\ call[t].pc = "inserted" => \A r \in rows : r.seq < call[t].seq
    /\ call[t].pc = "selected" => call[t].seen = {r.seq : r \in RowsAfter(snapshot.seq)}
    /\ call[t].pc = "encoded" =>
         /\ \A r \in rows : r.doc = call[t].doc => r.edits \subseteq call[t].edits
         /\ snapshot.doc = call[t].doc => snapshot.edits \subseteq call[t].edits

(* Until the page is compacted for the first time, every edit a committed  *)
(* append wrote is what a load returns, whatever crashed or failed since.  *)
DurableUntilCompacted == snapshot.seq = 0 => committed \subseteq Loadable

(* A compaction deletes no row of the document object it encodes unless    *)
(* its snapshot carries the row's edits: what the document received while  *)
(* the call awaited the database is in the snapshot or still in a row.     *)
\* It also never replaces a snapshot of the same document by a smaller one.
CompactionKeepsOwnUpdates ==
  [][ /\ \A r \in rows \ rows' : r.doc = snapshot'.doc => r.edits \subseteq snapshot'.edits
      /\ snapshot'.doc = snapshot.doc => snapshot.edits \subseteq snapshot'.edits
    ]_persistenceVars

(* A page whose document object was only ever built once (the first visit  *)
(* of its first users) still has every committed edit somewhere in the two *)
(* tables: compaction drops a row only for a snapshot that covers it.      *)
FirstDocumentLosesNothing ==
  built <= 1 => committed \subseteq snapshot.edits \cup EditsOf(rows)

(* The tables of a page implement DurablePage until they are compacted for *)
(* the first time: appends are atomic and final, and a load that races     *)
(* appends, in two queries and without the lock, returns all it must.      *)
ImplementsDurablePage ==
  Page!PageInit /\ [][snapshot'.seq = 0 => Page!PageNext]_Page!pageVars

(* The plan's promise: "Editing page content, restarting the collab        *)
(* service, and reopening the page restores the same content from durable  *)
(* persistence".                                                           *)
RestartRestoresContent == committed \subseteq Loadable

(* The persistence design's promise that snapshotting is an implementation *)
(* detail: compacting takes no committed edit out of the two tables.       *)
CompactionIsInvisible == committed \subseteq snapshot.edits \cup EditsOf(rows)

(* Every onChange call whose append waits for the page's lock ends: no     *)
(* cycle of waiting between the calls, and no call is overtaken forever.   *)
CallsFinish == \A t \in Calls : call[t].pc # "idle" ~> call[t].pc = "idle"
=============================================================================
