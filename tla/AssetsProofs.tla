----------------------------- MODULE AssetsProofs -----------------------------
(***************************************************************************)
(* Proofs about the storage of assets and about the uploads that reach it. *)
(*                                                                         *)
(* Assets, for any number of uploads, readers, names, refreshes, errors    *)
(* and crashes: what is shown can be read, and rows and storage agree.  As *)
(* in the instance TLC checks, a rename waits for the tasks of the loops   *)
(* there; that pointers are to rows that exist, and what an upload leaves, *)
(* is proved for renames at any time.                                      *)
(*                                                                         *)
(* Multipart, for any form, boundary and cutting of a body into chunks:    *)
(* the parser answers what was sent, and buffers little.                   *)
(***************************************************************************)
EXTENDS Assets, Multipart, SequenceTheorems, NaturalsInduction, WellFoundedInduction,
        FiniteSetTheorems, TLAPS

(***************************************************************************)
(* The inductive invariant.                                                *)
(***************************************************************************)

Names == 1 .. MaxName
Ids == ThumbnailKeys \X (Nat \ {0})
TaskStates == {"idle", "next", "put", "record", "point", "mark"}
UploadStates == {"idle", "record", "undo", "lost", "done", "failed"}
ReaderStates == {"idle", "url", "content", "read", "done"}

TaskType == [at : TaskStates, slot : Slots, named : Names, key : ThumbnailKeys \cup {None},
             id : Ids \cup {None}, previous : Ids \cup {None}]
ReaderType == [at : ReaderStates, slot : Slots, id : Ids \cup {None}, reply : {0, 404}]

AssetsTyped ==
  /\ blobs \subseteq Keys /\ old \subseteq marked /\ marked \subseteq ThumbnailKeys
  /\ row \in [Keys -> Nat] /\ made \in [Keys -> Nat]
  /\ shown \in [Slots -> Ids \cup {None}]
  /\ name \in Names
  /\ task \in [Loops -> TaskType]
  /\ cleanup \subseteq Ids /\ purged \in BOOLEAN
  /\ upload \in [Uploads -> UploadStates]
  /\ reading \in [Readers -> ReaderType]
  /\ faults \in Nat /\ crashes \in Nat

\* The key of a slot under a name the file no longer has.
Superseded(k, slot) == \E n \in Names : n < name /\ k = ThumbnailKey(slot, n)

\* What a slot shows is one of its thumbnails, can be read and is stored.
ShownFits ==
  \A s \in Slots : shown[s] # None =>
    /\ shown[s][1] = ThumbnailKey(s, name) \/ Superseded(shown[s][1], s)
    /\ Readable(shown[s]) /\ shown[s][1] \in blobs

\* Only superseded thumbnails are marked or being deleted, and no slot shows
\* them.
MarkedFits ==
  \A k \in marked : row[k] # 0 /\ \E s \in Slots : Superseded(k, s)

CleanupFits ==
  \A id \in cleanup :
    /\ \E s \in Slots : Superseded(id[1], s)
    /\ row[id[1]] # 0 => id[1] \in marked
    /\ \A s \in Slots : shown[s] # None => shown[s][1] # id[1]

\* The row the cleanup is at has lost its object, or the storage failed.
AtHand == CHOOSE id \in cleanup : TRUE
PurgedFits == purged => cleanup # {} /\ (AtHand[1] \notin blobs \/ faults > 0)

\* A loop works on the thumbnail of the present name: its object is stored
\* when it is recorded, its row there when it is pointed to, and what it marks
\* is superseded.
TaskFits(t) ==
  /\ t.at # "idle" => t.named = name
  /\ t.at \in {"put", "record", "point", "mark"} => t.key = ThumbnailKey(t.slot, name)
  /\ t.at \in {"record", "point", "mark"} => t.key \in blobs
  /\ t.at \in {"point", "mark"} => t.id # None /\ t.id[1] = t.key /\ Exists(t.id)
  /\ t.at = "mark" =>
       /\ t.previous # None /\ Superseded(t.previous[1], t.slot)
       /\ shown[t.slot] # None => shown[t.slot][1] = ThumbnailKey(t.slot, name)

\* A reader's thumbnail is the shown one, or superseded.
ReaderFits(q) ==
  /\ q.at \in {"url", "content", "read"} => q.id # None
  /\ q.id # None => shown[q.slot] = q.id \/ Superseded(q.id[1], q.slot)
  /\ q.reply = 404 => q.id # None /\ shown[q.slot] # q.id

\* A thumbnail's row has its object or is marked, its object a row or a loop
\* that is about to record it.
ThumbnailFits(k) ==
  /\ row[k] # 0 /\ k \notin blobs => k \in marked
  /\ k \in blobs /\ row[k] = 0 /\ faults = 0 /\ crashes = 0 =>
       \E l \in Loops : task[l].key = k /\ task[l].at = "record"

\* What an upload left in the storage and the database, at each of its steps.
UploadFits(u) ==
  LET k == UploadKey(u)
      at == upload[u] IN
  /\ at \in {"idle", "record", "undo"} => row[k] = 0
  /\ at = "idle" => k \notin blobs
  /\ at \in {"record", "done", "lost"} => k \in blobs
  /\ at \in {"done", "lost"} => row[k] # 0
  /\ at = "lost" => faults > 0
  /\ at = "failed" /\ faults = 0 => row[k] = 0 /\ (k \notin blobs \/ crashes > 0)

AssetsInv ==
  /\ AssetsTyped /\ ShownFits /\ MarkedFits /\ CleanupFits /\ PurgedFits
  /\ \A l \in Loops : TaskFits(task[l])
  /\ \A r \in Readers : ReaderFits(reading[r])
  /\ \A k \in ThumbnailKeys : ThumbnailFits(k)
  /\ \A u \in Uploads : UploadFits(u)

-----------------------------------------------------------------------------
(* Keys and ids.                                                           *)

\* Keys of thumbnails are told apart by slot and name, and from those of
\* uploads.
LEMMA KeyFacts ==
  /\ \A s \in Slots, n \in Names : ThumbnailKey(s, n) \in ThumbnailKeys
  /\ \A s, t, m, n : ThumbnailKey(s, m) = ThumbnailKey(t, n) => s = t /\ m = n
  /\ \A u \in Uploads : UploadKey(u) \in Keys /\ UploadKey(u) \notin ThumbnailKeys
  /\ \A u, v \in Uploads : UploadKey(u) = UploadKey(v) => u = v
  /\ ThumbnailKeys \subseteq Keys
<1>1. "upload" \notin Slots
  BY DEF Slots
<1> QED BY <1>1 DEF ThumbnailKey, ThumbnailKeys, UploadKey, Keys, Names

\* An id is a thumbnail's key and a generation, and not None.
LEMMA IdFacts ==
  /\ None \notin Ids
  /\ \A id \in Ids : /\ id = <<id[1], id[2]>> /\ id[1] \in ThumbnailKeys
                     /\ id[2] \in Nat \ {0}
  /\ \A k \in ThumbnailKeys, g \in Nat \ {0} :
       <<k, g>> \in Ids /\ <<k, g>>[1] = k /\ <<k, g>>[2] = g
<1>1. Ids \subseteq Keys \X Nat
  BY KeyFacts DEF Ids
<1> QED BY <1>1, NoneAssumption DEF Ids

\* A superseded key is of its slot and not the one of the present name.
LEMMA SupersededFacts ==
  ASSUME name \in Names, NEW k, NEW s \in Slots, Superseded(k, s)
  PROVE  /\ k \in ThumbnailKeys
         /\ \A t : k # ThumbnailKey(t, name)
         /\ \A t : Superseded(k, t) => t = s
<1>1. PICK n \in Names : n < name /\ k = ThumbnailKey(s, n)
  BY DEF Superseded
<1>2. n # name
  BY <1>1 DEF Names
<1> QED BY <1>1, <1>2, KeyFacts DEF Superseded

\* A thumbnail that is shown has a row with an object.
LEMMA ShownFacts ==
  ASSUME AssetsInv, NEW s \in Slots, shown[s] # None
  PROVE  /\ shown[s] \in Ids /\ shown[s][1] \in ThumbnailKeys /\ shown[s][1] \notin marked
         /\ shown[s][1] \in blobs /\ row[shown[s][1]] = shown[s][2] /\ row[shown[s][1]] # 0
         /\ shown[s] = <<shown[s][1], row[shown[s][1]]>>
         /\ shown[s][1] = ThumbnailKey(s, name) \/ Superseded(shown[s][1], s)
<1>1. shown[s] \in Ids
  BY DEF AssetsInv, AssetsTyped
<1>2. /\ shown[s][1] = ThumbnailKey(s, name) \/ Superseded(shown[s][1], s)
      /\ Readable(shown[s]) /\ shown[s][1] \in blobs
  BY DEF AssetsInv, ShownFits
<1>3. row[shown[s][1]] = shown[s][2] /\ shown[s][1] \notin marked
  BY <1>2 DEF Readable, Exists
<1> QED BY <1>1, <1>2, <1>3, IdFacts

\* What is known of a loop at work.
LEMMA TaskFacts ==
  ASSUME AssetsInv, NEW l \in Loops, task[l].at \in {"put", "record", "point", "mark"}
  PROVE  /\ task[l] \in TaskType /\ TaskFits(task[l]) /\ task[l].slot \in Slots
         /\ task[l].named = name /\ name \in Names
         /\ task[l].key = ThumbnailKey(task[l].slot, name)
         /\ task[l].key \in ThumbnailKeys /\ task[l].key \in Keys
         /\ \A s \in Slots : ~Superseded(task[l].key, s)
<1>1. task[l] \in TaskType /\ TaskFits(task[l]) /\ name \in Names
  BY DEF AssetsInv, AssetsTyped
<1>2. /\ task[l].slot \in Slots /\ task[l].named = name
      /\ task[l].key = ThumbnailKey(task[l].slot, name)
  BY <1>1 DEF TaskType, TaskFits
<1> QED BY <1>1, <1>2, KeyFacts, SupersededFacts

-----------------------------------------------------------------------------
(* Tasks that end or begin.                                                *)

\* A loop that is between two thumbnails.
Rests(t) == t.at = "idle" \/ (t.at = "next" /\ t.named = name)

\* The task of a loop after a slot is done or failed.
LEMMA EndedTask ==
  ASSUME AssetsInv, NEW l \in Loops, task[l].at \in {"put", "record", "point", "mark"},
         NEW failed, Ends(l, failed)
  PROVE  /\ task' \in [Loops -> TaskType] /\ Rests(task'[l])
         /\ \A m \in Loops : m # l => task'[m] = task[m]
<1>1. task \in [Loops -> TaskType] /\ task[l].named = name /\ name \in Names
  BY TaskFacts DEF AssetsInv, AssetsTyped
<1>2. 1 \in Names
  BY AssetBoundAssumption DEF Names
<1>3. IdleTask \in TaskType /\ IdleTask.at = "idle"
  BY <1>2 DEF IdleTask, TaskType, TaskStates, Slots
<1> DEFINE after == [IdleTask EXCEPT !.at = "next", !.named = task[l].named]
<1>4. after \in TaskType /\ after.at = "next" /\ after.named = name
  BY <1>1, <1>2 DEF IdleTask, TaskType, TaskStates, Slots
<1>5. \E t \in {IdleTask, after} : task' = [task EXCEPT ![l] = t]
  BY DEF Ends
<1> HIDE DEF after
<1> QED BY <1>1, <1>3, <1>4, <1>5 DEF Rests

\* A loop that rests fits, whatever the tables are.
LEMMA RestFits ==
  ASSUME NEW t, Rests(t)
  PROVE  TaskFits(t)
BY DEF Rests, TaskFits

\* Rendering begins for the present name.
LEMMA RenderedTask ==
  ASSUME AssetsInv, NEW l \in Loops, NEW slot \in Slots, Render(l, slot, name)
  PROVE  /\ task' \in [Loops -> TaskType]
         /\ task'[l].at = "put" /\ task'[l].named = name /\ task'[l].slot = slot
         /\ task'[l].key = ThumbnailKey(slot, name)
         /\ \A m \in Loops : m # l => task'[m] = task[m]
<1>1. task \in [Loops -> TaskType] /\ name \in Names
  BY DEF AssetsInv, AssetsTyped
<1> DEFINE key == ThumbnailKey(slot, name)
           t == [IdleTask EXCEPT !.at = "put", !.slot = slot, !.named = name, !.key = key]
<1>2. key \in ThumbnailKeys
  BY <1>1, KeyFacts
<1>3. task' = [task EXCEPT ![l] = t]
  BY DEF Render
<1> HIDE DEF key
<1>4. /\ t \in TaskType /\ t.at = "put" /\ t.named = name /\ t.slot = slot /\ t.key = key
  BY <1>1, <1>2 DEF IdleTask, TaskType, TaskStates
<1> HIDE DEF t
<1> QED BY <1>1, <1>3, <1>4 DEF key

\* A loop goes on to its next call.
LEMMA MovedTask ==
  ASSUME AssetsInv, NEW l \in Loops, NEW where \in TaskStates, Goes(l, where)
  PROVE  /\ task' \in [Loops -> TaskType] /\ task'[l].at = where
         /\ task'[l].slot = task[l].slot /\ task'[l].named = task[l].named
         /\ task'[l].key = task[l].key /\ task'[l].id = task[l].id
         /\ \A m \in Loops : m # l => task'[m] = task[m]
BY DEF AssetsInv, AssetsTyped, Goes, TaskType

\* A step that only moves a loop.
LEMMA QuietTask ==
  ASSUME AssetsInv, NEW l \in Loops, task' \in [Loops -> TaskType], TaskFits(task'[l]),
         task[l].at # "record" \/ faults' > 0, \A m \in Loops : m # l => task'[m] = task[m],
         UNCHANGED <<storeVars, shown, name, cleanup, purged, upload, reading, crashes>>,
         faults' \in Nat, faults' >= faults
  PROVE  AssetsInv'
<1>1. AssetsTyped'
  BY DEF AssetsInv, AssetsTyped, storeVars
<1>2. ShownFits' /\ MarkedFits' /\ CleanupFits' /\ PurgedFits'
  BY DEF AssetsInv, AssetsTyped, ShownFits, MarkedFits, CleanupFits, PurgedFits, Superseded,
         Readable, Exists, AtHand, storeVars
<1>3. ASSUME NEW m \in Loops PROVE TaskFits(task[m])'
  <2>1. \A t : TaskFits(t) => TaskFits(t)'
    BY DEF TaskFits, Superseded, Exists, storeVars
  <2>2. TaskFits(task'[m])
    BY <1>3 DEF AssetsInv
  <2>3. \A t : t = task'[m] /\ TaskFits(t) => TaskFits(task[m])'
    BY DEF TaskFits, Superseded, Exists, storeVars
  <2> QED BY <2>2, <2>3
<1>4. ASSUME NEW r \in Readers PROVE ReaderFits(reading[r])'
  BY DEF AssetsInv, ReaderFits, Superseded
<1>5. ASSUME NEW k \in ThumbnailKeys PROVE ThumbnailFits(k)'
  <2>1. ThumbnailFits(k) /\ faults \in Nat
    BY DEF AssetsInv, AssetsTyped
  <2>2. CASE task[l].at # "record"
    <3>1. \A m \in Loops : task[m].key = k /\ task[m].at = "record"
                              => task'[m].key = k /\ task'[m].at = "record"
      BY <2>2
    <3> QED BY <2>1, <3>1 DEF ThumbnailFits, storeVars
  <2>3. CASE faults' > 0
    BY <2>1, <2>3 DEF ThumbnailFits, storeVars
  <2> QED BY <2>2, <2>3
<1>6. ASSUME NEW u \in Uploads PROVE UploadFits(u)'
  BY DEF AssetsInv, AssetsTyped, UploadFits, UploadKey, storeVars
<1> QED BY <1>1, <1>2, <1>3, <1>4, <1>5, <1>6 DEF AssetsInv

-----------------------------------------------------------------------------
(* The loops of thumbnails and exports.                                    *)

\* A loop that rests begins a thumbnail, of which nothing is stored yet.
LEMMA RenderKeeps ==
  ASSUME AssetsInv, NEW l \in Loops, NEW slot \in Slots, task[l].at \in {"idle", "next"},
         Render(l, slot, name),
         UNCHANGED <<storeVars, shown, name, cleanup, purged, upload, reading, faults, crashes>>
  PROVE  AssetsInv'
<1>1. /\ task' \in [Loops -> TaskType] /\ task'[l].at = "put" /\ task'[l].named = name
      /\ task'[l].slot = slot /\ task'[l].key = ThumbnailKey(slot, name)
      /\ \A m \in Loops : m # l => task'[m] = task[m]
  BY RenderedTask
<1>2. TaskFits(task'[l])
  BY <1>1 DEF TaskFits
<1>3. faults \in Nat
  BY DEF AssetsInv, AssetsTyped
<1> QED BY <1>1, <1>2, <1>3, QuietTask

\* The thumbnail loop looks for a slot without a thumbnail.
LEMMA TickKeeps ==
  ASSUME AssetsInv, ThumbnailTick
  PROVE  AssetsInv'
<1>1. "thumbnail" \in Loops /\ "page" \in Slots /\ "file" \in Slots
  BY DEF Loops, Slots
<1>2. UNCHANGED <<storeVars, shown, name, cleanup, purged, upload, reading, faults, crashes>>
  BY DEF ThumbnailTick, boundVars
<1>3. task["thumbnail"].at \in {"idle", "next"}
  BY DEF ThumbnailTick, FindsPage, StartsFile
<1>4. CASE Render("thumbnail", "page", name) \/ Render("thumbnail", "file", name)
  BY <1>1, <1>2, <1>3, <1>4, RenderKeeps
<1>5. CASE task' = [task EXCEPT !["thumbnail"] = IdleTask]
  <2>1. IdleTask \in TaskType /\ IdleTask.at = "idle"
    BY AssetBoundAssumption DEF IdleTask, TaskType, TaskStates, Slots, Names
  <2>2. /\ task' \in [Loops -> TaskType] /\ TaskFits(task'["thumbnail"]) /\ faults \in Nat
        /\ \A m \in Loops : m # "thumbnail" => task'[m] = task[m]
    BY <1>1, <1>5, <2>1, RestFits DEF AssetsInv, AssetsTyped, Rests
  <2> QED BY <1>1, <1>2, <1>3, <2>2, QuietTask
<1> QED BY <1>4, <1>5 DEF ThumbnailTick

\* An export that ended refreshes the page's thumbnail and then the file's.
LEMMA RefreshKeeps ==
  ASSUME AssetsInv, RefreshAfterExport
  PROVE  AssetsInv'
<1>1. "export" \in Loops /\ "page" \in Slots /\ "file" \in Slots
  BY DEF Loops, Slots
<1>2. /\ UNCHANGED <<storeVars, shown, name, cleanup, purged, upload, reading, faults, crashes>>
      /\ task["export"].at \in {"idle", "next"}
  BY DEF RefreshAfterExport, FindsPage, StartsFile
<1>3. task["export"].at = "next" => task["export"].named = name
  BY <1>1 DEF AssetsInv, TaskFits
<1>4. Render("export", "page", name) \/ Render("export", "file", name)
  BY <1>3 DEF RefreshAfterExport, FindsPage, StartsFile
<1> QED BY <1>1, <1>2, <1>4, RenderKeeps

\* The object is stored before the row.
LEMMA PutKeeps ==
  ASSUME AssetsInv, NEW l \in Loops, PutThumbnail(l)
  PROVE  AssetsInv'
<1> DEFINE k == task[l].key
<1>1. /\ task[l].at = "put" /\ blobs' = blobs \cup {k} /\ Goes(l, "record")
      /\ UNCHANGED <<row, made, marked, old, shown, name, cleanup, purged, upload, reading,
                     faults, crashes>>
  BY DEF PutThumbnail, boundVars
<1>2. /\ task' \in [Loops -> TaskType] /\ task'[l].at = "record"
      /\ task'[l].slot = task[l].slot /\ task'[l].named = task[l].named /\ task'[l].key = k
      /\ \A m \in Loops : m # l => task'[m] = task[m]
  BY <1>1, MovedTask DEF TaskStates
<1>3. /\ k \in ThumbnailKeys /\ k \in Keys /\ k = ThumbnailKey(task[l].slot, name)
      /\ task[l].named = name /\ \A s \in Slots : ~Superseded(k, s)
  BY <1>1, TaskFacts
<1> HIDE DEF k
<1>4. AssetsTyped'
  BY <1>1, <1>2, <1>3 DEF AssetsInv, AssetsTyped
<1>5. ShownFits' /\ MarkedFits' /\ CleanupFits'
  BY <1>1 DEF AssetsInv, ShownFits, MarkedFits, CleanupFits, Superseded, Readable, Exists
<1>6. PurgedFits'
  <2>1. purged => AtHand \in cleanup
    BY DEF AssetsInv, PurgedFits, AtHand
  <2>2. purged => AtHand[1] # k
    BY <1>3, <2>1 DEF AssetsInv, CleanupFits
  <2> QED BY <1>1, <2>2 DEF AssetsInv, PurgedFits, AtHand
<1>7. ASSUME NEW m \in Loops PROVE TaskFits(task[m])'
  <2>1. \A t : t = task'[m] /\ TaskFits(t) => TaskFits(task[m])'
    BY <1>1 DEF TaskFits, Superseded, Exists
  <2>2. CASE m # l
    BY <1>2, <2>1, <2>2 DEF AssetsInv
  <2>3. CASE m = l
    BY <1>1, <1>2, <1>3, <2>3 DEF TaskFits
  <2> QED BY <2>2, <2>3
<1>8. ASSUME NEW r \in Readers PROVE ReaderFits(reading[r])'
  BY <1>1 DEF AssetsInv, ReaderFits, Superseded
<1>9. ASSUME NEW j \in ThumbnailKeys PROVE ThumbnailFits(j)'
  <2>1. ThumbnailFits(j)
    BY DEF AssetsInv
  <2>2. CASE j = k
    BY <1>1, <1>2, <2>2 DEF ThumbnailFits
  <2>3. CASE j # k
    <3>1. \A m \in Loops : task[m].key = j /\ task[m].at = "record"
                              => task'[m].key = j /\ task'[m].at = "record"
      BY <1>2, <2>3 DEF k
    <3> QED BY <1>1, <2>1, <2>3, <3>1 DEF ThumbnailFits
  <2> QED BY <2>2, <2>3
<1>10. ASSUME NEW u \in Uploads PROVE UploadFits(u)'
  <2>1. UploadKey(u) # k
    BY <1>3, KeyFacts
  <2> QED BY <1>1, <2>1 DEF AssetsInv, UploadFits, UploadKey
<1> QED BY <1>4, <1>5, <1>6, <1>7, <1>8, <1>9, <1>10 DEF AssetsInv

\* The row is recorded for the object, or revived.
LEMMA RecordKeeps ==
  ASSUME AssetsInv, NEW l \in Loops, createDerivedAssetRecord(l)
  PROVE  AssetsInv'
<1> DEFINE k == task[l].key
           g == IF row[k] = 0 THEN made[k] + 1 ELSE row[k]
<1>1. /\ task[l].at = "record" /\ row' = [row EXCEPT ![k] = g]
      /\ made' = [made EXCEPT ![k] = IF row[k] = 0 THEN g ELSE @]
      /\ marked' = marked \ {k} /\ old' = old \ {k}
      /\ task' = [task EXCEPT ![l].at = "point", ![l].id = <<k, g>>]
      /\ UNCHANGED <<blobs, shown, name, cleanup, purged, upload, reading, faults, crashes>>
  BY DEF createDerivedAssetRecord, boundVars
<1>2. /\ k \in ThumbnailKeys /\ k \in Keys /\ k = ThumbnailKey(task[l].slot, name)
      /\ task[l] \in TaskType /\ task[l].named = name /\ \A s \in Slots : ~Superseded(k, s)
      /\ k \in blobs
  BY <1>1, TaskFacts DEF TaskFits
<1>3. /\ g \in Nat \ {0} /\ (row[k] # 0 => g = row[k])
      /\ row \in [Keys -> Nat] /\ made \in [Keys -> Nat]
  BY <1>2 DEF AssetsInv, AssetsTyped
<1>4. <<k, g>> \in Ids /\ <<k, g>>[1] = k /\ <<k, g>>[2] = g
  BY <1>2, <1>3, IdFacts
<1> DEFINE id == <<k, g>>
<1>5. id \in Ids /\ id[1] = k /\ id[2] = g
  BY <1>4
<1>6. task' = [task EXCEPT ![l].at = "point", ![l].id = id]
  BY <1>1
<1> HIDE DEF k, g, id
<1>7. /\ task' \in [Loops -> TaskType] /\ task'[l].at = "point" /\ task'[l].id = id
      /\ task'[l].slot = task[l].slot /\ task'[l].named = task[l].named
      /\ task'[l].key = task[l].key
      /\ \A m \in Loops : m # l => task'[m] = task[m]
  BY <1>2, <1>5, <1>6 DEF AssetsInv, AssetsTyped, TaskType, TaskStates
<1>8. k \notin marked
  BY <1>2 DEF AssetsInv, MarkedFits
<1>9. AssetsTyped'
  BY <1>1, <1>2, <1>3, <1>7 DEF AssetsInv, AssetsTyped
<1>10. \A j \in Keys : row[j] # 0 => row'[j] = row[j]
  BY <1>1, <1>3
<1>11. ShownFits' /\ MarkedFits'
  <2>1. \A s \in Slots : shown[s] # None =>
          /\ shown[s][1] \in Keys /\ row[shown[s][1]] # 0 /\ row[shown[s][1]] = shown[s][2]
    BY ShownFacts, KeyFacts
  <2>2. marked \subseteq Keys
    BY KeyFacts DEF AssetsInv, AssetsTyped
  <2> QED BY <1>1, <1>8, <1>10, <2>1, <2>2
          DEF AssetsInv, ShownFits, MarkedFits, Superseded, Readable, Exists
<1>12. CleanupFits' /\ PurgedFits'
  <2>1. \A c \in cleanup : c[1] # k
    BY <1>2 DEF AssetsInv, CleanupFits
  <2> QED BY <1>1, <1>3, <2>1
          DEF AssetsInv, CleanupFits, PurgedFits, AtHand, Superseded
<1>13. ASSUME NEW m \in Loops PROVE TaskFits(task[m])'
  <2>1. CASE m # l
    <3>1. TaskFits(task[m]) /\ task[m] \in TaskType
      BY DEF AssetsInv, AssetsTyped
    <3>2. task[m].at \in {"point", "mark"} => task[m].id \in Ids /\ Exists(task[m].id)
      BY <3>1 DEF TaskFits, TaskType
    <3>3. task[m].at \in {"point", "mark"} => Exists(task[m].id)'
      <4>1. task[m].at \in {"point", "mark"} =>
              /\ task[m].id[1] \in Keys /\ row[task[m].id[1]] # 0
              /\ row[task[m].id[1]] = task[m].id[2] /\ task[m].id # None
        BY <3>2, IdFacts, KeyFacts DEF Exists
      <4> QED BY <1>7, <1>10, <2>1, <4>1 DEF Exists
    <3> QED BY <1>1, <1>7, <2>1, <3>1, <3>3 DEF TaskFits, Superseded
  <2>2. CASE m = l
    <3>1. id # None /\ row'[id[1]] = id[2]
      BY <1>1, <1>2, <1>3, <1>5, IdFacts
    <3>2. Exists(task[l].id)'
      BY <1>7, <3>1 DEF Exists
    <3>3. task'[l].key = k
      BY <1>7 DEF k
    <3> QED BY <1>1, <1>2, <1>5, <1>7, <2>2, <3>1, <3>2, <3>3 DEF TaskFits
  <2> QED BY <2>1, <2>2
<1>14. ASSUME NEW r \in Readers PROVE ReaderFits(reading[r])'
  BY <1>1 DEF AssetsInv, ReaderFits, Superseded
<1>15. ASSUME NEW j \in ThumbnailKeys PROVE ThumbnailFits(j)'
  <2>1. ThumbnailFits(j) /\ j \in Keys
    BY KeyFacts DEF AssetsInv
  <2>2. CASE j = k
    BY <1>1, <1>2, <1>3, <2>2 DEF ThumbnailFits
  <2>3. CASE j # k
    <3>1. \A m \in Loops : task[m].key = j /\ task[m].at = "record"
                              => task'[m].key = j /\ task'[m].at = "record"
      BY <1>7, <2>3 DEF k
    <3> QED BY <1>1, <1>3, <2>1, <2>3, <3>1 DEF ThumbnailFits
  <2> QED BY <2>2, <2>3
<1>16. ASSUME NEW u \in Uploads PROVE UploadFits(u)'
  <2>1. UploadKey(u) # k /\ UploadKey(u) \in Keys
    BY <1>2, KeyFacts
  <2> QED BY <1>1, <1>3, <2>1 DEF AssetsInv, UploadFits, UploadKey
<1> QED BY <1>9, <1>11, <1>12, <1>13, <1>14, <1>15, <1>16 DEF AssetsInv

\* The pointer moves to the new thumbnail; what it leaves is superseded.
LEMMA ReplaceKeeps ==
  ASSUME AssetsInv, NEW l \in Loops, ReplaceThumbnail(l)
  PROVE  AssetsInv'
<1> DEFINE s == task[l].slot
           k == task[l].key
           id == task[l].id
<1>1. /\ task[l].at = "point"
      /\ UNCHANGED <<storeVars, name, cleanup, purged, upload, reading, faults, crashes>>
  BY DEF ReplaceThumbnail, boundVars
<1>2. /\ s \in Slots /\ k = ThumbnailKey(s, name) /\ k \in ThumbnailKeys /\ k \in Keys
      /\ task[l] \in TaskType /\ task[l].named = name /\ name \in Names
      /\ TaskFits(task[l]) /\ \A t \in Slots : ~Superseded(k, t)
  BY <1>1, TaskFacts
<1>3. id \in Ids /\ id # None /\ id[1] = k /\ Exists(id) /\ k \in blobs
  BY <1>1, <1>2 DEF TaskFits, TaskType
<1>4. id = <<k, row[k]>>
  BY <1>3, IdFacts DEF Exists
<1>5. shown' = [shown EXCEPT ![s] = id]
  BY <1>3 DEF ReplaceThumbnail
<1>6. \/ shown[s] \in {None, id} /\ Ends(l, FALSE)
      \/ /\ shown[s] \notin {None, id}
         /\ task' = [task EXCEPT ![l].at = "mark", ![l].previous = shown[s]]
  BY <1>3 DEF ReplaceThumbnail
<1>7. shown[s] \in {None, id} \/ Superseded(shown[s][1], s)
  <2>1. shown[s] # None => \/ shown[s][1] = k /\ shown[s] = <<k, row[k]>>
                           \/ Superseded(shown[s][1], s)
    BY <1>2, ShownFacts
  <2> QED BY <1>4, <2>1
<1>8. shown \in [Slots -> Ids \cup {None}] /\ task \in [Loops -> TaskType]
  BY DEF AssetsInv, AssetsTyped
<1>9. k \notin marked
  BY <1>2 DEF AssetsInv, MarkedFits
<1>10. /\ task' \in [Loops -> TaskType] /\ \A m \in Loops : m # l => task'[m] = task[m]
       /\ \/ Rests(task'[l])
          \/ /\ task'[l].at = "mark" /\ task'[l].slot = s /\ task'[l].key = k
             /\ task'[l].id = id /\ task'[l].named = name /\ task'[l].previous = shown[s]
             /\ shown[s] # None /\ Superseded(shown[s][1], s)
  <2>1. CASE Ends(l, FALSE)
    BY <1>1, <2>1, EndedTask
  <2>2. CASE /\ shown[s] \notin {None, id}
             /\ task' = [task EXCEPT ![l].at = "mark", ![l].previous = shown[s]]
    <3>1. shown[s] \in Ids /\ Superseded(shown[s][1], s)
      BY <1>2, <1>7, <1>8, <2>2
    <3> DEFINE previous == shown[s]
    <3>2. previous \in Ids /\ task' = [task EXCEPT ![l].at = "mark", ![l].previous = previous]
      BY <2>2, <3>1
    <3> HIDE DEF previous
    <3>3. /\ task' \in [Loops -> TaskType] /\ \A m \in Loops : m # l => task'[m] = task[m]
          /\ task'[l].at = "mark" /\ task'[l].slot = task[l].slot
          /\ task'[l].key = task[l].key /\ task'[l].id = task[l].id
          /\ task'[l].named = task[l].named /\ task'[l].previous = previous
      BY <1>2, <1>8, <3>2 DEF TaskType, TaskStates
    <3> QED BY <1>2, <2>2, <3>1, <3>3 DEF previous
  <2> QED BY <1>6, <2>1, <2>2
<1> HIDE DEF s, k, id
<1>11. /\ shown'[s] = id /\ \A t \in Slots : t # s => shown'[t] = shown[t]
  BY <1>2, <1>5, <1>8
<1>12. AssetsTyped'
  BY <1>1, <1>2, <1>3, <1>5, <1>8, <1>10 DEF AssetsInv, AssetsTyped, storeVars
<1>13. ShownFits' /\ MarkedFits'
  <2>1. Readable(id)
    BY <1>3, <1>9 DEF Readable
  <2>2. \A t \in Slots : shown'[t] # None =>
          /\ shown'[t][1] = ThumbnailKey(t, name) \/ Superseded(shown'[t][1], t)
          /\ Readable(shown'[t]) /\ shown'[t][1] \in blobs
    BY <1>2, <1>3, <1>11, <2>1 DEF AssetsInv, ShownFits
  <2> QED BY <1>1, <2>2 DEF AssetsInv, ShownFits, MarkedFits, Superseded, Readable, Exists,
                            storeVars
<1>14. CleanupFits' /\ PurgedFits'
  <2>1. \A c \in cleanup : c[1] # k
    BY <1>2 DEF AssetsInv, CleanupFits
  <2>2. \A c \in cleanup, t \in Slots : shown'[t] # None => shown'[t][1] # c[1]
    BY <1>3, <1>11, <2>1 DEF AssetsInv, CleanupFits
  <2> QED BY <1>1, <2>2 DEF AssetsInv, CleanupFits, PurgedFits, AtHand, Superseded, storeVars
<1>15. ASSUME NEW m \in Loops PROVE TaskFits(task[m])'
  <2>1. CASE m # l
    <3>1. TaskFits(task[m]) /\ task[m] \in TaskType /\ task'[m] = task[m]
      BY <1>8, <1>10, <2>1 DEF AssetsInv
    <3>2. task[m].slot \in Slots
      BY <3>1 DEF TaskType
    <3>3. task[m].at = "mark" /\ shown'[task[m].slot] # None
            => shown'[task[m].slot][1] = ThumbnailKey(task[m].slot, name)
      BY <1>2, <1>3, <1>11, <3>1, <3>2 DEF TaskFits
    <3> QED BY <1>1, <3>1, <3>3 DEF TaskFits, Superseded, Exists, storeVars
  <2>2. CASE m = l /\ Rests(task'[l])
    BY <1>1, <2>2 DEF Rests, TaskFits
  <2>3. CASE m = l /\ ~Rests(task'[l])
    <3>1. /\ task'[l].at = "mark" /\ task'[l].slot = s /\ task'[l].key = k
          /\ task'[l].id = id /\ task'[l].named = name /\ task'[l].previous = shown[s]
          /\ shown[s] # None /\ Superseded(shown[s][1], s)
      BY <1>10, <2>3
    <3> QED BY <1>1, <1>2, <1>3, <1>11, <2>3, <3>1
            DEF TaskFits, Superseded, Exists, storeVars
  <2> QED BY <2>1, <2>2, <2>3
<1>16. ASSUME NEW r \in Readers PROVE ReaderFits(reading[r])'
  <2>1. ReaderFits(reading[r]) /\ reading[r] \in ReaderType
    BY DEF AssetsInv, AssetsTyped
  <2> DEFINE q == reading[r]
  <2>2. q.slot \in Slots /\ q.id \in Ids \cup {None}
    BY <2>1 DEF ReaderType
  <2>3. CASE q.slot # s
    BY <1>1, <1>11, <2>1, <2>2, <2>3 DEF ReaderFits, Superseded
  <2>4. CASE q.slot = s
    <3>1. q.id # None => shown'[s] = q.id \/ Superseded(q.id[1], s)
      BY <1>7, <1>11, <2>1, <2>4 DEF ReaderFits
    <3>2. q.reply = 404 => q.id # None /\ q.id # id
      BY <1>2, <1>3, <1>7, <2>1, <2>4 DEF ReaderFits
    <3> QED BY <1>1, <1>11, <2>1, <2>4, <3>1, <3>2 DEF ReaderFits, Superseded
  <2> QED BY <2>3, <2>4
<1>17. ASSUME NEW j \in ThumbnailKeys PROVE ThumbnailFits(j)'
  <2>1. ThumbnailFits(j)
    BY DEF AssetsInv
  <2>2. \A m \in Loops : task[m].key = j /\ task[m].at = "record"
                            => task'[m].key = j /\ task'[m].at = "record"
    BY <1>1, <1>10
  <2> QED BY <1>1, <2>1, <2>2 DEF ThumbnailFits, storeVars
<1>18. ASSUME NEW u \in Uploads PROVE UploadFits(u)'
  BY <1>1 DEF AssetsInv, UploadFits, UploadKey, storeVars
<1> QED BY <1>12, <1>13, <1>14, <1>15, <1>16, <1>17, <1>18 DEF AssetsInv

\* What was superseded is marked for the cleanup.
LEMMA MarkKeeps ==
  ASSUME AssetsInv, NEW l \in Loops, markAssetDeleted(l)
  PROVE  AssetsInv'
<1> DEFINE s == task[l].slot
           p == task[l].previous
<1>1. /\ task[l].at = "mark" /\ Ends(l, FALSE)
      /\ marked' = IF Exists(p) THEN marked \cup {p[1]} ELSE marked
      /\ UNCHANGED <<blobs, row, made, old, shown, name, cleanup, purged, upload, reading,
                     faults, crashes>>
  BY DEF markAssetDeleted, boundVars
<1>2. /\ s \in Slots /\ task[l] \in TaskType /\ name \in Names /\ TaskFits(task[l])
  BY <1>1, TaskFacts
<1>3. /\ p \in Ids /\ Superseded(p[1], s) /\ p[1] \in ThumbnailKeys
      /\ shown[s] # None => shown[s][1] = ThumbnailKey(s, name)
  BY <1>1, <1>2, IdFacts DEF TaskFits, TaskType
<1>4. /\ task' \in [Loops -> TaskType] /\ Rests(task'[l])
      /\ \A m \in Loops : m # l => task'[m] = task[m]
  BY <1>1, EndedTask
<1> HIDE DEF s, p
<1>5. \A t \in Slots : shown[t] # None => shown[t][1] # p[1]
  <2>1. \A t \in Slots : shown[t] # None =>
          shown[t][1] = ThumbnailKey(t, name) \/ Superseded(shown[t][1], t)
    BY ShownFacts
  <2>2. \A t : p[1] # ThumbnailKey(t, name) /\ (Superseded(p[1], t) => t = s)
    BY <1>2, <1>3, SupersededFacts
  <2> QED BY <1>3, <2>1, <2>2
<1>6. Exists(p) => row[p[1]] # 0
  BY <1>3, IdFacts DEF Exists
<1>7. AssetsTyped'
  BY <1>1, <1>3, <1>4 DEF AssetsInv, AssetsTyped
<1>8. ShownFits'
  BY <1>1, <1>5 DEF AssetsInv, ShownFits, Superseded, Readable, Exists
<1>9. MarkedFits'
  BY <1>1, <1>2, <1>3, <1>6 DEF AssetsInv, MarkedFits, Superseded
<1>10. CleanupFits' /\ PurgedFits'
  BY <1>1 DEF AssetsInv, CleanupFits, PurgedFits, AtHand, Superseded
<1>11. ASSUME NEW m \in Loops PROVE TaskFits(task[m])'
  <2>1. CASE m # l
    BY <1>1, <1>4, <2>1 DEF AssetsInv, TaskFits, Superseded, Exists
  <2>2. CASE m = l
    BY <1>1, <1>4, <2>2 DEF Rests, TaskFits
  <2> QED BY <2>1, <2>2
<1>12. ASSUME NEW r \in Readers PROVE ReaderFits(reading[r])'
  BY <1>1 DEF AssetsInv, ReaderFits, Superseded
<1>13. ASSUME NEW j \in ThumbnailKeys PROVE ThumbnailFits(j)'
  <2>1. ThumbnailFits(j)
    BY DEF AssetsInv
  <2>2. \A m \in Loops : task[m].key = j /\ task[m].at = "record"
                            => task'[m].key = j /\ task'[m].at = "record"
    BY <1>1, <1>4
  <2> QED BY <1>1, <2>1, <2>2 DEF ThumbnailFits
<1>14. ASSUME NEW u \in Uploads PROVE UploadFits(u)'
  BY <1>1 DEF AssetsInv, UploadFits, UploadKey
<1> QED BY <1>7, <1>8, <1>9, <1>10, <1>11, <1>12, <1>13, <1>14 DEF AssetsInv

\* A task that throws leaves the tables as they are.
LEMMA TaskFailsKeeps ==
  ASSUME AssetsInv, NEW l \in Loops, TaskFails(l)
  PROVE  AssetsInv'
<1>1. /\ task[l].at \in {"put", "record", "point", "mark"} /\ Ends(l, TRUE)
      /\ faults' = faults + 1 /\ faults \in Nat
      /\ UNCHANGED <<storeVars, shown, name, cleanup, purged, upload, reading, crashes>>
  BY DEF TaskFails, AssetsInv, AssetsTyped
<1>2. /\ task' \in [Loops -> TaskType] /\ TaskFits(task'[l])
      /\ \A m \in Loops : m # l => task'[m] = task[m]
  BY <1>1, EndedTask, RestFits
<1>3. faults' > 0 /\ faults' \in Nat /\ faults' >= faults
  BY <1>1
<1> QED BY <1>1, <1>2, <1>3, QuietTask

-----------------------------------------------------------------------------
(* The cleanup.                                                            *)

\* Time passes for a marked row.
LEMMA AgeKeeps ==
  ASSUME AssetsInv, NEW k \in ThumbnailKeys, Age(k)
  PROVE  AssetsInv'
<1>1. /\ k \in marked /\ old' = old \cup {k}
      /\ UNCHANGED <<blobs, row, made, marked, shown, name, task, cleanup, purged, upload,
                     reading, faults, crashes>>
  BY DEF Age, boundVars
<1>2. AssetsTyped'
  BY <1>1 DEF AssetsInv, AssetsTyped
<1>3. ShownFits' /\ MarkedFits' /\ CleanupFits' /\ PurgedFits'
  BY <1>1 DEF AssetsInv, ShownFits, MarkedFits, CleanupFits, PurgedFits, Superseded, Readable,
              Exists, AtHand
<1>4. (\A l \in Loops : TaskFits(task[l]))' /\ (\A r \in Readers : ReaderFits(reading[r]))'
  BY <1>1 DEF AssetsInv, TaskFits, ReaderFits, Superseded, Exists
<1>5. (\A j \in ThumbnailKeys : ThumbnailFits(j))' /\ (\A u \in Uploads : UploadFits(u))'
  BY <1>1 DEF AssetsInv, ThumbnailFits, UploadFits, UploadKey
<1> QED BY <1>2, <1>3, <1>4, <1>5 DEF AssetsInv

\* The cleanup loop begins or gives up: what it lists is superseded and not
\* shown.
LEMMA ListedKeeps ==
  ASSUME AssetsInv, \A id \in cleanup' : \E k \in marked : id = <<k, row[k]>>,
         purged' \in BOOLEAN, ~purged',
         UNCHANGED <<storeVars, shown, name, task, upload, reading, crashes>>,
         faults' \in Nat, faults' >= faults
  PROVE  AssetsInv'
<1>1. ASSUME NEW id \in cleanup'
      PROVE  /\ id \in Ids /\ id[1] \in marked /\ \E s \in Slots : Superseded(id[1], s)
             /\ \A s \in Slots : shown[s] # None => shown[s][1] # id[1]
  <2>1. PICK k \in marked : id = <<k, row[k]>>
    BY <1>1
  <2>2. k \in ThumbnailKeys /\ k \in Keys /\ row[k] \in Nat \ {0}
    BY KeyFacts DEF AssetsInv, AssetsTyped, MarkedFits
  <2>3. id \in Ids /\ id[1] = k
    BY <2>1, <2>2, IdFacts
  <2> QED BY <2>3, ShownFacts DEF AssetsInv, MarkedFits
<1>2. AssetsTyped'
  BY <1>1 DEF AssetsInv, AssetsTyped, storeVars
<1>3. ShownFits' /\ MarkedFits' /\ PurgedFits'
  BY DEF AssetsInv, ShownFits, MarkedFits, PurgedFits, Superseded, Readable, Exists, storeVars
<1>4. CleanupFits'
  BY <1>1 DEF CleanupFits, Superseded, storeVars
<1>5. (\A l \in Loops : TaskFits(task[l]))' /\ (\A r \in Readers : ReaderFits(reading[r]))'
  BY DEF AssetsInv, TaskFits, ReaderFits, Superseded, Exists, storeVars
<1>6. (\A j \in ThumbnailKeys : ThumbnailFits(j))' /\ (\A u \in Uploads : UploadFits(u))'
  BY DEF AssetsInv, AssetsTyped, ThumbnailFits, UploadFits, UploadKey, storeVars
<1> QED BY <1>2, <1>3, <1>4, <1>5, <1>6 DEF AssetsInv

\* What the cleanup is at, a superseded thumbnail.
LEMMA HeadFacts ==
  ASSUME AssetsInv, cleanup # {}
  PROVE  /\ AtHand \in cleanup /\ AtHand[1] \in ThumbnailKeys /\ AtHand[1] \in Keys
         /\ \A t : AtHand[1] # ThumbnailKey(t, name)
         /\ row[AtHand[1]] # 0 => AtHand[1] \in marked
         /\ \A s \in Slots : shown[s] # None => shown[s][1] # AtHand[1]
         /\ \A u \in Uploads : UploadKey(u) # AtHand[1]
<1>1. AtHand \in cleanup
  BY DEF AtHand
<1>2. AtHand \in Ids /\ name \in Names
  BY <1>1 DEF AssetsInv, AssetsTyped
<1>3. AtHand[1] \in ThumbnailKeys
  BY <1>2, IdFacts
<1>4. PICK s \in Slots : Superseded(AtHand[1], s)
  BY <1>1 DEF AssetsInv, CleanupFits
<1>5. \A t : AtHand[1] # ThumbnailKey(t, name)
  BY <1>2, <1>4, SupersededFacts
<1>6. \A u \in Uploads : UploadKey(u) # AtHand[1]
  BY <1>3, KeyFacts
<1> QED BY <1>1, <1>3, <1>5, <1>6, KeyFacts DEF AssetsInv, CleanupFits

\* The object goes before the row.
LEMMA PurgeKeeps ==
  ASSUME AssetsInv, PurgeObject
  PROVE  AssetsInv'
<1> DEFINE k == AtHand[1]
<1>1. /\ cleanup # {} /\ purged' = TRUE
      /\ UNCHANGED <<row, made, marked, old, shown, name, task, cleanup, upload, reading,
                     crashes>>
      /\ \/ blobs' = blobs \ {k} /\ faults' = faults
         \/ faults' = faults + 1 /\ blobs' = blobs
  BY DEF PurgeObject, AtHand
<1>2. /\ k \in ThumbnailKeys /\ \A t : k # ThumbnailKey(t, name)
      /\ row[k] # 0 => k \in marked
      /\ \A s \in Slots : shown[s] # None => shown[s][1] # k
      /\ \A u \in Uploads : UploadKey(u) # k
  BY <1>1, HeadFacts
<1>3. AtHand' = AtHand
  BY <1>1 DEF AtHand
<1>4. faults \in Nat
  BY DEF AssetsInv, AssetsTyped
<1>5. PurgedFits'
  BY <1>1, <1>3, <1>4 DEF PurgedFits
<1> HIDE DEF k
<1>6. AssetsTyped'
  BY <1>1, <1>4 DEF AssetsInv, AssetsTyped
<1>7. ShownFits' /\ MarkedFits' /\ CleanupFits'
  BY <1>1, <1>2
     DEF AssetsInv, ShownFits, MarkedFits, CleanupFits, Superseded, Readable, Exists
<1>8. ASSUME NEW l \in Loops PROVE TaskFits(task[l])'
  <2>1. TaskFits(task[l])
    BY DEF AssetsInv
  <2>2. task[l].at \in {"record", "point", "mark"} => task[l].key # k
    BY <1>2, <2>1 DEF TaskFits
  <2> QED BY <1>1, <2>1, <2>2 DEF TaskFits, Superseded, Exists
<1>9. ASSUME NEW r \in Readers PROVE ReaderFits(reading[r])'
  BY <1>1 DEF AssetsInv, ReaderFits, Superseded
<1>10. ASSUME NEW j \in ThumbnailKeys PROVE ThumbnailFits(j)'
  BY <1>1, <1>2, <1>4 DEF AssetsInv, ThumbnailFits
<1>11. ASSUME NEW u \in Uploads PROVE UploadFits(u)'
  BY <1>1, <1>2, <1>4 DEF AssetsInv, UploadFits, UploadKey
<1> QED BY <1>5, <1>6, <1>7, <1>8, <1>9, <1>10, <1>11 DEF AssetsInv

\* The row goes; its object went, or the storage failed.
LEMMA HardDeleteKeeps ==
  ASSUME AssetsInv, hardDeleteAssetRecord
  PROVE  AssetsInv'
<1> DEFINE k == AtHand[1]
<1>1. /\ cleanup # {} /\ purged /\ purged' = FALSE /\ cleanup' = cleanup \ {AtHand}
      /\ UNCHANGED <<blobs, made, name, task, upload, reading, faults, crashes>>
      /\ \/ /\ row' = [row EXCEPT ![k] = 0] /\ marked' = marked \ {k} /\ old' = old \ {k}
            /\ shown' = [s \in Slots |-> IF shown[s] = AtHand THEN None ELSE shown[s]]
         \/ UNCHANGED <<row, marked, old, shown>>
  BY DEF hardDeleteAssetRecord, AtHand, boundVars
<1>2. /\ k \in ThumbnailKeys /\ k \in Keys /\ \A t : k # ThumbnailKey(t, name)
      /\ \A s \in Slots : shown[s] # None => shown[s][1] # k
      /\ \A u \in Uploads : UploadKey(u) # k
      /\ AtHand \in cleanup /\ AtHand # None
  <2>1. cleanup \subseteq Ids
    BY DEF AssetsInv, AssetsTyped
  <2> QED BY <1>1, <2>1, HeadFacts, IdFacts
<1>3. k \notin blobs \/ faults > 0
  BY <1>1 DEF AssetsInv, PurgedFits
<1>4. shown' = shown
  <2>1. shown \in [Slots -> Ids \cup {None}]
    BY DEF AssetsInv, AssetsTyped
  <2>2. \A s \in Slots : shown[s] # AtHand
    BY <1>2
  <2> QED BY <1>1, <2>1, <2>2
<1>5. \/ row' = [row EXCEPT ![k] = 0] /\ marked' = marked \ {k} /\ old' = old \ {k}
      \/ UNCHANGED <<row, marked, old>>
  BY <1>1
<1>6. row \in [Keys -> Nat]
  BY DEF AssetsInv, AssetsTyped
<1> HIDE DEF k
<1>7. /\ row' \in [Keys -> Nat] /\ marked' \subseteq marked
      /\ \A j \in Keys : j # k => row'[j] = row[j]
      /\ \A j \in Keys : row'[j] # 0 => row'[j] = row[j]
      /\ \A j \in Keys : row'[j] # 0 /\ j \in marked => j \in marked'
      /\ \A j \in marked' : j \in Keys => row'[j] = row[j]
  BY <1>2, <1>5, <1>6
<1>8. AssetsTyped'
  <2>1. old' \subseteq marked'
    BY <1>5 DEF AssetsInv, AssetsTyped
  <2> QED BY <1>1, <1>4, <1>7, <2>1 DEF AssetsInv, AssetsTyped
<1>9. ShownFits'
  <2>1. \A s \in Slots : shown[s] # None =>
          /\ shown[s][1] \in Keys /\ shown[s][1] # k /\ shown[s][1] \notin marked
          /\ row[shown[s][1]] = shown[s][2]
    BY <1>2, ShownFacts, KeyFacts
  <2> QED BY <1>1, <1>4, <1>7, <2>1 DEF AssetsInv, ShownFits, Superseded, Readable, Exists
<1>10. MarkedFits' /\ PurgedFits'
  <2>1. marked \subseteq Keys
    BY KeyFacts DEF AssetsInv, AssetsTyped
  <2> QED BY <1>1, <1>7, <2>1 DEF AssetsInv, MarkedFits, PurgedFits, Superseded
<1>11. CleanupFits'
  <2>1. \A id \in cleanup : id[1] \in Keys
    BY IdFacts, KeyFacts DEF AssetsInv, AssetsTyped
  <2> QED BY <1>1, <1>4, <1>7, <2>1 DEF AssetsInv, CleanupFits, Superseded
<1>12. ASSUME NEW l \in Loops PROVE TaskFits(task[l])'
  <2>1. TaskFits(task[l])
    BY DEF AssetsInv
  <2>2. task[l].at \in {"point", "mark"} =>
          task[l].id[1] # k /\ task[l].id[1] \in Keys /\ Exists(task[l].id)
    BY <1>2, <2>1, TaskFacts DEF TaskFits
  <2>3. task[l].at \in {"point", "mark"} => Exists(task[l].id)'
    BY <1>1, <1>7, <2>2 DEF Exists
  <2> QED BY <1>1, <1>4, <2>1, <2>3 DEF TaskFits, Superseded
<1>13. ASSUME NEW r \in Readers PROVE ReaderFits(reading[r])'
  BY <1>1, <1>4 DEF AssetsInv, ReaderFits, Superseded
<1>14. ASSUME NEW j \in ThumbnailKeys PROVE ThumbnailFits(j)'
  <2>1. ThumbnailFits(j) /\ j \in Keys
    BY KeyFacts DEF AssetsInv
  <2> QED BY <1>1, <1>2, <1>3, <1>7, <2>1 DEF ThumbnailFits
<1>15. ASSUME NEW u \in Uploads PROVE UploadFits(u)'
  <2>1. UploadKey(u) \in Keys
    BY KeyFacts
  <2> QED BY <1>1, <1>2, <1>7, <2>1 DEF AssetsInv, UploadFits, UploadKey
<1> QED BY <1>8, <1>9, <1>10, <1>11, <1>12, <1>13, <1>14, <1>15 DEF AssetsInv

\* The cleanup loop's calls, and its failure.
LEMMA CleanupKeeps ==
  ASSUME AssetsInv, CleanupStep \/ CleanupFails
  PROVE  AssetsInv'
<1>1. faults \in Nat /\ purged \in BOOLEAN /\ old \subseteq marked
  BY DEF AssetsInv, AssetsTyped
<1>2. CASE listDeletedThumbnailAssetsForCleanup
  <2>1. /\ cleanup = {} /\ purged' = purged
        /\ \A id \in cleanup' : \E k \in old : id = <<k, row[k]>>
        /\ UNCHANGED <<storeVars, shown, name, task, upload, reading, crashes, faults>>
    BY <1>2 DEF listDeletedThumbnailAssetsForCleanup, boundVars
  <2>2. purged' \in BOOLEAN /\ ~purged'
    BY <1>1, <2>1 DEF AssetsInv, PurgedFits
  <2>3. \A id \in cleanup' : \E k \in marked : id = <<k, row[k]>>
    BY <1>1, <2>1
  <2> QED BY <1>1, <2>1, <2>2, <2>3, ListedKeeps
<1>3. CASE CleanupFails
  <2>1. /\ cleanup' = {} /\ purged' \in BOOLEAN /\ ~purged' /\ faults' = faults + 1
        /\ UNCHANGED <<storeVars, shown, name, task, upload, reading, crashes>>
    BY <1>3 DEF CleanupFails
  <2> QED BY <1>1, <2>1, ListedKeeps
<1> QED BY <1>2, <1>3, PurgeKeeps, HardDeleteKeeps DEF CleanupStep

-----------------------------------------------------------------------------
(* Uploads and readers.                                                    *)

\* An upload touches its own key only.
LEMMA UploadStays ==
  ASSUME AssetsInv, NEW u \in Uploads, blobs' \subseteq Keys, row' \in [Keys -> Nat],
         \A k \in Keys : k # UploadKey(u) => (k \in blobs' <=> k \in blobs) /\ row'[k] = row[k],
         upload' \in [Uploads -> UploadStates],
         \A v \in Uploads : v # u => upload'[v] = upload[v],
         faults' \in Nat, faults' >= faults, UploadFits(u)',
         UNCHANGED <<made, marked, old, shown, name, task, cleanup, purged, reading, crashes>>
  PROVE  AssetsInv'
<1>1. \A k \in ThumbnailKeys : (k \in blobs' <=> k \in blobs) /\ row'[k] = row[k]
  BY KeyFacts
<1>2. AssetsTyped'
  BY DEF AssetsInv, AssetsTyped
<1>3. ShownFits'
  <2>1. \A s \in Slots : shown[s] # None =>
          /\ shown[s][1] \in ThumbnailKeys /\ shown[s][1] \notin marked
          /\ shown[s][1] \in blobs /\ row[shown[s][1]] = shown[s][2]
          /\ shown[s][1] = ThumbnailKey(s, name) \/ Superseded(shown[s][1], s)
    BY ShownFacts
  <2> QED BY <1>1, <2>1 DEF ShownFits, Superseded, Readable, Exists
<1>4. MarkedFits'
  BY <1>1 DEF AssetsInv, AssetsTyped, MarkedFits, Superseded
<1>5. CleanupFits' /\ PurgedFits'
  <2>1. \A id \in cleanup : id[1] \in ThumbnailKeys
    BY IdFacts DEF AssetsInv, AssetsTyped
  <2>2. cleanup # {} => AtHand[1] \in ThumbnailKeys /\ AtHand' = AtHand
    BY HeadFacts DEF AtHand
  <2>3. faults \in Nat
    BY DEF AssetsInv, AssetsTyped
  <2>4. CleanupFits'
    BY <1>1, <2>1 DEF AssetsInv, CleanupFits, Superseded
  <2>5. PurgedFits'
    BY <1>1, <2>2, <2>3 DEF AssetsInv, PurgedFits
  <2> QED BY <2>4, <2>5
<1>6. ASSUME NEW l \in Loops PROVE TaskFits(task[l])'
  <2>1. TaskFits(task[l]) /\ task[l] \in TaskType
    BY DEF AssetsInv, AssetsTyped
  <2>2. task[l].at \in {"record", "point", "mark"} => task[l].key \in ThumbnailKeys
    BY TaskFacts
  <2>3. task[l].at \in {"point", "mark"} => Exists(task[l].id)'
    BY <1>1, <2>1, <2>2 DEF TaskFits, Exists
  <2> QED BY <1>1, <2>1, <2>2, <2>3 DEF TaskFits, Superseded
<1>7. ASSUME NEW r \in Readers PROVE ReaderFits(reading[r])'
  BY DEF AssetsInv, ReaderFits, Superseded
<1>8. ASSUME NEW k \in ThumbnailKeys PROVE ThumbnailFits(k)'
  BY <1>1 DEF AssetsInv, AssetsTyped, ThumbnailFits
<1>9. ASSUME NEW v \in Uploads PROVE UploadFits(v)'
  <2>1. CASE v # u
    <3>1. UploadKey(v) \in Keys /\ UploadKey(v) # UploadKey(u)
      BY <2>1, KeyFacts
    <3>2. UploadFits(v) /\ faults \in Nat
      BY DEF AssetsInv, AssetsTyped
    <3> QED BY <2>1, <3>1, <3>2 DEF UploadFits, UploadKey
  <2> QED BY <2>1
<1> QED BY <1>2, <1>3, <1>4, <1>5, <1>6, <1>7, <1>8, <1>9 DEF AssetsInv

\* An upload puts its object, records its row, and takes the object back when
\* it has no row or does not know.
LEMMA UploadKeeps ==
  ASSUME AssetsInv, NEW u \in Uploads, UploadStep(u)
  PROVE  AssetsInv'
<1> DEFINE k == UploadKey(u)
<1>1. /\ k \in Keys /\ blobs \subseteq Keys /\ row \in [Keys -> Nat]
      /\ upload \in [Uploads -> UploadStates] /\ faults \in Nat
      /\ UploadFits(u)
  BY KeyFacts DEF AssetsInv, AssetsTyped
<1>2. CASE PutUpload(u)
  <2>1. /\ upload[u] = "idle" /\ row' = row
        /\ UNCHANGED <<made, marked, old, shown, name, task, cleanup, purged, reading, crashes>>
        /\ \/ blobs' = blobs \cup {k} /\ UploadGoes(u, "record") /\ faults' = faults
           \/ /\ faults' = faults + 1 /\ blobs' \in {blobs, blobs \cup {k}}
              /\ UploadGoes(u, "failed")
    BY <1>2 DEF PutUpload
  <2>2. /\ upload' \in [Uploads -> UploadStates]
        /\ \A v \in Uploads : v # u => upload'[v] = upload[v]
        /\ blobs' \subseteq Keys /\ faults' \in Nat /\ faults' >= faults
        /\ \A j \in Keys : j # k => (j \in blobs' <=> j \in blobs)
    BY <1>1, <2>1 DEF UploadGoes, UploadStates
  <2>3. \/ upload'[u] = "record" /\ k \in blobs'
        \/ upload'[u] = "failed" /\ faults' > 0
    BY <1>1, <2>1 DEF UploadGoes
  <2>4. UploadFits(u)'
    BY <1>1, <2>1, <2>2, <2>3 DEF UploadFits, UploadKey
  <2> QED BY <1>1, <2>1, <2>2, <2>4, UploadStays
<1>3. CASE createAsset(u)
  <2>1. /\ upload[u] = "record" /\ blobs' = blobs
        /\ UNCHANGED <<made, marked, old, shown, name, task, cleanup, purged, reading, crashes>>
        /\ \/ /\ row' = [row EXCEPT ![k] = 1]
              /\ \/ UploadGoes(u, "done") /\ faults' = faults
                 \/ faults' = faults + 1 /\ UploadGoes(u, "lost")
           \/ UploadGoes(u, "undo") /\ row' = row /\ faults' \in {faults, faults + 1}
    BY <1>3 DEF createAsset
  <2>2. /\ upload' \in [Uploads -> UploadStates]
        /\ \A v \in Uploads : v # u => upload'[v] = upload[v]
        /\ faults' \in Nat /\ faults' >= faults
        /\ row' \in [Keys -> Nat] /\ \A j \in Keys : j # k => row'[j] = row[j]
    BY <1>1, <2>1 DEF UploadGoes, UploadStates
  <2>3. \/ upload'[u] = "done" /\ row'[k] = 1
        \/ upload'[u] = "lost" /\ row'[k] = 1 /\ faults' > 0
        \/ upload'[u] = "undo" /\ row'[k] = row[k]
    BY <1>1, <2>1 DEF UploadGoes
  <2>4. row[k] = 0 /\ k \in blobs
    BY <1>1, <2>1 DEF UploadFits
  <2>5. UploadFits(u)'
    BY <2>1, <2>3, <2>4 DEF UploadFits, UploadKey
  <2> QED BY <1>1, <2>1, <2>2, <2>5, UploadStays
<1>4. CASE UndoUpload(u)
  <2>1. /\ upload[u] \in {"undo", "lost"} /\ UploadGoes(u, "failed") /\ row' = row
        /\ UNCHANGED <<made, marked, old, shown, name, task, cleanup, purged, reading, crashes>>
        /\ \/ blobs' = blobs \ {k} /\ faults' = faults
           \/ faults' = faults + 1 /\ blobs' = blobs
    BY <1>4 DEF UndoUpload
  <2>2. /\ upload' \in [Uploads -> UploadStates] /\ upload'[u] = "failed"
        /\ \A v \in Uploads : v # u => upload'[v] = upload[v]
        /\ blobs' \subseteq Keys /\ faults' \in Nat /\ faults' >= faults
        /\ \A j \in Keys : j # k => (j \in blobs' <=> j \in blobs)
    BY <1>1, <2>1 DEF UploadGoes, UploadStates
  <2>3. UploadFits(u)'
    BY <1>1, <2>1, <2>2 DEF UploadFits, UploadKey
  <2> QED BY <1>1, <2>1, <2>2, <2>3, UploadStays
<1> QED BY <1>2, <1>3, <1>4 DEF UploadStep

\* A reader that gets a 404 still knows what it asked for.
LEMMA RefusedReader ==
  ASSUME NEW q \in ReaderType
  PROVE  LET t == [q EXCEPT !.at = "done", !.reply = 404] IN
         t \in ReaderType /\ t.slot = q.slot /\ t.id = q.id /\ t.at = "done"
<1> DEFINE ended == [q EXCEPT !.at = "done"]
<1>1. ended \in ReaderType /\ ended.slot = q.slot /\ ended.id = q.id /\ ended.at = "done"
  BY DEF ReaderType, ReaderStates
<1>2. [q EXCEPT !.at = "done", !.reply = 404] = [ended EXCEPT !.reply = 404]
  OBVIOUS
<1> HIDE DEF ended
<1> QED BY <1>1, <1>2 DEF ReaderType

\* A reader changes nothing but itself, and is refused only what is not shown.
LEMMA ReaderKeeps ==
  ASSUME AssetsInv, NEW r \in Readers, ReaderStep(r)
  PROVE  AssetsInv'
<1> DEFINE q == reading[r]
<1>1. UNCHANGED <<storeVars, shown, name, task, cleanup, purged, upload, boundVars>>
  BY DEF ReaderStep, ReadPointer, LaunchpadThumbnail, getAuthorizedAsset, ReadObject
<1>2. /\ q \in ReaderType /\ ReaderFits(q) /\ reading \in [Readers -> ReaderType]
      /\ shown \in [Slots -> Ids \cup {None}]
  BY DEF AssetsInv, AssetsTyped
<1>3. \A slot \in Slots : shown[slot] = q.id /\ q.id # None =>
        Readable(q.id) /\ q.id[1] \in blobs
  BY DEF AssetsInv, ShownFits
<1>4. \E t \in ReaderType : reading' = [reading EXCEPT ![r] = t] /\ ReaderFits(t)
  <2>1. ASSUME NEW slot \in Slots, ReadPointer(r, slot)
        PROVE  \E t \in ReaderType : reading' = [reading EXCEPT ![r] = t] /\ ReaderFits(t)
    <3> DEFINE id == shown[slot]
               t == [IdleReader EXCEPT !.at = "url", !.slot = slot, !.id = id]
    <3>1. id # None /\ id \in Ids \cup {None} /\ reading' = [reading EXCEPT ![r] = t]
      BY <1>2, <2>1 DEF ReadPointer
    <3> HIDE DEF id
    <3>2. t \in ReaderType /\ t.slot = slot /\ t.id = id /\ t.reply = 0 /\ t.at = "url"
      BY <3>1 DEF IdleReader, ReaderType, ReaderStates
    <3> HIDE DEF t
    <3>3. ReaderFits(t)
      BY <3>1, <3>2 DEF ReaderFits, id
    <3> QED BY <3>1, <3>2, <3>3
  <2>2. ASSUME NEW where \in {"content", "read"}, q.at \in {"url", "content"}, Reads(r, where)
        PROVE  \E t \in ReaderType : reading' = [reading EXCEPT ![r] = t] /\ ReaderFits(t)
    <3> DEFINE t == [q EXCEPT !.at = where]
    <3>1. reading' = [reading EXCEPT ![r] = t]
      BY <2>2 DEF Reads
    <3> HIDE DEF q
    <3>2. q \in ReaderType
      BY <1>2
    <3>3. t \in ReaderType /\ t.slot = q.slot /\ t.id = q.id /\ t.reply = q.reply
      BY <3>2, <2>2 DEF ReaderType, ReaderStates
    <3>4. ReaderFits(t)
      BY <1>2, <2>2, <3>3 DEF ReaderFits
    <3> QED BY <3>1, <3>3, <3>4
  <2>3. ASSUME q.at \in {"url", "content", "read"}, Replies(r, 404),
               ~Readable(q.id) \/ q.id[1] \notin blobs
        PROVE  \E t \in ReaderType : reading' = [reading EXCEPT ![r] = t] /\ ReaderFits(t)
    <3> DEFINE t == [q EXCEPT !.at = "done", !.reply = 404]
    <3>1. reading' = [reading EXCEPT ![r] = t]
      BY <2>3 DEF Replies
    <3>2. q.id # None /\ shown[q.slot] # q.id
      BY <1>2, <1>3, <2>3 DEF ReaderFits, ReaderType
    <3> HIDE DEF q
    <3>3. q \in ReaderType
      BY <1>2
    <3>4. t \in ReaderType /\ t.slot = q.slot /\ t.id = q.id /\ t.at = "done"
      BY <3>3, RefusedReader
    <3> HIDE DEF t
    <3>5. ReaderFits(t)
      BY <1>2, <3>2, <3>4 DEF ReaderFits
    <3> QED BY <3>1, <3>4, <3>5
  <2>4. ASSUME reading' = [reading EXCEPT ![r] = IdleReader]
        PROVE  \E t \in ReaderType : reading' = [reading EXCEPT ![r] = t] /\ ReaderFits(t)
    <3>1. IdleReader \in ReaderType /\ ReaderFits(IdleReader)
      BY DEF IdleReader, ReaderType, ReaderStates, Slots, ReaderFits
    <3> QED BY <2>4, <3>1
  <2> QED BY <2>1, <2>2, <2>3, <2>4
          DEF ReaderStep, LaunchpadThumbnail, getAuthorizedAsset, ReadObject
<1>5. PICK t \in ReaderType : reading' = [reading EXCEPT ![r] = t] /\ ReaderFits(t)
  BY <1>4
<1>6. AssetsTyped'
  BY <1>1, <1>2, <1>5 DEF AssetsInv, AssetsTyped, storeVars, boundVars
<1>7. ShownFits' /\ MarkedFits' /\ CleanupFits' /\ PurgedFits'
  BY <1>1 DEF AssetsInv, ShownFits, MarkedFits, CleanupFits, PurgedFits, Superseded, Readable,
              Exists, AtHand, storeVars, boundVars
<1>8. (\A l \in Loops : TaskFits(task[l]))'
  BY <1>1 DEF AssetsInv, TaskFits, Superseded, Exists, storeVars
<1>9. ASSUME NEW p \in Readers PROVE ReaderFits(reading[p])'
  <2>1. ReaderFits(reading'[p])
    BY <1>2, <1>5 DEF AssetsInv
  <2>2. \A z : z = reading'[p] /\ ReaderFits(z) => ReaderFits(reading[p])'
    BY <1>1 DEF ReaderFits, Superseded
  <2> QED BY <2>1, <2>2
<1>10. (\A k \in ThumbnailKeys : ThumbnailFits(k))' /\ (\A u \in Uploads : UploadFits(u))'
  BY <1>1 DEF AssetsInv, ThumbnailFits, UploadFits, UploadKey, storeVars, boundVars
<1> QED BY <1>6, <1>7, <1>8, <1>9, <1>10 DEF AssetsInv

-----------------------------------------------------------------------------
(* Renames and crashes.                                                    *)

\* A rename, with the loops at rest, supersedes what is shown.
LEMMA RenameKeeps ==
  ASSUME AssetsInv, RenamesWait, RenameFile
  PROVE  AssetsInv'
<1>1. /\ name < MaxName /\ name' = name + 1 /\ \A l \in Loops : task[l].at = "idle"
      /\ UNCHANGED <<storeVars, shown, task, cleanup, purged, upload, reading, faults, crashes>>
  BY DEF RenameFile, boundVars
<1>2. name \in Names /\ name' \in Names /\ MaxName \in Nat
  BY <1>1, AssetBoundAssumption DEF AssetsInv, AssetsTyped, Names
<1>3. \A k, s : Superseded(k, s) \/ k = ThumbnailKey(s, name) => Superseded(k, s)'
  BY <1>1, <1>2 DEF Superseded, Names
<1>4. AssetsTyped'
  BY <1>1, <1>2 DEF AssetsInv, AssetsTyped, storeVars
<1>5. ShownFits' /\ MarkedFits' /\ CleanupFits' /\ PurgedFits'
  BY <1>1, <1>3 DEF AssetsInv, ShownFits, MarkedFits, CleanupFits, PurgedFits, Readable,
                    Exists, AtHand, storeVars
<1>6. (\A l \in Loops : TaskFits(task[l]))'
  BY <1>1 DEF TaskFits
<1>7. (\A r \in Readers : ReaderFits(reading[r]))'
  BY <1>1, <1>3 DEF AssetsInv, ReaderFits
<1>8. (\A k \in ThumbnailKeys : ThumbnailFits(k))' /\ (\A u \in Uploads : UploadFits(u))'
  BY <1>1 DEF AssetsInv, ThumbnailFits, UploadFits, UploadKey, storeVars
<1> QED BY <1>4, <1>5, <1>6, <1>7, <1>8 DEF AssetsInv

\* The worker ends: its loops start anew.
LEMMA WorkerCrashKeeps ==
  ASSUME AssetsInv, WorkerCrash
  PROVE  AssetsInv'
<1>1. /\ crashes' = crashes + 1 /\ crashes \in Nat /\ task' = [l \in Loops |-> IdleTask]
      /\ cleanup' = {} /\ purged' = FALSE
      /\ UNCHANGED <<storeVars, shown, name, upload, reading, faults>>
  BY DEF WorkerCrash, AssetsInv, AssetsTyped
<1>2. IdleTask \in TaskType /\ IdleTask.at = "idle"
  BY AssetBoundAssumption DEF IdleTask, TaskType, TaskStates, Slots, Names
<1>3. AssetsTyped'
  <2>1. task' \in [Loops -> TaskType] /\ purged' \in BOOLEAN
    BY <1>1, <1>2
  <2> QED BY <1>1, <2>1 DEF AssetsInv, AssetsTyped, storeVars
<1>4. ShownFits' /\ MarkedFits' /\ CleanupFits' /\ PurgedFits'
  BY <1>1 DEF AssetsInv, ShownFits, MarkedFits, CleanupFits, PurgedFits, Superseded, Readable,
              Exists, storeVars
<1>5. (\A l \in Loops : TaskFits(task[l]))'
  BY <1>1, <1>2 DEF TaskFits
<1>6. (\A r \in Readers : ReaderFits(reading[r]))'
  BY <1>1 DEF AssetsInv, ReaderFits, Superseded
<1>7. (\A k \in ThumbnailKeys : ThumbnailFits(k))' /\ (\A u \in Uploads : UploadFits(u))'
  BY <1>1 DEF AssetsInv, ThumbnailFits, UploadFits, UploadKey, storeVars
<1> QED BY <1>3, <1>4, <1>5, <1>6, <1>7 DEF AssetsInv

\* The API ends: uploads under way are lost.
LEMMA ApiCrashKeeps ==
  ASSUME AssetsInv, ApiCrash
  PROVE  AssetsInv'
<1>1. /\ crashes' = crashes + 1 /\ crashes \in Nat
      /\ upload' = [u \in Uploads |->
                      IF upload[u] \in {"idle", "done"} THEN upload[u] ELSE "failed"]
      /\ UNCHANGED <<storeVars, shown, name, task, cleanup, purged, reading, faults>>
  BY DEF ApiCrash, AssetsInv, AssetsTyped
<1>2. AssetsTyped'
  BY <1>1 DEF AssetsInv, AssetsTyped, UploadStates, storeVars
<1>3. ShownFits' /\ MarkedFits' /\ CleanupFits' /\ PurgedFits'
  BY <1>1 DEF AssetsInv, ShownFits, MarkedFits, CleanupFits, PurgedFits, Superseded, Readable,
              Exists, AtHand, storeVars
<1>4. (\A l \in Loops : TaskFits(task[l]))' /\ (\A r \in Readers : ReaderFits(reading[r]))'
  BY <1>1 DEF AssetsInv, TaskFits, ReaderFits, Superseded, Exists, storeVars
<1>5. (\A k \in ThumbnailKeys : ThumbnailFits(k))'
  BY <1>1 DEF AssetsInv, ThumbnailFits, storeVars
<1>6. ASSUME NEW u \in Uploads PROVE UploadFits(u)'
  <2>1. UploadFits(u) /\ upload[u] \in UploadStates /\ faults \in Nat
    BY DEF AssetsInv, AssetsTyped
  <2>2. upload'[u] = IF upload[u] \in {"idle", "done"} THEN upload[u] ELSE "failed"
    BY <1>1
  <2> QED BY <1>1, <2>1, <2>2 DEF UploadFits, UploadKey, UploadStates, storeVars
<1> QED BY <1>2, <1>3, <1>4, <1>5, <1>6 DEF AssetsInv

-----------------------------------------------------------------------------
(* The invariant and what it says.                                         *)

\* At first nothing is stored.
LEMMA AssetsInitFits ==
  ASSUME AssetsInit
  PROVE  AssetsInv
<1>1. /\ IdleTask \in TaskType /\ IdleTask.at = "idle" /\ 1 \in Names
      /\ IdleReader \in ReaderType /\ IdleReader.id = None /\ IdleReader.reply = 0
      /\ IdleReader.at = "idle"
  BY AssetBoundAssumption
     DEF IdleTask, TaskType, TaskStates, Slots, Names, IdleReader, ReaderType, ReaderStates
<1>2. AssetsTyped
  BY <1>1 DEF AssetsInit, AssetsTyped, UploadStates
<1>3. ShownFits /\ MarkedFits /\ CleanupFits /\ PurgedFits
  BY DEF AssetsInit, ShownFits, MarkedFits, CleanupFits, PurgedFits
<1>4. (\A l \in Loops : TaskFits(task[l])) /\ (\A r \in Readers : ReaderFits(reading[r]))
  BY <1>1 DEF AssetsInit, TaskFits, ReaderFits
<1>5. (\A k \in ThumbnailKeys : ThumbnailFits(k)) /\ (\A u \in Uploads : UploadFits(u))
  BY KeyFacts DEF AssetsInit, ThumbnailFits, UploadFits
<1> QED BY <1>2, <1>3, <1>4, <1>5 DEF AssetsInv

\* Every step keeps the invariant.
LEMMA AssetsStepKeeps ==
  ASSUME AssetsInv, RenamesWait, [AssetsNext]_assetVars
  PROVE  AssetsInv'
<1>1. CASE UNCHANGED assetVars
  BY <1>1 DEF assetVars, AssetsInv, AssetsTyped, ShownFits, MarkedFits, CleanupFits,
              PurgedFits, TaskFits, ReaderFits, ThumbnailFits, UploadFits, UploadKey,
              Superseded, Readable, Exists, AtHand
<1>2. ASSUME NEW l \in Loops, LoopStep(l) \/ TaskFails(l) PROVE AssetsInv'
  BY <1>2, PutKeeps, RecordKeeps, ReplaceKeeps, MarkKeeps, TaskFailsKeeps DEF LoopStep
<1> QED
  BY <1>1, <1>2, TickKeeps, RefreshKeeps, CleanupKeeps, AgeKeeps, UploadKeeps, ReaderKeeps,
     RenameKeeps, WorkerCrashKeeps, ApiCrashKeeps DEF AssetsNext

\* The invariant holds in every state, when renames wait for the loops' tasks.
THEOREM AssetsAlwaysFit ==
  ASSUME RenamesWait
  PROVE  AssetsSpec => []AssetsInv
<1>1. AssetsInv /\ [AssetsNext]_assetVars => AssetsInv'
  BY AssetsStepKeeps
<1> QED BY <1>1, AssetsInitFits, PTL DEF AssetsSpec

\* The thumbnail that a page or a file points to is never marked, deleted or
\* without its object, however refreshes, superseding and cleanup interleave
\* and wherever they break off; a reader of it gets a 404 only after it was
\* superseded.  Renames wait for the loops' tasks.
THEOREM ShownStaysReadable ==
  ASSUME RenamesWait
  PROVE  AssetsSpec => []ShownIsReadable
<1>1. AssetsInv => ShownIsReadable
  BY DEF AssetsInv, ShownFits, ReaderFits, ShownIsReadable, ShownThumbnailIsThere,
         ReadersSeeTheShown
<1> QED BY <1>1, AssetsAlwaysFit, PTL

\* A row that is not marked has its object, unless a commit was not heard of,
\* and an object without a row is a fault's or about to be recorded or taken
\* back, for any number of uploads, loops' tasks, errors and crashes.  Renames
\* wait for the loops' tasks.
THEOREM StorageMatches ==
  ASSUME RenamesWait
  PROVE  AssetsSpec => []StorageMatchesRows
<1>1. AssetsInv => AssetsTypeOK
  <2> SUFFICES ASSUME AssetsInv PROVE AssetsTypeOK
    OBVIOUS
  <2>1. \A l \in Loops : task[l].at = "mark" => task[l].previous # None
    BY DEF AssetsInv, TaskFits
  <2>2. \A s \in Slots : shown[s] # None => Exists(shown[s])
    BY DEF AssetsInv, ShownFits, Readable
  <2>3. blobs \subseteq Keys /\ old \subseteq marked /\ name \in 1 .. MaxName
    BY DEF AssetsInv, AssetsTyped, Names
  <2>4. \A k \in Keys : k \in marked => row[k] # 0
    BY DEF AssetsInv, MarkedFits
  <2> QED BY <2>1, <2>2, <2>3, <2>4 DEF AssetsTypeOK
<1>2. AssetsInv => RowsHaveObjects
  <2> SUFFICES ASSUME AssetsInv PROVE RowsHaveObjects
    OBVIOUS
  <2>1. \A k \in ThumbnailKeys : row[k] # 0 /\ k \notin blobs => k \in marked
    BY DEF AssetsInv, ThumbnailFits
  <2>2. ASSUME NEW u \in Uploads, row[UploadKey(u)] # 0, UploadKey(u) \notin blobs
        PROVE  upload[u] = "failed" /\ faults > 0
    BY <2>2 DEF AssetsInv, AssetsTyped, UploadFits, UploadStates
  <2> QED BY <2>1, <2>2 DEF RowsHaveObjects
<1>3. AssetsInv => OrphansComeFromFaults
  <2> SUFFICES ASSUME AssetsInv, faults = 0, crashes = 0, NEW k \in blobs, row[k] = 0
               PROVE  \/ \E l \in Loops : task[l].key = k /\ task[l].at = "record"
                      \/ \E u \in Uploads : k = UploadKey(u) /\ upload[u] \in {"record", "undo"}
    BY DEF OrphansComeFromFaults
  <2>1. CASE k \in ThumbnailKeys
    BY <2>1 DEF AssetsInv, ThumbnailFits
  <2>2. CASE k \notin ThumbnailKeys
    <3>1. PICK u \in Uploads : k = UploadKey(u)
      BY <2>2 DEF AssetsInv, AssetsTyped, Keys, UploadKey
    <3>2. UploadFits(u) /\ upload[u] \in UploadStates
      BY DEF AssetsInv, AssetsTyped
    <3> QED BY <3>1, <3>2 DEF UploadFits, UploadStates
  <2> QED BY <2>1, <2>2
<1> QED BY <1>1, <1>2, <1>3, AssetsAlwaysFit, PTL DEF StorageMatchesRows

-----------------------------------------------------------------------------
(* What holds however renames and loops interleave.                        *)

\* A loop has what its calls need.
Equipped(t) ==
  /\ t.at \in {"put", "record", "point", "mark"} => t.key \in ThumbnailKeys
  /\ t.at \in {"point", "mark"} => t.id # None
  /\ t.at = "mark" => t.previous # None

\* Pointers and marks are of rows that exist, and what an upload stored is as
\* its step says.
RowsInv ==
  /\ AssetsTyped
  /\ \A l \in Loops : Equipped(task[l])
  /\ \A k \in marked : row[k] # 0
  /\ \A s \in Slots : shown[s] # None => Exists(shown[s])
  /\ \A u \in Uploads : UploadFits(u)

\* A step that neither touches the tables and the storage nor an upload.
LEMMA ApartFromRows ==
  ASSUME RowsInv, UNCHANGED <<storeVars, shown, upload>>,
         task' \in [Loops -> TaskType], \A l \in Loops : Equipped(task'[l]),
         name' \in Names, cleanup' \subseteq Ids, purged' \in BOOLEAN,
         reading' \in [Readers -> ReaderType],
         faults' \in Nat, faults' >= faults, crashes' \in Nat, crashes' >= crashes
  PROVE  RowsInv'
<1>1. /\ AssetsTyped /\ \A k \in marked : row[k] # 0
      /\ \A s \in Slots : shown[s] # None => Exists(shown[s])
      /\ faults \in Nat /\ crashes \in Nat
  BY DEF RowsInv, AssetsTyped
<1>2. AssetsTyped' /\ (\A k \in marked : row[k] # 0)'
  BY <1>1 DEF AssetsTyped, storeVars
<1>3. (\A s \in Slots : shown[s] # None => Exists(shown[s]))'
  BY <1>1 DEF Exists, storeVars
<1>4. ASSUME NEW l \in Loops PROVE Equipped(task[l])'
  <2>1. Equipped(task'[l])
    OBVIOUS
  <2> QED BY <2>1 DEF Equipped
<1>5. ASSUME NEW u \in Uploads PROVE UploadFits(u)'
  <2>1. UploadFits(u)
    BY DEF RowsInv
  <2> QED BY <1>1, <2>1 DEF UploadFits, UploadKey, storeVars
<1> QED BY <1>2, <1>3, <1>4, <1>5 DEF RowsInv

\* A loop's task is replaced.
LEMMA TaskReplaced ==
  ASSUME RowsInv, NEW l \in Loops, NEW t \in TaskType, Equipped(t),
         task' = [task EXCEPT ![l] = t]
  PROVE  task' \in [Loops -> TaskType] /\ \A m \in Loops : Equipped(task'[m])
<1>1. task \in [Loops -> TaskType] /\ \A m \in Loops : Equipped(task[m])
  BY DEF RowsInv, AssetsTyped
<1>2. \A m \in Loops : task'[m] = IF m = l THEN t ELSE task[m]
  BY <1>1
<1>3. task' \in [Loops -> TaskType]
  BY <1>1
<1> QED BY <1>1, <1>2, <1>3

\* A loop that renders, goes on or ends.
LEMMA RendersEquipped ==
  ASSUME RowsInv, NEW l \in Loops, NEW slot \in Slots, NEW n \in Names, Render(l, slot, n)
  PROVE  task' \in [Loops -> TaskType] /\ \A m \in Loops : Equipped(task'[m])
<1> DEFINE k == ThumbnailKey(slot, n)
           t == [IdleTask EXCEPT !.at = "put", !.slot = slot, !.named = n, !.key = k]
<1>1. k \in ThumbnailKeys
  BY KeyFacts
<1>2. task' = [task EXCEPT ![l] = t]
  BY DEF Render
<1> HIDE DEF k
<1>3. t \in TaskType /\ Equipped(t)
  BY <1>1 DEF IdleTask, TaskType, TaskStates, Equipped
<1> HIDE DEF t
<1> QED BY <1>2, <1>3, TaskReplaced

\* A loop that is done with a slot, or failed.
LEMMA EndsEquipped ==
  ASSUME RowsInv, NEW l \in Loops, NEW failed, Ends(l, failed)
  PROVE  task' \in [Loops -> TaskType] /\ \A m \in Loops : Equipped(task'[m])
<1>1. task[l].named \in Names /\ 1 \in Names
  BY AssetBoundAssumption DEF RowsInv, AssetsTyped, TaskType, Names
<1> DEFINE after == [IdleTask EXCEPT !.at = "next", !.named = task[l].named]
<1>2. /\ IdleTask \in TaskType /\ Equipped(IdleTask)
      /\ after \in TaskType /\ Equipped(after)
  BY <1>1 DEF IdleTask, TaskType, TaskStates, Slots, Equipped
<1>3. \E t \in {IdleTask, after} : task' = [task EXCEPT ![l] = t]
  BY DEF Ends
<1> HIDE DEF after
<1> QED BY <1>2, <1>3, TaskReplaced

\* A loop's four calls, whichever fails: a row it makes is not marked, one it
\* marks exists, and one it points to exists.
LEMMA LoopsKeepRows ==
  ASSUME RowsInv, NEW l \in Loops, LoopStep(l) \/ TaskFails(l)
  PROVE  RowsInv'
<1>1. /\ AssetsTyped /\ task[l] \in TaskType /\ Equipped(task[l])
      /\ faults \in Nat /\ crashes \in Nat /\ name \in Names /\ cleanup \subseteq Ids
      /\ purged \in BOOLEAN /\ reading \in [Readers -> ReaderType]
      /\ row \in [Keys -> Nat] /\ made \in [Keys -> Nat] /\ shown \in [Slots -> Ids \cup {None}]
  BY DEF RowsInv, AssetsTyped
<1> DEFINE k == task[l].key
           id == task[l].id
           s == task[l].slot
<1>2. s \in Slots /\ k \in ThumbnailKeys \cup {None} /\ id \in Ids \cup {None}
  BY <1>1 DEF TaskType
<1>3. CASE PutThumbnail(l)
  <2>1. /\ k \in ThumbnailKeys /\ k \in Keys /\ Goes(l, "record") /\ blobs' = blobs \cup {k}
        /\ UNCHANGED <<row, made, marked, old, shown, name, cleanup, purged, upload, reading,
                       faults, crashes>>
    BY <1>1, <1>2, <1>3, KeyFacts DEF PutThumbnail, Equipped, boundVars
  <2> DEFINE t == [task[l] EXCEPT !.at = "record"]
  <2>2. t \in TaskType /\ Equipped(t) /\ task' = [task EXCEPT ![l] = t]
    BY <1>1, <1>2, <1>3, <2>1 DEF Goes, PutThumbnail, TaskType, TaskStates, Equipped
  <2> HIDE DEF t, k, id, s
  <2>3. task' \in [Loops -> TaskType] /\ \A m \in Loops : Equipped(task'[m])
    BY <2>2, TaskReplaced
  <2>4. AssetsTyped'
    BY <1>1, <2>1, <2>3 DEF AssetsTyped
  <2>5. ASSUME NEW u \in Uploads PROVE UploadFits(u)'
    <3>1. UploadKey(u) # k /\ UploadFits(u)
      BY <2>1, KeyFacts DEF RowsInv
    <3> QED BY <2>1, <3>1 DEF UploadFits, UploadKey
  <2> QED BY <2>1, <2>3, <2>4, <2>5 DEF RowsInv, Equipped, Exists
<1>4. CASE createDerivedAssetRecord(l)
  <2> DEFINE g == IF row[k] = 0 THEN made[k] + 1 ELSE row[k]
             new == <<k, g>>
             t == [task[l] EXCEPT !.at = "point", !.id = new]
  <2>1. /\ k \in ThumbnailKeys /\ k \in Keys
        /\ row' = [row EXCEPT ![k] = g]
        /\ made' = [made EXCEPT ![k] = IF row[k] = 0 THEN g ELSE @]
        /\ marked' = marked \ {k} /\ old' = old \ {k}
        /\ task' = [task EXCEPT ![l].at = "point", ![l].id = new]
        /\ UNCHANGED <<blobs, shown, name, cleanup, purged, upload, reading, faults, crashes>>
    BY <1>1, <1>2, <1>4, KeyFacts DEF createDerivedAssetRecord, Equipped, boundVars
  <2>2. g \in Nat \ {0} /\ (row[k] # 0 => g = row[k])
    BY <1>1, <2>1
  <2>3. new \in Ids /\ new # None
    BY <2>1, <2>2, IdFacts
  <2> HIDE DEF new, g
  <2>4. t \in TaskType /\ Equipped(t) /\ task' = [task EXCEPT ![l] = t]
    <3>1. task[l].at = "record" /\ task' = [task EXCEPT ![l] = t]
      BY <1>1, <1>4, <2>1 DEF createDerivedAssetRecord, AssetsTyped
    <3>2. task[l] \in TaskType /\ task[l].key \in ThumbnailKeys
      BY <1>1, <2>1
    <3>3. t \in TaskType /\ t.at = "point" /\ t.key = task[l].key /\ t.id = new
      BY <2>3, <3>2 DEF TaskType, TaskStates
    <3> HIDE DEF t
    <3> QED BY <2>3, <3>1, <3>2, <3>3 DEF Equipped
  <2> HIDE DEF t, k, id, s
  <2>5. task' \in [Loops -> TaskType] /\ \A m \in Loops : Equipped(task'[m])
    BY <2>4, TaskReplaced
  <2>6. AssetsTyped'
    BY <1>1, <2>1, <2>2, <2>5 DEF AssetsTyped
  <2>7. \A j \in Keys : row[j] # 0 => row'[j] = row[j]
    BY <1>1, <2>1, <2>2
  <2>8. \A j \in marked' : row'[j] # 0
    BY <1>1, <2>1, <2>7, KeyFacts DEF RowsInv, AssetsTyped
  <2>9. ASSUME NEW r \in Slots, shown'[r] # None PROVE Exists(shown[r])'
    <3>1. shown[r] \in Ids /\ Exists(shown[r]) /\ shown'[r] = shown[r]
      BY <1>1, <2>1, <2>9 DEF RowsInv
    <3>2. shown[r][1] \in Keys /\ row[shown[r][1]] # 0
      BY <3>1, IdFacts, KeyFacts DEF Exists
    <3> QED BY <2>1, <2>7, <3>1, <3>2 DEF Exists
  <2>10. ASSUME NEW u \in Uploads PROVE UploadFits(u)'
    <3>1. UploadKey(u) # k /\ UploadKey(u) \in Keys /\ UploadFits(u)
      BY <2>1, KeyFacts DEF RowsInv
    <3> QED BY <1>1, <2>1, <3>1 DEF UploadFits, UploadKey
  <2> QED BY <2>5, <2>6, <2>8, <2>9, <2>10 DEF RowsInv, Equipped
<1>5. CASE ReplaceThumbnail(l)
  <2>1. /\ id \in Ids /\ id # None
        /\ UNCHANGED <<storeVars, name, cleanup, purged, upload, reading, faults, crashes>>
    BY <1>1, <1>2, <1>5 DEF ReplaceThumbnail, Equipped, boundVars
  <2>2. CASE ~ Exists(id)
    <3>1. Ends(l, TRUE) /\ UNCHANGED shown
      BY <1>5, <2>2 DEF ReplaceThumbnail
    <3>2. task' \in [Loops -> TaskType] /\ \A m \in Loops : Equipped(task'[m])
      BY <3>1, EndsEquipped
    <3> QED BY <1>1, <2>1, <3>1, <3>2, ApartFromRows
  <2>3. CASE Exists(id)
    <3>1. /\ shown' = [shown EXCEPT ![s] = id]
          /\ \/ Ends(l, FALSE)
             \/ /\ shown[s] # None
                /\ task' = [task EXCEPT ![l].at = "mark", ![l].previous = shown[s]]
      BY <1>5, <2>3 DEF ReplaceThumbnail
    <3>2. task' \in [Loops -> TaskType] /\ \A m \in Loops : Equipped(task'[m])
      <4>1. CASE Ends(l, FALSE)
        BY <4>1, EndsEquipped
      <4>2. CASE /\ shown[s] # None
                 /\ task' = [task EXCEPT ![l].at = "mark", ![l].previous = shown[s]]
        <5> DEFINE previous == shown[s]
        <5>1. previous \in Ids /\ previous # None /\ task[l].at = "point"
          BY <1>1, <1>2, <1>5, <4>2 DEF ReplaceThumbnail
        <5>2. task' = [task EXCEPT ![l].at = "mark", ![l].previous = previous]
          BY <4>2
        <5> HIDE DEF previous
        <5> DEFINE t == [task[l] EXCEPT !.at = "mark", !.previous = previous]
        <5>3. t \in TaskType /\ Equipped(t) /\ task' = [task EXCEPT ![l] = t]
          BY <1>1, <1>2, <5>1, <5>2 DEF TaskType, TaskStates, Equipped
        <5> HIDE DEF t
        <5> QED BY <5>3, TaskReplaced
      <4> QED BY <3>1, <4>1, <4>2
    <3> HIDE DEF k, id, s
    <3>3. AssetsTyped'
      BY <1>1, <1>2, <2>1, <3>1, <3>2 DEF AssetsTyped, storeVars
    <3>4. ASSUME NEW r \in Slots, shown'[r] # None PROVE Exists(shown[r])'
      <4>1. shown'[r] = id \/ (shown'[r] = shown[r] /\ Exists(shown[r]))
        BY <1>1, <1>2, <3>1, <3>4 DEF RowsInv
      <4> QED BY <2>1, <2>3, <4>1 DEF Exists, storeVars
    <3>5. ASSUME NEW u \in Uploads PROVE UploadFits(u)'
      BY <2>1 DEF RowsInv, UploadFits, UploadKey, storeVars
    <3> QED BY <2>1, <3>2, <3>3, <3>4, <3>5 DEF RowsInv, Equipped, storeVars
  <2> QED BY <2>2, <2>3
<1>6. CASE markAssetDeleted(l)
  <2> DEFINE p == task[l].previous
  <2>1. /\ p \in Ids /\ marked' = (IF Exists(p) THEN marked \cup {p[1]} ELSE marked)
        /\ Ends(l, FALSE)
        /\ UNCHANGED <<blobs, row, made, old, shown, name, cleanup, purged, upload, reading,
                       faults, crashes>>
    BY <1>1, <1>6 DEF markAssetDeleted, Equipped, TaskType, boundVars
  <2>2. task' \in [Loops -> TaskType] /\ \A m \in Loops : Equipped(task'[m])
    BY <2>1, EndsEquipped
  <2>3. p[1] \in ThumbnailKeys /\ (Exists(p) => row[p[1]] # 0)
    BY <2>1, IdFacts DEF Exists
  <2> HIDE DEF p, k, id, s
  <2>4. AssetsTyped'
    BY <1>1, <2>1, <2>2, <2>3 DEF AssetsTyped
  <2>5. (\A j \in marked : row[j] # 0)'
    BY <2>1, <2>3 DEF RowsInv
  <2>6. (\A r \in Slots : shown[r] # None => Exists(shown[r]))'
    BY <2>1 DEF RowsInv, Exists
  <2>7. ASSUME NEW u \in Uploads PROVE UploadFits(u)'
    BY <2>1 DEF RowsInv, UploadFits, UploadKey
  <2> QED BY <2>2, <2>4, <2>5, <2>6, <2>7 DEF RowsInv, Equipped
<1>7. CASE TaskFails(l)
  <2>1. /\ Ends(l, TRUE) /\ faults' = faults + 1
        /\ UNCHANGED <<storeVars, shown, name, cleanup, purged, upload, reading, crashes>>
    BY <1>7 DEF TaskFails
  <2>2. task' \in [Loops -> TaskType] /\ \A m \in Loops : Equipped(task'[m])
    BY <2>1, EndsEquipped
  <2> QED BY <1>1, <2>1, <2>2, ApartFromRows
<1> QED BY <1>3, <1>4, <1>5, <1>6, <1>7 DEF LoopStep

\* A loop looks for what to render, or refreshes what an export showed.
LEMMA TickKeepsRows ==
  ASSUME RowsInv, ThumbnailTick \/ RefreshAfterExport
  PROVE  RowsInv'
<1>1. /\ faults \in Nat /\ crashes \in Nat /\ name \in Names /\ cleanup \subseteq Ids
      /\ purged \in BOOLEAN /\ reading \in [Readers -> ReaderType]
      /\ task["export"].named \in Names
      /\ {"thumbnail", "export"} \subseteq Loops /\ {"page", "file"} \subseteq Slots
  BY DEF RowsInv, AssetsTyped, TaskType, Loops, Slots
<1>2. UNCHANGED <<storeVars, shown, name, cleanup, purged, upload, reading, faults, crashes>>
  BY DEF ThumbnailTick, RefreshAfterExport, boundVars
<1>3. task' \in [Loops -> TaskType] /\ \A m \in Loops : Equipped(task'[m])
  <2>1. CASE \E l \in Loops, slot \in Slots, n \in Names : Render(l, slot, n)
    BY <2>1, RendersEquipped
  <2>2. CASE task' = [task EXCEPT !["thumbnail"] = IdleTask]
    <3>1. IdleTask \in TaskType /\ Equipped(IdleTask)
      BY AssetBoundAssumption DEF IdleTask, TaskType, TaskStates, Slots, Names, Equipped
    <3> QED BY <1>1, <2>2, <3>1, TaskReplaced
  <2> QED BY <1>1, <2>1, <2>2 DEF ThumbnailTick, RefreshAfterExport
<1> QED BY <1>1, <1>2, <1>3, ApartFromRows

\* Time passes; the cleanup lists marked rows, deletes the object and the row
\* of one, and with the row every pointer to it.
LEMMA CleanupKeepsRows ==
  ASSUME RowsInv, CleanupStep \/ CleanupFails \/ \E k \in ThumbnailKeys : Age(k)
  PROVE  RowsInv'
<1>1. /\ AssetsTyped /\ \A l \in Loops : Equipped(task[l])
      /\ \A k \in marked : row[k] # 0
      /\ \A s \in Slots : shown[s] # None => Exists(shown[s])
      /\ \A u \in Uploads : UploadFits(u)
      /\ faults \in Nat /\ crashes \in Nat /\ name \in Names /\ cleanup \subseteq Ids
      /\ purged \in BOOLEAN /\ reading \in [Readers -> ReaderType]
      /\ task \in [Loops -> TaskType] /\ row \in [Keys -> Nat]
      /\ shown \in [Slots -> Ids \cup {None}] /\ old \subseteq marked
      /\ marked \subseteq ThumbnailKeys
  BY DEF RowsInv, AssetsTyped
<1>2. cleanup # {} => AtHand \in Ids /\ AtHand[1] \in ThumbnailKeys
  <2>1. cleanup # {} => AtHand \in cleanup
    BY DEF AtHand
  <2> QED BY <1>1, <2>1, IdFacts
<1>3. ASSUME NEW k \in ThumbnailKeys, Age(k) PROVE RowsInv'
  <2>1. /\ k \in marked /\ old' = old \cup {k}
        /\ UNCHANGED <<blobs, row, made, marked, shown, name, task, cleanup, purged, upload,
                       reading, faults, crashes>>
    BY <1>3 DEF Age, boundVars
  <2>2. AssetsTyped'
    BY <1>1, <2>1 DEF AssetsTyped
  <2>3. \A u \in Uploads : UploadFits(u)'
    BY <1>1, <2>1 DEF UploadFits, UploadKey
  <2> QED BY <1>1, <2>1, <2>2, <2>3 DEF RowsInv, Exists, Equipped
<1>4. CASE listDeletedThumbnailAssetsForCleanup
  <2>1. /\ UNCHANGED <<storeVars, shown, name, task, purged, upload, reading, faults, crashes>>
        /\ \A id \in cleanup' : \E k \in old : id = <<k, row[k]>>
    BY <1>4 DEF listDeletedThumbnailAssetsForCleanup, boundVars
  <2>2. \A k \in old : k \in ThumbnailKeys /\ row[k] \in Nat \ {0}
    BY <1>1, KeyFacts
  <2>3. cleanup' \subseteq Ids
    BY <2>1, <2>2, IdFacts
  <2> QED BY <1>1, <2>1, <2>3, ApartFromRows
<1>5. CASE CleanupFails
  <2>1. /\ UNCHANGED <<storeVars, shown, name, task, upload, reading, crashes>>
        /\ cleanup' = {} /\ purged' = FALSE /\ faults' = faults + 1
    BY <1>5 DEF CleanupFails
  <2>2. /\ task' \in [Loops -> TaskType] /\ (\A l \in Loops : Equipped(task'[l]))
        /\ name' \in Names /\ cleanup' \subseteq Ids
        /\ reading' \in [Readers -> ReaderType]
        /\ faults' \in Nat /\ faults' >= faults /\ crashes' \in Nat /\ crashes' >= crashes
    BY <1>1, <2>1
  <2>3. purged' \in BOOLEAN
    BY <2>1
  <2> QED BY <2>1, <2>2, <2>3, ApartFromRows
<1>6. CASE PurgeObject
  <2> DEFINE k == AtHand[1]
  <2>1. /\ k \in ThumbnailKeys /\ purged' = TRUE
        /\ \/ blobs' = blobs \ {k} /\ faults' = faults
           \/ faults' = faults + 1 /\ blobs' = blobs
        /\ UNCHANGED <<row, made, marked, old, shown, name, task, cleanup, upload, reading,
                       crashes>>
    BY <1>2, <1>6 DEF PurgeObject, AtHand
  <2> HIDE DEF k
  <2>2. faults' \in Nat /\ faults' >= faults /\ blobs' \subseteq blobs
    BY <1>1, <2>1
  <2>3. AssetsTyped'
    BY <1>1, <2>1, <2>2 DEF AssetsTyped
  <2>4. ASSUME NEW u \in Uploads PROVE UploadFits(u)'
    <3>1. UploadKey(u) # k /\ UploadFits(u)
      BY <1>1, <2>1, KeyFacts
    <3> QED BY <1>1, <2>1, <2>2, <3>1 DEF UploadFits, UploadKey
  <2> QED BY <1>1, <2>1, <2>3, <2>4 DEF RowsInv, Exists, Equipped
<1>7. CASE hardDeleteAssetRecord
  <2> DEFINE id == AtHand
             k == AtHand[1]
  <2>1. /\ id \in Ids /\ k \in ThumbnailKeys /\ k \in Keys
        /\ purged' = FALSE /\ cleanup' = cleanup \ {id}
        /\ UNCHANGED <<blobs, made, name, task, upload, reading, faults, crashes>>
        /\ \/ /\ Exists(id) /\ row' = [row EXCEPT ![k] = 0]
              /\ marked' = marked \ {k} /\ old' = old \ {k}
              /\ shown' = [s \in Slots |-> IF shown[s] = id THEN None ELSE shown[s]]
           \/ UNCHANGED <<row, marked, old, shown>>
    BY <1>2, <1>7, KeyFacts DEF hardDeleteAssetRecord, AtHand, boundVars
  <2>2. id = <<k, id[2]>> /\ (Exists(id) <=> row[k] = id[2])
    BY <2>1, IdFacts DEF Exists
  <2> HIDE DEF id, k
  <2>3. AssetsTyped'
    <3>1. row' \in [Keys -> Nat] /\ shown' \in [Slots -> Ids \cup {None}]
      BY <1>1, <2>1
    <3>2. old' \subseteq marked' /\ marked' \subseteq ThumbnailKeys
      BY <1>1, <2>1
    <3> QED BY <1>1, <2>1, <3>1, <3>2 DEF AssetsTyped
  <2>4. \A j \in Keys : j # k => row'[j] = row[j]
    BY <1>1, <2>1
  <2>5. \A j \in marked' : row'[j] # 0
    BY <1>1, <2>1, <2>4, KeyFacts
  <2>6. ASSUME NEW s \in Slots, shown'[s] # None PROVE Exists(shown[s])'
    <3>1. shown'[s] = shown[s] /\ shown[s] # None /\ shown[s] \in Ids /\ Exists(shown[s])
      BY <1>1, <2>1, <2>6
    <3>2. shown[s][1] \in Keys /\ shown[s] = <<shown[s][1], shown[s][2]>>
          /\ row[shown[s][1]] = shown[s][2]
      BY <3>1, IdFacts, KeyFacts DEF Exists
    <3>3. CASE UNCHANGED row
      BY <3>1, <3>3 DEF Exists
    <3>4. CASE Exists(id) /\ shown' = [r \in Slots |-> IF shown[r] = id THEN None ELSE shown[r]]
      <4>1. shown[s] # id
        BY <2>6, <3>4
      <4>2. shown[s][1] # k
        BY <2>2, <3>2, <3>4, <4>1
      <4>3. row'[shown[s][1]] = shown[s][2]
        BY <2>4, <3>2, <4>2
      <4> QED BY <3>1, <4>3 DEF Exists
    <3> QED BY <2>1, <3>3, <3>4
  <2>7. ASSUME NEW u \in Uploads PROVE UploadFits(u)'
    <3>1. UploadKey(u) # k /\ UploadKey(u) \in Keys /\ UploadFits(u)
      BY <1>1, <2>1, KeyFacts
    <3> QED BY <2>1, <2>4, <3>1 DEF UploadFits, UploadKey
  <2> QED BY <1>1, <2>1, <2>3, <2>5, <2>6, <2>7 DEF RowsInv, Equipped
<1> QED BY <1>3, <1>4, <1>5, <1>6, <1>7 DEF CleanupStep

\* What an upload's step leaves is as its next step expects.
LEMMA UploadStepFits ==
  ASSUME NEW u \in Uploads, UploadStep(u), UploadFits(u), row \in [Keys -> Nat],
         upload \in [Uploads -> UploadStates], faults \in Nat
  PROVE  UploadFits(u)'
<1> DEFINE k == UploadKey(u)
<1>1. k \in Keys
  BY KeyFacts
<1>2. CASE PutUpload(u)
  <2>1. /\ upload[u] = "idle" /\ row' = row /\ crashes' = crashes
        /\ \/ k \in blobs' /\ upload'[u] = "record" /\ faults' = faults
           \/ upload'[u] = "failed" /\ faults' = faults + 1
    BY <1>2 DEF PutUpload, UploadGoes
  <2> QED BY <2>1 DEF UploadFits, UploadKey
<1>3. CASE createAsset(u)
  <2>1. /\ upload[u] = "record" /\ blobs' = blobs
        /\ \/ upload'[u] = "done" /\ row'[k] = 1
           \/ upload'[u] = "lost" /\ row'[k] = 1 /\ faults' = faults + 1
           \/ upload'[u] = "undo" /\ row' = row
    BY <1>1, <1>3 DEF createAsset, UploadGoes
  <2> QED BY <2>1 DEF UploadFits, UploadKey
<1>4. CASE UndoUpload(u)
  <2>1. /\ upload[u] \in {"undo", "lost"} /\ row' = row /\ upload'[u] = "failed"
        /\ crashes' = crashes
        /\ \/ blobs' = blobs \ {k} /\ faults' = faults
           \/ faults' = faults + 1
    BY <1>4 DEF UndoUpload, UploadGoes
  <2> QED BY <2>1 DEF UploadFits, UploadKey
<1> QED BY <1>2, <1>3, <1>4 DEF UploadStep

\* An upload touches its own key only.
LEMMA UploadsKeepRows ==
  ASSUME RowsInv, NEW u \in Uploads, UploadStep(u)
  PROVE  RowsInv'
<1> DEFINE k == UploadKey(u)
<1>1. /\ AssetsTyped /\ \A l \in Loops : Equipped(task[l])
      /\ \A j \in marked : row[j] # 0
      /\ \A s \in Slots : shown[s] # None => Exists(shown[s])
      /\ \A v \in Uploads : UploadFits(v)
      /\ k \in Keys /\ blobs \subseteq Keys /\ row \in [Keys -> Nat]
      /\ upload \in [Uploads -> UploadStates] /\ faults \in Nat
      /\ shown \in [Slots -> Ids \cup {None}] /\ marked \subseteq ThumbnailKeys
  BY KeyFacts DEF RowsInv, AssetsTyped
<1>2. UNCHANGED <<made, marked, old, shown, name, task, cleanup, purged, reading, crashes>>
  BY DEF UploadStep, PutUpload, createAsset, UndoUpload
<1>3. /\ blobs' \subseteq Keys /\ row' \in [Keys -> Nat]
      /\ \A j \in Keys : j # k => (j \in blobs' <=> j \in blobs) /\ row'[j] = row[j]
  BY <1>1 DEF UploadStep, PutUpload, createAsset, UndoUpload
<1>4. /\ upload' \in [Uploads -> UploadStates] /\ faults' \in Nat /\ faults' >= faults
      /\ \A v \in Uploads : v # u => upload'[v] = upload[v]
  BY <1>1 DEF UploadStep, PutUpload, createAsset, UndoUpload, UploadGoes, UploadStates
<1>5. UploadFits(u)'
  BY UploadStepFits, <1>1 DEF UploadStep
<1> HIDE DEF k
<1>6. AssetsTyped'
  BY <1>1, <1>2, <1>3, <1>4 DEF AssetsTyped
<1>7. \A j \in ThumbnailKeys : row'[j] = row[j]
  BY <1>3, KeyFacts DEF k
<1>8. (\A j \in marked : row[j] # 0)'
  BY <1>1, <1>2, <1>7
<1>9. ASSUME NEW s \in Slots, shown'[s] # None PROVE Exists(shown[s])'
  <2>1. shown[s] \in Ids /\ Exists(shown[s]) /\ shown'[s] = shown[s]
    BY <1>1, <1>2, <1>9
  <2>2. shown[s][1] \in ThumbnailKeys
    BY <2>1, IdFacts
  <2> QED BY <1>7, <2>1, <2>2 DEF Exists
<1>10. ASSUME NEW v \in Uploads PROVE UploadFits(v)'
  <2>1. CASE v # u
    <3>1. UploadKey(v) \in Keys /\ UploadKey(v) # k /\ UploadFits(v)
      BY <1>1, <2>1, KeyFacts DEF k
    <3> QED BY <1>1, <1>2, <1>3, <1>4, <2>1, <3>1 DEF UploadFits, UploadKey
  <2> QED BY <1>5, <2>1
<1> QED BY <1>1, <1>2, <1>6, <1>8, <1>9, <1>10 DEF RowsInv, Equipped

\* A reader changes nothing but itself.
LEMMA ReadersKeepRows ==
  ASSUME RowsInv, NEW r \in Readers, ReaderStep(r)
  PROVE  RowsInv'
<1> DEFINE q == reading[r]
<1>1. /\ \A l \in Loops : Equipped(task[l])
      /\ faults \in Nat /\ crashes \in Nat /\ name \in Names /\ cleanup \subseteq Ids
      /\ purged \in BOOLEAN /\ reading \in [Readers -> ReaderType]
      /\ task \in [Loops -> TaskType] /\ q \in ReaderType
      /\ shown \in [Slots -> Ids \cup {None}]
  BY DEF RowsInv, AssetsTyped
<1>2. UNCHANGED <<storeVars, shown, name, task, cleanup, purged, upload, faults, crashes>>
  BY DEF ReaderStep, ReadPointer, LaunchpadThumbnail, getAuthorizedAsset, ReadObject, boundVars
<1>3. \E t \in ReaderType : reading' = [reading EXCEPT ![r] = t]
  <2>1. ASSUME NEW slot \in Slots, ReadPointer(r, slot)
        PROVE  \E t \in ReaderType : reading' = [reading EXCEPT ![r] = t]
    <3> DEFINE id == shown[slot]
               t == [IdleReader EXCEPT !.at = "url", !.slot = slot, !.id = id]
    <3>1. id \in Ids \cup {None} /\ reading' = [reading EXCEPT ![r] = t]
      BY <1>1, <2>1 DEF ReadPointer
    <3> HIDE DEF id
    <3>2. t \in ReaderType
      BY <3>1 DEF IdleReader, ReaderType, ReaderStates
    <3> QED BY <3>1, <3>2
  <2>2. ASSUME NEW where \in {"content", "read"}, Reads(r, where)
        PROVE  \E t \in ReaderType : reading' = [reading EXCEPT ![r] = t]
    <3> DEFINE t == [q EXCEPT !.at = where]
    <3>1. reading' = [reading EXCEPT ![r] = t]
      BY <2>2 DEF Reads
    <3> HIDE DEF q
    <3>2. t \in ReaderType
      BY <1>1, <2>2 DEF ReaderType, ReaderStates
    <3> QED BY <3>1, <3>2
  <2>3. CASE Replies(r, 404)
    <3> DEFINE t == [q EXCEPT !.at = "done", !.reply = 404]
    <3>1. reading' = [reading EXCEPT ![r] = t]
      BY <2>3 DEF Replies
    <3> HIDE DEF q
    <3>2. t \in ReaderType
      BY <1>1, RefusedReader
    <3> QED BY <3>1, <3>2
  <2>4. CASE reading' = [reading EXCEPT ![r] = IdleReader]
    <3>1. IdleReader \in ReaderType
      BY DEF IdleReader, ReaderType, ReaderStates, Slots
    <3> QED BY <2>4, <3>1
  <2> QED BY <2>1, <2>2, <2>3, <2>4
          DEF ReaderStep, LaunchpadThumbnail, getAuthorizedAsset, ReadObject
<1>4. reading' \in [Readers -> ReaderType]
  BY <1>1, <1>3
<1>5. /\ task' \in [Loops -> TaskType] /\ (\A l \in Loops : Equipped(task'[l]))
      /\ name' \in Names /\ cleanup' \subseteq Ids /\ purged' \in BOOLEAN
      /\ faults' \in Nat /\ faults' >= faults /\ crashes' \in Nat /\ crashes' >= crashes
  BY <1>1, <1>2
<1> QED BY <1>2, <1>4, <1>5, ApartFromRows

\* A rename, the end of the worker, the end of the API.
LEMMA RenamesKeepRows ==
  ASSUME RowsInv, RenameFile \/ WorkerCrash \/ ApiCrash
  PROVE  RowsInv'
<1>1. /\ \A l \in Loops : Equipped(task[l])
      /\ faults \in Nat /\ crashes \in Nat /\ name \in Names /\ cleanup \subseteq Ids
      /\ purged \in BOOLEAN /\ reading \in [Readers -> ReaderType]
      /\ task \in [Loops -> TaskType] /\ AssetsTyped
      /\ \A j \in marked : row[j] # 0
      /\ \A s \in Slots : shown[s] # None => Exists(shown[s])
      /\ upload \in [Uploads -> UploadStates]
  BY DEF RowsInv, AssetsTyped
<1>2. CASE RenameFile
  <2>1. /\ UNCHANGED <<storeVars, shown, task, cleanup, purged, upload, reading, faults, crashes>>
        /\ name < MaxName /\ name' = name + 1
    BY <1>2 DEF RenameFile, boundVars
  <2>2. name' \in Names
    BY <1>1, <2>1, AssetBoundAssumption DEF Names
  <2>3. /\ task' \in [Loops -> TaskType] /\ (\A l \in Loops : Equipped(task'[l]))
        /\ cleanup' \subseteq Ids /\ purged' \in BOOLEAN
        /\ reading' \in [Readers -> ReaderType]
        /\ faults' \in Nat /\ faults' >= faults /\ crashes' \in Nat /\ crashes' >= crashes
    BY <1>1, <2>1
  <2> QED BY <2>1, <2>2, <2>3, ApartFromRows
<1>3. CASE WorkerCrash
  <2>1. /\ UNCHANGED <<storeVars, shown, name, upload, reading, faults>>
        /\ task' = [l \in Loops |-> IdleTask] /\ cleanup' = {} /\ purged' = FALSE
        /\ crashes' = crashes + 1
    BY <1>3 DEF WorkerCrash
  <2>2. IdleTask \in TaskType /\ Equipped(IdleTask)
    BY AssetBoundAssumption DEF IdleTask, TaskType, TaskStates, Slots, Names, Equipped
  <2>3. task' \in [Loops -> TaskType] /\ (\A l \in Loops : Equipped(task'[l]))
    BY <2>1, <2>2
  <2>4. /\ name' \in Names /\ cleanup' \subseteq Ids
        /\ reading' \in [Readers -> ReaderType]
        /\ faults' \in Nat /\ faults' >= faults /\ crashes' \in Nat /\ crashes' >= crashes
    BY <1>1, <2>1
  <2>5. purged' \in BOOLEAN
    BY <2>1
  <2> QED BY <2>1, <2>3, <2>4, <2>5, ApartFromRows
<1>4. CASE ApiCrash
  <2>1. /\ UNCHANGED <<storeVars, shown, name, task, cleanup, purged, reading, faults>>
        /\ crashes' = crashes + 1
        /\ upload' = [u \in Uploads |->
                        IF upload[u] \in {"idle", "done"} THEN upload[u] ELSE "failed"]
    BY <1>4 DEF ApiCrash
  <2>2. AssetsTyped'
    BY <1>1, <2>1 DEF AssetsTyped, UploadStates, storeVars
  <2>3. ASSUME NEW u \in Uploads PROVE UploadFits(u)'
    <3>1. UploadFits(u)
      BY DEF RowsInv
    <3>2. upload'[u] = IF upload[u] \in {"idle", "done"} THEN upload[u] ELSE "failed"
      BY <2>1
    <3> QED BY <1>1, <2>1, <3>1, <3>2 DEF UploadFits, UploadKey, UploadStates, storeVars
  <2>4. (\A l \in Loops : Equipped(task[l]))' /\ (\A j \in marked : row[j] # 0)'
        /\ (\A s \in Slots : shown[s] # None => Exists(shown[s]))'
    BY <1>1, <2>1 DEF Equipped, Exists, storeVars
  <2> QED BY <2>2, <2>3, <2>4 DEF RowsInv
<1> QED BY <1>2, <1>3, <1>4

\* At first nothing is stored.
LEMMA RowsInitFit ==
  ASSUME AssetsInit
  PROVE  RowsInv
<1>1. /\ IdleTask \in TaskType /\ Equipped(IdleTask) /\ 1 \in Names
      /\ IdleReader \in ReaderType
  BY AssetBoundAssumption
     DEF IdleTask, TaskType, TaskStates, Slots, Names, IdleReader, ReaderType, ReaderStates,
         Equipped
<1>2. AssetsTyped
  BY <1>1 DEF AssetsInit, AssetsTyped, UploadStates
<1>3. \A u \in Uploads : UploadFits(u)
  BY KeyFacts DEF AssetsInit, UploadFits
<1>4. (\A l \in Loops : Equipped(task[l])) /\ (\A k \in marked : row[k] # 0)
      /\ \A s \in Slots : shown[s] # None => Exists(shown[s])
  BY <1>1 DEF AssetsInit
<1> QED BY <1>2, <1>3, <1>4 DEF RowsInv

\* The row of an upload has its object, unless the reply to its commit was
\* lost; without an error or a crash its object has a row, is about to get
\* it, or is taken back.
UploadedObjectsMatch ==
  \A u \in Uploads :
    /\ row[UploadKey(u)] # 0 /\ UploadKey(u) \notin blobs => upload[u] = "failed" /\ faults > 0
    /\ faults = 0 /\ crashes = 0 /\ UploadKey(u) \in blobs /\ row[UploadKey(u)] = 0 =>
         upload[u] \in {"record", "undo"}

\* However renames, refreshes and the cleanup interleave, a pointer to a
\* thumbnail is to a row that exists, and the rows of uploads and their
\* objects agree but for what an error left behind.
THEOREM PointersAlwaysExist ==
  AssetsSpec => [](AssetsTypeOK /\ UploadedObjectsMatch)
<1>1. RowsInv /\ [AssetsNext]_assetVars => RowsInv'
  <2> SUFFICES ASSUME RowsInv, [AssetsNext]_assetVars PROVE RowsInv'
    OBVIOUS
  <2>1. CASE UNCHANGED assetVars
    BY <2>1 DEF assetVars, RowsInv, AssetsTyped, Equipped, UploadFits, UploadKey, Exists
  <2>2. ASSUME NEW l \in Loops, LoopStep(l) \/ TaskFails(l) PROVE RowsInv'
    BY <2>2, LoopsKeepRows
  <2> QED BY <2>1, <2>2, TickKeepsRows, CleanupKeepsRows, UploadsKeepRows, ReadersKeepRows,
             RenamesKeepRows DEF AssetsNext
<1>2. RowsInv => AssetsTypeOK
  <2> SUFFICES ASSUME RowsInv PROVE AssetsTypeOK
    OBVIOUS
  <2> QED BY DEF RowsInv, Equipped, AssetsTyped, AssetsTypeOK, Names
<1>3. RowsInv => UploadedObjectsMatch
  <2> SUFFICES ASSUME RowsInv, NEW u \in Uploads
               PROVE  /\ row[UploadKey(u)] # 0 /\ UploadKey(u) \notin blobs =>
                            upload[u] = "failed" /\ faults > 0
                      /\ faults = 0 /\ crashes = 0 /\ UploadKey(u) \in blobs
                            /\ row[UploadKey(u)] = 0 => upload[u] \in {"record", "undo"}
    BY DEF UploadedObjectsMatch
  <2>1. UploadFits(u) /\ upload[u] \in UploadStates /\ faults \in Nat
    BY DEF RowsInv, AssetsTyped
  <2> QED BY <2>1 DEF UploadFits, UploadStates
<1> QED BY <1>1, <1>2, <1>3, RowsInitFit, PTL DEF AssetsSpec

-----------------------------------------------------------------------------
(* Sequences.                                                              *)

\* A set of natural numbers that is not empty has a smallest member.
LEMMA LeastMember ==
  ASSUME NEW U \in SUBSET Nat, U # {}
  PROVE  \E m \in U : \A u \in U : m <= u
<1>1. IsWellFoundedOn(OpToRel(<, Nat), Nat)
  BY NatLessThanWellFounded
<1>2. PICK m \in U : \A u \in U : <<u, m>> \notin OpToRel(<, Nat)
  BY <1>1, WFMin
<1>3. \A u \in U : ~ (u < m)
  BY <1>2 DEF OpToRel
<1> QED BY <1>3

\* The least of a set of numbers is in it and below all.
LEMMA MinIs ==
  ASSUME NEW U \in SUBSET Nat, U # {}
  PROVE  Min(U) \in U /\ \A u \in U : Min(U) <= u
<1>1. \E m \in U : \A u \in U : m =< u
  BY LeastMember
<1> QED BY <1>1 DEF Min

\* Counting up to n, a set that has its first number and with a number the
\* next has all.
LEMMA CountUp ==
  ASSUME NEW n \in Nat, NEW U, 0 \in U, \A k \in 1 .. n : k - 1 \in U => k \in U
  PROVE  0 .. n \subseteq U
<1>1. SUFFICES ASSUME (0 .. n) \ U # {} PROVE FALSE
  OBVIOUS
<1>2. PICK m \in (0 .. n) \ U : \A u \in (0 .. n) \ U : m <= u
  <2>1. (0 .. n) \ U \in SUBSET Nat
    OBVIOUS
  <2> QED BY <1>1, <2>1, LeastMember
<1>3. m \in 1 .. n /\ m - 1 \in 0 .. n /\ ~ (m <= m - 1)
  BY <1>2
<1>4. m - 1 \in U
  BY <1>2, <1>3
<1> QED BY <1>2, <1>3, <1>4

Text == Seq(Tokens)

\* What a concatenation is.
LEMMA JoinIs ==
  ASSUME NEW T, NEW s \in Seq(T), NEW t \in Seq(T)
  PROVE  /\ s \o t \in Seq(T) /\ Len(s \o t) = Len(s) + Len(t)
         /\ Len(s) \in Nat /\ Len(t) \in Nat
         /\ \A i \in 1 .. Len(s) : (s \o t)[i] = s[i]
         /\ \A i \in 1 .. Len(t) : (s \o t)[Len(s) + i] = t[i]
<1>1. Len(s) \in Nat /\ Len(t) \in Nat
  BY LenProperties
<1>2. /\ s \o t \in Seq(T) /\ Len(s \o t) = Len(s) + Len(t)
      /\ \A i \in 1 .. Len(s) + Len(t) :
           (s \o t)[i] = IF i <= Len(s) THEN s[i] ELSE t[i - Len(s)]
  BY ConcatProperties
<1>3. ASSUME NEW i \in 1 .. Len(s) PROVE (s \o t)[i] = s[i]
  BY <1>1, <1>2
<1>4. ASSUME NEW i \in 1 .. Len(t) PROVE (s \o t)[Len(s) + i] = t[i]
  <2>1. /\ Len(s) + i \in 1 .. Len(s) + Len(t) /\ ~ (Len(s) + i <= Len(s))
        /\ (Len(s) + i) - Len(s) = i
    BY <1>1
  <2> QED BY <1>2, <2>1
<1> QED BY <1>1, <1>2, <1>3, <1>4

\* What the tokens after the c-th up to the d-th are.
LEMMA SliceIs ==
  ASSUME NEW T, NEW s \in Seq(T), NEW c \in Nat, NEW d \in Nat, c <= d, d <= Len(s)
  PROVE  /\ SubSeq(s, c + 1, d) \in Seq(T) /\ Len(SubSeq(s, c + 1, d)) = d - c
         /\ \A i \in 1 .. d - c : SubSeq(s, c + 1, d)[i] = s[c + i]
<1>1. /\ Len(s) \in Nat /\ c + 1 \in Int /\ \A i \in c + 1 .. d : s[i] \in T
      /\ (IF c + 1 <= d THEN d - (c + 1) + 1 ELSE 0) = d - c /\ d - (c + 1) + 1 = d - c
  BY LenProperties
<1>2. /\ SubSeq(s, c + 1, d) \in Seq(T)
      /\ Len(SubSeq(s, c + 1, d)) = IF c + 1 <= d THEN d - (c + 1) + 1 ELSE 0
      /\ \A i \in 1 .. d - (c + 1) + 1 : SubSeq(s, c + 1, d)[i] = s[(c + 1) + i - 1]
  BY <1>1, SubSeqProperties
<1>3. \A i \in 1 .. d - c : (c + 1) + i - 1 = c + i
  OBVIOUS
<1> QED BY <1>1, <1>2, <1>3

\* Slices of a slice, and two that meet.
LEMMA SliceOfSlice ==
  ASSUME NEW T, NEW s \in Seq(T), NEW c \in Nat, NEW d \in Nat, c <= d, d <= Len(s),
         NEW e \in Nat, NEW f \in Nat, e <= f, f <= d - c
  PROVE  SubSeq(SubSeq(s, c + 1, d), e + 1, f) = SubSeq(s, (c + e) + 1, c + f)
<1> DEFINE t == SubSeq(s, c + 1, d)
           u == SubSeq(t, e + 1, f)
           v == SubSeq(s, (c + e) + 1, c + f)
<1>1. Len(s) \in Nat
  BY LenProperties
<1>2. t \in Seq(T) /\ Len(t) = d - c /\ \A i \in 1 .. d - c : t[i] = s[c + i]
  BY SliceIs
<1> HIDE DEF t
<1>3. u \in Seq(T) /\ Len(u) = f - e /\ \A i \in 1 .. f - e : u[i] = t[e + i]
  BY <1>2, SliceIs
<1>4. c + e \in Nat /\ c + f \in Nat /\ c + e <= c + f /\ c + f <= Len(s)
  BY <1>1
<1>5. /\ v \in Seq(T) /\ Len(v) = (c + f) - (c + e)
      /\ \A i \in 1 .. (c + f) - (c + e) : v[i] = s[(c + e) + i]
  BY <1>4, SliceIs
<1> HIDE DEF u, v
<1>6. (c + f) - (c + e) = f - e
  OBVIOUS
<1>7. ASSUME NEW i \in 1 .. f - e PROVE u[i] = v[i]
  <2>1. e + i \in 1 .. d - c /\ c + (e + i) = (c + e) + i
    OBVIOUS
  <2> QED BY <1>2, <1>3, <1>5, <1>6, <2>1
<1>8. u = v
  BY <1>3, <1>5, <1>6, <1>7, SeqEqual
<1> QED BY <1>8 DEF t, u, v

\* Two slices that meet are one.
LEMMA SlicesMeet ==
  ASSUME NEW T, NEW s \in Seq(T), NEW c \in Nat, NEW d \in Nat, NEW e \in Nat,
         c <= d, d <= e, e <= Len(s)
  PROVE  SubSeq(s, c + 1, d) \o SubSeq(s, d + 1, e) = SubSeq(s, c + 1, e)
<1>1. Len(s) \in Nat
  BY LenProperties
<1>2. c + 1 \in 1 .. Len(s) + 1 /\ d \in (c + 1) - 1 .. Len(s) /\ e \in d .. Len(s)
  BY <1>1
<1> QED BY <1>2, ConcatAdjacentSubSeq

\* Where a text occurs, its tokens are.
LEMMA MatchesAre ==
  ASSUME NEW s \in Text, NEW t \in Text, NEW i \in 1 .. Len(s), Len(t) > 0
  PROVE  Matches(s, t, i) <=>
           i + Len(t) - 1 <= Len(s) /\ \A j \in 1 .. Len(t) : s[(i - 1) + j] = t[j]
<1>1. Len(s) \in Nat /\ Len(t) \in Nat
  BY LenProperties DEF Text
<1>2. CASE ~ (i + Len(t) - 1 <= Len(s))
  BY <1>2 DEF Matches
<1>3. CASE i + Len(t) - 1 <= Len(s)
  <2> DEFINE c == i - 1
             d == c + Len(t)
             u == SubSeq(s, c + 1, d)
  <2>1. c \in Nat /\ d \in Nat /\ c <= d /\ d <= Len(s) /\ d - c = Len(t)
        /\ c + 1 = i /\ d = i + Len(t) - 1
    BY <1>1, <1>3
  <2>2. u = SubSeq(s, i, i + Len(t) - 1)
    BY <2>1
  <2> HIDE DEF c, d
  <2>3. u \in Seq(Tokens) /\ Len(u) = d - c /\ \A j \in 1 .. d - c : u[j] = s[c + j]
    BY <2>1, SliceIs, SMTT(20) DEF Text
  <2> HIDE DEF u
  <2>4. u = t <=> \A j \in 1 .. Len(t) : u[j] = t[j]
    BY <2>1, <2>3, SeqEqual DEF Text
  <2>5. u = t <=> \A j \in 1 .. Len(t) : s[c + j] = t[j]
    BY <2>1, <2>3, <2>4
  <2> QED BY <1>3, <2>2, <2>5 DEF Matches, c
<1> QED BY <1>2, <1>3

\* A text is the concatenation of two when it has their tokens.
LEMMA JoinsTo ==
  ASSUME NEW s \in Text, NEW t \in Text, NEW u \in Text, Len(u) = Len(s) + Len(t),
         \A i \in 1 .. Len(s) : u[i] = s[i], \A i \in 1 .. Len(t) : u[Len(s) + i] = t[i]
  PROVE  s \o t = u
<1> DEFINE v == s \o t
<1>1. /\ v \in Text /\ Len(v) = Len(s) + Len(t) /\ Len(s) \in Nat /\ Len(t) \in Nat
      /\ \A i \in 1 .. Len(s) : v[i] = s[i]
      /\ \A i \in 1 .. Len(t) : v[Len(s) + i] = t[i]
  BY JoinIs DEF Text
<1> HIDE DEF v
<1>2. ASSUME NEW i \in 1 .. Len(v) PROVE v[i] = u[i]
  <2>1. CASE i <= Len(s)
    <3>1. i \in 1 .. Len(s)
      BY <1>1, <2>1
    <3> QED BY <1>1, <3>1
  <2>2. CASE ~ (i <= Len(s))
    <3>1. i - Len(s) \in 1 .. Len(t) /\ Len(s) + (i - Len(s)) = i
      BY <1>1, <2>2
    <3>2. v[Len(s) + (i - Len(s))] = t[i - Len(s)] /\ u[Len(s) + (i - Len(s))] = t[i - Len(s)]
      BY <1>1, <3>1
    <3> QED BY <3>1, <3>2
  <2> QED BY <2>1, <2>2
<1>3. v = u
  BY <1>1, <1>2, SeqEqual DEF Text
<1> QED BY <1>3 DEF v

\* The fixed texts.
LEMMA Texts ==
  /\ CRLF = <<"r", "n">> /\ Dashes = <<"-", "-">>
  /\ BoundaryBuffer = <<"-", "-", "b">>
  /\ NextBoundaryBuffer = <<"r", "n", "-", "-", "b">>
  /\ HeaderDelimiter = <<"r", "n", "r", "n">>
  /\ {CRLF, Dashes, BoundaryBuffer, NextBoundaryBuffer, HeaderDelimiter} \subseteq Text
<1>1. CRLF = <<"r", "n">> /\ Dashes = <<"-", "-">>
  BY DEF CRLF, Dashes
<1> DEFINE b == <<"b">>
           dd == <<"-", "-">>
           rn == <<"r", "n">>
           ddb == <<"-", "-", "b">>
           rnddb == <<"r", "n", "-", "-", "b">>
           rnrn == <<"r", "n", "r", "n">>
<1>2. /\ b \in Text /\ Len(b) = 1 /\ b[1] = "b"
      /\ dd \in Text /\ Len(dd) = 2 /\ dd[1] = "-" /\ dd[2] = "-"
      /\ rn \in Text /\ Len(rn) = 2 /\ rn[1] = "r" /\ rn[2] = "n"
      /\ ddb \in Text /\ Len(ddb) = 3 /\ ddb[1] = "-" /\ ddb[2] = "-" /\ ddb[3] = "b"
  BY DEF Text, Tokens
<1>3. /\ rnddb \in Text /\ Len(rnddb) = 5 /\ rnddb[1] = "r" /\ rnddb[2] = "n"
      /\ rnddb[3] = "-" /\ rnddb[4] = "-" /\ rnddb[5] = "b"
  BY DEF Text, Tokens
<1>4. /\ rnrn \in Text /\ Len(rnrn) = 4 /\ rnrn[1] = "r" /\ rnrn[2] = "n"
      /\ rnrn[3] = "r" /\ rnrn[4] = "n"
  BY DEF Text, Tokens
<1> HIDE DEF b, dd, rn, ddb, rnddb, rnrn
<1>5. dd \o b = ddb
  <2>1. Len(ddb) = Len(dd) + Len(b)
    BY <1>2
  <2>2. \A i \in 1 .. Len(dd) : ddb[i] = dd[i]
    <3>1. 1 .. Len(dd) = {1, 2}
      BY <1>2
    <3> QED BY <1>2, <3>1
  <2>3. \A i \in 1 .. Len(b) : ddb[Len(dd) + i] = b[i]
    <3>1. 1 .. Len(b) = {1} /\ Len(dd) + 1 = 3
      BY <1>2
    <3> QED BY <1>2, <3>1
  <2> QED BY <1>2, <2>1, <2>2, <2>3, JoinsTo
<1>6. rn \o ddb = rnddb
  <2>1. Len(rnddb) = Len(rn) + Len(ddb)
    BY <1>2, <1>3
  <2>2. \A i \in 1 .. Len(rn) : rnddb[i] = rn[i]
    <3>1. 1 .. Len(rn) = {1, 2}
      BY <1>2
    <3> QED BY <1>2, <1>3, <3>1
  <2>3. \A i \in 1 .. Len(ddb) : rnddb[Len(rn) + i] = ddb[i]
    <3>1. 1 .. Len(ddb) = {1, 2, 3} /\ Len(rn) + 1 = 3 /\ Len(rn) + 2 = 4 /\ Len(rn) + 3 = 5
      BY <1>2
    <3> QED BY <1>2, <1>3, <3>1
  <2> QED BY <1>2, <1>3, <2>1, <2>2, <2>3, JoinsTo
<1>7. rn \o rn = rnrn
  <2>1. Len(rnrn) = Len(rn) + Len(rn)
    BY <1>2, <1>4
  <2>2. 1 .. Len(rn) = {1, 2} /\ Len(rn) + 1 = 3 /\ Len(rn) + 2 = 4
    BY <1>2
  <2>3. \A i \in 1 .. Len(rn) : rnrn[i] = rn[i] /\ rnrn[Len(rn) + i] = rn[i]
    BY <1>2, <1>4, <2>2
  <2> QED BY <1>2, <1>4, <2>1, <2>3, JoinsTo
<1>8. /\ CRLF = rn /\ Dashes = dd /\ BoundaryBuffer = ddb /\ NextBoundaryBuffer = rnddb
      /\ HeaderDelimiter = rnrn
  BY <1>1, <1>5, <1>6, <1>7 DEF BoundaryBuffer, NextBoundaryBuffer, HeaderDelimiter, b, dd, rn
<1> QED BY <1>2, <1>3, <1>4, <1>8 DEF dd, rn, ddb, rnddb, rnrn

\* Their tokens, one by one.
LEMMA TokensAre ==
  /\ Len(CRLF) = 2 /\ CRLF[1] = "r" /\ CRLF[2] = "n"
  /\ Len(Dashes) = 2 /\ Dashes[1] = "-" /\ Dashes[2] = "-"
  /\ Len(BoundaryBuffer) = 3 /\ BoundaryBuffer[1] = "-" /\ BoundaryBuffer[2] = "-"
  /\ BoundaryBuffer[3] = "b"
  /\ Len(NextBoundaryBuffer) = 5 /\ NextBoundaryBuffer[1] = "r" /\ NextBoundaryBuffer[2] = "n"
  /\ NextBoundaryBuffer[3] = "-" /\ NextBoundaryBuffer[4] = "-" /\ NextBoundaryBuffer[5] = "b"
  /\ Len(HeaderDelimiter) = 4 /\ HeaderDelimiter[1] = "r" /\ HeaderDelimiter[2] = "n"
  /\ HeaderDelimiter[3] = "r" /\ HeaderDelimiter[4] = "n"
<1>1. /\ Len(CRLF) = 2 /\ CRLF[1] = "r" /\ CRLF[2] = "n"
      /\ Len(Dashes) = 2 /\ Dashes[1] = "-" /\ Dashes[2] = "-"
  BY Texts
<1>2. /\ Len(BoundaryBuffer) = 3 /\ BoundaryBuffer[1] = "-" /\ BoundaryBuffer[2] = "-"
      /\ BoundaryBuffer[3] = "b"
  BY Texts
<1>3. /\ Len(NextBoundaryBuffer) = 5 /\ NextBoundaryBuffer[1] = "r"
      /\ NextBoundaryBuffer[2] = "n" /\ NextBoundaryBuffer[3] = "-"
      /\ NextBoundaryBuffer[4] = "-" /\ NextBoundaryBuffer[5] = "b"
  BY Texts
<1>4. /\ Len(HeaderDelimiter) = 4 /\ HeaderDelimiter[1] = "r" /\ HeaderDelimiter[2] = "n"
      /\ HeaderDelimiter[3] = "r" /\ HeaderDelimiter[4] = "n"
  BY Texts
<1> QED BY <1>1, <1>2, <1>3, <1>4

-----------------------------------------------------------------------------
(* Parts after each other.                                                 *)

\* f[k] is the first k of the sequences, one after the other.
Joins(T, n, es, f) ==
  /\ f \in [0 .. n -> Seq(T)] /\ f[0] = <<>>
  /\ \A k \in 1 .. n : f[k] = f[k - 1] \o es[k]

\* Such an f exists: it can be made as long as any n.
LEMMA JoinsExist ==
  ASSUME NEW T, NEW n \in Nat, NEW es \in [1 .. n -> Seq(T)]
  PROVE  \E f : Joins(T, n, es, f)
<1> DEFINE U == {k \in 0 .. n : \E f : Joins(T, k, es, f)}
<1>1. 0 \in U
  <2> DEFINE f == [i \in 0 .. 0 |-> <<>>]
  <2>1. f \in [0 .. 0 -> Seq(T)] /\ f[0] = <<>> /\ 1 .. 0 = {}
    OBVIOUS
  <2>2. Joins(T, 0, es, f)
    BY <2>1 DEF Joins
  <2> QED BY <2>2
<1>2. ASSUME NEW k \in 1 .. n, k - 1 \in U PROVE k \in U
  <2>1. PICK f : Joins(T, k - 1, es, f)
    BY <1>2
  <2> DEFINE g == [i \in 0 .. k |-> IF i = k THEN f[k - 1] \o es[k] ELSE f[i]]
  <2>2. f \in [0 .. k - 1 -> Seq(T)] /\ f[0] = <<>> /\ es[k] \in Seq(T)
    <3>1. f \in [0 .. k - 1 -> Seq(T)] /\ f[0] = <<>>
      BY <2>1 DEF Joins
    <3>2. es[k] \in Seq(T)
      OBVIOUS
    <3> QED BY <3>1, <3>2
  <2>3. f[k - 1] \in Seq(T) /\ f[k - 1] \o es[k] \in Seq(T)
    BY <2>2, JoinIs
  <2>4. g \in [0 .. k -> Seq(T)]
    BY <2>2, <2>3
  <2>5. g[0] = <<>>
    BY <2>2
  <2>6. ASSUME NEW i \in 1 .. k PROVE g[i] = g[i - 1] \o es[i]
    <3>1. CASE i = k
      <4>1. i \in 0 .. k /\ i - 1 \in 0 .. k /\ i - 1 # k /\ i - 1 = k - 1
        BY <3>1
      <4> QED BY <3>1, <4>1
    <3>2. CASE i # k
      <4>1. i \in 1 .. k - 1 /\ i - 1 # k /\ i - 1 \in 0 .. k /\ i \in 0 .. k
        BY <3>2
      <4>2. f[i] = f[i - 1] \o es[i]
        BY <2>1, <4>1 DEF Joins
      <4> QED BY <3>2, <4>1, <4>2
    <3> QED BY <3>1, <3>2
  <2>7. Joins(T, k, es, g)
    BY <2>4, <2>5, <2>6 DEF Joins
  <2> QED BY <2>7
<1>3. 0 .. n \subseteq U
  <2> HIDE DEF U
  <2> QED BY <1>1, <1>2, CountUp
<1> QED BY <1>3

\* The library's operator is the last of them.
LEMMA FlattenJoins ==
  ASSUME NEW T, NEW n \in Nat, NEW es \in [1 .. n -> Seq(T)], NEW f, Joins(T, n, es, f)
  PROVE  FlattenSeq(es) = f[n]
<1>1. es \in Seq(Seq(T)) /\ Len(es) = n
  OBVIOUS
<1>2. CASE n = 0
  <2>1. es = <<>>
    BY <1>1, <1>2, EmptySeq
  <2> QED BY <1>1, <1>2, <2>1 DEF FlattenSeq, Joins
<1>3. CASE n # 0
  <2> DEFINE Flattens(h) == h = [i \in 1 .. n |-> IF i = 1 THEN es[i] ELSE h[i - 1] \o es[i]]
             g == [i \in 1 .. n |-> f[i]]
             h == CHOOSE h : Flattens(h)
  <2>1. \A i \in 1 .. n : g[i] = f[i]
    OBVIOUS
  <2>2. f[1] = es[1]
    <3>1. 1 \in 1 .. n /\ 1 - 1 = 0
      BY <1>3
    <3>2. f[1] = f[1 - 1] \o es[1] /\ es[1] \in Seq(T) /\ f[0] = <<>>
      BY <3>1 DEF Joins
    <3> QED BY <3>1, <3>2, ConcatEmptySeq
  <2>3. ASSUME NEW i \in 1 .. n
        PROVE  g[i] = IF i = 1 THEN es[i] ELSE g[i - 1] \o es[i]
    <3>1. CASE i = 1
      BY <2>1, <2>2, <3>1
    <3>2. CASE i # 1
      <4>1. i - 1 \in 1 .. n
        BY <3>2
      <4>2. f[i] = f[i - 1] \o es[i]
        BY Zenon DEF Joins
      <4> QED BY <2>1, <3>2, <4>1, <4>2
    <3> QED BY <3>1, <3>2
  <2>4. Flattens(g)
    <3>1. g = [i \in 1 .. n |-> g[i]]
      BY Zenon
    <3> HIDE DEF g
    <3> QED BY <2>3, <3>1, Zenon
  <2>5. Flattens(h)
    BY <2>4, Zenon
  <2> HIDE DEF h, g
  <2>6. \A i \in 1 .. n : h[i] = IF i = 1 THEN es[i] ELSE h[i - 1] \o es[i]
    BY <2>5
  <2> DEFINE U == {0} \cup {k \in 1 .. n : h[k] = f[k]}
  <2>7. ASSUME NEW k \in 1 .. n, k - 1 \in U PROVE k \in U
    <3>1. CASE k = 1
      BY <2>2, <2>6, <3>1
    <3>2. CASE k # 1
      <4>1. k - 1 \in 1 .. n /\ h[k - 1] = f[k - 1]
        BY <2>7, <3>2
      <4>2. f[k] = f[k - 1] \o es[k] /\ h[k] = h[k - 1] \o es[k]
        BY <2>6, <3>2 DEF Joins
      <4> QED BY <4>1, <4>2
    <3> QED BY <3>1, <3>2
  <2>8. n \in U
    <3>1. 0 \in U
      OBVIOUS
    <3> HIDE DEF U
    <3>2. 0 .. n \subseteq U
      BY <2>7, <3>1, CountUp
    <3> QED BY <3>2
  <2>9. FlattenSeq(es) = h[n]
    BY <1>1, <1>3 DEF FlattenSeq, h
  <2> QED BY <1>3, <2>8, <2>9
<1> QED BY <1>2, <1>3

\* Each begins as the ones before it.
Begins(f, m, k) == Len(f[k]) <= Len(f[m]) /\ \A i \in 1 .. Len(f[k]) : f[m][i] = f[k][i]

\* A longer join begins as a shorter one.
LEMMA JoinsGrow ==
  ASSUME NEW T, NEW n \in Nat, NEW es \in [1 .. n -> Seq(T)], NEW f, Joins(T, n, es, f),
         NEW k \in 0 .. n, NEW m \in 0 .. n, k <= m
  PROVE  Begins(f, m, k)
<1> DEFINE U == {j \in 0 .. n : j < k \/ Begins(f, j, k)}
<1>1. \A j \in 0 .. n : f[j] \in Seq(T) /\ Len(f[j]) \in Nat
  BY LenProperties DEF Joins
<1>2. 0 \in U
  BY <1>1 DEF Begins
<1>3. ASSUME NEW j \in 1 .. n, j - 1 \in U PROVE j \in U
  <2>1. CASE j < k
    BY <2>1
  <2>2. CASE j = k
    BY <1>1, <2>2 DEF Begins
  <2>3. CASE j > k
    <3>1. Begins(f, j - 1, k) /\ j - 1 \in 0 .. n
      BY <1>3, <2>3
    <3>2. f[j] = f[j - 1] \o es[j] /\ f[j - 1] \in Seq(T) /\ es[j] \in Seq(T)
      BY <3>1 DEF Joins
    <3>3. /\ Len(f[j]) = Len(f[j - 1]) + Len(es[j]) /\ Len(es[j]) \in Nat
          /\ Len(f[j - 1]) \in Nat
          /\ \A i \in 1 .. Len(f[j - 1]) : f[j][i] = f[j - 1][i]
      BY <3>2, JoinIs
    <3>4. Len(f[k]) <= Len(f[j])
      <4>1. Len(f[k]) <= Len(f[j - 1])
        BY <3>1 DEF Begins
      <4>2. Len(f[k]) \in Nat
        BY <1>1
      <4> QED BY <3>3, <4>1, <4>2
    <3>5. ASSUME NEW i \in 1 .. Len(f[k]) PROVE f[j][i] = f[k][i]
      <4>1. i \in 1 .. Len(f[j - 1])
        <5>1. Len(f[k]) <= Len(f[j - 1]) /\ Len(f[k]) \in Nat
          BY <1>1, <3>1 DEF Begins
        <5> QED BY <3>3, <5>1
      <4> QED BY <3>1, <3>3, <4>1 DEF Begins
    <3> QED BY <3>4, <3>5 DEF Begins
  <2> QED BY <2>1, <2>2, <2>3
<1>4. m \in U
  <2> HIDE DEF U
  <2>1. 0 .. n \subseteq U
    BY <1>2, <1>3, CountUp
  <2> QED BY <2>1
<1> QED BY <1>4

\* f[m] has the k-th of the sequences after the first k - 1.
Has(es, f, m, k) ==
  /\ Len(f[k]) = Len(f[k - 1]) + Len(es[k]) /\ Len(f[k]) <= Len(f[m])
  /\ \A i \in 1 .. Len(es[k]) : f[m][Len(f[k - 1]) + i] = es[k][i]

\* The k-th of the sequences is in each join from the k-th on, after the ones
\* before it.
LEMMA JoinsHold ==
  ASSUME NEW T, NEW n \in Nat, NEW es \in [1 .. n -> Seq(T)], NEW f, Joins(T, n, es, f),
         NEW k \in 1 .. n, NEW m \in k .. n
  PROVE  Has(es, f, m, k)
<1>1. f[k] = f[k - 1] \o es[k] /\ f[k - 1] \in Seq(T) /\ es[k] \in Seq(T)
  <2>1. k - 1 \in 0 .. n
    OBVIOUS
  <2> QED BY <2>1 DEF Joins
<1>2. /\ Len(f[k]) = Len(f[k - 1]) + Len(es[k]) /\ Len(f[k - 1]) \in Nat /\ Len(es[k]) \in Nat
      /\ \A i \in 1 .. Len(es[k]) : f[k][Len(f[k - 1]) + i] = es[k][i]
  BY <1>1, JoinIs
<1>3. Len(f[k]) <= Len(f[m]) /\ \A i \in 1 .. Len(f[k]) : f[m][i] = f[k][i]
  BY JoinsGrow DEF Begins
<1>4. ASSUME NEW i \in 1 .. Len(es[k]) PROVE f[m][Len(f[k - 1]) + i] = es[k][i]
  <2>1. Len(f[k - 1]) + i \in 1 .. Len(f[k])
    BY <1>2
  <2> QED BY <1>2, <1>3, <2>1
<1> QED BY <1>2, <1>3, <1>4 DEF Has

-----------------------------------------------------------------------------
(* What is sent.                                                           *)

\* A part's head and data; no data contain a boundary.
LEMMA PartIs ==
  ASSUME NEW p \in Parts
  PROVE  /\ p = [head |-> p.head, data |-> p.data]
         /\ p.head \in {"file", "scope", "other"} /\ p.data \in Text
         /\ \A i \in 1 .. Len(p.data) : ~ Matches(p.data, NextBoundaryBuffer, i)
<1>1. CASE \E d \in Contents : /\ p = [head |-> "file", data |-> d]
                               /\ Occurrences(d, NextBoundaryBuffer) = {}
  <2>1. PICK d \in Contents : /\ p = [head |-> "file", data |-> d]
                              /\ Occurrences(d, NextBoundaryBuffer) = {}
    BY <1>1
  <2>2. p.head = "file" /\ p.data = d /\ d \in Text
    BY <2>1, UploadAssumption DEF Text
  <2>3. \A i \in 1 .. Len(d) : ~ Matches(d, NextBoundaryBuffer, i)
    BY <2>1 DEF Occurrences
  <2> QED BY <2>1, <2>2, <2>3
<1>2. CASE \/ \E d \in {<<>>, <<"ws">>, <<"txt">>} : p = [head |-> "scope", data |-> d]
           \/ p = [head |-> "other", data |-> <<"img", "img">>]
  <2>1. /\ p = [head |-> p.head, data |-> p.data] /\ p.head \in {"scope", "other"}
        /\ p.data \in {<<>>, <<"ws">>, <<"txt">>, <<"img", "img">>}
    BY <1>2
  <2>2. /\ <<>> \in Text /\ Len(<<>>) = 0 /\ <<"ws">> \in Text /\ Len(<<"ws">>) = 1
        /\ <<"txt">> \in Text /\ Len(<<"txt">>) = 1
        /\ <<"img", "img">> \in Text /\ Len(<<"img", "img">>) = 2
    BY DEF Text, Tokens
  <2>3. p.data \in Text /\ Len(p.data) \in 0 .. 2
    <3> DEFINE d == p.data
    <3> HIDE DEF d
    <3>1. d \in {<<>>, <<"ws">>, <<"txt">>, <<"img", "img">>}
      BY <2>1 DEF d
    <3>2. d \in Text /\ Len(d) \in 0 .. 2
      BY <2>2, <3>1
    <3> QED BY <3>2 DEF d
  <2>4. ASSUME NEW i \in 1 .. Len(p.data) PROVE ~ Matches(p.data, NextBoundaryBuffer, i)
    <3>1. ~ (i + Len(NextBoundaryBuffer) - 1 <= Len(p.data))
      <4>1. Len(NextBoundaryBuffer) = 5 /\ Len(p.data) \in 0 .. 2 /\ i \in Nat \ {0}
        BY <2>3, TokensAre
      <4>2. \A k, n, m : k = 5 /\ n \in 0 .. 2 /\ m \in Nat \ {0} => ~ (m + k - 1 <= n)
        OBVIOUS
      <4> QED BY <4>1, <4>2
    <3> QED BY <3>1 DEF Matches
  <2> QED BY <2>1, <2>3, <2>4
<1> QED BY <1>1, <1>2 DEF Parts

\* An encoded part, token by token.
LEMMA EncodeIs ==
  ASSUME NEW p \in Parts
  PROVE  /\ Encode(p) \in Text /\ Len(Encode(p)) = 12 + Len(p.data) /\ Len(p.data) \in Nat
         /\ Encode(p)[1] = "-" /\ Encode(p)[2] = "-" /\ Encode(p)[3] = "b"
         /\ Encode(p)[4] = "r" /\ Encode(p)[5] = "n" /\ Encode(p)[6] = p.head
         /\ Encode(p)[7] = "r" /\ Encode(p)[8] = "n"
         /\ Encode(p)[9] = "r" /\ Encode(p)[10] = "n"
         /\ \A j \in 1 .. Len(p.data) : Encode(p)[10 + j] = p.data[j]
         /\ Encode(p)[11 + Len(p.data)] = "r" /\ Encode(p)[12 + Len(p.data)] = "n"
<1> DEFINE h == <<p.head>>
           d == p.data
           a == BoundaryBuffer \o CRLF
           b == a \o h
           c == b \o HeaderDelimiter
           e == c \o d
           g == e \o CRLF
<1>1. /\ h \in Text /\ Len(h) = 1 /\ h[1] = p.head /\ d \in Text /\ Len(d) \in Nat
      /\ BoundaryBuffer \in Text /\ CRLF \in Text /\ HeaderDelimiter \in Text
  <2>1. p.head \in Tokens /\ d \in Text
    BY PartIs DEF Tokens
  <2> QED BY <2>1, Texts, LenProperties DEF Text
<1>2. Encode(p) = g
  BY DEF Encode
<1> HIDE DEF h, d
<1>3. /\ a \in Text /\ Len(a) = 5
      /\ a[1] = "-" /\ a[2] = "-" /\ a[3] = "b" /\ a[4] = "r" /\ a[5] = "n"
  <2>1. /\ a \in Text /\ Len(a) = Len(BoundaryBuffer) + Len(CRLF)
        /\ \A i \in 1 .. Len(BoundaryBuffer) : a[i] = BoundaryBuffer[i]
        /\ \A i \in 1 .. Len(CRLF) : a[Len(BoundaryBuffer) + i] = CRLF[i]
    BY <1>1, JoinIs DEF Text
  <2> HIDE DEF a
  <2>2. 1 .. 3 = {1, 2, 3} /\ 1 .. 2 = {1, 2} /\ 3 + 1 = 4 /\ 3 + 2 = 5
    OBVIOUS
  <2> QED BY <2>1, <2>2, TokensAre
<1> HIDE DEF a
<1>4. /\ b \in Text /\ Len(b) = 6 /\ \A i \in 1 .. 5 : b[i] = a[i]
      /\ b[6] = p.head
  <2>0. a \in Seq(Tokens) /\ h \in Seq(Tokens)
    BY <1>1, <1>3 DEF Text
  <2>1. /\ b \in Text /\ Len(b) = Len(a) + Len(h) /\ \A i \in 1 .. Len(a) : b[i] = a[i]
        /\ \A i \in 1 .. Len(h) : b[Len(a) + i] = h[i]
    BY <2>0, JoinIs DEF Text
  <2> HIDE DEF b
  <2> QED BY <1>1, <1>3, <2>1
<1> HIDE DEF b
<1>5. /\ c \in Text /\ Len(c) = 10 /\ \A i \in 1 .. 6 : c[i] = b[i]
      /\ c[7] = "r" /\ c[8] = "n" /\ c[9] = "r" /\ c[10] = "n"
  <2>0. b \in Seq(Tokens) /\ HeaderDelimiter \in Seq(Tokens)
    BY <1>1, <1>4 DEF Text
  <2>1. /\ c \in Text /\ Len(c) = Len(b) + Len(HeaderDelimiter)
        /\ \A i \in 1 .. Len(b) : c[i] = b[i]
        /\ \A i \in 1 .. Len(HeaderDelimiter) : c[Len(b) + i] = HeaderDelimiter[i]
    BY <2>0, JoinIs DEF Text
  <2> HIDE DEF c
  <2>2. 1 .. 4 = {1, 2, 3, 4} /\ 6 + 1 = 7 /\ 6 + 2 = 8 /\ 6 + 3 = 9 /\ 6 + 4 = 10
    OBVIOUS
  <2> QED BY <1>4, <2>1, <2>2, TokensAre
<1> HIDE DEF c
<1>6. /\ e \in Text /\ Len(e) = 10 + Len(d) /\ \A i \in 1 .. 10 : e[i] = c[i]
      /\ \A i \in 1 .. Len(d) : e[10 + i] = d[i]
  <2>0. c \in Seq(Tokens) /\ d \in Seq(Tokens)
    BY <1>1, <1>5 DEF Text
  <2>1. /\ e \in Text /\ Len(e) = Len(c) + Len(d) /\ \A i \in 1 .. Len(c) : e[i] = c[i]
        /\ \A i \in 1 .. Len(d) : e[Len(c) + i] = d[i]
    BY <2>0, JoinIs DEF Text
  <2> HIDE DEF e
  <2> QED BY <1>1, <1>5, <2>1
<1> HIDE DEF e
<1>7. /\ g \in Text /\ Len(g) = 12 + Len(d) /\ \A i \in 1 .. 10 + Len(d) : g[i] = e[i]
      /\ g[11 + Len(d)] = "r" /\ g[12 + Len(d)] = "n"
  <2>0. e \in Seq(Tokens) /\ CRLF \in Seq(Tokens)
    BY <1>1, <1>6 DEF Text
  <2>1. /\ g \in Text /\ Len(g) = Len(e) + Len(CRLF) /\ \A i \in 1 .. Len(e) : g[i] = e[i]
        /\ \A i \in 1 .. Len(CRLF) : g[Len(e) + i] = CRLF[i]
    BY <2>0, JoinIs DEF Text
  <2> HIDE DEF g
  <2>2. 1 .. 2 = {1, 2} /\ (10 + Len(d)) + 1 = 11 + Len(d) /\ (10 + Len(d)) + 2 = 12 + Len(d)
        /\ (10 + Len(d)) + 2 = 12 + Len(d)
    BY <1>1
  <2> QED BY <1>6, <2>1, <2>2, TokensAre
<1> HIDE DEF g
<1>8. /\ g[1] = "-" /\ g[2] = "-" /\ g[3] = "b" /\ g[4] = "r" /\ g[5] = "n" /\ g[6] = p.head
      /\ g[7] = "r" /\ g[8] = "n" /\ g[9] = "r" /\ g[10] = "n"
  <2>1. \A i \in 1 .. 10 : g[i] = c[i]
    BY <1>1, <1>6, <1>7
  <2>2. \A i \in 1 .. 6 : g[i] = b[i]
    BY <1>5, <2>1
  <2>3. \A i \in 1 .. 5 : g[i] = a[i]
    BY <1>4, <2>2
  <2>4. g[6] = p.head /\ g[7] = "r" /\ g[8] = "n" /\ g[9] = "r" /\ g[10] = "n"
    BY <1>4, <1>5, <2>1, <2>2
  <2> QED BY <1>3, <2>3, <2>4
<1>9. ASSUME NEW j \in 1 .. Len(d) PROVE g[10 + j] = d[j]
  <2>1. 10 + j \in 1 .. 10 + Len(d)
    BY <1>1
  <2> QED BY <1>6, <1>7, <2>1
<1>10. d = p.data
  BY DEF d
<1> QED BY <1>1, <1>2, <1>7, <1>8, <1>9, <1>10

\* Who stops early sends nothing else.
LEMMA BodyIs ==
  ASSUME NEW s \in Bodies
  PROVE  /\ s.parts \in [1 .. Len(s.parts) -> Parts] /\ Len(s.parts) \in Nat
         /\ DOMAIN s.parts = 1 .. Len(s.parts)
         /\ s.preamble \in {<<>>, <<"-">>, <<"txt", "txt", "r", "n">>}
         /\ s.closing \in {Dashes, <<"-", "r">>} /\ s.epilogue \in {<<>>, CRLF}
         /\ s.cut \in Nat /\ s.cut <= Len(WholeBody(s))
         /\ s.cut # 0 => s.epilogue = <<>>
<1>1. s \in [preamble : {<<>>, <<"-">>, <<"txt", "txt", "r", "n">>},
             parts : UNION {[1 .. n -> Parts] : n \in 0 .. MaxParts},
             closing : {Dashes, <<"-", "r">>}, cut : 0 .. 9, epilogue : {<<>>, CRLF}]
  BY DEF Bodies
<1>2. /\ s.preamble \in {<<>>, <<"-">>, <<"txt", "txt", "r", "n">>}
      /\ s.parts \in UNION {[1 .. n -> Parts] : n \in 0 .. MaxParts}
      /\ s.closing \in {Dashes, <<"-", "r">>} /\ s.epilogue \in {<<>>, CRLF}
      /\ s.cut \in 0 .. 9
  BY <1>1
<1>3. PICK n \in 0 .. MaxParts : s.parts \in [1 .. n -> Parts]
  BY <1>2
<1>4. n \in Nat /\ Len(s.parts) = n /\ DOMAIN s.parts = 1 .. n
  BY <1>3, UploadAssumption
<1>5. s.cut \in Nat
  BY <1>2
<1>6. s.cut <= Len(WholeBody(s))
  BY DEF Bodies
<1>7. ASSUME s.cut # 0, s.epilogue # <<>> PROVE FALSE
  <2> DEFINE does == <<s.preamble # <<>>, s.closing # Dashes, s.cut # 0, s.epilogue # <<>>>>
             X == {i \in 1 .. 4 : does[i]}
  <2>1. Cardinality(X) <= 1
    BY DEF Bodies
  <2>2. does[3] = TRUE /\ does[4] = TRUE
    BY <1>7
  <2> HIDE DEF does
  <2>3. {3, 4} \subseteq X /\ X \subseteq 1 .. 4
    BY <2>2
  <2> HIDE DEF X
  <2>4. IsFiniteSet(1 .. 4)
    <3>1. 1 \in Int /\ 4 \in Int
      OBVIOUS
    <3> QED BY <3>1, FS_Interval
  <2>5. IsFiniteSet(X) /\ Cardinality(X) \in Nat
    BY <2>3, <2>4, FS_Subset, FS_CardinalityType
  <2>6. X # {}
    BY <2>3
  <2>7. Cardinality(X) = 1
    BY <2>1, <2>5, <2>6, FS_EmptySet
  <2>8. PICK x : X = {x}
    BY <2>5, <2>7, FS_Singleton
  <2>9. 3 = x /\ 4 = x
    BY <2>3, <2>8
  <2> QED BY <2>9
<1> QED BY <1>2, <1>3, <1>4, <1>5, <1>6, <1>7

\* at[k] is how much of a body lies before the boundary after its k-th part.
Layout(s, at) ==
  LET n == Len(s.parts)
      w == WholeBody(s) IN
  /\ w \in Text /\ at \in [0 .. n -> Nat] /\ Len(w) = at[n] + 5
  /\ \A k \in 0 .. n : w[at[k] + 1] = "-" /\ w[at[k] + 2] = "-" /\ w[at[k] + 3] = "b"
  /\ \A k \in 1 .. n :
       /\ at[k] = at[k - 1] + 12 + Len(s.parts[k].data)
       /\ w[at[k - 1] + 4] = "r" /\ w[at[k - 1] + 5] = "n"
       /\ w[at[k - 1] + 6] = s.parts[k].head
       /\ w[at[k - 1] + 7] = "r" /\ w[at[k - 1] + 8] = "n"
       /\ w[at[k - 1] + 9] = "r" /\ w[at[k - 1] + 10] = "n"
       /\ \A j \in 1 .. Len(s.parts[k].data) : w[at[k - 1] + 10 + j] = s.parts[k].data[j]
       /\ w[at[k - 1] + 11 + Len(s.parts[k].data)] = "r"
       /\ w[at[k - 1] + 12 + Len(s.parts[k].data)] = "n"
  /\ w[at[n] + 4] = s.closing[1] /\ w[at[n] + 5] = s.closing[2]
  \* No boundary begins in the preamble.
  /\ \A j \in 1 .. at[0] : ~ (w[j] = "-" /\ w[j + 1] = "-" /\ w[j + 2] = "b")

\* Every body is laid out like that.
LEMMA LayoutExists ==
  ASSUME NEW s \in Bodies
  PROVE  \E at : Layout(s, at)
<1> DEFINE n == Len(s.parts)
           es == [i \in DOMAIN s.parts |-> Encode(s.parts[i])]
           pre == s.preamble
<1>1. /\ n \in Nat /\ DOMAIN s.parts = 1 .. n /\ s.parts \in [1 .. n -> Parts]
      /\ pre \in {<<>>, <<"-">>, <<"txt", "txt", "r", "n">>}
      /\ s.closing \in {Dashes, <<"-", "r">>}
  BY BodyIs
<1>2. es \in [1 .. n -> Text] /\ \A k \in 1 .. n : es[k] = Encode(s.parts[k])
  <2>1. \A k \in 1 .. n : Encode(s.parts[k]) \in Text
    BY <1>1, EncodeIs
  <2> QED BY <1>1, <2>1
<1>3. PICK f : Joins(Tokens, n, es, f)
  <2> HIDE DEF es, n
  <2> QED BY <1>1, <1>2, JoinsExist DEF Text
<1>4. FlattenSeq(es) = f[n]
  <2> HIDE DEF es, n
  <2> QED BY <1>1, <1>2, <1>3, FlattenJoins DEF Text
<1> DEFINE a == pre \o f[n]
           b == a \o BoundaryBuffer
           w == b \o s.closing
           at == [k \in 0 .. n |-> Len(pre) + Len(f[k])]
<1>5. WholeBody(s) = w
  BY <1>4 DEF WholeBody
<1> HIDE DEF es
<1>6. /\ pre \in Text /\ Len(pre) \in Nat
      /\ s.closing \in Text /\ Len(s.closing) = 2
  <2>1. /\ <<>> \in Text /\ <<"-">> \in Text /\ <<"txt", "txt", "r", "n">> \in Text
        /\ <<"-", "r">> \in Text /\ Len(<<"-", "r">>) = 2
    BY DEF Text, Tokens
  <2>2. pre \in Text
    BY <1>1, <2>1
  <2>3. s.closing \in Text /\ Len(s.closing) = 2
    BY <1>1, <2>1, Texts, TokensAre
  <2> QED BY <2>2, <2>3, LenProperties DEF Text
<1> HIDE DEF pre, n
<1>7. \A k \in 0 .. n : f[k] \in Text /\ Len(f[k]) \in Nat
  BY <1>3, LenProperties DEF Joins, Text
<1>8. \A k \in 1 .. n :
        /\ Len(f[k]) = Len(f[k - 1]) + Len(es[k]) /\ Len(f[k]) <= Len(f[n])
        /\ \A i \in 1 .. Len(es[k]) : f[n][Len(f[k - 1]) + i] = es[k][i]
  <2> SUFFICES ASSUME NEW k \in 1 .. n
               PROVE  /\ Len(f[k]) = Len(f[k - 1]) + Len(es[k]) /\ Len(f[k]) <= Len(f[n])
                      /\ \A i \in 1 .. Len(es[k]) : f[n][Len(f[k - 1]) + i] = es[k][i]
    OBVIOUS
  <2>1. n \in k .. n /\ n \in Nat
    BY <1>1
  <2>2. es \in [1 .. n -> Seq(Tokens)]
    BY <1>2 DEF Text
  <2>3. Has(es, f, n, k)
    <3> HIDE DEF es
    <3> QED BY <1>3, <2>1, <2>2, JoinsHold
  <2> QED BY <2>3 DEF Has
<1>9. /\ a \in Text /\ Len(a) = Len(pre) + Len(f[n])
      /\ \A i \in 1 .. Len(pre) : a[i] = pre[i]
      /\ \A i \in 1 .. Len(f[n]) : a[Len(pre) + i] = f[n][i]
  <2>1. pre \in Seq(Tokens) /\ f[n] \in Seq(Tokens)
    BY <1>1, <1>6, <1>7 DEF Text
  <2> QED BY <2>1, JoinIs DEF Text
<1> HIDE DEF a
<1>10. /\ b \in Text /\ Len(b) = Len(a) + 3
       /\ \A i \in 1 .. Len(a) : b[i] = a[i]
       /\ b[Len(a) + 1] = "-" /\ b[Len(a) + 2] = "-" /\ b[Len(a) + 3] = "b"
  <2>1. a \in Seq(Tokens) /\ BoundaryBuffer \in Seq(Tokens)
    BY <1>9, Texts DEF Text
  <2>2. /\ b \in Text /\ Len(b) = Len(a) + Len(BoundaryBuffer)
        /\ \A i \in 1 .. Len(a) : b[i] = a[i]
        /\ \A i \in 1 .. Len(BoundaryBuffer) : b[Len(a) + i] = BoundaryBuffer[i]
    BY <2>1, JoinIs DEF Text
  <2>3. 1 .. 3 = {1, 2, 3}
    OBVIOUS
  <2> HIDE DEF b
  <2> QED BY <2>2, <2>3, TokensAre
<1> HIDE DEF b
<1>11. /\ w \in Text /\ Len(w) = Len(b) + 2
       /\ \A i \in 1 .. Len(b) : w[i] = b[i]
       /\ w[Len(b) + 1] = s.closing[1] /\ w[Len(b) + 2] = s.closing[2]
  <2>1. b \in Seq(Tokens) /\ s.closing \in Seq(Tokens)
    BY <1>6, <1>10 DEF Text
  <2>2. /\ w \in Text /\ Len(w) = Len(b) + Len(s.closing)
        /\ \A i \in 1 .. Len(b) : w[i] = b[i]
        /\ \A i \in 1 .. Len(s.closing) : w[Len(b) + i] = s.closing[i]
    BY <2>1, JoinIs DEF Text
  <2>3. 1 .. 2 = {1, 2}
    OBVIOUS
  <2> HIDE DEF w
  <2> QED BY <1>6, <2>2, <2>3
<1> HIDE DEF w
<1>12. /\ at \in [0 .. n -> Nat] /\ \A k \in 0 .. n : at[k] = Len(pre) + Len(f[k])
       /\ at[0] = Len(pre) /\ at[n] = Len(a)
  <2>1. at \in [0 .. n -> Nat] /\ \A k \in 0 .. n : at[k] = Len(pre) + Len(f[k])
    BY <1>6, <1>7
  <2>2. f[0] = <<>> /\ Len(<<>>) = 0 /\ 0 \in 0 .. n /\ n \in 0 .. n
    BY <1>1, <1>3 DEF Joins
  <2> QED BY <1>6, <1>9, <2>1, <2>2
<1> HIDE DEF at
<1>13. Len(w) = at[n] + 5 /\ Len(a) \in Nat
  BY <1>6, <1>7, <1>9, <1>10, <1>11, <1>12
<1>14. w[at[n] + 4] = s.closing[1] /\ w[at[n] + 5] = s.closing[2]
  <2>1. (Len(a) + 3) + 1 = at[n] + 4 /\ (Len(a) + 3) + 2 = at[n] + 5
    BY <1>12, <1>13
  <2> QED BY <1>10, <1>11, <2>1
<1>15. \A i \in 1 .. Len(a) : w[i] = a[i]
  BY <1>10, <1>11, <1>13
<1>16. ASSUME NEW k \in 1 .. n
       PROVE  /\ at[k] = at[k - 1] + Len(es[k]) /\ at[k] <= at[n]
              /\ \A i \in 1 .. Len(es[k]) : w[at[k - 1] + i] = es[k][i]
  <2>1. k - 1 \in 0 .. n /\ k \in 0 .. n /\ n \in 0 .. n
    BY <1>1
  <2>2. Len(es[k]) \in Nat
    BY <1>2, LenProperties DEF Text
  <2>3. at[k] = at[k - 1] + Len(es[k]) /\ at[k] <= at[n]
    <3>1. /\ at[k] = Len(pre) + Len(f[k]) /\ at[k - 1] = Len(pre) + Len(f[k - 1])
          /\ at[n] = Len(pre) + Len(f[n])
      BY <1>12, <2>1
    <3>2. /\ Len(f[k]) = Len(f[k - 1]) + Len(es[k]) /\ Len(f[k]) <= Len(f[n])
          /\ Len(f[k]) \in Nat /\ Len(f[k - 1]) \in Nat /\ Len(f[n]) \in Nat
      BY <1>7, <1>8, <2>1
    <3> DEFINE p == Len(pre)
               x == Len(f[k])
               y == Len(f[k - 1])
               z == Len(f[n])
               l == Len(es[k])
    <3>4. p \in Nat /\ x \in Nat /\ y \in Nat /\ z \in Nat /\ l \in Nat /\ x = y + l /\ x <= z
      BY <1>6, <2>2, <3>2
    <3>5. at[k] = p + x /\ at[k - 1] = p + y /\ at[n] = p + z
      BY <3>1
    <3> HIDE DEF p, x, y, z, l
    <3>6. at[k] = at[k - 1] + l /\ at[k] <= at[n]
      BY <3>4, <3>5
    <3> QED BY <3>6 DEF l
  <2>4. ASSUME NEW i \in 1 .. Len(es[k]) PROVE w[at[k - 1] + i] = es[k][i]
    <3> DEFINE j == Len(f[k - 1]) + i
    <3>1. j \in 1 .. Len(f[n]) /\ f[n][j] = es[k][i]
      <4>1. /\ Len(f[k]) = Len(f[k - 1]) + Len(es[k]) /\ Len(f[k]) <= Len(f[n])
            /\ Len(f[k]) \in Nat /\ Len(f[k - 1]) \in Nat /\ Len(f[n]) \in Nat
            /\ f[n][Len(f[k - 1]) + i] = es[k][i]
        BY <1>7, <1>8, <2>1
      <4>2. \A x, y, z, l \in Nat : x = y + l /\ x <= z => \A h \in 1 .. l : y + h \in 1 .. z
        OBVIOUS
      <4>3. Len(f[k - 1]) + i \in 1 .. Len(f[n])
        <5> DEFINE x == Len(f[k])
                   v == Len(f[k - 1])
                   z == Len(f[n])
                   l == Len(es[k])
        <5>1. x \in Nat /\ v \in Nat /\ z \in Nat /\ l \in Nat /\ x = v + l /\ x <= z
          BY <2>2, <4>1
        <5>2. i \in 1 .. l
          OBVIOUS
        <5> HIDE DEF x, v, z, l
        <5>3. v + i \in 1 .. z
          BY <4>2, <5>1, <5>2
        <5> QED BY <5>3 DEF v, z
      <4> QED BY <4>1, <4>3
    <3>2. at[k - 1] + i = Len(pre) + j /\ Len(pre) + j \in 1 .. Len(a)
      <4> DEFINE x == Len(f[k - 1])
                 v == Len(pre)
                 z == Len(f[n])
      <4>1. x \in Nat /\ v \in Nat /\ z \in Nat /\ Len(a) = v + z /\ at[k - 1] = v + x
        BY <1>6, <1>7, <1>9, <1>12, <2>1
      <4>2. j = x + i /\ j \in 1 .. z
        BY <3>1
      <4> HIDE DEF x, v, z, j
      <4>3. at[k - 1] + i = v + j /\ v + j \in 1 .. Len(a)
        BY <4>1, <4>2
      <4> QED BY <4>3 DEF v
    <3> HIDE DEF j
    <3> QED BY <1>9, <1>15, <3>1, <3>2
  <2> QED BY <2>3, <2>4
<1>17. ASSUME NEW k \in 1 .. n
       PROVE  /\ at[k] = at[k - 1] + 12 + Len(s.parts[k].data)
              /\ w[at[k - 1] + 1] = "-" /\ w[at[k - 1] + 2] = "-" /\ w[at[k - 1] + 3] = "b"
              /\ w[at[k - 1] + 4] = "r" /\ w[at[k - 1] + 5] = "n"
              /\ w[at[k - 1] + 6] = s.parts[k].head
              /\ w[at[k - 1] + 7] = "r" /\ w[at[k - 1] + 8] = "n"
              /\ w[at[k - 1] + 9] = "r" /\ w[at[k - 1] + 10] = "n"
              /\ \A j \in 1 .. Len(s.parts[k].data) :
                   w[at[k - 1] + 10 + j] = s.parts[k].data[j]
              /\ w[at[k - 1] + 11 + Len(s.parts[k].data)] = "r"
              /\ w[at[k - 1] + 12 + Len(s.parts[k].data)] = "n"
  <2> DEFINE p == s.parts[k]
             l == Len(p.data)
             c == at[k - 1]
             e == es[k]
  <2>1. p \in Parts /\ e = Encode(p)
    BY <1>1, <1>2
  <2>2. c \in Nat
    BY <1>1, <1>12
  <2>3. at[k] = c + Len(e) /\ \A i \in 1 .. Len(e) : w[c + i] = e[i]
    BY <1>16
  <2> HIDE DEF p, c, e
  <2>4. /\ Len(e) = 12 + l /\ l \in Nat
        /\ e[1] = "-" /\ e[2] = "-" /\ e[3] = "b" /\ e[4] = "r" /\ e[5] = "n"
        /\ e[6] = p.head /\ e[7] = "r" /\ e[8] = "n" /\ e[9] = "r" /\ e[10] = "n"
        /\ \A j \in 1 .. l : e[10 + j] = p.data[j]
        /\ e[11 + l] = "r" /\ e[12 + l] = "n"
    BY <2>1, EncodeIs
  <2> HIDE DEF l
  <2>5. \A i \in 1 .. 10 : w[c + i] = e[i]
    BY <2>3, <2>4
  <2>6. /\ w[c + 1] = "-" /\ w[c + 2] = "-" /\ w[c + 3] = "b" /\ w[c + 4] = "r"
        /\ w[c + 5] = "n" /\ w[c + 6] = p.head /\ w[c + 7] = "r" /\ w[c + 8] = "n"
        /\ w[c + 9] = "r" /\ w[c + 10] = "n"
    BY <2>4, <2>5
  <2>7. ASSUME NEW j \in 1 .. l PROVE w[c + 10 + j] = p.data[j]
    <3>1. 10 + j \in 1 .. Len(e) /\ c + (10 + j) = c + 10 + j
      BY <2>2, <2>4
    <3> QED BY <2>3, <2>4, <3>1
  <2>8. w[c + 11 + l] = "r" /\ w[c + 12 + l] = "n"
    <3>1. /\ 11 + l \in 1 .. Len(e) /\ c + (11 + l) = c + 11 + l
          /\ 12 + l \in 1 .. Len(e) /\ c + (12 + l) = c + 12 + l
      BY <2>2, <2>4
    <3> QED BY <2>3, <2>4, <3>1
  <2>9. at[k] = c + 12 + l
    BY <2>2, <2>3, <2>4
  <2> QED BY <2>6, <2>7, <2>8, <2>9 DEF p, l, c
<1>18. ASSUME NEW k \in 0 .. n
       PROVE  w[at[k] + 1] = "-" /\ w[at[k] + 2] = "-" /\ w[at[k] + 3] = "b"
  <2>1. CASE k = n
    <3>1. /\ Len(a) + 1 \in 1 .. Len(b) /\ Len(a) + 2 \in 1 .. Len(b)
          /\ Len(a) + 3 \in 1 .. Len(b)
      BY <1>10, <1>13
    <3> QED BY <1>10, <1>11, <1>12, <2>1, <3>1
  <2>2. CASE k # n
    <3>1. k + 1 \in 1 .. n /\ (k + 1) - 1 = k
      BY <1>1, <2>2
    <3> QED BY <1>17, <3>1
  <2> QED BY <2>1, <2>2
<1>19. ASSUME NEW j \in 1 .. at[0], w[j] = "-", w[j + 1] = "-", w[j + 2] = "b"
       PROVE  FALSE
  <2>1. \A i \in 1 .. Len(pre) : w[i] = pre[i]
    BY <1>6, <1>7, <1>9, <1>15, <1>1
  <2>2. w[j] = pre[j] /\ j \in 1 .. Len(pre)
    BY <1>12, <2>1
  <2>3. CASE pre = <<>>
    <3>1. Len(pre) = 0
      BY <2>3
    <3> QED BY <2>2, <3>1
  <2>4. CASE pre = <<"-">>
    <3>1. Len(pre) = 1
      BY <2>4
    <3>2. j = 1 /\ at[0] = 1
      BY <1>12, <2>2, <3>1
    <3>3. w[at[0] + 2] = "-" /\ at[0] + 2 = j + 2
      BY <1>1, <1>18, <3>2
    <3> QED BY <1>19, <3>3
  <2>5. CASE pre = <<"txt", "txt", "r", "n">>
    <3>1. \A i \in 1 .. Len(pre) : pre[i] # "-"
      BY <2>5
    <3> QED BY <1>19, <2>2, <3>1
  <2> QED BY <1>1, <2>3, <2>4, <2>5
<1>20. Layout(s, at)
  BY <1>5, <1>11, <1>12, <1>13, <1>14, <1>17, <1>18, <1>19 DEF Layout, n
<1> QED BY <1>20

\* What arrives of a body.
LEMMA ArrivingIs ==
  ASSUME NEW s \in Bodies
  PROVE  /\ Body(s) \in Text /\ WholeBody(s) \in Text
         /\ Len(Body(s)) \in Nat /\ Len(WholeBody(s)) \in Nat
         /\ \A j \in 1 .. Len(WholeBody(s)) : j <= Len(Body(s)) => Body(s)[j] = WholeBody(s)[j]
         /\ s.cut = 0 <=> Len(WholeBody(s)) <= Len(Body(s))
<1> DEFINE w == WholeBody(s)
           d == Len(w) - s.cut
           u == SubSeq(w, 1, d)
           b == u \o s.epilogue
<1>1. w \in Text /\ Len(w) \in Nat
  BY LayoutExists, LenProperties DEF Layout, Text
<1>2. /\ s.cut \in Nat /\ s.cut <= Len(w) /\ s.epilogue \in {<<>>, CRLF}
      /\ s.cut # 0 => s.epilogue = <<>>
  BY BodyIs
<1>3. Body(s) = b
  BY DEF Body
<1> HIDE DEF w
<1>4. d \in Nat /\ d <= Len(w) /\ (d = Len(w) <=> s.cut = 0)
  BY <1>1, <1>2
<1>5. u \in Text /\ Len(u) = d /\ \A i \in 1 .. d : u[i] = w[i]
  <2> HIDE DEF d
  <2>1. /\ SubSeq(w, 0 + 1, d) \in Text /\ Len(SubSeq(w, 0 + 1, d)) = d - 0
        /\ \A i \in 1 .. d - 0 : SubSeq(w, 0 + 1, d)[i] = w[0 + i]
    BY <1>1, <1>4, SliceIs DEF Text
  <2>2. 0 + 1 = 1 /\ d - 0 = d /\ \A i \in 1 .. d : 0 + i = i
    BY <1>4
  <2> QED BY <2>1, <2>2
<1> HIDE DEF u, d
<1>6. s.epilogue \in Text /\ Len(s.epilogue) \in Nat /\ (s.cut # 0 => Len(s.epilogue) = 0)
  <2>1. <<>> \in Text /\ Len(<<>>) = 0
    BY DEF Text
  <2> QED BY <1>2, <2>1, Texts, LenProperties DEF Text
<1>7. /\ b \in Text /\ Len(b) = d + Len(s.epilogue) /\ \A i \in 1 .. d : b[i] = u[i]
  <2>1. u \in Seq(Tokens) /\ s.epilogue \in Seq(Tokens)
    BY <1>5, <1>6 DEF Text
  <2>2. /\ b \in Seq(Tokens) /\ Len(b) = Len(u) + Len(s.epilogue)
        /\ \A i \in 1 .. Len(u) : b[i] = u[i]
    BY <2>1, JoinIs
  <2> HIDE DEF b
  <2> QED BY <1>5, <2>2 DEF Text
<1> HIDE DEF b
<1>8. Len(b) \in Nat /\ (s.cut = 0 <=> Len(w) <= Len(b))
  BY <1>1, <1>4, <1>6, <1>7
<1>9. ASSUME NEW j \in 1 .. Len(w), j <= Len(b) PROVE b[j] = w[j]
  <2>1. j \in 1 .. d
    <3>1. CASE s.cut = 0
      BY <1>1, <1>4, <1>9, <3>1
    <3>2. CASE s.cut # 0
      BY <1>4, <1>6, <1>7, <1>9, <3>2
    <3> QED BY <3>1, <3>2
  <2> QED BY <1>5, <1>7, <2>1
<1> QED BY <1>1, <1>3, <1>7, <1>8, <1>9 DEF w

\* g[k] is what the first k parts with such a head carry.
Gathers(s, head, g) ==
  LET n == Len(s.parts) IN
  /\ g \in [0 .. n -> Seq(Text)] /\ g[0] = <<>> /\ g[n] = DataSent(s, head)
  /\ \A k \in 1 .. n :
       g[k] = IF s.parts[k].head = head THEN Append(g[k - 1], s.parts[k].data) ELSE g[k - 1]
  /\ \A k \in 0 .. n : Begins(g, n, k)

\* What the parts carry can be gathered in their order.
LEMMA GathersExists ==
  ASSUME NEW s \in Bodies, NEW head
  PROVE  \E g : Gathers(s, head, g)
<1> DEFINE n == Len(s.parts)
           es == [i \in DOMAIN s.parts |->
                    IF s.parts[i].head = head THEN <<s.parts[i].data>> ELSE <<>>]
<1>1. n \in Nat /\ DOMAIN s.parts = 1 .. n /\ s.parts \in [1 .. n -> Parts]
  BY BodyIs
<1>2. \A k \in 1 .. n : s.parts[k].data \in Text
  BY <1>1, PartIs
<1>3. /\ es \in [1 .. n -> Seq(Text)]
      /\ \A k \in 1 .. n :
           es[k] = IF s.parts[k].head = head THEN <<s.parts[k].data>> ELSE <<>>
  <2>1. \A d \in Text : <<d>> \in Seq(Text)
    OBVIOUS
  <2>2. <<>> \in Seq(Text)
    OBVIOUS
  <2> QED BY <1>1, <1>2, <2>1, <2>2
<1>4. DataSent(s, head) = FlattenSeq(es)
  BY DEF DataSent
<1> HIDE DEF es, n
<1>5. PICK g : Joins(Text, n, es, g)
  BY <1>1, <1>3, JoinsExist
<1>6. FlattenSeq(es) = g[n]
  BY <1>1, <1>3, <1>5, FlattenJoins
<1>7. g \in [0 .. n -> Seq(Text)] /\ g[0] = <<>> /\ \A k \in 1 .. n : g[k] = g[k - 1] \o es[k]
  BY <1>5 DEF Joins
<1>8. ASSUME NEW k \in 1 .. n
      PROVE  g[k] = IF s.parts[k].head = head THEN Append(g[k - 1], s.parts[k].data)
                    ELSE g[k - 1]
  <2>1. g[k] = g[k - 1] \o es[k] /\ g[k - 1] \in Seq(Text) /\ s.parts[k].data \in Text
    <3>1. k - 1 \in 0 .. n
      BY <1>1
    <3> QED BY <1>2, <1>7, <3>1
  <2>2. CASE s.parts[k].head = head
    <3>1. es[k] = <<s.parts[k].data>>
      BY <1>3, <2>2
    <3>2. Append(g[k - 1], s.parts[k].data) = g[k - 1] \o <<s.parts[k].data>>
      BY <2>1, AppendIsConcat
    <3> QED BY <2>1, <2>2, <3>1, <3>2
  <2>3. CASE s.parts[k].head # head
    <3>1. es[k] = <<>>
      BY <1>3, <2>3
    <3> QED BY <2>1, <2>3, <3>1, ConcatEmptySeq
  <2> QED BY <2>2, <2>3
<1>9. ASSUME NEW k \in 0 .. n
      PROVE  Begins(g, n, k)
  <2>1. n \in 0 .. n /\ k <= n
    BY <1>1
  <2> QED BY <1>1, <1>3, <1>5, <2>1, JoinsGrow
<1>10. Gathers(s, head, g)
  BY <1>4, <1>6, <1>7, <1>8, <1>9 DEF Gathers, n
<1> QED BY <1>10

-----------------------------------------------------------------------------
(* Searching what has arrived.                                             *)

\* What is dropped and what is kept of a slice.
LEMMA DropIs ==
  ASSUME NEW b \in Text, NEW c \in Nat, NEW f \in Nat, c <= f, f <= Len(b),
         NEW m \in Nat, m <= f - c
  PROVE  Drop(SubSeq(b, c + 1, f), m) = SubSeq(b, (c + m) + 1, f)
<1>1. Len(SubSeq(b, c + 1, f)) = f - c /\ f - c \in Nat /\ c + (f - c) = f
  BY SliceIs DEF Text
<1>2. SubSeq(SubSeq(b, c + 1, f), m + 1, f - c) = SubSeq(b, (c + m) + 1, c + (f - c))
  BY <1>1, SliceOfSlice DEF Text
<1> QED BY <1>1, <1>2 DEF Drop

\* What is kept of a buffer is the end of what arrived.
LEMMA KeepIs ==
  ASSUME NEW b \in Text, NEW c \in Nat, NEW f \in Nat, c <= f, f <= Len(b), NEW m \in Nat
  PROVE  Keep(SubSeq(b, c + 1, f), m) =
           SubSeq(b, (IF f - c > m THEN f - m ELSE c) + 1, f)
<1>1. Len(SubSeq(b, c + 1, f)) = f - c /\ f - c \in Nat
  BY SliceIs DEF Text
<1>2. CASE f - c > m
  <2>1. (f - c) - m \in Nat /\ (f - c) - m <= f - c /\ c + ((f - c) - m) = f - m
    BY <1>1, <1>2
  <2>2. Drop(SubSeq(b, c + 1, f), (f - c) - m) = SubSeq(b, (c + ((f - c) - m)) + 1, f)
    BY <2>1, DropIs
  <2> QED BY <1>1, <1>2, <2>1, <2>2 DEF Keep
<1>3. CASE ~ (f - c > m)
  BY <1>1, <1>3 DEF Keep
<1> QED BY <1>2, <1>3

\* A search for t after c finds it at p as soon as it is all there.
FoundAt(buf, t, c, f, p) ==
  /\ Occurrences(buf, t) = {} <=> f < p + Len(t)
  /\ Occurrences(buf, t) # {} => Min(Occurrences(buf, t)) = (p - c) + 1

\* So it is when t stands at p in a text and nowhere between c and p, and what
\* arrived is a beginning of that text.
LEMMA SearchFinds ==
  ASSUME NEW w \in Text, NEW b \in Text, NEW c \in Nat, NEW f \in Nat, c <= f, f <= Len(b),
         \A j \in 1 .. Len(w) : j <= Len(b) => b[j] = w[j],
         NEW t \in Text, Len(t) > 0, NEW p \in Nat, c <= p, p + Len(t) <= Len(w),
         \A j \in 1 .. Len(t) : w[p + j] = t[j],
         \A q \in c .. p - 1 : \E j \in 1 .. Len(t) : w[q + j] # t[j]
  PROVE  FoundAt(SubSeq(b, c + 1, f), t, c, f, p)
<1> DEFINE buf == SubSeq(b, c + 1, f)
           found == Occurrences(buf, t)
<1>1. Len(w) \in Nat /\ Len(b) \in Nat /\ Len(t) \in Nat
  BY LenProperties DEF Text
<1>2. buf \in Text /\ Len(buf) = f - c /\ \A i \in 1 .. f - c : buf[i] = b[c + i]
  BY SliceIs DEF Text
<1> HIDE DEF buf
<1>3. \A i \in 1 .. f - c : c + i <= Len(w) => buf[i] = w[c + i]
  BY <1>1, <1>2
<1>4. ASSUME NEW i \in found PROVE (p - c) + 1 <= i /\ p + Len(t) <= f
  <2>1. /\ i \in 1 .. f - c /\ i + Len(t) - 1 <= f - c
        /\ \A j \in 1 .. Len(t) : buf[(i - 1) + j] = t[j]
    <3>1. i \in 1 .. Len(buf) /\ Matches(buf, t, i)
      BY DEF Occurrences
    <3> QED BY <1>2, <3>1, MatchesAre
  <2>2. ASSUME i < (p - c) + 1 PROVE FALSE
    <3> DEFINE q == c + (i - 1)
    <3>1. q \in c .. p - 1
      <4>1. i \in Nat /\ i >= 1 /\ i < (p - c) + 1
        BY <2>1, <2>2
      <4> QED BY <4>1
    <3>2. PICK j \in 1 .. Len(t) : w[q + j] # t[j]
      BY <3>1
    <3>3. /\ (i - 1) + j \in 1 .. f - c /\ c + ((i - 1) + j) = q + j
          /\ c + ((i - 1) + j) <= Len(w)
      BY <1>1, <2>1, <2>2
    <3>4. buf[(i - 1) + j] = t[j]
      BY <2>1
    <3> QED BY <1>3, <3>2, <3>3, <3>4
  <2>3. (p - c) + 1 <= i
    BY <2>1, <2>2
  <2> QED BY <1>1, <2>1, <2>3
<1>5. ASSUME p + Len(t) <= f PROVE (p - c) + 1 \in found
  <2> DEFINE i == (p - c) + 1
  <2>1. i \in 1 .. f - c /\ i + Len(t) - 1 <= f - c /\ i - 1 = p - c
    BY <1>1, <1>5
  <2>2. ASSUME NEW j \in 1 .. Len(t) PROVE buf[(i - 1) + j] = t[j]
    <3>1. /\ (i - 1) + j \in 1 .. f - c /\ c + ((i - 1) + j) = p + j
          /\ c + ((i - 1) + j) <= Len(w)
      BY <1>1, <1>5
    <3> QED BY <1>3, <3>1
  <2> HIDE DEF i
  <2>3. i \in 1 .. Len(buf) /\ Matches(buf, t, i)
    BY <1>2, <2>1, <2>2, MatchesAre
  <2>4. i \in found
    BY <2>3 DEF Occurrences
  <2> QED BY <2>4 DEF i
<1>6. found = {} <=> f < p + Len(t)
  <2> HIDE DEF found
  <2> QED BY <1>1, <1>4, <1>5
<1>7. ASSUME found # {} PROVE Min(found) = (p - c) + 1
  <2>1. found \in SUBSET Nat
    BY <1>2 DEF Occurrences
  <2> HIDE DEF found
  <2>2. Min(found) \in found /\ \A u \in found : Min(found) <= u
    BY <1>7, <2>1, MinIs
  <2>3. (p - c) + 1 \in found
    BY <1>4, <1>5, <1>7
  <2> DEFINE m == Min(found)
  <2>4. m \in Nat /\ m <= (p - c) + 1
    BY <2>1, <2>2, <2>3
  <2>5. (p - c) + 1 <= m
    BY <1>4, <2>2 DEF found
  <2> HIDE DEF m
  <2>6. m = (p - c) + 1
    BY <2>4, <2>5
  <2> QED BY <2>6 DEF m
<1> QED BY <1>6, <1>7 DEF FoundAt, buf

-----------------------------------------------------------------------------
(* The inductive invariant of the parser.                                  *)

At(s) == CHOOSE at : Layout(s, at)
Gathered(s, head) == CHOOSE g : Gathers(s, head, g)
LastOf(g) == IF g = <<>> THEN <<>> ELSE Last(g)

\* The buffer is what arrived and is not consumed.
Consumed == fed - Len(buffer)
Buffered ==
  /\ fed \in 0 .. Len(Body(sent)) /\ buffer \in Text /\ Len(buffer) <= fed
  /\ buffer = SubSeq(Body(sent), Consumed + 1, fed)
  /\ phase = "last" => fed = Len(Body(sent))

\* k parts are parsed, and the parser is before the first, at the headers or
\* in the data of the next, or after the last.
BeforeParts(k) ==
  ~ started /\ ~ finished /\ part = NoPart /\ k = 0 /\ Consumed <= At(sent)[0]
AtHeaders(k) ==
  /\ started /\ ~ finished /\ part = NoPart /\ k < Len(sent.parts)
  /\ Consumed = At(sent)[k] + 5
InPart(k) ==
  /\ started /\ ~ finished /\ k < Len(sent.parts)
  /\ At(sent)[k] + 10 <= Consumed /\ Consumed <= At(sent)[k + 1] - 2
  /\ part = [head |-> sent.parts[k + 1].head,
             data |-> SubSeq(sent.parts[k + 1].data, 1, Consumed - (At(sent)[k] + 10))]
  /\ ~ TooLarge(part)
  /\ phase = "feed" => Len(buffer) <= Len(NextBoundaryBuffer) + 1
AfterParts(k) ==
  /\ finished /\ part = NoPart /\ k = Len(sent.parts) /\ IsWhole(sent)

ParsedTo(k) ==
  /\ files = Gathered(sent, "file")[k] /\ \A i \in 1 .. Len(files) : Len(files[i]) <= MaxBytes
  /\ fields = LastOf(Gathered(sent, "scope")[k])
  /\ BeforeParts(k) \/ AtHeaders(k) \/ InPart(k) \/ AfterParts(k)

UploadInv ==
  /\ sent \in Bodies /\ phase \in {"feed", "parse", "last", "done"}
  /\ phase # "done" => Buffered /\ \E k \in 0 .. Len(sent.parts) : ParsedTo(k)
  /\ AnswersFitWhatWasSent

\* The functions that exist are the chosen ones.
LEMMA ChosenFit ==
  ASSUME NEW s \in Bodies
  PROVE  Layout(s, At(s)) /\ \A head : Gathers(s, head, Gathered(s, head))
BY LayoutExists, GathersExists DEF At, Gathered

\* Where the boundary after k parts lies.
LEMMA PlaceIs ==
  ASSUME NEW s \in Bodies, NEW k \in 0 .. Len(s.parts)
  PROVE  /\ At(s)[k] \in Nat /\ Len(s.parts) \in Nat /\ At(s)[k] + 5 <= Len(WholeBody(s))
         /\ k = Len(s.parts) => Len(WholeBody(s)) = At(s)[k] + 5
         /\ k # Len(s.parts) =>
              /\ s.parts[k + 1] \in Parts /\ Len(s.parts[k + 1].data) \in Nat
              /\ At(s)[k + 1] = At(s)[k] + 12 + Len(s.parts[k + 1].data)
              /\ At(s)[k + 1] + 5 <= Len(WholeBody(s))
<1> DEFINE n == Len(s.parts)
           at == At(s)
           w == WholeBody(s)
           L(j) == Len(s.parts[j].data)
           U == {0} \cup {j \in 1 .. n : at[n - j] <= at[n]}
<1>1. n \in Nat /\ s.parts \in [1 .. n -> Parts]
  BY BodyIs
<1>2. \A j \in 1 .. n : s.parts[j] \in Parts /\ L(j) \in Nat
  BY <1>1, EncodeIs
<1>3. /\ at \in [0 .. n -> Nat] /\ Len(w) = at[n] + 5
      /\ \A j \in 1 .. n : at[j] = at[j - 1] + 12 + L(j)
  BY ChosenFit DEF Layout
<1> HIDE DEF n, at, w, L
<1>4. ASSUME NEW j \in 1 .. n, j - 1 \in U PROVE j \in U
  <2>1. n - (j - 1) \in 1 .. n /\ (n - (j - 1)) - 1 = n - j
    BY <1>1
  <2>2. at[n - (j - 1)] = at[n - j] + 12 + L(n - (j - 1)) /\ L(n - (j - 1)) \in Nat
    BY <1>2, <1>3, <2>1
  <2>3. at[n - (j - 1)] <= at[n]
    <3>1. CASE j = 1
      BY <1>1, <1>3, <3>1
    <3>2. CASE j # 1
      BY <1>4, <3>2
    <3> QED BY <3>1, <3>2
  <2>4. at[n - j] \in Nat /\ at[n - (j - 1)] \in Nat /\ at[n] \in Nat
    <3>1. n - j \in 0 .. n /\ n - (j - 1) \in 0 .. n /\ n \in 0 .. n
      BY <1>1
    <3> QED BY <1>3, <3>1
  <2> QED BY <2>2, <2>3, <2>4
<1>5. ASSUME NEW j \in 0 .. n PROVE at[j] \in Nat /\ at[j] <= at[n] /\ at[n] \in Nat
  <2>1. 0 .. n \subseteq U
    <3>1. 0 \in U
      OBVIOUS
    <3> HIDE DEF U
    <3> QED BY <1>1, <1>4, <3>1, CountUp
  <2>2. n - j \in 0 .. n /\ n - (n - j) = j /\ n \in 0 .. n
    BY <1>1
  <2>3. at[j] \in Nat /\ at[n] \in Nat
    BY <1>3, <2>2
  <2>4. CASE j = n
    BY <2>3, <2>4
  <2>5. CASE j # n
    <3>1. n - j \in 1 .. n /\ n - j \in 0 .. n /\ n - j # 0
      BY <1>1, <2>5
    <3>2. n - j \in U
      <4> HIDE DEF U
      <4> QED BY <2>1, <3>1
    <3>3. at[n - (n - j)] <= at[n]
      BY <3>1, <3>2
    <3> QED BY <2>2, <2>3, <3>3
  <2> QED BY <2>4, <2>5
<1>6. k \in 0 .. n
  BY DEF n
<1>7. at[k] \in Nat /\ n \in Nat /\ at[k] + 5 <= Len(w) /\ (k = n => Len(w) = at[k] + 5)
  <2>1. at[k] \in Nat /\ at[k] <= at[n] /\ at[n] \in Nat /\ Len(w) = at[n] + 5
    BY <1>3, <1>5, <1>6
  <2>2. k = n => at[k] = at[n]
    OBVIOUS
  <2> QED BY <1>1, <2>1, <2>2
<1>8. ASSUME k # n
      PROVE  /\ s.parts[k + 1] \in Parts /\ L(k + 1) \in Nat
             /\ at[k + 1] = at[k] + 12 + L(k + 1) /\ at[k + 1] + 5 <= Len(w)
  <2>1. k + 1 \in 1 .. n /\ (k + 1) - 1 = k /\ k + 1 \in 0 .. n
    BY <1>1, <1>6, <1>8
  <2>2. s.parts[k + 1] \in Parts /\ L(k + 1) \in Nat
    BY <1>2, <2>1
  <2>3. at[k + 1] = at[k] + 12 + L(k + 1)
    BY <1>3, <2>1
  <2>4. at[k + 1] \in Nat /\ at[k + 1] <= at[n] /\ at[n] \in Nat /\ Len(w) = at[n] + 5
    BY <1>3, <1>5, <2>1
  <2>5. at[k + 1] + 5 <= Len(w)
    BY <2>4
  <2> QED BY <2>2, <2>3, <2>5
<1> QED BY <1>7, <1>8 DEF n, at, w, L

\* What lies at and after that boundary.
Lies(s, k) ==
  LET w == WholeBody(s)
      a == At(s)[k]
      p == s.parts[k + 1] IN
  /\ w[a + 1] = "-" /\ w[a + 2] = "-" /\ w[a + 3] = "b"
  /\ k = Len(s.parts) => w[a + 4] = s.closing[1] /\ w[a + 5] = s.closing[2]
  /\ k # Len(s.parts) =>
       /\ w[a + 4] = "r" /\ w[a + 5] = "n" /\ w[a + 6] = p.head
       /\ w[a + 7] = "r" /\ w[a + 8] = "n" /\ w[a + 9] = "r" /\ w[a + 10] = "n"
       /\ \A j \in 1 .. Len(p.data) : w[a + 10 + j] = p.data[j]
       /\ w[a + 11 + Len(p.data)] = "r" /\ w[a + 12 + Len(p.data)] = "n"

\* The layout at one boundary.
LEMMA TokensLie ==
  ASSUME NEW s \in Bodies, NEW k \in 0 .. Len(s.parts)
  PROVE  Lies(s, k)
<1> DEFINE n == Len(s.parts)
           at == At(s)
           w == WholeBody(s)
<1>1. n \in Nat /\ k \in 0 .. n
  BY BodyIs
<1>2. /\ \A j \in 0 .. n : w[at[j] + 1] = "-" /\ w[at[j] + 2] = "-" /\ w[at[j] + 3] = "b"
      /\ \A j \in 1 .. n :
           /\ w[at[j - 1] + 4] = "r" /\ w[at[j - 1] + 5] = "n"
           /\ w[at[j - 1] + 6] = s.parts[j].head
           /\ w[at[j - 1] + 7] = "r" /\ w[at[j - 1] + 8] = "n"
           /\ w[at[j - 1] + 9] = "r" /\ w[at[j - 1] + 10] = "n"
           /\ \A i \in 1 .. Len(s.parts[j].data) :
                w[at[j - 1] + 10 + i] = s.parts[j].data[i]
           /\ w[at[j - 1] + 11 + Len(s.parts[j].data)] = "r"
           /\ w[at[j - 1] + 12 + Len(s.parts[j].data)] = "n"
      /\ w[at[n] + 4] = s.closing[1] /\ w[at[n] + 5] = s.closing[2]
  <2>1. Layout(s, at)
    BY ChosenFit
  <2> HIDE DEF at
  <2> QED BY <2>1 DEF Layout
<1> HIDE DEF at, w, n
<1>3. k # n => k + 1 \in 1 .. n /\ (k + 1) - 1 = k
  BY <1>1
<1>4. /\ w[at[k] + 1] = "-" /\ w[at[k] + 2] = "-" /\ w[at[k] + 3] = "b"
      /\ k = n => w[at[k] + 4] = s.closing[1] /\ w[at[k] + 5] = s.closing[2]
  BY <1>1, <1>2
<1>5. ASSUME k # n
      PROVE  /\ w[at[k] + 4] = "r" /\ w[at[k] + 5] = "n" /\ w[at[k] + 6] = s.parts[k + 1].head
             /\ w[at[k] + 7] = "r" /\ w[at[k] + 8] = "n"
             /\ w[at[k] + 9] = "r" /\ w[at[k] + 10] = "n"
             /\ \A i \in 1 .. Len(s.parts[k + 1].data) :
                  w[at[k] + 10 + i] = s.parts[k + 1].data[i]
             /\ w[at[k] + 11 + Len(s.parts[k + 1].data)] = "r"
             /\ w[at[k] + 12 + Len(s.parts[k + 1].data)] = "n"
  <2>1. k + 1 \in 1 .. n /\ at[(k + 1) - 1] = at[k]
    BY <1>3, <1>5
  <2> QED BY <1>2, <2>1
<1> QED BY <1>4, <1>5 DEF Lies, n, at, w

\* The buffer is a slice of the body, and the body is what was sent.
LEMMA BufferIs ==
  ASSUME sent \in Bodies, Buffered
  PROVE  /\ Consumed \in Nat /\ fed \in Nat /\ Consumed <= fed /\ fed <= Len(Body(sent))
         /\ Len(buffer) = fed - Consumed /\ buffer = SubSeq(Body(sent), Consumed + 1, fed)
         /\ Body(sent) \in Text /\ WholeBody(sent) \in Text
         /\ \A j \in 1 .. Len(WholeBody(sent)) :
              j <= Len(Body(sent)) => Body(sent)[j] = WholeBody(sent)[j]
<1>1. Len(buffer) \in Nat /\ Len(Body(sent)) \in Nat
  BY ArrivingIs, LenProperties DEF Buffered, Text
<1> QED BY <1>1, ArrivingIs DEF Buffered, Consumed

\* The boundary before the parts is found, and no earlier one.
LEMMA StartIsFound ==
  ASSUME sent \in Bodies, Buffered, Consumed <= At(sent)[0]
  PROVE  FoundAt(buffer, BoundaryBuffer, Consumed, fed, At(sent)[0])
<1> DEFINE w == WholeBody(sent)
           b == Body(sent)
           p == At(sent)[0]
           t == BoundaryBuffer
<1>1. 0 \in 0 .. Len(sent.parts)
  BY BodyIs
<1>2. p \in Nat /\ p + 5 <= Len(w)
  BY <1>1, PlaceIs
<1>3. /\ t \in Text /\ Len(t) = 3 /\ t[1] = "-" /\ t[2] = "-" /\ t[3] = "b"
  BY Texts, TokensAre
<1>4. /\ Consumed \in Nat /\ fed \in Nat /\ Consumed <= fed /\ fed <= Len(b)
      /\ buffer = SubSeq(b, Consumed + 1, fed) /\ b \in Text /\ w \in Text
      /\ \A j \in 1 .. Len(w) : j <= Len(b) => b[j] = w[j]
  BY BufferIs
<1>5. /\ w[p + 1] = "-" /\ w[p + 2] = "-" /\ w[p + 3] = "b"
      /\ \A j \in 1 .. p : ~ (w[j] = "-" /\ w[j + 1] = "-" /\ w[j + 2] = "b")
  BY <1>1, ChosenFit DEF Layout
<1> HIDE DEF w, b, p, t
<1>6. \A j \in 1 .. Len(t) : w[p + j] = t[j]
  <2>1. 1 .. 3 = {1, 2, 3}
    OBVIOUS
  <2> QED BY <1>3, <1>5, <2>1
<1>7. \A q \in Consumed .. p - 1 : \E j \in 1 .. Len(t) : w[q + j] # t[j]
  <2> SUFFICES ASSUME NEW q \in Consumed .. p - 1, \A j \in 1 .. Len(t) : w[q + j] = t[j]
               PROVE  FALSE
    OBVIOUS
  <2>1. /\ q + 1 \in 1 .. p /\ (q + 1) + 1 = q + 2 /\ (q + 1) + 2 = q + 3
        /\ 1 \in 1 .. 3 /\ 2 \in 1 .. 3 /\ 3 \in 1 .. 3
    BY <1>2, <1>4
  <2>2. w[q + 1] = "-" /\ w[q + 2] = "-" /\ w[q + 3] = "b"
    BY <1>3, <2>1
  <2> QED BY <1>5, <2>1, <2>2
<1>8. Consumed <= p /\ Len(t) > 0 /\ p + Len(t) <= Len(w)
  BY <1>2, <1>3 DEF p
<1>9. FoundAt(SubSeq(b, Consumed + 1, fed), t, Consumed, fed, p)
  <2> DEFINE c == Consumed
  <2>1. /\ c \in Nat /\ c <= fed /\ c <= p
        /\ \A q \in c .. p - 1 : \E j \in 1 .. Len(t) : w[q + j] # t[j]
    BY <1>4, <1>7, <1>8
  <2> HIDE DEF c
  <2>2. FoundAt(SubSeq(b, c + 1, fed), t, c, fed, p)
    BY <1>2, <1>3, <1>4, <1>6, <1>8, <2>1, SearchFinds
  <2> QED BY <2>2 DEF c
<1> QED BY <1>4, <1>9 DEF t, p

\* The end of a part's headers is found right after its head.
LEMMA HeadersAreFound ==
  ASSUME sent \in Bodies, Buffered, NEW k \in 0 .. Len(sent.parts), k # Len(sent.parts),
         Consumed = At(sent)[k] + 5
  PROVE  FoundAt(buffer, HeaderDelimiter, Consumed, fed, At(sent)[k] + 6)
<1> DEFINE w == WholeBody(sent)
           b == Body(sent)
           a == At(sent)[k]
           t == HeaderDelimiter
           c == Consumed
           p == a + 6
<1>1. a \in Nat /\ a + 17 <= Len(w) /\ Len(w) \in Nat
  <2> DEFINE l == Len(sent.parts[k + 1].data)
             d == At(sent)[k + 1]
  <2>1. a \in Nat /\ l \in Nat /\ d = a + 12 + l /\ d + 5 <= Len(w)
    BY PlaceIs
  <2>2. Len(w) \in Nat
    BY ArrivingIs
  <2> HIDE DEF a, l, d, w
  <2> QED BY <2>1, <2>2
<1>2. /\ t \in Text /\ Len(t) = 4 /\ t[1] = "r" /\ t[2] = "n" /\ t[3] = "r" /\ t[4] = "n"
  BY Texts, TokensAre
<1>3. /\ c \in Nat /\ fed \in Nat /\ c <= fed /\ fed <= Len(b) /\ c = a + 5
      /\ buffer = SubSeq(b, c + 1, fed) /\ b \in Text /\ w \in Text
      /\ \A j \in 1 .. Len(w) : j <= Len(b) => b[j] = w[j]
  BY BufferIs
<1>4. /\ w[a + 6] \in {"file", "scope", "other"}
      /\ w[a + 7] = "r" /\ w[a + 8] = "n" /\ w[a + 9] = "r" /\ w[a + 10] = "n"
  <2>1. sent.parts[k + 1].head \in {"file", "scope", "other"}
    BY PlaceIs, PartIs
  <2>2. Lies(sent, k)
    BY TokensLie
  <2> QED BY <2>1, <2>2 DEF Lies
<1> HIDE DEF w, b, a, t, c
<1>5. \A j \in 1 .. Len(t) : w[p + j] = t[j]
  <2>1. 1 .. 4 = {1, 2, 3, 4}
    OBVIOUS
  <2>2. p + 1 = a + 7 /\ p + 2 = a + 8 /\ p + 3 = a + 9 /\ p + 4 = a + 10
    BY <1>1
  <2> QED BY <1>2, <1>4, <2>1, <2>2
<1>6. \A q \in c .. p - 1 : \E j \in 1 .. Len(t) : w[q + j] # t[j]
  <2> SUFFICES ASSUME NEW q \in c .. p - 1 PROVE \E j \in 1 .. Len(t) : w[q + j] # t[j]
    OBVIOUS
  <2>1. q + 1 = a + 6 /\ 1 \in 1 .. Len(t)
    BY <1>1, <1>2, <1>3
  <2> QED BY <1>2, <1>4, <2>1
<1>7. p \in Nat /\ c <= p /\ Len(t) > 0 /\ p + Len(t) <= Len(w)
  BY <1>1, <1>2, <1>3
<1> HIDE DEF p
<1>8. FoundAt(SubSeq(b, c + 1, fed), t, c, fed, p)
  BY <1>2, <1>3, <1>5, <1>6, <1>7, SearchFinds
<1> QED BY <1>3, <1>8 DEF t, c, p, a

\* Where the data of the part after that boundary lies.
DataEnds(s, k) == At(s)[k + 1] - 2

\* The boundary after a part's data is found, and nothing in the data.
LEMMA BoundaryIsFound ==
  ASSUME sent \in Bodies, Buffered, NEW k \in 0 .. Len(sent.parts), k # Len(sent.parts),
         At(sent)[k] + 10 <= Consumed, Consumed <= DataEnds(sent, k)
  PROVE  FoundAt(buffer, NextBoundaryBuffer, Consumed, fed, DataEnds(sent, k))
<1> DEFINE w == WholeBody(sent)
           b == Body(sent)
           a == At(sent)[k]
           t == NextBoundaryBuffer
           c == Consumed
           p == DataEnds(sent, k)
           d == sent.parts[k + 1].data
           l == Len(d)
<1>1. /\ a \in Nat /\ l \in Nat /\ p = a + 10 + l /\ p + 7 <= Len(w) /\ Len(w) \in Nat
      /\ p + 2 = At(sent)[k + 1] /\ k + 1 \in 0 .. Len(sent.parts)
  <2> DEFINE e == At(sent)[k + 1]
  <2>1. a \in Nat /\ l \in Nat /\ e = a + 12 + l /\ e + 5 <= Len(w)
    BY PlaceIs
  <2>2. Len(w) \in Nat /\ p = e - 2
    BY ArrivingIs DEF DataEnds
  <2>3. k + 1 \in 0 .. Len(sent.parts)
    BY BodyIs
  <2> HIDE DEF a, l, e, w, p
  <2>4. /\ p = a + 10 + l /\ p + 7 <= Len(w) /\ p + 2 = e
    BY <2>1, <2>2
  <2> QED BY <2>1, <2>2, <2>3, <2>4 DEF e
<1>2. /\ t \in Text /\ Len(t) = 5 /\ t[1] = "r" /\ t[2] = "n" /\ t[3] = "-"
      /\ t[4] = "-" /\ t[5] = "b"
  BY Texts, TokensAre
<1>3. /\ c \in Nat /\ fed \in Nat /\ c <= fed /\ fed <= Len(b)
      /\ a + 10 <= c /\ c <= p
      /\ buffer = SubSeq(b, c + 1, fed) /\ b \in Text /\ w \in Text
      /\ \A j \in 1 .. Len(w) : j <= Len(b) => b[j] = w[j]
  BY BufferIs
<1>4. /\ \A j \in 1 .. l : w[a + 10 + j] = d[j]
      /\ w[p + 1] = "r" /\ w[p + 2] = "n" /\ w[p + 3] = "-" /\ w[p + 4] = "-"
      /\ w[p + 5] = "b"
  <2>1. Lies(sent, k) /\ Lies(sent, k + 1)
    BY <1>1, TokensLie
  <2>2. /\ \A j \in 1 .. l : w[a + 10 + j] = d[j]
        /\ w[a + 11 + l] = "r" /\ w[a + 12 + l] = "n"
    BY <2>1 DEF Lies
  <2>3. w[(p + 2) + 1] = "-" /\ w[(p + 2) + 2] = "-" /\ w[(p + 2) + 3] = "b"
    BY <1>1, <2>1 DEF Lies
  <2> HIDE DEF w, a, l, p
  <2>4. /\ a + 11 + l = p + 1 /\ a + 12 + l = p + 2 /\ (p + 2) + 1 = p + 3
        /\ (p + 2) + 2 = p + 4 /\ (p + 2) + 3 = p + 5
    BY <1>1
  <2> QED BY <2>2, <2>3, <2>4
<1>5. d \in Text /\ \A i \in 1 .. l : ~ Matches(d, t, i)
  BY PlaceIs, PartIs
<1> HIDE DEF w, b, a, t, c, p, d
<1>6. \A j \in 1 .. Len(t) : w[p + j] = t[j]
  <2>1. 1 .. 5 = {1, 2, 3, 4, 5}
    OBVIOUS
  <2> QED BY <1>2, <1>4, <2>1
<1>7. ASSUME NEW q \in c .. p - 1, \A j \in 1 .. Len(t) : w[q + j] = t[j]
      PROVE  FALSE
  <2>1. q \in Nat /\ a + 10 <= q /\ q < p
    BY <1>1, <1>3
  <2>2. CASE q + 5 <= p
    <3> DEFINE i == (q - (a + 10)) + 1
    <3>1. i \in 1 .. l /\ i + 4 <= l /\ i - 1 = q - (a + 10)
      BY <1>1, <2>1, <2>2
    <3>2. ASSUME NEW j \in 1 .. 5 PROVE d[(i - 1) + j] = t[j]
      <4>1. (i - 1) + j \in 1 .. l /\ a + 10 + ((i - 1) + j) = q + j
        BY <1>1, <2>1, <3>1
      <4>2. w[q + j] = t[j]
        BY <1>2, <1>7
      <4> QED BY <1>4, <4>1, <4>2
    <3> HIDE DEF i
    <3>3. i + Len(t) - 1 <= Len(d) /\ Len(t) > 0
      BY <1>1, <1>2, <3>1
    <3>4. Matches(d, t, i)
      BY <1>2, <1>5, <3>1, <3>2, <3>3, MatchesAre
    <3> QED BY <1>5, <3>1, <3>4
  <2>3. CASE ~ (q + 5 <= p)
    <3>1. w[q + 5] = "b"
      <4>1. 5 \in 1 .. Len(t)
        BY <1>2
      <4> QED BY <1>2, <1>7, <4>1
    <3>2. p \in Nat
      BY <1>1
    <3>3. q + 5 = p + 1 \/ q + 5 = p + 2 \/ q + 5 = p + 3 \/ q + 5 = p + 4
      BY <2>1, <2>3, <3>2
    <3> QED BY <1>4, <3>1, <3>3
  <2> QED BY <2>2, <2>3
<1>8. p \in Nat /\ Len(t) > 0 /\ p + Len(t) <= Len(w)
  BY <1>1, <1>2
<1>9. \A q \in c .. p - 1 : \E j \in 1 .. Len(t) : w[q + j] # t[j]
  BY <1>7
<1>10. FoundAt(SubSeq(b, c + 1, fed), t, c, fed, p)
  BY <1>2, <1>3, <1>6, <1>8, <1>9, SearchFinds
<1> QED BY <1>3, <1>10 DEF t, c, p

\* A sequence begins with two tokens.
LEMMA PrefixOfTwo ==
  ASSUME NEW s \in Text, Len(s) >= 2, NEW t \in Text, Len(t) = 2
  PROVE  IsPrefix(t, s) <=> s[1] = t[1] /\ s[2] = t[2]
<1>1. Len(s) \in Nat /\ 0 \in Nat /\ 2 \in Nat /\ 0 <= 2 /\ 2 <= Len(s)
  BY LenProperties DEF Text
<1>2. /\ SubSeq(s, 0 + 1, 2) \in Text /\ Len(SubSeq(s, 0 + 1, 2)) = 2 - 0
      /\ \A i \in 1 .. 2 - 0 : SubSeq(s, 0 + 1, 2)[i] = s[0 + i]
  BY <1>1, SliceIs DEF Text
<1> DEFINE u == SubSeq(s, 0 + 1, 2)
<1>3. IsPrefix(t, s) <=> t = u
  <2>1. 0 + 1 = 1 /\ Len(t) <= Len(s)
    BY <1>1
  <2>2. SubSeq(t, 1, 2) = t
    BY SubSeqFull DEF Text
  <2>3. IsPrefix(t, s) <=> SubSeq(t, 1, 2) = SubSeq(s, 1, 2)
    BY <2>1 DEF IsPrefix
  <2> QED BY <2>1, <2>2, <2>3
<1> HIDE DEF u
<1>4. u \in Seq(Tokens) /\ t \in Seq(Tokens) /\ Len(u) = 2
  BY <1>2 DEF Text, u
<1>5. t = u <=> \A i \in 1 .. 2 : t[i] = u[i]
  BY <1>4, SeqEqual
<1>6. u[1] = s[1] /\ u[2] = s[2]
  <2>1. 1 \in 1 .. 2 - 0 /\ 2 \in 1 .. 2 - 0 /\ 0 + 1 = 1 /\ 0 + 2 = 2
    OBVIOUS
  <2> QED BY <1>2, <2>1 DEF u
<1>7. 1 .. 2 = {1, 2}
  OBVIOUS
<1> QED BY <1>3, <1>5, <1>6, <1>7

\* Two tokens after a boundary tell whether a part follows it or the body ends.
LEMMA AfterBoundary ==
  ASSUME sent \in Bodies, Buffered, NEW k \in 0 .. Len(sent.parts), NEW rest,
         At(sent)[k] + 5 <= fed,
         rest = SubSeq(Body(sent), (At(sent)[k] + 3) + 1, fed)
  PROVE  /\ Len(rest) = fed - (At(sent)[k] + 3)
         /\ k # Len(sent.parts) => IsPrefix(CRLF, rest) /\ ~ IsPrefix(Dashes, rest)
         /\ k = Len(sent.parts) =>
              ~ IsPrefix(CRLF, rest) /\ (IsPrefix(Dashes, rest) <=> IsWhole(sent))
         /\ Drop(rest, 2) = SubSeq(Body(sent), (At(sent)[k] + 5) + 1, fed)
<1> DEFINE w == WholeBody(sent)
           b == Body(sent)
           a == At(sent)[k]
           x == a + 3
<1>1. /\ a \in Nat /\ x \in Nat /\ a + 5 <= Len(w) /\ Len(w) \in Nat
      /\ k = Len(sent.parts) => Len(w) = a + 5
  <2>1. /\ a \in Nat /\ a + 5 <= Len(w) /\ Len(w) \in Nat
        /\ k = Len(sent.parts) => Len(w) = a + 5
    BY PlaceIs, ArrivingIs
  <2> QED BY <2>1
<1>2. /\ fed \in Nat /\ fed <= Len(b) /\ b \in Text /\ w \in Text
      /\ \A j \in 1 .. Len(w) : j <= Len(b) => b[j] = w[j]
  BY BufferIs
<1>3. rest = SubSeq(b, x + 1, fed) /\ x + 2 <= fed
  BY <1>1, <1>2
<1>4. Lies(sent, k)
  BY TokensLie
<1>5. /\ k = Len(sent.parts) => w[a + 4] = sent.closing[1] /\ w[a + 5] = sent.closing[2]
      /\ k # Len(sent.parts) => w[a + 4] = "r" /\ w[a + 5] = "n"
  BY <1>4 DEF Lies
<1>6. Len(b) \in Nat /\ (sent.cut = 0 <=> Len(w) <= Len(b))
  BY ArrivingIs
<1> HIDE DEF w, b, a
<1>7. x + 1 = a + 4 /\ x + 2 = a + 5
  BY <1>1
<1> HIDE DEF x
<1>8. /\ rest \in Text /\ Len(rest) = fed - x /\ \A i \in 1 .. fed - x : rest[i] = b[x + i]
  <2>1. x \in Nat /\ fed \in Nat /\ x <= fed /\ fed <= Len(b) /\ b \in Seq(Tokens)
    BY <1>1, <1>2, <1>3 DEF Text
  <2>2. /\ SubSeq(b, x + 1, fed) \in Seq(Tokens) /\ Len(SubSeq(b, x + 1, fed)) = fed - x
        /\ \A i \in 1 .. fed - x : SubSeq(b, x + 1, fed)[i] = b[x + i]
    BY <2>1, SliceIs
  <2>3. rest = SubSeq(b, x + 1, fed)
    BY <1>3
  <2> QED BY <2>2, <2>3 DEF Text
<1>9. rest[1] = w[a + 4] /\ rest[2] = w[a + 5] /\ Len(rest) >= 2 /\ Len(rest) \in Nat
  <2>1. 1 \in 1 .. fed - x /\ 2 \in 1 .. fed - x /\ fed - x \in Nat /\ fed - x >= 2
    BY <1>1, <1>2, <1>3
  <2>2. /\ a + 4 \in 1 .. Len(w) /\ a + 5 \in 1 .. Len(w)
        /\ a + 4 <= Len(b) /\ a + 5 <= Len(b)
    BY <1>1, <1>2, <1>3, <1>6, <1>7
  <2>3. rest[1] = b[x + 1] /\ rest[2] = b[x + 2]
    BY <1>8, <2>1
  <2>4. b[a + 4] = w[a + 4] /\ b[a + 5] = w[a + 5]
    BY <1>2, <2>2
  <2> QED BY <1>7, <1>8, <2>1, <2>3, <2>4
<1>10. /\ IsPrefix(CRLF, rest) <=> rest[1] = "r" /\ rest[2] = "n"
       /\ IsPrefix(Dashes, rest) <=> rest[1] = "-" /\ rest[2] = "-"
  <2>1. /\ CRLF \in Text /\ Len(CRLF) = 2 /\ CRLF[1] = "r" /\ CRLF[2] = "n"
        /\ Dashes \in Text /\ Len(Dashes) = 2 /\ Dashes[1] = "-" /\ Dashes[2] = "-"
    BY Texts, TokensAre
  <2>2. rest \in Text /\ Len(rest) >= 2
    BY <1>8, <1>9
  <2>3. /\ IsPrefix(CRLF, rest) <=> rest[1] = CRLF[1] /\ rest[2] = CRLF[2]
        /\ IsPrefix(Dashes, rest) <=> rest[1] = Dashes[1] /\ rest[2] = Dashes[2]
    BY <2>1, <2>2, PrefixOfTwo
  <2> QED BY <2>1, <2>3
<1>11. ASSUME k = Len(sent.parts)
       PROVE  ~ IsPrefix(CRLF, rest) /\ (IsPrefix(Dashes, rest) <=> IsWhole(sent))
  <2>1. sent.closing \in {Dashes, <<"-", "r">>}
    BY BodyIs
  <2>2. sent.closing[1] = "-" /\ (sent.closing[2] = "-" <=> sent.closing = Dashes)
    BY <2>1, TokensAre
  <2>3. sent.cut = 0
    BY <1>1, <1>2, <1>3, <1>6, <1>7, <1>11
  <2> QED BY <1>5, <1>9, <1>10, <1>11, <2>2, <2>3 DEF IsWhole
<1>12. Drop(rest, 2) = SubSeq(b, (x + 2) + 1, fed)
  <2>1. /\ x <= fed /\ 2 <= fed - x /\ 2 \in Nat /\ x \in Nat /\ fed \in Nat
        /\ fed <= Len(b) /\ b \in Text
    BY <1>1, <1>2, <1>3
  <2>2. Drop(SubSeq(b, x + 1, fed), 2) = SubSeq(b, (x + 2) + 1, fed)
    BY <2>1, DropIs
  <2> QED BY <1>3, <2>2
<1>13. Drop(rest, 2) = SubSeq(b, (a + 5) + 1, fed)
  BY <1>7, <1>12
<1> QED BY <1>5, <1>8, <1>9, <1>10, <1>11, <1>13 DEF a, b, x

-----------------------------------------------------------------------------
(* What a step leaves.                                                      *)

\* Where a part's data lies.
LEMMA DataLies ==
  ASSUME sent \in Bodies, NEW k \in 0 .. Len(sent.parts), k # Len(sent.parts)
  PROVE  /\ At(sent)[k] \in Nat /\ sent.parts[k + 1].data \in Text
         /\ Len(sent.parts[k + 1].data) \in Nat /\ Len(WholeBody(sent)) \in Nat
         /\ DataEnds(sent, k) = (At(sent)[k] + 10) + Len(sent.parts[k + 1].data)
         /\ DataEnds(sent, k) + 7 <= Len(WholeBody(sent))
<1> DEFINE w == WholeBody(sent)
           a == At(sent)[k]
           p == DataEnds(sent, k)
           g == At(sent)[k + 1]
           l == Len(sent.parts[k + 1].data)
<1>1. a \in Nat /\ l \in Nat /\ g = a + 12 + l /\ g + 5 <= Len(w)
  BY PlaceIs
<1>2. Len(w) \in Nat /\ p = g - 2
  BY ArrivingIs DEF DataEnds
<1>3. sent.parts[k + 1].data \in Text
  BY PlaceIs, PartIs
<1> HIDE DEF a, l, g, w, p
<1>4. p = (a + 10) + l /\ p + 7 <= Len(w)
  BY <1>1, <1>2
<1> QED BY <1>1, <1>2, <1>3, <1>4 DEF a, l, w, p

\* The data d of a part, which begins at o, is taken up to e.
Grown(d, o, e) ==
  /\ SubSeq(d, 1, Consumed - o) \o SubSeq(buffer, 1, e - Consumed) = SubSeq(d, 1, e - o)
  /\ Len(SubSeq(d, 1, e - o)) = e - o /\ (e - o = Len(d) => SubSeq(d, 1, e - o) = d)

\* A part's data grows by what is taken from the front of the buffer.
LEMMA DataGrows ==
  ASSUME sent \in Bodies, Buffered, NEW k \in 0 .. Len(sent.parts), k # Len(sent.parts),
         At(sent)[k] + 10 <= Consumed, NEW e \in Nat, Consumed <= e, e <= fed,
         e <= DataEnds(sent, k)
  PROVE  Grown(sent.parts[k + 1].data, At(sent)[k] + 10, e)
<1> DEFINE d == sent.parts[k + 1].data
           o == At(sent)[k] + 10
           w == WholeBody(sent)
           b == Body(sent)
           a == At(sent)[k]
           c == Consumed
           p == DataEnds(sent, k)
           l == Len(d)
<1>1. /\ a \in Nat /\ l \in Nat /\ p = (a + 10) + l /\ p + 7 <= Len(w) /\ Len(w) \in Nat
  BY DataLies
<1>2. /\ c \in Nat /\ fed \in Nat /\ c <= fed /\ fed <= Len(b) /\ Len(b) \in Nat
      /\ o <= c /\ c <= e /\ e <= p /\ o = a + 10
      /\ buffer = SubSeq(b, c + 1, fed) /\ b \in Text /\ w \in Text
      /\ \A j \in 1 .. Len(w) : j <= Len(b) => b[j] = w[j]
  BY BufferIs, ArrivingIs
<1>3. d \in Text
  BY PlaceIs, PartIs
<1>4. \A j \in 1 .. l : w[o + j] = d[j]
  <2>1. Lies(sent, k)
    BY TokensLie
  <2>2. \A j \in 1 .. l : w[a + 10 + j] = d[j]
    BY <2>1 DEF Lies
  <2> QED BY <1>2, <2>2
<1> HIDE DEF w, b, a, c, p, l, d, o
<1>5. /\ o \in Nat /\ c - o \in Nat /\ e - o \in Nat /\ e - c \in Nat
      /\ c - o <= e - o /\ e - o <= l /\ c - o <= l /\ e <= Len(b) /\ e <= Len(w)
      /\ p = o + l
  <2>1. a \in Nat /\ l \in Nat /\ p = (a + 10) + l /\ p + 7 <= Len(w) /\ Len(w) \in Nat
    BY <1>1
  <2>2. /\ c \in Nat /\ fed \in Nat /\ c <= fed /\ fed <= Len(b) /\ Len(b) \in Nat
        /\ o <= c /\ c <= e /\ e <= p /\ o = a + 10 /\ e \in Nat /\ e <= fed
    BY <1>2
  <2> DEFINE y == Len(w)
             z == Len(b)
  <2>3. /\ a \in Nat /\ l \in Nat /\ p = a + 10 + l /\ p + 7 <= y /\ y \in Nat
        /\ c \in Nat /\ fed \in Nat /\ c <= fed /\ fed <= z /\ z \in Nat
        /\ o <= c /\ c <= e /\ e <= p /\ o = a + 10 /\ e \in Nat /\ e <= fed
    BY <2>1, <2>2
  <2> HIDE DEF y, z
  <2>4. o \in Nat /\ p \in Nat /\ p = o + l
    BY <2>3
  <2>5. c - o \in Nat /\ e - o \in Nat /\ e - c \in Nat /\ c - o <= e - o
    BY <2>3, <2>4
  <2>6. e - o <= l /\ c - o <= l /\ e <= z /\ e <= y
    BY <2>3, <2>4
  <2> QED BY <2>4, <2>5, <2>6 DEF y, z
<1> DEFINE u == SubSeq(d, 0 + 1, c - o)
           v == SubSeq(buffer, 0 + 1, e - c)
           x == SubSeq(d, 0 + 1, e - o)
<1>6. u \in Seq(Tokens) /\ Len(u) = c - o /\ \A i \in 1 .. c - o : u[i] = d[i]
  <2>1. /\ d \in Seq(Tokens) /\ 0 \in Nat /\ c - o \in Nat /\ 0 <= c - o /\ c - o <= Len(d)
    BY <1>3, <1>5 DEF Text, l
  <2>2. /\ u \in Seq(Tokens) /\ Len(u) = (c - o) - 0
        /\ \A i \in 1 .. (c - o) - 0 : u[i] = d[0 + i]
    BY <2>1, SliceIs
  <2>3. (c - o) - 0 = c - o /\ \A i \in 1 .. c - o : 0 + i = i
    BY <2>1
  <2> HIDE DEF u
  <2> QED BY <2>2, <2>3
<1>7. x \in Seq(Tokens) /\ Len(x) = e - o /\ \A i \in 1 .. e - o : x[i] = d[i]
  <2>1. /\ d \in Seq(Tokens) /\ 0 \in Nat /\ e - o \in Nat /\ 0 <= e - o /\ e - o <= Len(d)
    BY <1>3, <1>5 DEF Text, l
  <2>2. /\ x \in Seq(Tokens) /\ Len(x) = (e - o) - 0
        /\ \A i \in 1 .. (e - o) - 0 : x[i] = d[0 + i]
    BY <2>1, SliceIs
  <2>3. (e - o) - 0 = e - o /\ \A i \in 1 .. e - o : 0 + i = i
    BY <2>1
  <2> HIDE DEF x
  <2> QED BY <2>2, <2>3
<1>8. v \in Seq(Tokens) /\ Len(v) = e - c /\ \A i \in 1 .. e - c : v[i] = b[c + i]
  <2>1. /\ b \in Seq(Tokens) /\ c \in Nat /\ fed \in Nat /\ c <= fed /\ fed <= Len(b)
        /\ 0 \in Nat /\ e - c \in Nat /\ 0 <= e - c /\ e - c <= fed - c
        /\ c <= e /\ e <= Len(b) /\ e \in Nat
    BY <1>2, <1>5 DEF Text
  <2>2. v = SubSeq(b, (c + 0) + 1, c + (e - c))
    BY <1>2, <2>1, SliceOfSlice
  <2>3. (c + 0) + 1 = c + 1 /\ c + (e - c) = e
    BY <2>1
  <2>4. v = SubSeq(b, c + 1, e)
    BY <2>2, <2>3
  <2>5. /\ SubSeq(b, c + 1, e) \in Seq(Tokens) /\ Len(SubSeq(b, c + 1, e)) = e - c
        /\ \A i \in 1 .. e - c : SubSeq(b, c + 1, e)[i] = b[c + i]
    BY <2>1, SliceIs
  <2> QED BY <2>4, <2>5
<1> HIDE DEF u, v, x
<1>9. u \o v = x
  <2>1. Len(x) = Len(u) + Len(v)
    BY <1>2, <1>5, <1>6, <1>7, <1>8
  <2>2. ASSUME NEW i \in 1 .. Len(u) PROVE x[i] = u[i]
    <3>1. i \in 1 .. c - o /\ i \in 1 .. e - o
      BY <1>5, <1>6
    <3> QED BY <1>6, <1>7, <3>1
  <2>3. ASSUME NEW i \in 1 .. Len(v) PROVE x[Len(u) + i] = v[i]
    <3>1. /\ Len(u) + i = (c - o) + i /\ (c - o) + i \in 1 .. e - o /\ (c - o) + i \in 1 .. l
          /\ i \in 1 .. e - c /\ c + i \in 1 .. Len(w) /\ c + i <= Len(b)
          /\ o + ((c - o) + i) = c + i
      <4>1. i \in Nat /\ i >= 1 /\ i <= e - c /\ Len(u) = c - o
        BY <1>5, <1>6, <1>8
      <4>2. /\ c \in Nat /\ o \in Nat /\ e \in Nat /\ o <= c /\ c <= e /\ e - o <= l /\ l \in Nat
            /\ e <= Len(b) /\ e <= Len(w) /\ Len(b) \in Nat /\ Len(w) \in Nat
        BY <1>1, <1>2, <1>5
      <4> DEFINE y == Len(w)
                 z == Len(b)
      <4>3. /\ e <= z /\ e <= y /\ z \in Nat /\ y \in Nat
            /\ c \in Nat /\ o \in Nat /\ e \in Nat /\ o <= c /\ c <= e /\ e - o <= l /\ l \in Nat
            /\ i \in Nat /\ i >= 1 /\ i <= e - c
        BY <4>1, <4>2
      <4> HIDE DEF y, z
      <4>4. (c - o) + i \in 1 .. e - o /\ (c - o) + i \in 1 .. l /\ i \in 1 .. e - c
        <5>1. \A c0, o0, e0, l0, i0 \in Nat :
                o0 <= c0 /\ c0 <= e0 /\ e0 - o0 <= l0 /\ i0 >= 1 /\ i0 <= e0 - c0 =>
                  /\ (c0 - o0) + i0 \in 1 .. e0 - o0 /\ (c0 - o0) + i0 \in 1 .. l0
                  /\ i0 \in 1 .. e0 - c0
          OBVIOUS
        <5> QED BY <4>3, <5>1
      <4>5. c + i \in 1 .. y /\ c + i <= z /\ o + ((c - o) + i) = c + i
        BY <4>3
      <4> QED BY <4>1, <4>4, <4>5 DEF y, z
    <3>2. x[(c - o) + i] = d[(c - o) + i] /\ d[(c - o) + i] = w[c + i] /\ v[i] = b[c + i]
          /\ b[c + i] = w[c + i]
      BY <1>2, <1>4, <1>7, <1>8, <3>1
    <3> QED BY <3>1, <3>2
  <2> QED BY <1>6, <1>7, <1>8, <2>1, <2>2, <2>3, JoinsTo DEF Text
<1>10. ASSUME e - o = Len(d) PROVE x = d
  <2>1. d \in Seq(Tokens) /\ Len(x) = Len(d) /\ \A i \in 1 .. Len(d) : x[i] = d[i]
    BY <1>3, <1>7, <1>10 DEF Text
  <2> QED BY <1>7, <2>1, SeqEqual
<1>11. u = SubSeq(d, 1, c - o) /\ v = SubSeq(buffer, 1, e - c) /\ x = SubSeq(d, 1, e - o)
  BY DEF u, v, x
<1> QED BY <1>7, <1>9, <1>10, <1>11 DEF c, d, o, Grown

\* The buffer keeps what arrived after c.
LEMMA Rebuffered ==
  ASSUME sent \in Bodies, Buffered, sent' = sent, fed' = fed,
         NEW c \in Nat, c <= fed, buffer' = SubSeq(Body(sent), c + 1, fed),
         phase' = "last" => phase = "last"
  PROVE  Buffered' /\ Consumed' = c /\ Len(buffer') = fed - c
<1>1. /\ fed \in Nat /\ fed <= Len(Body(sent)) /\ Body(sent) \in Seq(Tokens)
      /\ Len(Body(sent)) \in Nat /\ (phase = "last" => fed = Len(Body(sent)))
  BY BufferIs, ArrivingIs DEF Text, Buffered
<1>2. /\ SubSeq(Body(sent), c + 1, fed) \in Seq(Tokens)
      /\ Len(SubSeq(Body(sent), c + 1, fed)) = fed - c
  BY <1>1, SliceIs
<1>3. buffer' \in Text /\ Len(buffer') = fed - c
  BY <1>2 DEF Text
<1>4. Consumed' = fed' - Len(buffer')
  BY DEF Consumed
<1>5. Consumed' = c
  BY <1>1, <1>3, <1>4
<1>6. /\ fed' \in 0 .. Len(Body(sent')) /\ Len(buffer') <= fed'
      /\ (phase' = "last" => fed' = Len(Body(sent')))
  BY <1>1, <1>3
<1>7. buffer' = SubSeq(Body(sent'), Consumed' + 1, fed')
  BY <1>5
<1>8. Buffered'
  BY <1>3, <1>6, <1>7 DEF Buffered
<1> QED BY <1>3, <1>5, <1>8

\* An upload that broke off, and a file too large.
LEMMA GivesUp ==
  ASSUME UploadInv, sent' = sent, phase' = "done", answer' = "invalid_multipart",
         ~ IsWhole(sent)
  PROVE  UploadInv'
BY DEF UploadInv, AnswersFitWhatWasSent

\* A part of a file is refused when what was sent of it is too large.
LEMMA Refuses ==
  ASSUME UploadInv, sent' = sent, phase' = "done", answer' = "payload_too_large",
         NEW k \in 0 .. Len(sent.parts), k # Len(sent.parts),
         sent.parts[k + 1].head = "file", NEW m \in Nat, m <= Len(sent.parts[k + 1].data),
         m > MaxBytes
  PROVE  UploadInv'
<1> DEFINE n == Len(sent.parts)
           g == Gathered(sent, "file")
           d == sent.parts[k + 1].data
<1>1. sent \in Bodies
  BY DEF UploadInv
<1>2. n \in Nat /\ k + 1 \in 1 .. n /\ k + 1 \in 0 .. n /\ k \in 0 .. n /\ n \in 0 .. n
      /\ (k + 1) - 1 = k
  BY <1>1, BodyIs
<1>3. d \in Text /\ Len(d) \in Nat
  BY <1>1, PlaceIs, PartIs
<1>4. Gathers(sent, "file", g)
  BY <1>1, ChosenFit
<1> HIDE DEF g
<1>5. /\ g \in [0 .. n -> Seq(Text)] /\ g[n] = DataSent(sent, "file")
      /\ g[k + 1] = IF sent.parts[k + 1].head = "file"
                    THEN Append(g[(k + 1) - 1], sent.parts[k + 1].data) ELSE g[(k + 1) - 1]
      /\ Begins(g, n, k + 1)
  BY <1>2, <1>4 DEF Gathers
<1>6. g[k + 1] = Append(g[k], d) /\ g[k] \in Seq(Text) /\ g[n] \in Seq(Text)
  BY <1>2, <1>5
<1> HIDE DEF n, d
<1> DEFINE i == Len(g[k]) + 1
<1>7. Len(g[k + 1]) = i /\ g[k + 1][i] = d /\ i \in Nat /\ i >= 1
  <2>1. Len(g[k]) \in Nat
    BY <1>6, LenProperties
  <2>2. Append(g[k], d)[Len(g[k]) + 1] = d /\ Len(Append(g[k], d)) = Len(g[k]) + 1
    BY <1>3, <1>6, AppendProperties
  <2> QED BY <1>6, <2>1, <2>2
<1> HIDE DEF i
<1>8. i \in 1 .. Len(g[n]) /\ g[n][i] = d
  <2>1. Len(g[n]) \in Nat
    BY <1>6, LenProperties
  <2>2. Len(g[k + 1]) <= Len(g[n]) /\ \A j \in 1 .. Len(g[k + 1]) : g[n][j] = g[k + 1][j]
    BY <1>5 DEF Begins
  <2>3. i \in 1 .. i /\ i \in 1 .. Len(g[n])
    BY <1>7, <2>1, <2>2
  <2> QED BY <1>7, <2>2, <2>3
<1>9. Len(d) > MaxBytes
  BY <1>3, UploadAssumption DEF d
<1>10. \E j \in DOMAIN FilesSent(sent) : Len(FilesSent(sent)[j]) > MaxBytes
  <2>1. FilesSent(sent) = g[n] /\ DOMAIN g[n] = 1 .. Len(g[n])
    BY <1>5, <1>6, LenProperties DEF FilesSent
  <2> QED BY <1>8, <1>9, <2>1
<1> QED BY <1>1, <1>10 DEF UploadInv, AnswersFitWhatWasSent

\* The parser goes on, or waits, having parsed k parts.
LEMMA Continues ==
  ASSUME UploadInv, sent' = sent, phase' \in {"feed", "parse", "last"}, Buffered',
         NEW k \in 0 .. Len(sent.parts), ParsedTo(k)'
  PROVE  UploadInv'
BY DEF UploadInv, AnswersFitWhatWasSent

\* What did not all arrive is waited for, and missed at the end of the stream.
LEMMA Awaits ==
  ASSUME UploadInv, Buffered, Parsing, AwaitChunk, sent' = sent, fed < Len(WholeBody(sent)),
         NEW k \in 0 .. Len(sent.parts),
         phase' = "feed" => Buffered' /\ ParsedTo(k)'
  PROVE  UploadInv'
<1>1. sent \in Bodies
  BY DEF UploadInv
<1>2. CASE phase = "last"
  <2>1. fed = Len(Body(sent))
    BY <1>2 DEF Buffered
  <2>2. sent.cut # 0
    <3>1. /\ Len(Body(sent)) \in Nat /\ Len(WholeBody(sent)) \in Nat
          /\ (sent.cut = 0 <=> Len(WholeBody(sent)) <= Len(Body(sent)))
      BY <1>1, ArrivingIs
    <3> QED BY <2>1, <3>1
  <2>3. phase' = "done" /\ answer' = "invalid_multipart"
    BY <1>2 DEF AwaitChunk, Fail
  <2> QED BY <2>2, <2>3, GivesUp DEF IsWhole
<1>3. CASE phase # "last"
  <2>1. phase' = "feed"
    BY <1>3 DEF AwaitChunk
  <2> QED BY <2>1, Continues
<1> QED BY <1>2, <1>3

-----------------------------------------------------------------------------
(* Each step keeps the invariant.                                           *)

\* Whoever has consumed the same stands at the same place.
LEMMA StaysParsed ==
  ASSUME NEW k \in 0 .. Len(sent.parts), ParsedTo(k), sent' = sent, Consumed' = Consumed,
         UNCHANGED <<started, finished, part, fields, files>>, phase' # "feed" \/ finished
  PROVE  ParsedTo(k)'
BY DEF ParsedTo, BeforeParts, AtHeaders, InPart, AfterParts, TooLarge, IsWhole

\* A chunk of any length arrives.
LEMMA FeedFits ==
  ASSUME UploadInv, Feed
  PROVE  UploadInv'
<1> DEFINE b == Body(sent)
           c == Consumed
<1>1. sent \in Bodies /\ Buffered
  BY DEF UploadInv, Feed
<1>2. PICK k \in 0 .. Len(sent.parts) : ParsedTo(k)
  BY DEF UploadInv, Feed
<1>3. PICK m \in fed + 1 .. Len(b) :
        buffer' = buffer \o SubSeq(b, fed + 1, m) /\ fed' = m
  BY DEF Feed
<1>4. /\ sent' = sent /\ phase' = "parse" /\ UNCHANGED <<started, finished, part, fields, files>>
  BY DEF Feed
<1>5. /\ c \in Nat /\ fed \in Nat /\ c <= fed /\ fed <= Len(b) /\ Len(b) \in Nat
      /\ buffer = SubSeq(b, c + 1, fed) /\ b \in Seq(Tokens)
  BY <1>1, BufferIs, ArrivingIs DEF Text
<1> HIDE DEF b, c
<1>6. m \in Nat /\ fed <= m /\ c <= m /\ m <= Len(b)
  BY <1>3, <1>5
<1>7. buffer' = SubSeq(b, c + 1, m)
  <2>1. SubSeq(b, c + 1, fed) \o SubSeq(b, fed + 1, m) = SubSeq(b, c + 1, m)
    BY <1>5, <1>6, SlicesMeet
  <2> QED BY <1>3, <1>5, <2>1
<1>8. buffer' \in Seq(Tokens) /\ Len(buffer') = m - c
  BY <1>5, <1>6, <1>7, SliceIs
<1>9. Consumed' = c /\ Len(buffer') <= m
  <2>1. Consumed' = fed' - Len(buffer')
    BY DEF Consumed
  <2> QED BY <1>3, <1>5, <1>6, <1>8, <2>1
<1>10. Buffered'
  <2>1. b' = b /\ m \in 0 .. Len(b)
    BY <1>4, <1>5, <1>6 DEF b
  <2>2. buffer' = SubSeq(b', Consumed' + 1, fed')
    BY <1>3, <1>7, <1>9, <2>1
  <2> QED BY <1>3, <1>4, <1>8, <1>9, <2>1, <2>2 DEF Buffered, Text, b
<1>11. ParsedTo(k)'
  BY <1>2, <1>4, <1>9, StaysParsed DEF c
<1> QED BY <1>4, <1>10, <1>11, Continues

\* The body has ended.
LEMMA EndOfStreamFits ==
  ASSUME UploadInv, EndOfStream
  PROVE  UploadInv'
<1>1. sent \in Bodies /\ Buffered
  BY DEF UploadInv, EndOfStream
<1>2. PICK k \in 0 .. Len(sent.parts) : ParsedTo(k)
  BY DEF UploadInv, EndOfStream
<1>3. /\ sent' = sent /\ phase' = "last" /\ fed = Len(Body(sent))
      /\ UNCHANGED <<fed, buffer, started, finished, part, fields, files>>
  BY DEF EndOfStream
<1>4. Buffered' /\ Consumed' = Consumed
  BY <1>1, <1>3 DEF Buffered, Consumed
<1>5. ParsedTo(k)'
  BY <1>2, <1>3, <1>4, StaysParsed
<1> QED BY <1>3, <1>4, <1>5, Continues

\* After the closing boundary nothing counts.
LEMMA SkipEpilogueFits ==
  ASSUME UploadInv, SkipEpilogue
  PROVE  UploadInv'
<1>1. sent \in Bodies /\ Buffered
  BY DEF UploadInv, SkipEpilogue
<1>2. PICK k \in 0 .. Len(sent.parts) : ParsedTo(k)
  BY DEF UploadInv, SkipEpilogue
<1>3. /\ sent' = sent /\ phase' = "feed" /\ finished
      /\ UNCHANGED <<fed, buffer, started, finished, part, fields, files>>
  BY DEF SkipEpilogue
<1>4. Buffered' /\ Consumed' = Consumed
  BY <1>1, <1>3 DEF Buffered, Consumed
<1>5. ParsedTo(k)'
  BY <1>2, <1>3, <1>4, StaysParsed
<1> QED BY <1>3, <1>4, <1>5, Continues

\* Where the parser stands tells what it has passed.
LEMMA FindStartFits ==
  ASSUME UploadInv, FindStart
  PROVE  UploadInv'
<1> DEFINE b == Body(sent)
           c == Consumed
           a == At(sent)[0]
           n == Len(sent.parts)
           found == Occurrences(buffer, BoundaryBuffer)
           rest == Drop(buffer, Min(found) - 1 + Len(BoundaryBuffer))
<1>1. /\ sent \in Bodies /\ Buffered /\ Parsing /\ ~ started /\ ~ finished
      /\ phase \in {"parse", "last"}
  BY DEF UploadInv, FindStart, Parsing
<1>2. 0 \in 0 .. n /\ ParsedTo(0) /\ part = NoPart /\ c <= a
  <2>1. PICK k \in 0 .. n : ParsedTo(k)
    BY DEF UploadInv, FindStart, Parsing
  <2>2. BeforeParts(k)
    BY <1>1, <2>1 DEF ParsedTo, AtHeaders, InPart, AfterParts
  <2> QED BY <2>1, <2>2 DEF BeforeParts
<1>3. /\ found = {} =>
           /\ buffer' = Keep(buffer, Len(BoundaryBuffer)) /\ AwaitChunk
           /\ UNCHANGED <<started, finished>>
      /\ found # {} /\ Len(rest) < 2 =>
           AwaitChunk /\ UNCHANGED <<buffer, started, finished>>
      /\ found # {} /\ ~ (Len(rest) < 2) =>
           /\ buffer' = Drop(rest, 2)
           /\ finished' = IsPrefix(Dashes, rest) /\ started' = IsPrefix(CRLF, rest)
           /\ IF finished' \/ started' THEN GoesOn ELSE Fail("invalid_multipart")
      /\ UNCHANGED <<sent, fed, part, fields, files>>
  BY DEF FindStart
<1>4. FoundAt(buffer, BoundaryBuffer, c, fed, a)
  BY <1>1, <1>2, StartIsFound
<1>5. /\ c \in Nat /\ fed \in Nat /\ c <= fed /\ fed <= Len(b) /\ Len(b) \in Nat
      /\ buffer = SubSeq(b, c + 1, fed) /\ b \in Text
  BY <1>1, BufferIs, ArrivingIs
<1>6. /\ a \in Nat /\ a + 5 <= Len(WholeBody(sent)) /\ Len(WholeBody(sent)) \in Nat
  BY <1>1, <1>2, PlaceIs, ArrivingIs
<1>7. Len(BoundaryBuffer) = 3
  BY TokensAre
<1>8. ParsedTo(0)' <=> BeforeParts(0)' \/ AtHeaders(0)' \/ InPart(0)' \/ AfterParts(0)'
  BY <1>2, <1>3 DEF ParsedTo
<1> HIDE DEF b, c, a, found, rest
<1>9. CASE found = {}
  <2> DEFINE e == IF fed - c > 3 THEN fed - 3 ELSE c
  <2>1. fed < a + 3
    BY <1>4, <1>7, <1>9 DEF FoundAt, found
  <2>2. e \in Nat /\ e <= fed /\ e <= a
    BY <1>2, <1>5, <1>6, <2>1
  <2>3. buffer' = SubSeq(b, e + 1, fed)
    BY <1>3, <1>5, <1>7, <1>9, KeepIs
  <2> HIDE DEF e
  <2>4. AwaitChunk /\ (phase' = "last" => phase = "last")
    BY <1>3, <1>9 DEF AwaitChunk, Fail
  <2>5. Buffered' /\ Consumed' = e
    BY <1>1, <1>3, <2>2, <2>3, <2>4, Rebuffered DEF b
  <2>6. BeforeParts(0)'
    BY <1>1, <1>2, <1>3, <1>9, <2>2, <2>5 DEF BeforeParts, a
  <2>7. fed < Len(WholeBody(sent))
    BY <1>5, <1>6, <2>1
  <2> QED BY <1>1, <1>2, <1>3, <1>8, <2>4, <2>5, <2>6, <2>7, Awaits
<1>10. ASSUME found # {}
       PROVE  a + 3 <= fed /\ rest = SubSeq(b, (a + 3) + 1, fed) /\ Len(rest) = fed - (a + 3)
  <2>1. a + 3 <= fed /\ Min(found) = (a - c) + 1
    BY <1>4, <1>5, <1>6, <1>7, <1>10 DEF FoundAt, found
  <2> DEFINE m == (a - c) + 3
  <2>2. m \in Nat /\ m <= fed - c /\ c + m = a + 3 /\ Min(found) - 1 + 3 = m
    BY <1>2, <1>5, <1>6, <2>1
  <2> HIDE DEF m
  <2>3. rest = Drop(buffer, m)
    BY <1>7, <2>2 DEF rest
  <2>4. rest = SubSeq(b, (c + m) + 1, fed)
    BY <1>5, <2>2, <2>3, DropIs
  <2>5. rest = SubSeq(b, (a + 3) + 1, fed)
    BY <2>2, <2>4
  <2>6. Len(SubSeq(b, (a + 3) + 1, fed)) = fed - (a + 3)
    <3>1. a + 3 \in Nat /\ a + 3 <= fed /\ fed \in Nat /\ fed <= Len(b) /\ b \in Seq(Tokens)
      BY <1>5, <1>6, <2>1 DEF Text
    <3> QED BY <3>1, SliceIs
  <2> QED BY <2>1, <2>5, <2>6
<1>11. CASE found # {} /\ Len(rest) < 2
  <2>1. fed < a + 5
    BY <1>5, <1>6, <1>10, <1>11
  <2>2. AwaitChunk /\ (phase' = "last" => phase = "last") /\ buffer' = buffer
    BY <1>3, <1>11 DEF AwaitChunk, Fail
  <2>3. Buffered' /\ Consumed' = c
    BY <1>1, <1>3, <1>5, <2>2, Rebuffered DEF b
  <2>4. BeforeParts(0)'
    BY <1>1, <1>2, <1>3, <1>11, <2>3 DEF BeforeParts, a
  <2>5. fed < Len(WholeBody(sent))
    BY <1>5, <1>6, <2>1
  <2> QED BY <1>1, <1>2, <1>3, <1>8, <2>2, <2>3, <2>4, <2>5, Awaits
<1>12. CASE found # {} /\ ~ (Len(rest) < 2)
  <2>1. a + 5 <= fed /\ rest = SubSeq(b, (a + 3) + 1, fed)
    BY <1>5, <1>6, <1>10, <1>12
  <2>2. /\ 0 # n => IsPrefix(CRLF, rest) /\ ~ IsPrefix(Dashes, rest)
        /\ 0 = n => ~ IsPrefix(CRLF, rest) /\ (IsPrefix(Dashes, rest) <=> IsWhole(sent))
        /\ Drop(rest, 2) = SubSeq(b, (a + 5) + 1, fed)
    BY <1>1, <1>2, <2>1, AfterBoundary DEF a, b
  <2>3. /\ buffer' = Drop(rest, 2)
        /\ finished' = IsPrefix(Dashes, rest) /\ started' = IsPrefix(CRLF, rest)
        /\ IF finished' \/ started' THEN GoesOn ELSE Fail("invalid_multipart")
    BY <1>3, <1>12
  <2>4. ASSUME GoesOn PROVE Buffered' /\ Consumed' = a + 5 /\ phase' \in {"parse", "last"}
    <3>1. phase' = phase /\ a + 5 \in Nat /\ buffer' = SubSeq(b, (a + 5) + 1, fed)
      BY <1>6, <2>2, <2>3, <2>4 DEF GoesOn
    <3> QED BY <1>1, <1>3, <2>1, <3>1, Rebuffered DEF b
  <2>5. CASE 0 # n
    <3>1. GoesOn /\ started' /\ ~ finished'
      BY <2>2, <2>3, <2>5
    <3>2. AtHeaders(0)'
      <4>1. 0 < n
        BY <1>1, <2>5, BodyIs
      <4> QED BY <1>2, <1>3, <2>4, <3>1, <4>1 DEF AtHeaders, a
    <3> QED BY <1>2, <1>3, <1>8, <2>4, <3>1, <3>2, Continues
  <2>6. CASE 0 = n /\ IsWhole(sent)
    <3>1. GoesOn /\ finished'
      BY <2>2, <2>3, <2>6
    <3>2. AfterParts(0)'
      BY <1>2, <1>3, <2>6, <3>1 DEF AfterParts, IsWhole
    <3> QED BY <1>2, <1>3, <1>8, <2>4, <3>1, <3>2, Continues
  <2>7. CASE 0 = n /\ ~ IsWhole(sent)
    <3>1. Fail("invalid_multipart")
      BY <2>2, <2>3, <2>7
    <3> QED BY <1>3, <2>7, <3>1, GivesUp DEF Fail
  <2> QED BY <2>5, <2>6, <2>7
<1> QED BY <1>9, <1>11, <1>12

\* The headers of a part are read once all of their delimiter has arrived.
LEMMA ReadHeadersFits ==
  ASSUME UploadInv, ReadHeaders
  PROVE  UploadInv'
<1> DEFINE b == Body(sent)
           c == Consumed
           n == Len(sent.parts)
           ends == Occurrences(buffer, HeaderDelimiter)
<1>1. /\ sent \in Bodies /\ Buffered /\ Parsing /\ started /\ ~ finished /\ part = NoPart
      /\ phase \in {"parse", "last"}
  BY DEF UploadInv, ReadHeaders, Parsing
<1>2. PICK k \in 0 .. n : ParsedTo(k)
  BY DEF UploadInv, ReadHeaders, Parsing
<1> DEFINE a == At(sent)[k]
           d == sent.parts[k + 1].data
<1>3. k < n /\ c = a + 5
  <2>1. ASSUME InPart(k) PROVE FALSE
    <3>1. sent.parts[k + 1].head \in {"file", "scope", "other"} /\ k # n
      BY <1>1, <2>1, BodyIs, PlaceIs, PartIs DEF InPart
    <3>2. part.head = sent.parts[k + 1].head
      BY <2>1 DEF InPart
    <3> QED BY <1>1, <3>1, <3>2 DEF NoPart
  <2> QED BY <1>1, <1>2, <2>1 DEF ParsedTo, BeforeParts, AtHeaders, AfterParts
<1>4. /\ ends = {} => AwaitChunk /\ UNCHANGED <<buffer, part>>
      /\ ends # {} =>
           /\ part' = [head |-> Last(SubSeq(buffer, 1, Min(ends) - 1)), data |-> <<>>]
           /\ buffer' = Drop(buffer, Min(ends) - 1 + Len(HeaderDelimiter))
           /\ GoesOn
      /\ UNCHANGED <<sent, fed, started, finished, fields, files>>
  BY DEF ReadHeaders
<1>5. k \in 0 .. n /\ k # n /\ n \in Nat /\ k \in Nat
  BY <1>1, <1>3, BodyIs
<1>6. FoundAt(buffer, HeaderDelimiter, c, fed, a + 6)
  BY <1>1, <1>3, <1>5, HeadersAreFound
<1>7. /\ c \in Nat /\ fed \in Nat /\ c <= fed /\ fed <= Len(b) /\ Len(b) \in Nat
      /\ Len(buffer) = fed - c /\ buffer = SubSeq(b, c + 1, fed) /\ b \in Text
  BY <1>1, BufferIs, ArrivingIs
<1> DEFINE y == Len(WholeBody(sent))
           z == Len(b)
           p == DataEnds(sent, k)
<1>8. /\ a \in Nat /\ y \in Nat /\ z \in Nat /\ p \in Nat /\ a + 10 <= p /\ p + 7 <= y
      /\ c = a + 5 /\ c \in Nat /\ fed \in Nat /\ c <= fed /\ fed <= z
  <2> DEFINE l == Len(sent.parts[k + 1].data)
  <2>1. a \in Nat /\ l \in Nat /\ p = (a + 10) + l /\ p + 7 <= y /\ y \in Nat
    BY <1>1, <1>5, DataLies
  <2> HIDE DEF a, l, y, p
  <2>2. a + 10 <= p /\ p \in Nat
    BY <2>1
  <2> QED BY <1>3, <1>7, <2>1, <2>2
<1>9. Len(HeaderDelimiter) = 4
  BY TokensAre
<1>10. ParsedTo(k)' <=> BeforeParts(k)' \/ AtHeaders(k)' \/ InPart(k)' \/ AfterParts(k)'
  BY <1>2, <1>4 DEF ParsedTo
<1> HIDE DEF b, c, a, ends, d, y, z, p
<1>11. ASSUME a + 6 <= fed
       PROVE  buffer[1] = sent.parts[k + 1].head
  <2>1. /\ Lies(sent, k) /\ \A j \in 1 .. Len(WholeBody(sent)) :
                              j <= Len(b) => b[j] = WholeBody(sent)[j]
    BY <1>1, <1>5, TokensLie, BufferIs DEF b
  <2>2. WholeBody(sent)[a + 6] = sent.parts[k + 1].head
    BY <1>5, <2>1 DEF Lies, a
  <2>3. a + 6 \in 1 .. y /\ a + 6 <= z
    BY <1>8, <1>11
  <2>4. \A i \in 1 .. fed - c : SubSeq(b, c + 1, fed)[i] = b[c + i]
    BY <1>7, SliceIs DEF Text
  <2>5. 1 \in 1 .. fed - c /\ c + 1 = a + 6
    BY <1>8, <1>11
  <2>6. buffer[1] = b[a + 6]
    BY <1>7, <2>4, <2>5
  <2> QED BY <2>1, <2>2, <2>3, <2>6 DEF y, z
<1>12. CASE ends = {}
  <2>1. fed < a + 10
    <3>1. fed < (a + 6) + 4
      BY <1>6, <1>9, <1>12 DEF FoundAt, ends
    <3> QED BY <1>8, <3>1
  <2>2. AwaitChunk /\ (phase' = "last" => phase = "last") /\ buffer' = buffer
    BY <1>4, <1>12 DEF AwaitChunk, Fail
  <2>3. Buffered' /\ Consumed' = c
    BY <1>1, <1>4, <1>7, <2>2, Rebuffered DEF b
  <2>4. AtHeaders(k)'
    BY <1>1, <1>3, <1>4, <1>12, <2>3 DEF AtHeaders, a
  <2>5. fed < y
    BY <1>8, <2>1
  <2> QED BY <1>1, <1>4, <1>10, <2>2, <2>3, <2>4, <2>5, Awaits DEF y
<1>13. CASE ends # {}
  <2>1. a + 10 <= fed /\ Min(ends) = ((a + 6) - c) + 1
    <3>1. ~ (fed < (a + 6) + 4) /\ Min(ends) = ((a + 6) - c) + 1
      BY <1>6, <1>9, <1>13 DEF FoundAt, ends
    <3> QED BY <1>8, <3>1
  <2>2. Min(ends) = 2 /\ Min(ends) - 1 = 1 /\ Min(ends) - 1 + 4 = 5
    BY <1>8, <2>1
  <2>3. buffer' = SubSeq(b, (a + 10) + 1, fed)
    <3>1. 5 \in Nat /\ 5 <= fed - c /\ c + 5 = a + 10
      BY <1>8, <2>1
    <3>2. Drop(buffer, 5) = SubSeq(b, (c + 5) + 1, fed)
      BY <1>7, <3>1, DropIs
    <3> QED BY <1>4, <1>9, <1>13, <2>2, <3>1, <3>2
  <2>4. GoesOn /\ phase' = phase
    BY <1>4, <1>13 DEF GoesOn
  <2>5. Buffered' /\ Consumed' = a + 10
    <3>1. a + 10 \in Nat
      BY <1>8
    <3> QED BY <1>1, <1>4, <2>1, <2>3, <2>4, <3>1, Rebuffered DEF b
  <2>6. Last(SubSeq(buffer, 1, 1)) = buffer[1]
    <3> DEFINE u == SubSeq(buffer, 1, 1)
    <3>1. buffer \in Seq(Tokens) /\ Len(buffer) >= 1 /\ Len(buffer) \in Nat
      <4>1. fed - c \in Nat /\ fed - c >= 1
        BY <1>8, <2>1
      <4> QED BY <1>1, <1>7, <4>1 DEF Buffered, Text
    <3>2. Len(SubSeq(buffer, 0 + 1, 1)) = 1 - 0 /\ SubSeq(buffer, 0 + 1, 1)[1] = buffer[0 + 1]
      <4>1. 0 \in Nat /\ 1 \in Nat /\ 0 <= 1 /\ 1 <= Len(buffer) /\ 1 \in 1 .. 1 - 0
        BY <3>1
      <4> QED BY <3>1, <4>1, SliceIs
    <3>3. 0 + 1 = 1 /\ 1 - 0 = 1
      OBVIOUS
    <3>4. Len(u) = 1 /\ u[1] = buffer[1]
      BY <3>2, <3>3
    <3> HIDE DEF u
    <3>5. Last(u) = buffer[1]
      BY <3>4 DEF Last
    <3> QED BY <3>5 DEF u
  <2>7. part' = [head |-> sent.parts[k + 1].head, data |-> <<>>]
    <3>1. buffer[1] = sent.parts[k + 1].head
      BY <1>8, <1>11, <2>1
    <3> QED BY <1>4, <1>13, <2>2, <2>6, <3>1
  <2>8. InPart(k)'
    <3>1. part' = [head |-> sent.parts[k + 1].head,
                   data |-> SubSeq(d, 1, Consumed' - (a + 10))]
      <4>1. Consumed' - (a + 10) = 0
        BY <1>8, <2>5
      <4>2. SubSeq(d, 1, 0) = <<>>
        <5>1. d \in Seq(Tokens)
          BY <1>1, <1>5, PlaceIs, PartIs DEF d, Text
        <5> QED BY <5>1, SubSeqProperties
      <4> QED BY <2>7, <4>1, <4>2
    <3>2. ~ TooLarge(part')
      <4>1. Len(part'.data) = 0
        BY <2>7
      <4> QED BY <4>1, UploadAssumption DEF TooLarge
    <3>3. TooLarge(part)' <=> TooLarge(part')
      BY DEF TooLarge
    <3>4. a + 10 <= Consumed' /\ Consumed' <= At(sent)[k + 1] - 2
      BY <1>8, <2>5 DEF p, DataEnds
    <3> QED BY <1>1, <1>3, <1>4, <2>4, <3>1, <3>2, <3>3, <3>4 DEF InPart, a, d
  <2> QED BY <1>1, <1>4, <1>10, <2>4, <2>5, <2>8, Continues
<1> QED BY <1>12, <1>13

\* While no boundary is found, all but what may begin one is the part's data.
LEMMA TakeContentFits ==
  ASSUME UploadInv, TakeContent
  PROVE  UploadInv'
<1> DEFINE b == Body(sent)
           c == Consumed
           n == Len(sent.parts)
<1>1. /\ sent \in Bodies /\ Buffered /\ Parsing /\ ~ finished /\ part # NoPart
      /\ phase \in {"parse", "last"}
  BY DEF UploadInv, TakeContent, Parsing
<1>2. PICK k \in 0 .. n : ParsedTo(k)
  BY DEF UploadInv, TakeContent, Parsing
<1> DEFINE d == sent.parts[k + 1].data
           o == At(sent)[k] + 10
           p == DataEnds(sent, k)
           e == IF fed - c > 4 THEN fed - 4 ELSE c
<1>3. /\ InPart(k) /\ started /\ k < n /\ o <= c /\ c <= p
      /\ part = [head |-> sent.parts[k + 1].head, data |-> SubSeq(d, 1, c - o)]
  <2>1. InPart(k)
    BY <1>1, <1>2 DEF ParsedTo, BeforeParts, AtHeaders, AfterParts
  <2> QED BY <2>1 DEF InPart, DataEnds
<1>4. /\ Occurrences(buffer, NextBoundaryBuffer) = {}
      /\ buffer' = Keep(buffer, Len(NextBoundaryBuffer) - 1)
      /\ part' = [part EXCEPT !.data = @ \o SubSeq(buffer, 1, Len(buffer) - Len(buffer'))]
      /\ IF TooLarge(part') THEN Fail("payload_too_large") ELSE AwaitChunk
      /\ UNCHANGED <<sent, fed, started, finished, fields, files>>
  BY DEF TakeContent
<1>5. k \in 0 .. n /\ k # n /\ n \in Nat /\ k \in Nat
  BY <1>1, <1>3, BodyIs
<1>6. Len(NextBoundaryBuffer) = 5
  BY TokensAre
<1>7. /\ c \in Nat /\ fed \in Nat /\ c <= fed /\ fed <= Len(b)
      /\ Len(buffer) = fed - c /\ buffer = SubSeq(b, c + 1, fed) /\ b \in Text
  BY <1>1, BufferIs
<1>8. o \in Nat /\ p = o + Len(d) /\ Len(d) \in Nat /\ p + 7 <= Len(WholeBody(sent))
  <2>1. /\ At(sent)[k] \in Nat /\ p = o + Len(d) /\ Len(d) \in Nat
        /\ p + 7 <= Len(WholeBody(sent))
    BY <1>1, <1>5, DataLies
  <2> HIDE DEF p, d
  <2> QED BY <2>1
<1>9. fed < p + 5
  <2>1. FoundAt(buffer, NextBoundaryBuffer, c, fed, p)
    BY <1>1, <1>3, <1>5, BoundaryIsFound
  <2> QED BY <1>4, <1>6, <2>1 DEF FoundAt
<1>10. ParsedTo(k)' <=> BeforeParts(k)' \/ AtHeaders(k)' \/ InPart(k)' \/ AfterParts(k)'
  BY <1>2, <1>4 DEF ParsedTo
<1> DEFINE y == Len(WholeBody(sent))
           l == Len(d)
<1>11. /\ o \in Nat /\ l \in Nat /\ y \in Nat /\ p = o + l /\ p + 7 <= y /\ o <= c /\ c <= p
       /\ c \in Nat /\ fed \in Nat /\ c <= fed /\ fed < p + 5
  <2>1. y \in Nat
    BY <1>1, ArrivingIs
  <2> QED BY <1>3, <1>7, <1>8, <1>9, <2>1
<1> HIDE DEF b, c, d, o, p, y, l
<1>12. e \in Nat /\ c <= e /\ e <= fed /\ e <= p /\ fed - e <= 4 /\ fed < y /\ o <= e
  BY <1>11
<1>13. buffer' = SubSeq(b, e + 1, fed)
  <2>1. buffer' = Keep(SubSeq(b, c + 1, fed), 4)
    BY <1>4, <1>6, <1>7
  <2>2. Keep(SubSeq(b, c + 1, fed), 4) = SubSeq(b, (IF fed - c > 4 THEN fed - 4 ELSE c) + 1, fed)
    BY <1>7, KeepIs
  <2> QED BY <2>1, <2>2
<1> HIDE DEF e
<1>14. Len(buffer') = fed - e /\ Len(buffer) - Len(buffer') = e - c
  <2>1. Len(SubSeq(b, e + 1, fed)) = fed - e
    BY <1>7, <1>12, SliceIs DEF Text
  <2> QED BY <1>7, <1>12, <1>13, <2>1
<1>15. /\ part' = [head |-> sent.parts[k + 1].head, data |-> SubSeq(d, 1, e - o)]
       /\ Len(SubSeq(d, 1, e - o)) = e - o
  <2>1. /\ SubSeq(d, 1, c - o) \o SubSeq(buffer, 1, e - c) = SubSeq(d, 1, e - o)
        /\ Len(SubSeq(d, 1, e - o)) = e - o
    <3>1. /\ Consumed <= e /\ e \in Nat /\ e <= fed /\ e <= DataEnds(sent, k)
          /\ At(sent)[k] + 10 <= Consumed
      BY <1>3, <1>12 DEF c, d, o, p
    <3>2. Grown(d, o, e)
      BY <1>1, <1>5, <3>1, DataGrows DEF d, o
    <3> QED BY <3>2 DEF Grown, c
  <2> QED BY <1>3, <1>4, <1>14, <2>1
<1>16. CASE TooLarge(part')
  <2>1. /\ sent.parts[k + 1].head = "file" /\ e - o > MaxBytes /\ e - o \in Nat
        /\ e - o <= Len(d)
    <3>1. /\ part'.head = sent.parts[k + 1].head /\ Len(part'.data) = e - o
          /\ part'.head = "file" /\ Len(part'.data) > MaxBytes
      BY <1>15, <1>16 DEF TooLarge
    <3>2. e - o \in Nat /\ e - o <= l
      BY <1>11, <1>12
    <3> QED BY <3>1, <3>2 DEF l
  <2>2. phase' = "done" /\ answer' = "payload_too_large"
    BY <1>4, <1>16 DEF Fail
  <2> QED BY <1>4, <1>5, <2>1, <2>2, Refuses DEF d
<1>17. CASE ~ TooLarge(part')
  <2>1. AwaitChunk /\ (phase' = "last" => phase = "last")
    BY <1>4, <1>17 DEF AwaitChunk, Fail
  <2>2. Buffered' /\ Consumed' = e
    BY <1>1, <1>4, <1>12, <1>13, <2>1, Rebuffered DEF b
  <2>3. InPart(k)'
    <3>1. TooLarge(part)' <=> TooLarge(part')
      BY DEF TooLarge
    <3>2. Len(buffer') <= 6 /\ o <= e
      BY <1>12, <1>14
    <3>3. Len(NextBoundaryBuffer') = 5 /\ 5 + 1 = 6
      BY <1>6 DEF NextBoundaryBuffer, CRLF, BoundaryBuffer, Dashes
    <3>4. started' /\ ~ finished' /\ k < Len(sent'.parts) /\ sent' = sent
      BY <1>1, <1>3, <1>4
    <3>5. o <= Consumed' /\ Consumed' <= At(sent)[k + 1] - 2
      BY <1>12, <2>2, <3>2 DEF p, DataEnds
    <3>6. part' = [head |-> sent.parts[k + 1].head,
                   data |-> SubSeq(sent.parts[k + 1].data, 1, Consumed' - (At(sent)[k] + 10))]
      BY <1>15, <2>2 DEF d, o
    <3>7. phase' = "feed" => Len(buffer') <= Len(NextBoundaryBuffer') + 1
      BY <3>2, <3>3
    <3> QED BY <1>17, <3>1, <3>4, <3>5, <3>6, <3>7 DEF InPart, o
  <2>4. fed < Len(WholeBody(sent))
    BY <1>12 DEF y
  <2> QED BY <1>1, <1>4, <1>10, <2>1, <2>2, <2>3, <2>4, Awaits
<1> QED BY <1>16, <1>17

\* What a finished part adds to the files and to the field scope.
LEMMA FinalizeGathers ==
  ASSUME sent \in Bodies, NEW k \in 0 .. Len(sent.parts), k # Len(sent.parts), ParsedTo(k),
         Finalize(sent.parts[k + 1]), ~ TooLarge(sent.parts[k + 1])
  PROVE  /\ files' = Gathered(sent, "file")[k + 1]
         /\ \A i \in 1 .. Len(files') : Len(files'[i]) <= MaxBytes
         /\ fields' = LastOf(Gathered(sent, "scope")[k + 1])
<1> DEFINE n == Len(sent.parts)
           q == sent.parts[k + 1]
           g == Gathered(sent, "file")
           h == Gathered(sent, "scope")
<1>1. n \in Nat /\ k + 1 \in 1 .. n /\ k \in 0 .. n /\ (k + 1) - 1 = k
  BY BodyIs
<1>2. Gathers(sent, "file", g) /\ Gathers(sent, "scope", h)
  BY ChosenFit
<1>3. q.data \in Text /\ Len(q.data) \in Nat
  BY DataLies
<1>4. files = g[k] /\ fields = LastOf(h[k]) /\ \A i \in 1 .. Len(files) : Len(files[i]) <= MaxBytes
  BY DEF ParsedTo
<1>5. /\ fields' = IF q.head = "scope" THEN q.data ELSE fields
      /\ files' = IF q.head = "file" THEN Append(files, q.data) ELSE files
      /\ q.head = "file" => ~ (Len(q.data) > MaxBytes)
  BY DEF Finalize, TooLarge
<1> HIDE DEF g, h
<1>6. /\ g[k] \in Seq(Text) /\ h[k] \in Seq(Text)
      /\ g[k + 1] = IF q.head = "file" THEN Append(g[(k + 1) - 1], q.data) ELSE g[(k + 1) - 1]
      /\ h[k + 1] = IF q.head = "scope" THEN Append(h[(k + 1) - 1], q.data) ELSE h[(k + 1) - 1]
  BY <1>1, <1>2 DEF Gathers
<1> HIDE DEF q, n
<1>7. /\ g[k + 1] = IF q.head = "file" THEN Append(g[k], q.data) ELSE g[k]
      /\ h[k + 1] = IF q.head = "scope" THEN Append(h[k], q.data) ELSE h[k]
  BY <1>1, <1>6
<1>8. files' = g[k + 1]
  BY <1>4, <1>5, <1>7
<1>9. ASSUME NEW i \in 1 .. Len(files') PROVE Len(files'[i]) <= MaxBytes
  <2>1. CASE q.head = "file"
    <3>1. files' = Append(files, q.data) /\ files \in Seq(Text) /\ q.data \in Text
      BY <1>3, <1>4, <1>5, <1>6, <2>1
    <3>2. /\ Len(files') = Len(files) + 1 /\ Len(files) \in Nat
          /\ files'[Len(files) + 1] = q.data
          /\ \A j \in 1 .. Len(files) : files'[j] = files[j]
      BY <3>1, AppendProperties, LenProperties
    <3>3. i \in 1 .. Len(files) \/ i = Len(files) + 1
      BY <3>2
    <3>4. Len(q.data) <= MaxBytes
      BY <1>3, <1>5, <2>1, UploadAssumption
    <3> QED BY <1>4, <3>2, <3>3, <3>4
  <2>2. CASE q.head # "file"
    BY <1>4, <1>5, <1>9, <2>2
  <2> QED BY <2>1, <2>2
<1>10. fields' = LastOf(h[k + 1])
  <2>1. CASE q.head = "scope"
    <3> DEFINE x == Append(h[k], q.data)
    <3>1. /\ Len(x) = Len(h[k]) + 1 /\ Len(h[k]) \in Nat
          /\ x[Len(h[k]) + 1] = q.data
      BY <1>3, <1>6, AppendProperties, LenProperties
    <3>2. h[k + 1] = x
      BY <1>7, <2>1
    <3> HIDE DEF x
    <3>3. Last(x) = q.data
      BY <3>1 DEF Last
    <3>4. x # <<>>
      <4>1. Len(<<>>) = 0
        OBVIOUS
      <4> QED BY <3>1, <4>1
    <3> QED BY <1>5, <2>1, <3>2, <3>3, <3>4 DEF LastOf
  <2>2. CASE q.head # "scope"
    BY <1>4, <1>5, <1>7, <2>2
  <2> QED BY <2>1, <2>2
<1> QED BY <1>8, <1>9, <1>10 DEF g, h

\* At a boundary the part ends: its data is what was sent, and the next is a
\* part's headers or the end of the body.
LEMMA EndPartFits ==
  ASSUME UploadInv, EndPart
  PROVE  UploadInv'
<1> DEFINE b == Body(sent)
           c == Consumed
           n == Len(sent.parts)
           found == Occurrences(buffer, NextBoundaryBuffer)
           whole == [part EXCEPT !.data = @ \o SubSeq(buffer, 1, Min(found) - 1)]
           rest == Drop(buffer, Min(found) - 1 + Len(NextBoundaryBuffer))
<1>1. /\ sent \in Bodies /\ Buffered /\ Parsing /\ ~ finished /\ part # NoPart /\ found # {}
      /\ phase \in {"parse", "last"}
  BY DEF UploadInv, EndPart, Parsing
<1>2. PICK k \in 0 .. n : ParsedTo(k)
  BY DEF UploadInv, EndPart, Parsing
<1> DEFINE q == sent.parts[k + 1]
           d == q.data
           o == At(sent)[k] + 10
           p == DataEnds(sent, k)
           y == Len(WholeBody(sent))
           l == Len(d)
           z == Len(b)
<1>3. /\ InPart(k) /\ started /\ k < n /\ o <= c /\ c <= p
      /\ part = [head |-> q.head, data |-> SubSeq(d, 1, c - o)]
  <2>1. InPart(k)
    BY <1>1, <1>2 DEF ParsedTo, BeforeParts, AtHeaders, AfterParts
  <2> QED BY <2>1 DEF InPart, DataEnds
<1>4. /\ TooLarge(whole) => Fail("payload_too_large")
      /\ ~ TooLarge(whole) /\ Len(rest) < 2 =>
           /\ part' = whole /\ buffer' = Drop(buffer, Min(found) - 1) /\ AwaitChunk
           /\ UNCHANGED <<finished, fields, files>>
      /\ ~ TooLarge(whole) /\ ~ (Len(rest) < 2) =>
           /\ Finalize(whole) /\ part' = NoPart /\ buffer' = Drop(rest, 2)
           /\ finished' = IsPrefix(Dashes, rest)
           /\ IF finished' \/ IsPrefix(CRLF, rest) THEN GoesOn ELSE Fail("invalid_multipart")
      /\ UNCHANGED <<sent, fed, started>>
  BY DEF EndPart
<1>5. k \in 0 .. n /\ k # n /\ n \in Nat /\ k \in Nat /\ k + 1 \in 0 .. n
  BY <1>1, <1>3, BodyIs
<1>6. Len(NextBoundaryBuffer) = 5
  BY TokensAre
<1>7. /\ c \in Nat /\ fed \in Nat /\ c <= fed /\ fed <= Len(b) /\ Len(b) \in Nat
      /\ Len(buffer) = fed - c /\ buffer = SubSeq(b, c + 1, fed) /\ b \in Text
  BY <1>1, BufferIs, ArrivingIs
<1>8. p + 5 <= fed /\ Min(found) = (p - c) + 1 /\ p \in Nat /\ p + 7 <= y /\ o + l = p /\ l \in Nat
  <2>1. FoundAt(buffer, NextBoundaryBuffer, c, fed, p)
    BY <1>1, <1>3, <1>5, BoundaryIsFound
  <2>2. ~ (fed < p + 5) /\ Min(found) = (p - c) + 1
    <3>1. found # {}
      BY <1>1
    <3> HIDE DEF p, c, y, l
    <3> QED BY <1>6, <2>1, <3>1 DEF FoundAt
  <2>3. /\ At(sent)[k] \in Nat /\ p = o + l /\ l \in Nat /\ p + 7 <= y
    BY <1>1, <1>5, DataLies
  <2>4. o \in Nat /\ fed \in Nat
    <3>1. \A a \in Nat : a + 10 \in Nat
      OBVIOUS
    <3> QED BY <1>7, <2>3, <3>1
  <2> HIDE DEF o, p, l, y, found
  <2>5. p \in Nat /\ p + 5 <= fed
    BY <2>2, <2>3, <2>4
  <2> QED BY <2>2, <2>3, <2>5
<1>9. At(sent)[k + 1] = p + 2 /\ o \in Nat
  <2>1. At(sent)[k + 1] \in Nat /\ At(sent)[k] \in Nat
    BY <1>1, <1>5, PlaceIs
  <2> QED BY <2>1 DEF DataEnds
<1>10. q = [head |-> q.head, data |-> d] /\ d \in Text
  BY <1>1, <1>5, PlaceIs, PartIs
<1>11. y \in Nat
  BY <1>1, ArrivingIs
<1> DEFINE m == p - c
<1> HIDE DEF b, c, o, p, y, l, z, found, whole, rest
<1>12. /\ m \in Nat /\ m <= fed - c /\ c + m = p /\ m + 5 \in Nat /\ m + 5 <= fed - c
       /\ c + (m + 5) = p + 5 /\ Min(found) - 1 = m /\ Min(found) - 1 + 5 = m + 5
       /\ p <= fed /\ p - o = l
  BY <1>3, <1>7, <1>8, <1>9
<1> HIDE DEF m, d, q
<1>13. whole = q
  <2>1. Grown(d, o, p)
    <3>1. /\ Consumed <= p /\ p \in Nat /\ p <= fed /\ p <= DataEnds(sent, k)
          /\ At(sent)[k] + 10 <= Consumed
      BY <1>3, <1>8, <1>12 DEF c, o, p
    <3> QED BY <1>1, <1>5, <3>1, DataGrows DEF d, o, q
  <2>2. SubSeq(d, 1, c - o) \o SubSeq(buffer, 1, m) = d
    BY <1>12, <2>1 DEF Grown, c, l, m
  <2>3. whole = [part EXCEPT !.data = @ \o SubSeq(buffer, 1, m)]
    BY <1>12 DEF whole
  <2>4. part = [head |-> q.head, data |-> SubSeq(d, 1, c - o)]
    BY <1>3
  <2>5. whole = [head |-> q.head, data |-> SubSeq(d, 1, c - o) \o SubSeq(buffer, 1, m)]
    BY <2>3, <2>4
  <2> QED BY <1>10, <2>2, <2>5
<1>14. rest = SubSeq(b, (p + 5) + 1, fed) /\ Drop(buffer, Min(found) - 1) = SubSeq(b, p + 1, fed)
  <2>1. rest = Drop(buffer, m + 5)
    BY <1>6, <1>12 DEF rest
  <2>2. Drop(buffer, m + 5) = SubSeq(b, (c + (m + 5)) + 1, fed)
    <3> DEFINE x == m + 5
    <3>1. x \in Nat /\ x <= fed - c
      BY <1>12
    <3> HIDE DEF x
    <3>2. Drop(buffer, x) = SubSeq(b, (c + x) + 1, fed)
      BY <1>7, <3>1, DropIs
    <3> QED BY <3>2 DEF x
  <2>3. Drop(buffer, m) = SubSeq(b, (c + m) + 1, fed)
    BY <1>7, <1>12, DropIs
  <2> QED BY <1>12, <2>1, <2>2, <2>3
<1>15. Len(rest) = fed - (p + 5)
  <2>1. p + 5 \in Nat /\ p + 5 <= fed /\ fed \in Nat /\ fed <= Len(b) /\ b \in Seq(Tokens)
    BY <1>7, <1>8 DEF Text
  <2> QED BY <1>14, <2>1, SliceIs
<1>16. CASE TooLarge(whole)
  <2>1. /\ q.head = "file" /\ Len(q.data) > MaxBytes /\ Len(q.data) \in Nat
        /\ Len(q.data) <= Len(q.data)
    BY <1>8, <1>13, <1>16 DEF TooLarge, l, d
  <2>2. phase' = "done" /\ answer' = "payload_too_large" /\ sent' = sent
    BY <1>4, <1>16 DEF Fail
  <2> QED BY <1>5, <2>1, <2>2, Refuses DEF q
<1>17. CASE ~ TooLarge(whole) /\ Len(rest) < 2
  <2>1. fed < p + 7 /\ fed < y
    BY <1>7, <1>8, <1>11, <1>15, <1>17
  <2>2. /\ part' = q /\ AwaitChunk /\ UNCHANGED <<sent, fed, started, finished, fields, files>>
        /\ (phase' = "last" => phase = "last")
    BY <1>4, <1>13, <1>17 DEF AwaitChunk, Fail
  <2>3. buffer' = SubSeq(b, p + 1, fed)
    BY <1>4, <1>14, <1>17
  <2>4. Buffered' /\ Consumed' = p /\ Len(buffer') = fed - p
    BY <1>1, <1>8, <1>12, <2>2, <2>3, Rebuffered DEF b
  <2>5. ParsedTo(k)' <=> BeforeParts(k)' \/ AtHeaders(k)' \/ InPart(k)' \/ AfterParts(k)'
    BY <1>2, <2>2 DEF ParsedTo
  <2>6. InPart(k)'
    <3>1. TooLarge(part)' <=> TooLarge(part')
      BY DEF TooLarge
    <3>2. Len(buffer') <= 6 /\ o <= p
      BY <1>3, <1>7, <1>8, <1>9, <2>1, <2>4
    <3>3. Len(NextBoundaryBuffer') = 5 /\ 5 + 1 = 6
      BY <1>6 DEF NextBoundaryBuffer, CRLF, BoundaryBuffer, Dashes
    <3>4. started' /\ ~ finished' /\ k < Len(sent'.parts) /\ sent' = sent
      BY <1>1, <1>3, <2>2
    <3>5. At(sent)[k] + 10 <= Consumed' /\ Consumed' <= At(sent)[k + 1] - 2
      <4>1. p <= (p + 2) - 2
        BY <1>8
      <4> QED BY <1>9, <2>4, <3>2, <4>1 DEF o
    <3>6. part' = [head |-> sent.parts[k + 1].head,
                   data |-> SubSeq(sent.parts[k + 1].data, 1, Consumed' - (At(sent)[k] + 10))]
      <4>1. SubSeq(d, 1, Consumed' - o) = d
        <5>1. d \in Seq(Tokens) /\ Consumed' - o = Len(d)
          BY <1>10, <1>12, <2>4 DEF l, Text
        <5>2. SubSeq(d, 1, Len(d)) = d
          BY <5>1, SubSeqFull
        <5> QED BY <5>1, <5>2
      <4> QED BY <1>10, <2>2, <4>1 DEF d, o, q
    <3>7. phase' = "feed" => Len(buffer') <= Len(NextBoundaryBuffer') + 1
      BY <3>2, <3>3
    <3>8. ~ TooLarge(part')
      BY <1>13, <1>17, <2>2
    <3> QED BY <3>1, <3>4, <3>5, <3>6, <3>7, <3>8 DEF InPart
  <2>7. fed < Len(WholeBody(sent))
    BY <2>1 DEF y
  <2> QED BY <1>1, <1>5, <2>2, <2>4, <2>5, <2>6, <2>7, Awaits
<1>18. CASE ~ TooLarge(whole) /\ ~ (Len(rest) < 2)
  <2>1. (p + 2) + 5 <= fed /\ (p + 2) + 3 = p + 5 /\ (p + 2) + 5 \in Nat
    BY <1>7, <1>8, <1>15, <1>18
  <2>2. /\ k + 1 # n => IsPrefix(CRLF, rest) /\ ~ IsPrefix(Dashes, rest)
        /\ k + 1 = n => ~ IsPrefix(CRLF, rest) /\ (IsPrefix(Dashes, rest) <=> IsWhole(sent))
        /\ Drop(rest, 2) = SubSeq(b, ((p + 2) + 5) + 1, fed)
    <3>1. /\ At(sent)[k + 1] + 5 <= fed
          /\ rest = SubSeq(Body(sent), (At(sent)[k + 1] + 3) + 1, fed)
      BY <1>9, <1>14, <2>1 DEF b
    <3>2. /\ k + 1 # n => IsPrefix(CRLF, rest) /\ ~ IsPrefix(Dashes, rest)
          /\ k + 1 = n => ~ IsPrefix(CRLF, rest) /\ (IsPrefix(Dashes, rest) <=> IsWhole(sent))
          /\ Drop(rest, 2) = SubSeq(b, (At(sent)[k + 1] + 5) + 1, fed)
      BY <1>1, <1>5, <3>1, AfterBoundary DEF b
    <3> QED BY <1>9, <3>2
  <2>3. /\ Finalize(q) /\ part' = NoPart /\ buffer' = Drop(rest, 2)
        /\ finished' = IsPrefix(Dashes, rest)
        /\ IF finished' \/ IsPrefix(CRLF, rest) THEN GoesOn ELSE Fail("invalid_multipart")
        /\ UNCHANGED <<sent, fed, started>> /\ ~ TooLarge(q)
    BY <1>4, <1>13, <1>18
  <2>4. ASSUME GoesOn
        PROVE  Buffered' /\ Consumed' = (p + 2) + 5 /\ phase' \in {"parse", "last"}
    <3>1. phase' = phase /\ buffer' = SubSeq(b, ((p + 2) + 5) + 1, fed)
      BY <2>2, <2>3, <2>4 DEF GoesOn
    <3> QED BY <1>1, <2>1, <2>3, <3>1, Rebuffered DEF b
  <2>5. /\ files' = Gathered(sent, "file")[k + 1]
        /\ \A i \in 1 .. Len(files') : Len(files'[i]) <= MaxBytes
        /\ fields' = LastOf(Gathered(sent, "scope")[k + 1])
    BY <1>1, <1>2, <1>5, <2>3, FinalizeGathers DEF q
  <2>6. ParsedTo(k + 1)' <=>
          BeforeParts(k + 1)' \/ AtHeaders(k + 1)' \/ InPart(k + 1)' \/ AfterParts(k + 1)'
    BY <2>3, <2>5 DEF ParsedTo
  <2>7. CASE k + 1 # n
    <3>1. GoesOn /\ ~ finished'
      BY <2>2, <2>3, <2>7
    <3>2. AtHeaders(k + 1)'
      <4>1. k + 1 < n
        BY <1>3, <1>5, <2>7
      <4>2. Consumed' = At(sent)[k + 1] + 5
        BY <1>9, <2>4, <3>1
      <4> QED BY <1>3, <2>3, <3>1, <4>1, <4>2 DEF AtHeaders, NoPart
    <3> QED BY <1>5, <2>3, <2>4, <2>6, <3>1, <3>2, Continues
  <2>8. CASE k + 1 = n /\ IsWhole(sent)
    <3>1. GoesOn /\ finished'
      BY <2>2, <2>3, <2>8
    <3>2. AfterParts(k + 1)'
      BY <2>3, <2>8, <3>1 DEF AfterParts, IsWhole, NoPart
    <3> QED BY <1>5, <2>3, <2>4, <2>6, <3>1, <3>2, Continues
  <2>9. CASE k + 1 = n /\ ~ IsWhole(sent)
    <3>1. Fail("invalid_multipart")
      BY <2>2, <2>3, <2>9
    <3> QED BY <2>3, <2>9, <3>1, GivesUp DEF Fail
  <2> QED BY <2>7, <2>8, <2>9
<1> QED BY <1>16, <1>17, <1>18

\* The whole body is parsed, and the answer is about what was sent.
LEMMA AnswerUploadFits ==
  ASSUME UploadInv, AnswerUpload
  PROVE  UploadInv'
<1> DEFINE n == Len(sent.parts)
           g == Gathered(sent, "file")
           h == Gathered(sent, "scope")
<1>1. /\ sent \in Bodies /\ phase = "last" /\ finished /\ phase' = "done"
      /\ answer' = (IF Accepted(fields, files) THEN "stored" ELSE "bad_request")
      /\ UNCHANGED <<sent, fields, files>>
  BY DEF UploadInv, AnswerUpload
<1>2. PICK k \in 0 .. n : ParsedTo(k)
  BY <1>1 DEF UploadInv
<1>3. k = n /\ IsWhole(sent)
  BY <1>1, <1>2 DEF ParsedTo, BeforeParts, AtHeaders, InPart, AfterParts
<1>4. /\ files = g[n] /\ fields = LastOf(h[n])
      /\ \A i \in 1 .. Len(files) : Len(files[i]) <= MaxBytes
  BY <1>2, <1>3 DEF ParsedTo
<1>5. Gathers(sent, "file", g) /\ Gathers(sent, "scope", h)
  BY <1>1, ChosenFit
<1> HIDE DEF g, h
<1>6. g[n] = FilesSent(sent) /\ LastOf(h[n]) = ScopeSent(sent) /\ g[n] \in Seq(Text)
  <2>1. n \in 0 .. n
    BY <1>1, BodyIs
  <2>2. /\ g[n] = DataSent(sent, "file") /\ h[n] = DataSent(sent, "scope")
        /\ g[n] \in Seq(Text)
    BY <1>5, <2>1 DEF Gathers
  <2> QED BY <2>2 DEF FilesSent, ScopeSent, LastOf
<1>7. DOMAIN FilesSent(sent) = 1 .. Len(files)
  BY <1>4, <1>6, LenProperties
<1>8. ASSUME NEW i \in DOMAIN FilesSent(sent) PROVE ~ (Len(FilesSent(sent)[i]) > MaxBytes)
  <2>1. FilesSent(sent)[i] \in Text /\ Len(FilesSent(sent)[i]) <= MaxBytes
    BY <1>4, <1>6, <1>7, <1>8
  <2> QED BY <2>1, LenProperties, UploadAssumption DEF Text
<1>9. AnswersFitWhatWasSent'
  BY <1>1, <1>3, <1>4, <1>6, <1>8 DEF AnswersFitWhatWasSent
<1> QED BY <1>1, <1>9 DEF UploadInv

\* Nothing has arrived yet.
LEMMA MultipartStarts ==
  ASSUME MultipartInit
  PROVE  UploadInv
<1>1. /\ sent \in Bodies /\ fed = 0 /\ buffer = <<>> /\ phase = "feed"
      /\ ~ started /\ ~ finished /\ part = NoPart /\ fields = <<>> /\ files = <<>>
  BY DEF MultipartInit
<1>2. 0 \in 0 .. Len(sent.parts)
  BY <1>1, BodyIs
<1>3. Consumed = 0 /\ Len(buffer) = 0
  <2>1. Len(<<>>) = 0 /\ 0 - 0 = 0
    OBVIOUS
  <2> QED BY <1>1, <2>1 DEF Consumed
<1>4. Buffered
  <2>1. /\ 0 \in 0 .. Len(Body(sent)) /\ buffer \in Text /\ Body(sent) \in Seq(Tokens)
    BY <1>1, ArrivingIs DEF Text
  <2>2. SubSeq(Body(sent), 0 + 1, 0) = <<>>
    BY <2>1, SubSeqProperties
  <2> QED BY <1>1, <1>3, <2>1, <2>2 DEF Buffered
<1>5. /\ Gathered(sent, "file")[0] = <<>> /\ Gathered(sent, "scope")[0] = <<>>
  BY <1>1, ChosenFit DEF Gathers
<1>6. BeforeParts(0)
  <2>1. At(sent)[0] \in Nat
    BY <1>1, <1>2, PlaceIs
  <2> QED BY <1>1, <1>3, <2>1 DEF BeforeParts
<1>7. ParsedTo(0)
  <2>1. 1 .. Len(files) = {}
    BY <1>1
  <2> QED BY <1>1, <1>5, <1>6, <2>1 DEF ParsedTo, LastOf
<1> QED BY <1>1, <1>2, <1>4, <1>7 DEF UploadInv, AnswersFitWhatWasSent

\* Every turn of the parser's loop, every chunk and the answer.
LEMMA MultipartSteps ==
  ASSUME UploadInv, [MultipartNext]_multipartVars
  PROVE  UploadInv'
<1>1. CASE Feed
  BY <1>1, FeedFits
<1>2. CASE EndOfStream
  BY <1>2, EndOfStreamFits
<1>3. CASE FindStart
  BY <1>3, FindStartFits
<1>4. CASE ReadHeaders
  BY <1>4, ReadHeadersFits
<1>5. CASE TakeContent
  BY <1>5, TakeContentFits
<1>6. CASE EndPart
  BY <1>6, EndPartFits
<1>7. CASE SkipEpilogue
  BY <1>7, SkipEpilogueFits
<1>8. CASE AnswerUpload
  BY <1>8, AnswerUploadFits
<1>9. CASE UNCHANGED multipartVars
  <2>1. UNCHANGED <<sent, fed, buffer, phase, started, finished, part, fields, files, answer>>
    BY <1>9 DEF multipartVars
  <2>2. Buffered' = Buffered /\ Consumed' = Consumed
    BY <2>1 DEF Buffered, Consumed
  <2>3. \A k \in 0 .. Len(sent.parts) : ParsedTo(k)' = ParsedTo(k)
    BY <2>1, <2>2
       DEF ParsedTo, BeforeParts, AtHeaders, InPart, AfterParts, TooLarge, IsWhole
  <2>4. AnswersFitWhatWasSent' = AnswersFitWhatWasSent
    BY <2>1 DEF AnswersFitWhatWasSent
  <2> QED BY <2>1, <2>2, <2>3, <2>4 DEF UploadInv
<1> QED BY <1>1, <1>2, <1>3, <1>4, <1>5, <1>6, <1>7, <1>8, <1>9 DEF MultipartNext

\* At every turn of its loop the parser stands where the body it was sent says:
\* its buffer is what arrived and is not consumed, the files and the field are
\* those of the parts before that place, and the active part's data is the
\* beginning of what was sent of it (parseMultipartUpload).
THEOREM UploadsAlwaysFit == MultipartSpec => []UploadInv
<1> QED BY MultipartStarts, MultipartSteps, PTL DEF MultipartSpec

\* A file arrives as it was sent however it is cut into chunks, whatever its
\* content, and no more of it than its limit is held (parseMultipartUpload).
THEOREM UploadsArrive == MultipartSpec => []UploadsArriveAsSent
<1>1. ASSUME UploadInv PROVE UploadsArriveAsSent
  <2>1. ASSUME phase = "feed", part.head = "file"
        PROVE  Len(part.data) <= MaxBytes /\ Len(buffer) <= Len(NextBoundaryBuffer) + 1
    <3>1. sent \in Bodies
      BY <1>1 DEF UploadInv
    <3>2. PICK k \in 0 .. Len(sent.parts) : ParsedTo(k)
      BY <1>1, <2>1 DEF UploadInv
    <3>3. InPart(k)
      <4>1. part # NoPart
        BY <2>1 DEF NoPart
      <4> QED BY <3>2, <4>1 DEF ParsedTo, BeforeParts, AtHeaders, AfterParts
    <3>4. /\ ~ TooLarge(part) /\ Len(buffer) <= Len(NextBoundaryBuffer) + 1
          /\ part.data = SubSeq(sent.parts[k + 1].data, 1, Consumed - (At(sent)[k] + 10))
          /\ k < Len(sent.parts)
      BY <2>1, <3>3 DEF InPart
    <3>5. k # Len(sent.parts) /\ Buffered
      BY <1>1, <2>1, <3>1, <3>4, BodyIs DEF UploadInv
    <3>6. Len(part.data) \in Nat
      <4> DEFINE c == Consumed
                 o == At(sent)[k] + 10
      <4>1. c \in Nat /\ c <= fed /\ o <= c /\ c <= DataEnds(sent, k) /\ o \in Nat
        <5>1. c \in Nat /\ c <= fed
          BY <3>1, <3>5, BufferIs
        <5>2. At(sent)[k] \in Nat
          BY <3>1, <3>5, DataLies
        <5>3. o <= c /\ c <= DataEnds(sent, k)
          BY <3>3 DEF InPart, DataEnds
        <5> QED BY <5>1, <5>2, <5>3
      <4>2. c <= c /\ c - o \in Nat
        <5> HIDE DEF c, o
        <5> QED BY <4>1
      <4>3. Grown(sent.parts[k + 1].data, o, c)
        BY <3>1, <3>5, <4>1, <4>2, DataGrows
      <4> QED BY <3>4, <4>2, <4>3 DEF Grown
    <3>7. ~ (Len(part.data) > MaxBytes)
      BY <2>1, <3>4 DEF TooLarge
    <3>8. Len(part.data) <= MaxBytes
      <4> DEFINE l == Len(part.data)
      <4>1. l \in Nat /\ ~ (l > MaxBytes) /\ MaxBytes \in Nat
        BY <3>6, <3>7, UploadAssumption
      <4> HIDE DEF l
      <4>2. l <= MaxBytes
        BY <4>1
      <4> QED BY <4>2 DEF l
    <3> QED BY <3>4, <3>8
  <2>2. UploadsStaySmall
    BY <2>1 DEF UploadsStaySmall
  <2> QED BY <1>1, <2>2 DEF UploadInv, UploadsArriveAsSent
<1> QED BY <1>1, UploadsAlwaysFit, PTL
=============================================================================
