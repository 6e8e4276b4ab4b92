------------------------------- MODULE Assets -------------------------------
(***************************************************************************)
(* Assets: objects in the blob storage, the rows of assets that name them, *)
(* and the thumbnails a page and its file point to.  Uploads come from     *)
(* apps/api/src/assets.ts; thumbnails from the worker, whose export loop,  *)
(* thumbnail loop and cleanup loop run side by side.                       *)
(*                                                                         *)
(* Storage and database share no transaction.  An object is put first and  *)
(* its row recorded after; a thumbnail's key is made from the file's name, *)
(* so that a refresh replaces the object and revives the row of the same   *)
(* name, and one made after a rename supersedes the row of the old name.   *)
(* A row is <<key, generation>>: a key whose row was deleted may get a new *)
(* one.                                                                    *)
(***************************************************************************)
EXTENDS Integers, FiniteSets

CONSTANTS
  Uploads,      \* uploads to the file, each with a key of its own
  Readers,      \* requests for the content of a thumbnail
  None,
  RenamesWait,  \* bound: a rename waits for the loops' tasks
  MaxName,      \* bound: names the file has had, 1 .. MaxName
  MaxRefreshes, \* bound: exports that end and refresh the thumbnails
  MaxFaults,    \* bound: calls that throw, calls whose reply is lost
  MaxCrashes    \* bound: ends of the worker or the API

ASSUME AssetBoundAssumption ==
  /\ MaxName \in Nat \ {0} /\ RenamesWait \in BOOLEAN
  /\ {MaxRefreshes, MaxFaults, MaxCrashes} \subseteq Nat

Slots == {"page", "file"}
Loops == {"thumbnail", "export"}
ThumbnailKey(slot, n) == <<slot, n>>
ThumbnailKeys == Slots \X (1 .. MaxName)
Keys == ThumbnailKeys \cup {<<"upload", u>> : u \in Uploads}

\* The id of a row is its key and which row of the key it is.
ASSUME NoneAssumption == None \notin Keys \X Nat

VARIABLES
  blobs,       \* keys of the stored objects
  row,         \* key -> the generation of its row, 0 without one
  made,        \* key -> the generations there have been
  marked,      \* keys whose row has deleted_at set
  old,         \* marked keys whose deleted_at is before the retention
  shown,       \* slot -> thumbnail_asset_id
  name,        \* the file's name
  task,        \* what each of the worker's two loops does
  cleanup,     \* the rows the cleanup loop still has to delete
  purged,      \* whether it deleted the object of the row it is at
  upload,      \* what each upload does
  reading,     \* what each reader does
  refreshes, faults, crashes

storeVars == <<blobs, row, made, marked, old>>
boundVars == <<refreshes, faults, crashes>>
assetVars == <<blobs, row, made, marked, old, shown, name, task, cleanup, purged,
               upload, reading, refreshes, faults, crashes>>

IdleTask == [at |-> "idle", slot |-> "page", named |-> 1, key |-> None, id |-> None,
             previous |-> None]
IdleReader == [at |-> "idle", slot |-> "page", id |-> None, reply |-> 0]

AssetsInit ==
  /\ blobs = {} /\ marked = {} /\ old = {}
  /\ row = [k \in Keys |-> 0]
  /\ made = [k \in Keys |-> 0]
  /\ shown = [s \in Slots |-> None]
  /\ name = 1
  /\ task = [l \in Loops |-> IdleTask]
  /\ cleanup = {} /\ purged = FALSE
  /\ upload = [u \in Uploads |-> "idle"]
  /\ reading = [r \in Readers |-> IdleReader]
  /\ refreshes = 0 /\ faults = 0 /\ crashes = 0

\* A row is there and is the one of this id.
Exists(id) == id # None /\ row[id[1]] = id[2]
Readable(id) == Exists(id) /\ id[1] \notin marked

(***************************************************************************)
(* Thumbnails: candidate, put, record, point, mark.                        *)
(***************************************************************************)

\* The next task of a loop after the one it is at: both refresh the page's
\* thumbnail and then the file's.
FindsPage(l) == task[l].at = "idle"
StartsFile(l) == task[l].at = "next"

\* The key is made from the name the file had when it was read.
Render(l, slot, named) ==
  task' = [task EXCEPT ![l] = [IdleTask EXCEPT !.at = "put", !.slot = slot, !.named = named,
                                               !.key = ThumbnailKey(slot, named)]]

\* runThumbnailLoop: a candidate is a page, then a file, without a thumbnail.
ThumbnailTick ==
  /\ \/ FindsPage("thumbnail") /\ shown["page"] = None /\ Render("thumbnail", "page", name)
     \/ /\ (FindsPage("thumbnail") /\ shown["page"] # None) \/ StartsFile("thumbnail")
        /\ shown["file"] = None
        /\ Render("thumbnail", "file", name)
     \/ /\ StartsFile("thumbnail") /\ shown["file"] # None
        /\ task' = [task EXCEPT !["thumbnail"] = IdleTask]
  /\ UNCHANGED <<storeVars, shown, name, cleanup, purged, upload, reading, boundVars>>

\* refreshExportThumbnails, after an export succeeded: with or without a
\* thumbnail, and on to the file's when the page's failed.
RefreshAfterExport ==
  /\ \/ /\ FindsPage("export") /\ refreshes < MaxRefreshes
        /\ refreshes' = refreshes + 1
        /\ Render("export", "page", name)
     \/ /\ StartsFile("export")
        /\ Render("export", "file", task["export"].named)
        /\ UNCHANGED refreshes
  /\ UNCHANGED <<storeVars, shown, name, cleanup, purged, upload, reading, faults, crashes>>

Goes(l, where) == task' = [task EXCEPT ![l].at = where]

\* Faulty variant: a loop whose task threw stays busy.
EndsBusy(l, failed) ==
  task' = [task EXCEPT ![l] =
    IF @.slot = "page" /\ (l = "export" \/ ~failed)
    THEN [IdleTask EXCEPT !.at = "next", !.named = task[l].named] ELSE IF failed THEN [IdleTask EXCEPT !.at = "busy"] ELSE IdleTask]

\* One slot is done, or failed: an error ends the thumbnail loop's turn, and
\* is logged by the refresh of an export.
Ends(l, failed) ==
  task' = [task EXCEPT ![l] =
    IF @.slot = "page" /\ (l = "export" \/ ~failed)
    THEN [IdleTask EXCEPT !.at = "next", !.named = task[l].named] ELSE IdleTask]

PutThumbnail(l) ==
  /\ task[l].at = "put"
  /\ blobs' = blobs \cup {task[l].key}
  /\ Goes(l, "record")
  /\ UNCHANGED <<row, made, marked, old, shown, name, cleanup, purged, upload, reading,
                 boundVars>>

\* Insert, or on conflict of the key update and set deleted_at to null.
createDerivedAssetRecord(l) ==
  LET k == task[l].key
      g == IF row[k] = 0 THEN made[k] + 1 ELSE row[k] IN
  /\ task[l].at = "record"
  /\ row' = [row EXCEPT ![k] = g]
  /\ made' = [made EXCEPT ![k] = IF row[k] = 0 THEN g ELSE @]
  /\ marked' = marked \ {k}
  /\ old' = old \ {k}
  /\ task' = [task EXCEPT ![l].at = "point", ![l].id = <<k, g>>]
  /\ UNCHANGED <<blobs, shown, name, cleanup, purged, upload, reading, boundVars>>

\* Faulty variant: or when it is the new one.
ReplaceThumbnailSame(l) ==
  LET t == task[l] IN
  /\ t.at = "point"
  /\ IF Exists(t.id)
     THEN /\ shown' = [shown EXCEPT ![t.slot] = t.id]
          /\ IF shown[t.slot] = None
             THEN Ends(l, FALSE)
             ELSE task' = [task EXCEPT ![l].at = "mark", ![l].previous = shown[t.slot]]
     ELSE Ends(l, TRUE) /\ UNCHANGED shown
  /\ UNCHANGED <<storeVars, name, cleanup, purged, upload, reading, boundVars>>

\* replacePageThumbnailAsset, replaceFileThumbnailAsset: the foreign key fails
\* when the row is gone; the previous row is marked unless it is the same.
ReplaceThumbnail(l) ==
  LET t == task[l] IN
  /\ t.at = "point"
  /\ IF Exists(t.id)
     THEN /\ shown' = [shown EXCEPT ![t.slot] = t.id]
          /\ IF shown[t.slot] \in {None, t.id}
             THEN Ends(l, FALSE)
             ELSE task' = [task EXCEPT ![l].at = "mark", ![l].previous = shown[t.slot]]
     ELSE Ends(l, TRUE) /\ UNCHANGED shown
  /\ UNCHANGED <<storeVars, name, cleanup, purged, upload, reading, boundVars>>

markAssetDeleted(l) ==
  LET t == task[l] IN
  /\ t.at = "mark"
  /\ marked' = IF Exists(t.previous) THEN marked \cup {t.previous[1]} ELSE marked
  /\ Ends(l, FALSE)
  /\ UNCHANGED <<blobs, row, made, old, shown, name, cleanup, purged, upload, reading,
                 boundVars>>

\* Rendering, the storage or the database throws.
TaskFails(l) ==
  /\ task[l].at \in {"put", "record", "point", "mark"}
  /\ faults < MaxFaults
  /\ faults' = faults + 1
  /\ Ends(l, TRUE)
  /\ UNCHANGED <<storeVars, shown, name, cleanup, purged, upload, reading, refreshes, crashes>>

(***************************************************************************)
(* Cleanup: marked rows past the retention that nothing points to.         *)
(***************************************************************************)

Age(k) ==
  /\ k \in marked \ old
  /\ old' = old \cup {k}
  /\ UNCHANGED <<blobs, row, made, marked, shown, name, task, cleanup, purged, upload,
                 reading, boundVars>>

\* The subqueries on files.thumbnail_asset_id and pages.thumbnail_asset_id.
Unreferenced(id) == \A s \in Slots : shown[s] # id

listDeletedThumbnailAssetsForCleanup ==
  /\ cleanup = {}
  /\ cleanup' = {id \in {<<k, row[k]>> : k \in old} : Unreferenced(id)}
  /\ cleanup' # {}
  /\ UNCHANGED <<storeVars, shown, name, task, purged, upload, reading, boundVars>>

\* An error of the storage's delete is ignored.
PurgeObject ==
  /\ cleanup # {} /\ ~purged
  /\ purged' = TRUE
  /\ LET id == CHOOSE id \in cleanup : TRUE IN
     \/ blobs' = blobs \ {id[1]} /\ UNCHANGED faults
     \/ faults < MaxFaults /\ faults' = faults + 1 /\ UNCHANGED blobs
  /\ UNCHANGED <<row, made, marked, old, shown, name, task, cleanup, upload, reading,
                 refreshes, crashes>>

\* Faulty variant: a row is kept when its object is gone.
hardDeleteAssetRecordWithObject ==
  LET id == CHOOSE id \in cleanup : TRUE IN
  /\ cleanup # {} /\ purged
  /\ purged' = FALSE
  /\ cleanup' = cleanup \ {id}
  /\ IF Exists(id) /\ id[1] \in blobs
     THEN /\ row' = [row EXCEPT ![id[1]] = 0]
          /\ marked' = marked \ {id[1]}
          /\ old' = old \ {id[1]}
          /\ shown' = [s \in Slots |-> IF shown[s] = id THEN None ELSE shown[s]]
     ELSE UNCHANGED <<row, marked, old, shown>>
  /\ UNCHANGED <<blobs, made, name, task, upload, reading, boundVars>>

hardDeleteAssetRecord ==
  LET id == CHOOSE id \in cleanup : TRUE IN
  /\ cleanup # {} /\ purged
  /\ purged' = FALSE
  /\ cleanup' = cleanup \ {id}
  /\ IF Exists(id)
     THEN /\ row' = [row EXCEPT ![id[1]] = 0]
          /\ marked' = marked \ {id[1]}
          /\ old' = old \ {id[1]}
          /\ shown' = [s \in Slots |-> IF shown[s] = id THEN None ELSE shown[s]]
     ELSE UNCHANGED <<row, marked, old, shown>>
  /\ UNCHANGED <<blobs, made, name, task, upload, reading, boundVars>>

\* The cleanup loop logs an error and starts again at its next tick.
CleanupFails ==
  /\ cleanup # {} /\ faults < MaxFaults
  /\ faults' = faults + 1
  /\ cleanup' = {} /\ purged' = FALSE
  /\ UNCHANGED <<storeVars, shown, name, task, upload, reading, refreshes, crashes>>

(***************************************************************************)
(* Uploads: put, then createAsset; the object is deleted again when the    *)
(* row was not created or the call threw, also by the loss of the reply to *)
(* a commit that took place.                                               *)
(***************************************************************************)

UploadKey(u) == <<"upload", u>>
UploadGoes(u, where) == upload' = [upload EXCEPT ![u] = where]

\* The request was admitted, its one file checked, the file's row found; 503
\* when the put throws, whether or not the object was stored.
PutUpload(u) ==
  /\ upload[u] = "idle"
  /\ \/ blobs' = blobs \cup {UploadKey(u)} /\ UploadGoes(u, "record") /\ UNCHANGED faults
     \/ /\ faults < MaxFaults /\ faults' = faults + 1
        /\ blobs' \in {blobs, blobs \cup {UploadKey(u)}}
        /\ UploadGoes(u, "failed")
  /\ UNCHANGED <<row, made, marked, old, shown, name, task, cleanup, purged, reading,
                 refreshes, crashes>>

\* The membership or the file may be gone by now.
createAsset(u) ==
  /\ upload[u] = "record"
  /\ \/ /\ row' = [row EXCEPT ![UploadKey(u)] = 1]
        /\ \/ UploadGoes(u, "done") /\ UNCHANGED faults
           \/ faults < MaxFaults /\ faults' = faults + 1 /\ UploadGoes(u, "lost")
     \/ UploadGoes(u, "undo") /\ UNCHANGED <<row, faults>>
     \/ faults < MaxFaults /\ faults' = faults + 1 /\ UploadGoes(u, "undo") /\ UNCHANGED row
  /\ UNCHANGED <<blobs, made, marked, old, shown, name, task, cleanup, purged, reading,
                 refreshes, crashes>>

\* Faulty variant: the object of an upload without a row stays.
UndoUploadKeeps(u) ==
  /\ upload[u] \in {"undo", "lost"}
  /\ \/ blobs' = blobs /\ UNCHANGED faults
     \/ faults < MaxFaults /\ faults' = faults + 1 /\ UNCHANGED blobs
  /\ UploadGoes(u, "failed")
  /\ UNCHANGED <<row, made, marked, old, shown, name, task, cleanup, purged, reading,
                 refreshes, crashes>>

UndoUpload(u) ==
  /\ upload[u] \in {"undo", "lost"}
  /\ \/ blobs' = blobs \ {UploadKey(u)} /\ UNCHANGED faults
     \/ faults < MaxFaults /\ faults' = faults + 1 /\ UNCHANGED blobs
  /\ UploadGoes(u, "failed")
  /\ UNCHANGED <<row, made, marked, old, shown, name, task, cleanup, purged, reading,
                 refreshes, crashes>>

(***************************************************************************)
(* Readers: the launchpad's pointer, its asset, the asset's content.       *)
(***************************************************************************)

Reads(r, where) == reading' = [reading EXCEPT ![r].at = where]
Replies(r, code) == reading' = [reading EXCEPT ![r] = [@ EXCEPT !.at = "done", !.reply = code]]

ReadPointer(r, slot) ==
  /\ reading[r].at = "idle" /\ shown[slot] # None
  /\ reading' = [reading EXCEPT ![r] = [IdleReader EXCEPT !.at = "url", !.slot = slot,
                                                          !.id = shown[slot]]]
  /\ UNCHANGED <<storeVars, shown, name, task, cleanup, purged, upload, boundVars>>

\* Without an asset the launchpad shows no thumbnail.
LaunchpadThumbnail(r) ==
  /\ reading[r].at = "url"
  /\ IF Readable(reading[r].id) THEN Reads(r, "content") ELSE Replies(r, 404)
  /\ UNCHANGED <<storeVars, shown, name, task, cleanup, purged, upload, boundVars>>

getAuthorizedAsset(r) ==
  /\ reading[r].at = "content"
  /\ IF Readable(reading[r].id) THEN Reads(r, "read") ELSE Replies(r, 404)
  /\ UNCHANGED <<storeVars, shown, name, task, cleanup, purged, upload, boundVars>>

\* A missing object is a 404 as well; a reader who got the content may ask
\* for another.
ReadObject(r) ==
  /\ reading[r].at = "read"
  /\ IF reading[r].id[1] \in blobs
     THEN reading' = [reading EXCEPT ![r] = IdleReader]
     ELSE Replies(r, 404)
  /\ UNCHANGED <<storeVars, shown, name, task, cleanup, purged, upload, boundVars>>

(***************************************************************************)
(* The file is renamed; the worker or the API ends.                        *)
(***************************************************************************)

RenameFile ==
  /\ name < MaxName
  /\ RenamesWait => \A l \in Loops : task[l].at = "idle"
  /\ name' = name + 1
  /\ UNCHANGED <<storeVars, shown, task, cleanup, purged, upload, reading, boundVars>>

WorkerCrash ==
  /\ crashes < MaxCrashes
  /\ crashes' = crashes + 1
  /\ task' = [l \in Loops |-> IdleTask]
  /\ cleanup' = {} /\ purged' = FALSE
  /\ UNCHANGED <<storeVars, shown, name, upload, reading, refreshes, faults>>

ApiCrash ==
  /\ crashes < MaxCrashes
  /\ crashes' = crashes + 1
  /\ upload' = [u \in Uploads |-> IF upload[u] \in {"idle", "done"} THEN upload[u] ELSE "failed"]
  /\ UNCHANGED <<storeVars, shown, name, task, cleanup, purged, reading, refreshes, faults>>

LoopStep(l) == PutThumbnail(l) \/ createDerivedAssetRecord(l) \/ ReplaceThumbnail(l)
                 \/ markAssetDeleted(l)
CleanupStep == listDeletedThumbnailAssetsForCleanup \/ PurgeObject \/ hardDeleteAssetRecord
UploadStep(u) == PutUpload(u) \/ createAsset(u) \/ UndoUpload(u)
ReaderStep(r) == \/ \E slot \in Slots : ReadPointer(r, slot)
                 \/ LaunchpadThumbnail(r) \/ getAuthorizedAsset(r) \/ ReadObject(r)

AssetsNext ==
  \/ ThumbnailTick \/ RefreshAfterExport \/ CleanupStep \/ CleanupFails
  \/ \E l \in Loops : LoopStep(l) \/ TaskFails(l)
  \/ \E k \in ThumbnailKeys : Age(k)
  \/ \E u \in Uploads : UploadStep(u)
  \/ \E r \in Readers : ReaderStep(r)
  \/ RenameFile \/ WorkerCrash \/ ApiCrash

AssetsSpec == AssetsInit /\ [][AssetsNext]_assetVars

\* The loops run from timers, an awaited call ends, and time passes.
AssetsFairness ==
  /\ WF_assetVars(ThumbnailTick)
  /\ WF_assetVars(CleanupStep)
  /\ \A l \in Loops : WF_assetVars(LoopStep(l))
  /\ WF_assetVars(\E k \in ThumbnailKeys : Age(k))

FairAssetsSpec == AssetsSpec /\ AssetsFairness

(***************************************************************************)
(* Properties.                                                             *)
(***************************************************************************)

\* Types; a pointer names a row that exists, and a task marks a row.
AssetsTypeOK ==
  /\ \A l \in Loops : task[l].at = "mark" => task[l].previous # None
  /\ blobs \subseteq Keys /\ old \subseteq marked /\ name \in 1 .. MaxName
  /\ \A k \in Keys : k \in marked => row[k] # 0
  /\ \A s \in Slots : shown[s] # None => Exists(shown[s])

\* The thumbnail a page or a file points to can be read: its row is not
\* marked deleted and its object is stored, whatever refreshes, supersedes
\* and cleans thumbnails at the same time.
ShownThumbnailIsThere ==
  \A s \in Slots : shown[s] # None => Readable(shown[s]) /\ shown[s][1] \in blobs

\* A reader gets a 404 only for a thumbnail that is no longer the shown one.
ReadersSeeTheShown ==
  \A r \in Readers : reading[r].reply = 404 => shown[reading[r].slot] # reading[r].id

\* What a page or a file shows can be read, and who asks for it reads it.
ShownIsReadable == ShownThumbnailIsThere /\ ReadersSeeTheShown

\* A row has its object: only a row marked for the cleanup may be without,
\* and the row of an upload whose commit was not heard of.
RowsHaveObjects ==
  /\ \A k \in ThumbnailKeys : row[k] # 0 /\ k \notin blobs => k \in marked
  /\ \A u \in Uploads : row[UploadKey(u)] # 0 /\ UploadKey(u) \notin blobs =>
       upload[u] = "failed" /\ faults > 0

\* Without an error or a crash nothing is left in the storage that no row
\* names: who put an object records it, or deletes it again.
OrphansComeFromFaults ==
  faults = 0 /\ crashes = 0 =>
    \A k \in blobs : row[k] = 0 =>
      \/ \E l \in Loops : task[l].key = k /\ task[l].at = "record"
      \/ \E u \in Uploads : k = UploadKey(u) /\ upload[u] \in {"record", "undo"}

\* The rows and the storage agree, but for what an error left behind.
StorageMatchesRows == AssetsTypeOK /\ RowsHaveObjects /\ OrphansComeFromFaults

\* A page or a file without a thumbnail gets one, through errors and crashes.
MissingThumbnailsAreMade == \A s \in Slots : (shown[s] = None) ~> (shown[s] # None)

\* A superseded thumbnail is collected, its row and its object, unless its
\* row is revived.
SupersededAreCollected ==
  \A k \in ThumbnailKeys : (k \in marked) ~> (k \notin marked)
=============================================================================
