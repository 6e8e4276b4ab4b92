------------------------------- MODULE Backup -------------------------------
(***************************************************************************)
(* Backup: what scripts/backup-recovery.mjs makes of a running system and  *)
(* what it brings back.  A backup dumps the database, then archives the    *)
(* objects of a self-hosted storage one by one while the application goes  *)
(* on, then writes the manifest and the checksums; a restore reads         *)
(* manifest and checksums, then replaces the database and the storage in   *)
(* five steps, and a drill clears its target first.  The script may end at *)
(* any point, and an artifact may be damaged on its way to its target.     *)
(*                                                                         *)
(* Of the application only what moves an object or its row matters: an     *)
(* upload puts the object and then inserts the row; a superseded thumbnail *)
(* is marked, and once its mark is older than the retention its object and *)
(* then its row are deleted (Assets models that in full).  The stack is    *)
(* stopped while a backup is restored, as runRestoreDrill does.            *)
(***************************************************************************)
EXTENDS Integers, FiniteSets

CONSTANTS
  Objects,        \* storage keys, each put once
  MaxBackups,     \* bound: artifacts made; the last one is kept here
  MaxInterrupts,  \* bound: ends of the script
  MaxDamages      \* bound: files of an artifact that are damaged

VARIABLES
  row,       \* object -> its asset row: "none", "live", "marked", "deleted"
  blobs,     \* the objects of the storage
  aged,      \* marked rows whose mark is older than the retention
  db,        \* "there", "dropped", "empty"
  up,        \* whether the application runs
  script,    \* what the script does, and which objects it has looked at
  artifact,  \* the files of the last backup
  whole,     \* FALSE after a restore began, until one ends that brings back all
  backups, interrupts, damages

backupVars == <<row, blobs, aged, db, up, script, artifact, whole, backups, interrupts,
                damages>>
appVars == <<row, blobs, aged, db>>
backupBounds == <<backups, interrupts, damages>>

Idle == [at |-> "idle", seen |-> {}]
Covered == {"dump", "archive", "manifest"}
Files == Covered \cup {"SHA256SUMS"}

\* files are there, and as they were written but for the damaged; sums are
\* those SHA256SUMS has a line for; rows and objects are what dump and archive
\* hold, of a system that was whole or not.
NoArtifact == [files |-> {}, damaged |-> {}, sums |-> {},
               rows |-> [k \in Objects |-> "none"], objects |-> {}, whole |-> TRUE]

BackupInit ==
  /\ row = [k \in Objects |-> "none"] /\ blobs = {} /\ aged = {}
  /\ db = "there" /\ up = TRUE
  /\ script = Idle /\ artifact = NoArtifact /\ whole = TRUE
  /\ backups = 0 /\ interrupts = 0 /\ damages = 0

(***************************************************************************)
(* The application.                                                        *)
(***************************************************************************)

Works == up /\ db = "there"
LeavesBackups == UNCHANGED <<db, up, script, artifact, whole, backupBounds>>

PutObject(k) ==
  /\ Works /\ row[k] = "none"
  /\ blobs' = blobs \cup {k}
  /\ UNCHANGED <<row, aged>> /\ LeavesBackups

InsertRow(k) ==
  /\ Works /\ row[k] = "none" /\ k \in blobs
  /\ row' = [row EXCEPT ![k] = "live"]
  /\ UNCHANGED <<blobs, aged>> /\ LeavesBackups

MarkRow(k) ==
  /\ Works /\ row[k] = "live"
  /\ row' = [row EXCEPT ![k] = "marked"]
  /\ UNCHANGED <<blobs, aged>> /\ LeavesBackups

\* The retention is longer than a backup takes: what the dump of the backup
\* under way still has as live is not deleted before the archive is made.
Age(k) ==
  /\ Works /\ row[k] = "marked"
  /\ script.at \in {"dumped", "archiving"} => artifact.rows[k] # "live"
  /\ aged' = aged \cup {k}
  /\ UNCHANGED <<row, blobs>> /\ LeavesBackups

PurgeObject(k) ==
  /\ Works /\ k \in aged /\ row[k] = "marked"
  /\ blobs' = blobs \ {k}
  /\ UNCHANGED <<row, aged>> /\ LeavesBackups

DeleteRow(k) ==
  /\ Works /\ k \in aged /\ row[k] = "marked" /\ k \notin blobs
  /\ row' = [row EXCEPT ![k] = "deleted"] /\ aged' = aged \ {k}
  /\ UNCHANGED blobs /\ LeavesBackups

StopStack == up /\ script.at = "idle" /\ up' = FALSE
               /\ UNCHANGED <<appVars, script, artifact, whole, backupBounds>>
StartStack == ~up /\ script.at = "idle" /\ db = "there" /\ up' = TRUE
                /\ UNCHANGED <<appVars, script, artifact, whole, backupBounds>>

(***************************************************************************)
(* createBackup, createRemoteBackup                                        *)
(***************************************************************************)

Steps(at) == script' = [script EXCEPT !.at = at]
Adds(file) == artifact.files \cup {file}

\* A new directory, and pg_dump: one snapshot of the database.
createPostgresDump ==
  /\ script.at = "idle" /\ db = "there" /\ backups < MaxBackups
  /\ backups' = backups + 1
  /\ artifact' = [NoArtifact EXCEPT !.files = {"dump"}, !.rows = row, !.whole = whole]
  /\ script' = [at |-> "dumped", seen |-> {}]
  /\ UNCHANGED <<appVars, up, whole, interrupts, damages>>

\* Faulty variant: the objects are archived first.
ArchiveFirst(k) ==
  /\ script.at \in {"dumped", "archiving"} /\ k \notin script.seen
  /\ script' = [script EXCEPT !.at = "archiving", !.seen = @ \cup {k}]
  /\ artifact' = [artifact EXCEPT !.objects = IF k \in blobs THEN @ \cup {k} ELSE @,
                                  !.rows = row]
  /\ UNCHANGED <<appVars, up, whole, backupBounds>>

\* createMinioArchive, createLocalStorageArchive: docker cp and tar come by
\* every object, in an order of theirs.
ArchiveObject(k) ==
  /\ script.at \in {"dumped", "archiving"} /\ k \notin script.seen
  /\ script' = [script EXCEPT !.at = "archiving", !.seen = @ \cup {k}]
  /\ artifact' = [artifact EXCEPT !.objects = IF k \in blobs THEN @ \cup {k} ELSE @]
  /\ UNCHANGED <<appVars, up, whole, backupBounds>>

ArchiveDone ==
  /\ script.at = "archiving" /\ script.seen = Objects
  /\ Steps("archived")
  /\ artifact' = [artifact EXCEPT !.files = Adds("archive")]
  /\ UNCHANGED <<appVars, up, whole, backupBounds>>

WriteManifest ==
  /\ script.at = "archived"
  /\ Steps("manifested")
  /\ artifact' = [artifact EXCEPT !.files = Adds("manifest")]
  /\ UNCHANGED <<appVars, up, whole, backupBounds>>

\* SHA256SUMS is opened, empty, while the sums are made; one write fills it.
OpenChecksums ==
  /\ script.at = "manifested"
  /\ Steps("summing")
  /\ artifact' = [artifact EXCEPT !.files = Adds("SHA256SUMS")]
  /\ UNCHANGED <<appVars, up, whole, backupBounds>>

WriteChecksums ==
  /\ script.at = "summing"
  /\ script' = Idle
  /\ artifact' = [artifact EXCEPT !.sums = Covered]
  /\ UNCHANGED <<appVars, up, whole, backupBounds>>

(***************************************************************************)
(* restoreBackup                                                           *)
(***************************************************************************)

Intact(f) == f \in artifact.files \ artifact.damaged

\* readManifest and verifyChecksums: every line is compared, no line is asked
\* for.
Verified ==
  /\ Intact("manifest") /\ "SHA256SUMS" \in artifact.files
  /\ \A f \in artifact.sums : Intact(f)

\* The drill checks the artifact as a restore does and takes the stack down
\* with its volumes before it goes on.
runRestoreDrill ==
  /\ script.at = "idle" /\ Verified
  /\ up' = FALSE /\ db' = "empty" /\ whole' = FALSE
  /\ row' = [k \in Objects |-> "none"] /\ blobs' = {} /\ aged' = {}
  /\ script' = [at |-> "drill", seen |-> {}]
  /\ UNCHANGED <<artifact, backupBounds>>

\* The dump is copied into the container first.  DROP DATABASE fails while
\* somebody is connected; the stack is down.
DropDatabase ==
  /\ \/ script.at = "drill"
     \/ /\ script.at = "idle" /\ ~up /\ Verified
  /\ "dump" \in artifact.files
  /\ db' = "dropped" /\ whole' = FALSE
  /\ script' = [at |-> "drop", seen |-> {}]
  /\ UNCHANGED <<row, blobs, aged, up, artifact, backupBounds>>

CreateDatabase ==
  /\ script.at = "drop"
  /\ db' = "empty" /\ Steps("create")
  /\ UNCHANGED <<row, blobs, aged, up, artifact, whole, backupBounds>>

\* A mark is as old as it was, or older than the retention by now.
LoadDump ==
  /\ script.at = "create" /\ Intact("dump")
  /\ db' = "there" /\ row' = artifact.rows
  /\ aged' \in SUBSET {k \in Objects : artifact.rows[k] = "marked"}
  /\ Steps("load")
  /\ UNCHANGED <<blobs, up, artifact, whole, backupBounds>>

\* Faulty variant: what is in the storage stays.
ClearStorageKeeps ==
  /\ script.at = "load" /\ Steps("clear")
  /\ UNCHANGED <<row, blobs, aged, db, up, artifact, whole, backupBounds>>

ClearStorage ==
  /\ script.at = "load"
  /\ blobs' = {} /\ Steps("clear")
  /\ UNCHANGED <<row, aged, db, up, artifact, whole, backupBounds>>

ExtractArchive ==
  /\ script.at = "clear" /\ Intact("archive")
  /\ blobs' = blobs \cup artifact.objects
  /\ whole' = artifact.whole /\ script' = Idle
  /\ UNCHANGED <<row, aged, db, up, artifact, backupBounds>>

(***************************************************************************)
(* The script ends, by an error or a signal; a file is damaged.            *)
(***************************************************************************)

\* The file that was being written is not whole; some of the archive may be
\* extracted.
Interrupt ==
  /\ script.at # "idle" /\ interrupts < MaxInterrupts
  /\ interrupts' = interrupts + 1
  /\ script' = Idle
  /\ blobs' \in {blobs \cup S : S \in IF script.at = "clear" THEN SUBSET artifact.objects ELSE {{}}}
  /\ UNCHANGED <<row, aged, db, up, artifact, whole, backups, damages>>

\* Lost, or truncated, at rest or while it is copied.
Damage(f) ==
  /\ f \in artifact.files /\ damages < MaxDamages /\ script.at = "idle"
  /\ damages' = damages + 1
  /\ \/ artifact' = [artifact EXCEPT !.files = @ \ {f}]
     \/ artifact' = [artifact EXCEPT !.damaged = @ \cup {f},
                                     !.sums = IF f = "SHA256SUMS" THEN {} ELSE @]
  /\ UNCHANGED <<appVars, up, script, whole, backups, interrupts>>

BackupNext ==
  \/ \E k \in Objects : \/ PutObject(k) \/ InsertRow(k) \/ MarkRow(k) \/ Age(k)
                        \/ PurgeObject(k) \/ DeleteRow(k) \/ ArchiveObject(k)
  \/ StopStack \/ StartStack
  \/ createPostgresDump \/ ArchiveDone \/ WriteManifest \/ OpenChecksums
  \/ WriteChecksums
  \/ runRestoreDrill \/ DropDatabase \/ CreateDatabase \/ LoadDump \/ ClearStorage
  \/ ExtractArchive
  \/ Interrupt \/ \E f \in Files : Damage(f)

BackupSpec == BackupInit /\ [][BackupNext]_backupVars

(***************************************************************************)
(* Properties.                                                             *)
(***************************************************************************)

\* A live asset has its object, before a backup and after its restore,
\* however the application went on while the backup was made and wherever an
\* earlier attempt to restore it ended.  (A backup of a system that is only
\* half restored is as incomplete as that system.)
AssetsHaveObjects ==
  whole => \A k \in Objects : row[k] = "live" => k \in blobs

\* The database is cleared or dropped only for a backup that can be brought back.  This
\* is all that SHA256SUMS is for, and an empty one is taken for a good one:
\* the exception is the backup that was interrupted, or whose SHA256SUMS was
\* truncated.
OnlyIntactIsRestored ==
  script.at \in {"drill", "drop", "create", "load", "clear"} /\ artifact.sums # {}
    => \A f \in Covered : Intact(f)

\* The database is dropped only for a backup that is all there, and live
\* assets have their objects after a restore.
RestoredAssetsAreThere == OnlyIntactIsRestored /\ AssetsHaveObjects

\* What a restore leaves is the backup and nothing of what was there before.
RestoresTheBackup ==
  script.at = "clear" /\ script'.at = "idle" /\ whole' =>
    row' = artifact.rows /\ blobs' = artifact.objects

NothingOldIsLeft == [][RestoresTheBackup]_backupVars
=============================================================================
