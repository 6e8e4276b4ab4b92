----------------------------- MODULE ExportJobs -----------------------------
(***************************************************************************)
(* Export jobs: the rows of export_jobs, the workers that claim them and   *)
(* the cleanup that times them out, as apps/worker/src/index.ts runs them  *)
(* over packages/db/src/metadata.ts.                                       *)
(*                                                                         *)
(* A worker process runs its export loop and its cleanup loop side by      *)
(* side; several processes may share the database.  Rendering, the object  *)
(* storage and the database each answer or throw at every await, and a     *)
(* reply can be lost after the effect it reports.  The output of a job has *)
(* a storage key made from the job's id, so a job stands for its object    *)
(* and for its assets row as well.                                         *)
(***************************************************************************)
EXTENDS Integers, FiniteSets

CONSTANTS
  Jobs,         \* jobs users may request
  Workers,      \* worker processes
  NoJob,
  MaxFaults,    \* bound: errors thrown and replies lost
  MaxCrashes    \* bound: worker crashes

ASSUME NoJobAssumption == NoJob \notin Jobs
ASSUME ExportBoundAssumption == MaxFaults \in Nat /\ MaxCrashes \in Nat

VARIABLES
  status,     \* export_jobs.status, "absent" before the insert
  output,     \* jobs whose output_asset_id is set
  overdue,    \* jobs whose started_at is jobTimeoutMs ago or earlier
  step,       \* what each worker's export loop awaits
  at,         \* the job it claimed
  blobs,      \* jobs whose output is in the object storage
  assets,     \* jobs whose output has an assets row
  faults,
  crashes

exportVars == <<status, output, overdue, step, at, blobs, assets, faults, crashes>>

Ended == {"succeeded", "failed"}

ExportInit ==
  /\ status = [j \in Jobs |-> "absent"]
  /\ output = {}
  /\ overdue = {}
  /\ step = [w \in Workers |-> "idle"]
  /\ at = [w \in Workers |-> NoJob]
  /\ blobs = {}
  /\ assets = {}
  /\ faults = 0
  /\ crashes = 0

\* The awaited call answers and the worker goes on, or its reply is lost and
\* processExportJob continues in its catch block.
Answered(w, next) ==
  \/ /\ step' = [step EXCEPT ![w] = next]
     /\ UNCHANGED faults
  \/ /\ faults < MaxFaults
     /\ faults' = faults + 1
     /\ step' = [step EXCEPT ![w] = "failing"]

\* The loop's catch, or its end: nothing of the job stays in memory.
LetGo(w) ==
  /\ step' = [step EXCEPT ![w] = "idle"]
  /\ at' = [at EXCEPT ![w] = NoJob]

-----------------------------------------------------------------------------
\* The API inserts the row.
CreateJob(j) ==
  /\ status[j] = "absent"
  /\ status' = [status EXCEPT ![j] = "queued"]
  /\ UNCHANGED <<output, overdue, step, at, blobs, assets, faults, crashes>>

\* Faulty variant: a running job can be claimed again.
ClaimRunning(w, j) ==
  /\ step[w] = "idle"
  /\ status[j] \in {"queued", "running"}
  /\ status' = [status EXCEPT ![j] = "running"]
  /\ step' = [step EXCEPT ![w] = "render"]
  /\ at' = [at EXCEPT ![w] = j]
  /\ UNCHANGED <<output, overdue, blobs, assets, faults, crashes>>

\* claimNextQueuedExportJob, one statement: the first queued row by created_at that
\* no other transaction has locked, which may be any of them.  When the commit's
\* reply is lost the row runs and no worker knows.
Claim(w, j) ==
  /\ step[w] = "idle"
  /\ status[j] = "queued"
  /\ status' = [status EXCEPT ![j] = "running"]
  /\ \/ /\ step' = [step EXCEPT ![w] = "render"]
        /\ at' = [at EXCEPT ![w] = j]
        /\ UNCHANGED faults
     \/ /\ faults < MaxFaults
        /\ faults' = faults + 1
        /\ UNCHANGED <<step, at>>
  /\ UNCHANGED <<output, overdue, blobs, assets, crashes>>

\* Read pages, assets and documents, render in the browser.
Render(w) ==
  /\ step[w] = "render"
  /\ step' = [step EXCEPT ![w] = "put"]
  /\ UNCHANGED <<status, output, overdue, at, blobs, assets, faults, crashes>>

PutOutput(w) ==
  /\ step[w] = "put"
  /\ blobs' = blobs \cup {at[w]}
  /\ Answered(w, "record")
  /\ UNCHANGED <<status, output, overdue, at, assets, crashes>>

\* createDerivedAssetRecord
RecordOutput(w) ==
  /\ step[w] = "record"
  /\ assets' = assets \cup {at[w]}
  /\ Answered(w, "mark")
  /\ UNCHANGED <<status, output, overdue, at, blobs, crashes>>

\* Faulty variant: success is reported before the output is stored.
MarkSucceededEarly(w) ==
  /\ step[w] \in {"put", "mark"}
  /\ status' = [status EXCEPT ![at[w]] = "succeeded"]
  /\ output' = output \cup {at[w]}
  /\ UNCHANGED <<overdue, step, at, blobs, assets, faults, crashes>>

\* markExportJobSucceeded: whatever the row's status is by now.
MarkSucceeded(w) ==
  /\ step[w] = "mark"
  /\ status' = [status EXCEPT ![at[w]] = "succeeded"]
  /\ output' = output \cup {at[w]}
  /\ Answered(w, "thumbnails")
  /\ UNCHANGED <<overdue, at, blobs, assets, crashes>>

\* refreshExportThumbnails catches everything; its effects are another component's.
RefreshThumbnails(w) ==
  /\ step[w] = "thumbnails"
  /\ LetGo(w)
  /\ UNCHANGED <<status, output, overdue, blobs, assets, faults, crashes>>

\* A call throws before it had any effect: page not found, browser, storage, database.
StepThrows(w) ==
  /\ step[w] \in {"render", "put", "record", "mark"}
  /\ faults < MaxFaults
  /\ faults' = faults + 1
  /\ step' = [step EXCEPT ![w] = "failing"]
  /\ UNCHANGED <<status, output, overdue, at, blobs, assets, crashes>>

\* markExportJobFailed, in the catch: whatever the row's status is by now.
MarkFailed(w) ==
  /\ step[w] = "failing"
  /\ status' = [status EXCEPT ![at[w]] = "failed"]
  /\ LetGo(w)
  /\ UNCHANGED <<output, overdue, blobs, assets, faults, crashes>>

\* markExportJobFailed throws out of the catch; runExportLoop logs it and ends the run.
MarkFailedThrows(w) ==
  /\ step[w] = "failing"
  /\ faults < MaxFaults
  /\ faults' = faults + 1
  /\ LetGo(w)
  /\ UNCHANGED <<status, output, overdue, blobs, assets, crashes>>

WorkerCrash(w) ==
  /\ step[w] # "idle"
  /\ crashes < MaxCrashes
  /\ crashes' = crashes + 1
  /\ LetGo(w)
  /\ UNCHANGED <<status, output, overdue, blobs, assets, faults>>

\* jobTimeoutMs passes after a job started.
BecomeOverdue(j) ==
  /\ status[j] = "running"
  /\ j \notin overdue
  /\ overdue' = overdue \cup {j}
  /\ UNCHANGED <<status, output, step, at, blobs, assets, faults, crashes>>

\* Faulty variant: only jobs that a worker still holds time out.
FailStaleHeld ==
  /\ \E w \in Workers : at[w] \in overdue /\ status[at[w]] = "running"
  /\ status' = [j \in Jobs |-> IF \E w \in Workers : at[w] = j /\ j \in overdue /\ status[j] = "running"
                               THEN "failed" ELSE status[j]]
  /\ UNCHANGED <<output, overdue, step, at, blobs, assets, faults, crashes>>

\* runCleanupLoop: failStaleRunningExportJobs, one statement.
FailStale ==
  /\ \E j \in overdue : status[j] = "running"
  /\ status' = [j \in Jobs |-> IF j \in overdue /\ status[j] = "running" THEN "failed"
                                                                         ELSE status[j]]
  /\ UNCHANGED <<output, overdue, step, at, blobs, assets, faults, crashes>>

WorkerStep(w) ==
  \/ Render(w) \/ PutOutput(w) \/ RecordOutput(w) \/ MarkSucceeded(w)
  \/ RefreshThumbnails(w) \/ MarkFailed(w)

WorkerNext ==
  \/ \E w \in Workers : \/ \E j \in Jobs : Claim(w, j)
                        \/ WorkerStep(w)
                        \/ StepThrows(w) \/ MarkFailedThrows(w) \/ WorkerCrash(w)
  \/ \E j \in Jobs : BecomeOverdue(j)
  \/ FailStale

ExportNext == WorkerNext \/ \E j \in Jobs : CreateJob(j)

ExportSpec == ExportInit /\ [][ExportNext]_exportVars

\* The intervals of startWorker fire for ever, a crashed worker is started again
\* (by the next deployment's force-recreate), a rendering ends (browserLaunchTimeoutMs), time passes.
ExportFairness ==
  /\ \A w \in Workers : WF_exportVars(WorkerStep(w))
  /\ WF_exportVars(\E w \in Workers, j \in Jobs : Claim(w, j))
  /\ \A j \in Jobs : WF_exportVars(BecomeOverdue(j))
  /\ WF_exportVars(FailStale)

FairExportSpec == ExportSpec /\ ExportFairness

-----------------------------------------------------------------------------
(* Properties.                                                             *)

(* Statuses, loop positions and counters stay in their types, and a worker *)
(* that is in the middle of processExportJob has a job.                    *)
ExportTypeOK ==
  /\ status \in [Jobs -> {"absent", "queued", "running"} \cup Ended]
  /\ output \subseteq Jobs
  /\ overdue \subseteq Jobs
  /\ step \in [Workers -> {"idle", "render", "put", "record", "mark", "thumbnails", "failing"}]
  /\ at \in [Workers -> Jobs \cup {NoJob}]
  /\ \A w \in Workers : at[w] = NoJob <=> step[w] = "idle"
  /\ blobs \subseteq Jobs
  /\ assets \subseteq Jobs
  /\ faults \in 0..MaxFaults
  /\ crashes \in 0..MaxCrashes

(* A job is in the hands of one worker at most, and only after it left the *)
(* queue: not even a timed out or failed job is rendered a second time     *)
(* while the first worker still renders it.                                *)
OneWorkerPerJob ==
  \A w \in Workers : step[w] # "idle" =>
    /\ status[at[w]] \notin {"absent", "queued"}
    /\ \A v \in Workers \ {w} : at[v] # at[w]

(* Whoever reads "succeeded" can download: the output id is set, the       *)
(* assets row it names and the object in the storage exist, whatever       *)
(* crashed, timed out or was answered late in between.                     *)
SucceededIsDownloadable ==
  \A j \in Jobs : status[j] = "succeeded" => j \in output \cap assets \cap blobs

(* No fault, crash or timeout puts a job that once left the queue back     *)
(* into it or into "running": an export runs at most once.                 *)
NeverRunsAgain ==
  [][\A j \in Jobs : /\ status[j] \notin {"absent", "queued"} =>
                          status'[j] \in Ended \cup {status[j]}
                     /\ j \in output => j \in output']_exportVars

(* Every requested job reaches an end, also when its worker dies, its      *)
(* error cannot be recorded, or the claim's answer is lost: the cleanup    *)
(* finds what the workers forgot.                                          *)
JobsEnd == \A j \in Jobs : status[j] = "queued" ~> status[j] \in Ended

(* The plan's promise that job status moves from queued to a terminal      *)
(* state, which the editor relies on when it stops polling.                *)
TerminalIsFinal ==
  [][\A j \in Jobs : status[j] \in Ended => status'[j] = status[j]]_exportVars
=============================================================================
