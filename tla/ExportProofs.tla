---------------------------- MODULE ExportProofs ----------------------------
(* The properties of ExportJobs and of ExportTab, which composes it with   *)
(* the panel, for every set of jobs and workers.                           *)
EXTENDS ExportTab, TLAPS

\* What a worker has behind it at each step is what makes its success real.
OutputIsBehind ==
  \A w \in Workers :
    /\ step[w] \in {"record", "mark", "thumbnails"} => at[w] \in blobs
    /\ step[w] \in {"mark", "thumbnails"} => at[w] \in assets

ExportInv ==
  /\ ExportTypeOK
  /\ OneWorkerPerJob
  /\ SucceededIsDownloadable
  /\ OutputIsBehind

(* A claim takes a job no worker has, for a worker that has none.          *)
LEMMA ClaimInv ==
  ASSUME ExportInv, NEW w \in Workers, NEW j \in Jobs, Claim(w, j)
  PROVE ExportInv'
<1> USE NoJobAssumption, ExportBoundAssumption
<1> USE DEF ExportInv, ExportTypeOK, OneWorkerPerJob, SucceededIsDownloadable,
            OutputIsBehind, Ended, Claim
<1>1. ExportTypeOK'
  OBVIOUS
<1>2. OneWorkerPerJob'
  <2>1. \A v \in Workers : step[v] # "idle" => at[v] # j
    OBVIOUS
  <2>2. \A v \in Workers : status'[at[v]] = status[at[v]] \/ at[v] = j \/ at[v] = NoJob
    OBVIOUS
  <2> QED BY <2>1, <2>2
<1>3. SucceededIsDownloadable' /\ OutputIsBehind'
  OBVIOUS
<1> QED BY <1>1, <1>2, <1>3

(* Each step of a worker that holds a job leaves it or lets it go.         *)
LEMMA WorkerInv ==
  ASSUME ExportInv, NEW w \in Workers,
         \/ WorkerStep(w) \/ StepThrows(w) \/ MarkFailedThrows(w) \/ WorkerCrash(w)
  PROVE ExportInv'
<1> USE NoJobAssumption, ExportBoundAssumption
<1> USE DEF ExportInv, ExportTypeOK, OneWorkerPerJob, SucceededIsDownloadable,
            OutputIsBehind, Ended, Answered, LetGo
<1>1. CASE Render(w)
  BY <1>1 DEF Render
<1>2. CASE PutOutput(w)
  BY <1>2 DEF PutOutput
<1>3. CASE RecordOutput(w)
  BY <1>3 DEF RecordOutput
<1>4. CASE MarkSucceeded(w)
  BY <1>4 DEF MarkSucceeded
<1>5. CASE RefreshThumbnails(w)
  BY <1>5 DEF RefreshThumbnails
<1>6. CASE MarkFailed(w)
  BY <1>6 DEF MarkFailed
<1>7. CASE StepThrows(w)
  BY <1>7 DEF StepThrows
<1>8. CASE MarkFailedThrows(w)
  BY <1>8 DEF MarkFailedThrows
<1>9. CASE WorkerCrash(w)
  BY <1>9 DEF WorkerCrash
<1> QED BY <1>1, <1>2, <1>3, <1>4, <1>5, <1>6, <1>7, <1>8, <1>9 DEF WorkerStep

LEMMA ExportNextInv ==
  ASSUME ExportInv, [ExportNext]_exportVars
  PROVE ExportInv'
<1>1. ASSUME NEW j \in Jobs, CreateJob(j) \/ BecomeOverdue(j) PROVE ExportInv'
  BY <1>1, NoJobAssumption
     DEF ExportInv, ExportTypeOK, OneWorkerPerJob, SucceededIsDownloadable, OutputIsBehind,
         Ended, CreateJob, BecomeOverdue
<1>2. CASE FailStale
  BY <1>2, NoJobAssumption
     DEF ExportInv, ExportTypeOK, OneWorkerPerJob, SucceededIsDownloadable, OutputIsBehind,
         Ended, FailStale
<1>3. CASE UNCHANGED exportVars
  BY <1>3 DEF exportVars, ExportInv, ExportTypeOK, OneWorkerPerJob, SucceededIsDownloadable,
              OutputIsBehind
<1> QED BY <1>1, <1>2, <1>3, ClaimInv, WorkerInv DEF ExportNext, WorkerNext

(* The inductive invariant behind the theorems below.                      *)
THEOREM ExportInvariant == ExportSpec => []ExportInv
<1>1. ExportInit => ExportInv
  BY NoJobAssumption, ExportBoundAssumption
     DEF ExportInit, ExportInv, ExportTypeOK, OneWorkerPerJob, SucceededIsDownloadable,
         OutputIsBehind, Ended
<1> QED BY <1>1, ExportNextInv, PTL DEF ExportSpec

(* Rows, workers and counters stay in their types.                         *)
THEOREM ExportTypes == ExportSpec => []ExportTypeOK
BY ExportInvariant, PTL DEF ExportInv

(* However claims, timeouts, crashes and lost answers interleave, no job   *)
(* is in the hands of two workers.                                         *)
THEOREM JobsAreExclusive == ExportSpec => []OneWorkerPerJob
BY ExportInvariant, PTL DEF ExportInv

(* Every job that ever reads "succeeded" has its output stored.            *)
THEOREM SuccessIsDownloadable == ExportSpec => []SucceededIsDownloadable
BY ExportInvariant, PTL DEF ExportInv

(* No job leaves the queue twice.                                          *)
THEOREM JobsRunOnce == ExportSpec => NeverRunsAgain
<1>1. ASSUME ExportInv, [ExportNext]_exportVars
      PROVE [\A j \in Jobs : /\ status[j] \notin {"absent", "queued"} =>
                                  status'[j] \in Ended \cup {status[j]}
                             /\ j \in output => j \in output']_exportVars
  <2> USE <1>1 DEF ExportInv, ExportTypeOK, OneWorkerPerJob, Ended, Answered, LetGo
  <2>1. ASSUME NEW j \in Jobs, CreateJob(j) \/ BecomeOverdue(j) \/ \E w \in Workers : Claim(w, j)
        PROVE \A k \in Jobs : /\ status[k] \notin {"absent", "queued"} =>
                                    status'[k] \in Ended \cup {status[k]}
                              /\ k \in output => k \in output'
    BY <2>1 DEF CreateJob, BecomeOverdue, Claim
  <2>2. ASSUME NEW w \in Workers,
               WorkerStep(w) \/ StepThrows(w) \/ MarkFailedThrows(w) \/ WorkerCrash(w)
        PROVE \A k \in Jobs : /\ status[k] \notin {"absent", "queued"} =>
                                    status'[k] \in Ended \cup {status[k]}
                              /\ k \in output => k \in output'
    BY <2>2 DEF WorkerStep, Render, PutOutput, RecordOutput, MarkSucceeded, RefreshThumbnails,
                MarkFailed, StepThrows, MarkFailedThrows, WorkerCrash
  <2>3. CASE FailStale
    BY <2>3 DEF FailStale
  <2> QED BY <2>1, <2>2, <2>3 DEF ExportNext, WorkerNext
<1> QED BY <1>1, ExportInvariant, PTL DEF ExportSpec, NeverRunsAgain

-----------------------------------------------------------------------------
(* The panel of a tab, above the jobs.                                     *)

\* A reply on its way reports what the row had, and an output once reported stays.
RepliesAreTrue ==
  /\ \A j \in Jobs : post[j] = "created" => status[j] # "absent"
  /\ panel.state = "succeeded" => panel.seen = "succeeded"
  /\ panel.state = "idle" => panel.seen = "none"
  /\ panel.seen = "succeeded" => panel.job \in output \cap assets \cap blobs
  /\ \A p \in polls : p.seen = "succeeded" => p.job \in output \cap assets \cap blobs

TabInv ==
  /\ ExportInv
  /\ TabTypeOK
  /\ PollsFollowThePanel
  /\ PanelNeverAhead
  /\ RepliesAreTrue

(* Below the panel, a step of the composition is a step of ExportJobs.     *)
LEMMA ExportStep ==
  ASSUME [ExportTabNext]_exportTabVars
  PROVE [ExportNext]_exportVars
BY DEF ExportTabNext, PanelNext, Submit, ApiCreates, PostReturns, PostFails, PollSend, ApiReads,
       PollReturns, PollFails, Dismiss, SwitchPage, ExportNext, exportTabVars

(* No step of the workers or the API takes a job or its output back.       *)
LEMMA RowsGoForward ==
  ASSUME ExportInv, [ExportNext]_exportVars
  PROVE /\ \A j \in Jobs : Stage(status[j]) <= Stage(status'[j])
        /\ output \subseteq output' /\ assets \subseteq assets' /\ blobs \subseteq blobs'
<1> USE DEF ExportInv, ExportTypeOK, OneWorkerPerJob, Ended, Stage, Answered, LetGo
<1>1. CASE \E j \in Jobs : CreateJob(j) \/ BecomeOverdue(j) \/ \E w \in Workers : Claim(w, j)
  BY <1>1 DEF CreateJob, BecomeOverdue, Claim
<1>2. ASSUME NEW w \in Workers,
             WorkerStep(w) \/ StepThrows(w) \/ MarkFailedThrows(w) \/ WorkerCrash(w)
      PROVE /\ \A j \in Jobs : Stage(status[j]) <= Stage(status'[j])
            /\ output \subseteq output' /\ assets \subseteq assets' /\ blobs \subseteq blobs'
  <2>1. CASE MarkSucceeded(w) \/ MarkFailed(w)
    BY <2>1, NoJobAssumption DEF MarkSucceeded, MarkFailed
  <2>2. CASE UNCHANGED status
    <3>1. \A j \in Jobs : Stage(status[j]) <= Stage(status'[j])
      BY <2>2
    <3>2. output \subseteq output' /\ assets \subseteq assets' /\ blobs \subseteq blobs'
      BY <1>2 DEF WorkerStep, Render, PutOutput, RecordOutput, MarkSucceeded, RefreshThumbnails,
                MarkFailed, StepThrows, MarkFailedThrows, WorkerCrash
    <3> QED BY <3>1, <3>2
  <2> QED BY <1>2, <2>1, <2>2 DEF WorkerStep, Render, PutOutput, RecordOutput,
                RefreshThumbnails, StepThrows, MarkFailedThrows, WorkerCrash
<1>3. CASE FailStale \/ UNCHANGED exportVars
  BY <1>3 DEF FailStale, exportVars
<1> QED BY <1>1, <1>2, <1>3 DEF ExportNext, WorkerNext

(* What Show makes of a panel: the timer and the empty set of fetches fit. *)
LEMMA ShowFits ==
  ASSUME NEW p, Show(p)
  PROVE polls' = {} /\ panel' = p /\ PollsFollowThePanel'
BY DEF Show, PollsFollowThePanel, ShouldPoll

(* The panel's own steps keep TabInv.                                      *)
LEMMA PanelInv ==
  ASSUME TabInv, PanelNext
  PROVE TabInv'
<1>0. ExportInv'
  BY ExportStep, ExportNextInv DEF TabInv, ExportTabNext
<1> USE NoJobAssumption, TabBoundAssumption
<1> USE DEF TabInv, TabTypeOK, PanelNeverAhead, RepliesAreTrue, Panel, SeenStatus, Ended
<1>u. ~PollSend => UNCHANGED exportVars
  BY DEF PanelNext, Submit, PostReturns, PostFails, PollReturns, PollFails, Dismiss, SwitchPage
<1>1. ASSUME NEW j \in Jobs, Submit(j) PROVE TabInv'
  BY <1>0, <1>1, ShowFits DEF Submit, Show, exportVars, ShouldPoll
<1>2. ASSUME NEW j \in Jobs, PostReturns(j) PROVE TabInv'
  <2>1. Stage("queued") <= Stage(status[j])
    BY <1>2 DEF PostReturns, Stage, ExportInv, ExportTypeOK
  <2> QED BY <1>0, <1>2, <2>1, ShowFits DEF PostReturns, Show, Outcome, exportVars, ShouldPoll
<1>3. ASSUME NEW j \in Jobs, PostFails(j) PROVE TabInv'
  BY <1>0, <1>3, ShowFits DEF PostFails, Show, exportVars, ShouldPoll
<1>4. CASE PollSend
  <2>1. polls = {} /\ ShouldPoll(panel)
    BY <1>4 DEF PollSend, PollsFollowThePanel
  <2>2. polls' = {[job |-> panel.job, seen |-> "none"]} /\ timer' = FALSE
    BY <1>4, <2>1 DEF PollSend
  <2> DEFINE q == [job |-> panel.job, seen |-> "none"]
  <2>s. UNCHANGED <<exportVars, panel, post, losses, switches>>
    BY <1>4 DEF PollSend
  <2>j. q \in [job : Jobs, seen : SeenStatus] /\ q.job = panel.job
    BY <2>1 DEF ShouldPoll
  <2>t. TabTypeOK'
    BY <2>2, <2>s, <2>j
  <2>p. PollsFollowThePanel'
    BY <2>1, <2>2, <2>s, <2>j DEF PollsFollowThePanel, ShouldPoll
  <2>3. TabTypeOK' /\ PollsFollowThePanel'
    BY <2>t, <2>p
  <2>4. Stage("none") <= Stage(status[panel.job])
    BY DEF Stage
  <2> QED BY <1>0, <1>4, <2>1, <2>2, <2>3, <2>4 DEF PollSend, exportVars
<1>5. ASSUME NEW p \in polls, PollReturns(p) PROVE TabInv'
  BY <1>0, <1>5, ShowFits DEF PollReturns, Show, Outcome, exportVars, ShouldPoll
<1>6. CASE PollFails /\ polls # {}
  BY <1>0, <1>6, ShowFits DEF PollFails, Show, exportVars, ShouldPoll, PollsFollowThePanel
<1>7. CASE Dismiss \/ SwitchPage
  <2>1. Show(IdlePanel) /\ UNCHANGED <<exportVars, post, losses>> /\ switches' \in 0..MaxSwitches
    BY <1>7 DEF Dismiss, SwitchPage
  <2>2. panel' = IdlePanel /\ polls' = {} /\ timer' \in BOOLEAN /\ PollsFollowThePanel'
    BY <2>1, ShowFits DEF Show, ShouldPoll
  <2> QED BY <1>0, <2>1, <2>2 DEF IdlePanel, exportVars
<1> QED BY <1>1, <1>2, <1>3, <1>4, <1>5, <1>6, <1>7 DEF PanelNext

(* Steps of the API and of the workers keep TabInv.                        *)
LEMMA RowsInv ==
  ASSUME TabInv, [ExportTabNext]_exportTabVars, ~PanelNext
  PROVE TabInv'
<1>0. ExportInv' /\ [ExportNext]_exportVars
  BY ExportStep, ExportNextInv DEF TabInv
<1>f. /\ \A j \in Jobs : Stage(status[j]) <= Stage(status'[j])
      /\ output \subseteq output' /\ assets \subseteq assets' /\ blobs \subseteq blobs'
  BY <1>0, RowsGoForward DEF TabInv
<1>s. \A j \in Jobs : status[j] # "absent" => status'[j] # "absent"
  BY <1>0, <1>f DEF TabInv, ExportInv, ExportTypeOK, Stage, Ended
<1>n. \A s : Stage(s) \in Nat
  BY DEF Stage
<1> USE DEF TabInv, TabTypeOK, PanelNeverAhead, RepliesAreTrue, PollsFollowThePanel
<1>1. ASSUME NEW j \in Jobs, ApiCreates(j) PROVE TabInv'
  <2>1. status'[j] # "absent"
    BY <1>1 DEF ApiCreates, CreateJob, ExportInv, ExportTypeOK
  <2> QED BY <1>0, <1>f, <1>s, <1>n, <1>1, <2>1 DEF ApiCreates
<1>2. ASSUME NEW p \in polls, ApiReads(p) PROVE TabInv'
  <2> DEFINE q == [p EXCEPT !.seen = status[p.job]]
  <2>1. polls = {p} /\ p.job \in Jobs
    OBVIOUS
  <2>2. polls' = {q} /\ q.job = p.job /\ q.seen = status[p.job]
    BY <1>2, <2>1 DEF ApiReads
  <2>3. status[p.job] # "absent"
    <3>1. panel.job = p.job /\ panel.seen # "none"
      BY <2>1, NoJobAssumption
    <3> QED BY <2>1, <3>1 DEF Stage, ExportInv, ExportTypeOK, Ended, SeenStatus
  <2>4. q \in [job : Jobs, seen : SeenStatus]
    BY <2>1, <2>2, <2>3 DEF SeenStatus, Ended, ExportInv, ExportTypeOK
  <2>5. UNCHANGED <<exportVars, panel, post, timer, losses, switches>>
    BY <1>2 DEF ApiReads
  <2>6. q.seen = "succeeded" => q.job \in output \cap assets \cap blobs
    BY <2>1, <2>2 DEF ExportInv, SucceededIsDownloadable
  <2>7. Stage(q.seen) <= Stage(status[q.job])
    BY <2>2, <1>n
  <2>8. TabTypeOK'
    BY <2>2, <2>4, <2>5
  <2>9. PollsFollowThePanel'
    BY <2>1, <2>2, <2>5 DEF ShouldPoll
  <2> QED BY <1>0, <2>2, <2>5, <2>6, <2>7, <2>8, <2>9 DEF exportVars
<1>3. CASE UNCHANGED tabVars
  <2>1. TabTypeOK' /\ PollsFollowThePanel'
    BY <1>3 DEF tabVars
  <2>2. PanelNeverAhead'
    <3>1. panel.job # NoJob => Stage(panel.seen) <= Stage(status'[panel.job])
      BY <1>f, <1>n
    <3>2. \A p \in polls : Stage(p.seen) <= Stage(status'[p.job])
      BY <1>f, <1>n
    <3> QED BY <1>3, <3>1, <3>2 DEF tabVars
  <2>3. RepliesAreTrue'
    BY <1>3, <1>f, <1>s DEF tabVars
  <2> QED BY <1>0, <2>1, <2>2, <2>3
<1> QED BY <1>1, <1>2, <1>3 DEF ExportTabNext, exportTabVars

(* The inductive invariant of the composition.                             *)
THEOREM TabInvariant == ExportTabSpec => []TabInv
<1>1. ExportTabInit => TabInv
  <2> SUFFICES ASSUME ExportTabInit PROVE TabInv
    OBVIOUS
  <2> USE DEF ExportTabInit
  <2>1. ExportInv
    BY NoJobAssumption, ExportBoundAssumption
       DEF ExportInit, ExportInv, ExportTypeOK, OneWorkerPerJob, SucceededIsDownloadable,
           OutputIsBehind, Ended
  <2>2. TabTypeOK
    <3>1. panel = [state |-> "idle", job |-> NoJob, seen |-> "none"]
      BY DEF IdlePanel, Panel
    <3>2. losses \in 0..MaxLosses /\ switches \in 0..MaxSwitches
      BY TabBoundAssumption
    <3>3. panel \in [state : {"idle", "submitting", "polling"} \cup Ended,
                    job : Jobs \cup {NoJob}, seen : SeenStatus]
      BY <3>1 DEF SeenStatus
    <3>4. polls \subseteq [job : Jobs, seen : SeenStatus] /\ timer \in BOOLEAN
      OBVIOUS
    <3>5. post \in [Jobs -> {"none", "sent", "created", "done"}]
      OBVIOUS
    <3> QED BY <3>1, <3>2, <3>3, <3>4, <3>5 DEF TabTypeOK
  <2>3. PollsFollowThePanel
    BY DEF PollsFollowThePanel
  <2>4. PanelNeverAhead /\ RepliesAreTrue
    BY DEF PanelNeverAhead, RepliesAreTrue, IdlePanel, Panel
  <2> QED BY <2>1, <2>2, <2>3, <2>4 DEF TabInv
<1>2. TabInv /\ [ExportTabNext]_exportTabVars => TabInv'
  BY PanelInv, RowsInv
<1> QED BY <1>1, <1>2, PTL DEF ExportTabSpec

(* The panel, its requests and their replies stay in their types.          *)
THEOREM TabTypes == ExportTabSpec => []TabTypeOK
BY TabInvariant, PTL DEF TabInv

(* A fetch that may still change the panel is about the job it shows.      *)
THEOREM PollsAreCurrent == ExportTabSpec => []PollsFollowThePanel
BY TabInvariant, PTL DEF TabInv

(* The panel never tells of a job what its row has not been.               *)
THEOREM PanelIsNeverAhead == ExportTabSpec => []PanelNeverAhead
BY TabInvariant, PTL DEF TabInv

(* A shown Download link has an output behind it.                          *)
THEOREM LinksHaveOutput == ExportTabSpec => []LinkHasOutput
<1>1. TabInv => LinkHasOutput
  BY DEF TabInv, RepliesAreTrue, LinkHasOutput
<1> QED BY <1>1, TabInvariant, PTL

(* What the panel says of its job is true, for every set of jobs.          *)
THEOREM PanelIsTrue == ExportTabSpec => []PanelTellsTheJob
BY PollsAreCurrent, PanelIsNeverAhead, LinksHaveOutput, PTL DEF PanelTellsTheJob

(* The composition implements ExportJobs.                                  *)
THEOREM TabsUseExportJobs == ExportTabSpec => UsesExportJobs
<1>1. ExportTabInit => ExportInit
  BY DEF ExportTabInit
<1> QED BY <1>1, ExportStep, PTL DEF ExportTabSpec, ExportSpec, UsesExportJobs
=============================================================================
