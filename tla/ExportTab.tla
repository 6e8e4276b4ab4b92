----------------------------- MODULE ExportTab -----------------------------
(***************************************************************************)
(* The export panel of one editor tab over the jobs of ExportJobs:         *)
(* apps/web/src/editor/export-jobs.ts and the handlers and the polling     *)
(* effect of PageEditorScreen.tsx, with the API requests between them.     *)
(*                                                                         *)
(* The panel's state is one React value; setting it runs the effect's      *)
(* cleanup (cancel the fetch, clear the timer) and the effect again.       *)
(* Requests and replies travel apart and may be lost.                      *)
(***************************************************************************)
EXTENDS ExportJobs

CONSTANTS
  MaxLosses,    \* bound: requests and replies lost
  MaxSwitches   \* bound: switches to another page of the file

ASSUME TabBoundAssumption == MaxLosses \in Nat /\ MaxSwitches \in Nat

VARIABLES
  panel,      \* exportJobState: [state, job, seen], seen the status in its job
  post,       \* [Jobs -> the POST that creates the job: none, sent, created, done]
  timer,      \* the effect's timer is set
  polls,      \* fetches of the effect not cancelled: [job, seen], seen "none" before
              \* the API has read the row
  losses,
  switches

tabVars == <<panel, post, timer, polls, losses, switches>>
exportTabVars == <<exportVars, tabVars>>

Panel(state, job, seen) == [state |-> state, job |-> job, seen |-> seen]
IdlePanel == Panel("idle", NoJob, "none")

\* shouldPollExportJob
ShouldPoll(p) ==
  /\ p.state \in {"polling", "submitting"}
  /\ p.job # NoJob
  /\ p.seen \notin Ended

\* isExportActionDisabled
ActionDisabled(p) == p.state = "submitting" \/ ShouldPoll(p)

\* Faulty variant: the cleanup clears the timer and cancels no fetch.
ShowUncancelled(p) ==
  /\ panel' = p
  /\ timer' = ShouldPoll(p)
  /\ UNCHANGED polls

\* setExportJobState, then cleanup and effect.
Show(p) ==
  /\ panel' = p
  /\ timer' = ShouldPoll(p)
  /\ polls' = {}

\* What a job with this status is shown as.
Outcome(job, seen) ==
  Panel(IF seen \in Ended THEN seen ELSE "polling", job, seen)

ExportTabInit ==
  /\ ExportInit
  /\ panel = IdlePanel
  /\ post = [j \in Jobs |-> "none"]
  /\ timer = FALSE
  /\ polls = {}
  /\ losses = 0
  /\ switches = 0

-----------------------------------------------------------------------------
\* handleCreateExportJob up to its await: the panel keeps the job it showed.
Submit(j) ==
  /\ ~ActionDisabled(panel)
  /\ post[j] = "none"
  /\ Show(Panel("submitting", panel.job, panel.seen))
  /\ post' = [post EXCEPT ![j] = "sent"]
  /\ UNCHANGED <<exportVars, losses, switches>>

ApiCreates(j) ==
  /\ post[j] = "sent"
  /\ CreateJob(j)
  /\ post' = [post EXCEPT ![j] = "created"]
  /\ UNCHANGED <<panel, timer, polls, losses, switches>>

\* The reply holds the row as it was inserted.
PostReturns(j) ==
  /\ post[j] = "created"
  /\ post' = [post EXCEPT ![j] = "done"]
  /\ Show(Outcome(j, "queued"))
  /\ UNCHANGED <<exportVars, losses, switches>>

PostFails(j) ==
  /\ post[j] \in {"sent", "created"}
  /\ losses < MaxLosses
  /\ losses' = losses + 1
  /\ post' = [post EXCEPT ![j] = "done"]
  /\ Show(Panel("failed", NoJob, "none"))
  /\ UNCHANGED <<exportVars, switches>>

-----------------------------------------------------------------------------
PollSend ==
  /\ timer
  /\ timer' = FALSE
  /\ polls' = polls \cup {[job |-> panel.job, seen |-> "none"]}
  /\ UNCHANGED <<exportVars, panel, post, losses, switches>>

\* resolveGetExportJobRequest
ApiReads(p) ==
  /\ p.seen = "none"
  /\ polls' = (polls \ {p}) \cup {[p EXCEPT !.seen = status[p.job]]}
  /\ UNCHANGED <<exportVars, panel, post, timer, losses, switches>>

\* Faulty variant: a job that is not finished yet leaves the panel as it was.
PollReturnsQuiet(p) ==
  /\ p.seen \in Ended
  /\ Show(Outcome(p.job, p.seen))
  /\ UNCHANGED <<exportVars, post, losses, switches>>

PollReturns(p) ==
  /\ p.seen # "none"
  /\ Show(Outcome(p.job, p.seen))
  /\ UNCHANGED <<exportVars, post, losses, switches>>

\* The panel fails and keeps the job as it was last seen, running perhaps.
PollFails ==
  /\ losses < MaxLosses
  /\ losses' = losses + 1
  /\ Show(Panel("failed", panel.job, panel.seen))
  /\ UNCHANGED <<exportVars, post, switches>>

\* The button is there once the panel shows a job that ended or failed.
Dismiss ==
  /\ panel.state \in Ended
  /\ panel.job # NoJob
  /\ Show(IdlePanel)
  /\ UNCHANGED <<exportVars, post, losses, switches>>

\* Another page opens in the same screen: the panel is reset, POSTs go on.
SwitchPage ==
  /\ switches < MaxSwitches
  /\ switches' = switches + 1
  /\ Show(IdlePanel)
  /\ UNCHANGED <<exportVars, post, losses>>

PanelNext ==
  \/ \E j \in Jobs : Submit(j) \/ PostReturns(j) \/ PostFails(j)
  \/ \E p \in polls : PollReturns(p) \/ PollFails
  \/ PollSend \/ Dismiss \/ SwitchPage

ExportTabNext ==
  \/ PanelNext
  \/ \E j \in Jobs : ApiCreates(j)
  \/ \E p \in polls : ApiReads(p)
  \/ WorkerNext /\ UNCHANGED tabVars

ExportTabSpec == ExportTabInit /\ [][ExportTabNext]_exportTabVars

\* Timers fire, requests are answered or fail, and ExportFairness for the workers.
ExportTabFairness ==
  /\ \A j \in Jobs : /\ WF_exportTabVars(ApiCreates(j) \/ PostReturns(j))
                     /\ WF_exportTabVars(BecomeOverdue(j) /\ UNCHANGED tabVars)
  /\ WF_exportTabVars(PollSend)
  /\ WF_exportTabVars(\E p \in polls : ApiReads(p) \/ PollReturns(p))
  /\ \A w \in Workers : WF_exportTabVars(WorkerStep(w) /\ UNCHANGED tabVars)
  /\ WF_exportTabVars((\E w \in Workers, j \in Jobs : Claim(w, j)) /\ UNCHANGED tabVars)
  /\ WF_exportTabVars(FailStale /\ UNCHANGED tabVars)

FairExportTabSpec == ExportTabSpec /\ ExportTabFairness

-----------------------------------------------------------------------------
(* Properties.                                                             *)

SeenStatus == {"none", "queued", "running"} \cup Ended

(* The panel's states go with their jobs: a panel that polls or succeeded  *)
(* has one, and an idle one has none.                                      *)
TabTypeOK ==
  /\ panel \in [state : {"idle", "submitting", "polling"} \cup Ended,
                job : Jobs \cup {NoJob}, seen : SeenStatus]
  /\ panel.job = NoJob <=> panel.seen = "none"
  /\ panel.state \in {"polling", "succeeded"} => panel.job # NoJob
  /\ panel.state = "idle" => panel.job = NoJob
  /\ post \in [Jobs -> {"none", "sent", "created", "done"}]
  /\ timer \in BOOLEAN
  /\ polls \subseteq [job : Jobs, seen : SeenStatus]
  /\ losses \in 0..MaxLosses
  /\ switches \in 0..MaxSwitches

(* The tab's API requests and the workers use the job rows as ExportJobs   *)
(* allows, so what is proved of that module holds with tabs at work.       *)
UsesExportJobs == ExportSpec

(* Whatever replies overtake each other, a poll that may still change the  *)
(* panel asks about the job the panel shows, in a state that polls; there  *)
(* is one at most, and none beside the timer of the next.                  *)
PollsFollowThePanel ==
  /\ \A p \in polls : p.job = panel.job /\ ShouldPoll(panel)
  /\ \A p, q \in polls : p = q
  /\ timer => polls = {} /\ ShouldPoll(panel)

Stage(s) == CASE s = "none" -> 0 [] s = "absent" -> 0 [] s = "queued" -> 1
              [] s = "running" -> 2 [] OTHER -> 3

(* What the panel or a reply on its way says of a job is something the job *)
(* has been: never ahead of its row, whichever reply was slow.             *)
PanelNeverAhead ==
  /\ panel.job # NoJob => Stage(panel.seen) <= Stage(status[panel.job])
  /\ \A p \in polls : Stage(p.seen) <= Stage(status[p.job])

(* A Download link is shown only for a job whose output was stored and is  *)
(* still there.                                                            *)
LinkHasOutput ==
  panel.state = "succeeded" => panel.job \in output \cap assets \cap blobs

(* What the panel says, shows and asks is about its own job, and true.     *)
PanelTellsTheJob == PollsFollowThePanel /\ PanelNeverAhead /\ LinkHasOutput

(* A panel that submits or polls comes to an end: every chain of POST,     *)
(* timer and poll is carried on until the job ended or a request failed.   *)
PanelSettles ==
  panel.state \in {"submitting", "polling"} ~> panel.state \notin {"submitting", "polling"}
=============================================================================
