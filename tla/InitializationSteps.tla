-------------------------- MODULE InitializationSteps --------------------------
(***************************************************************************)
(* What an initialization shows of itself: the progress and current stage  *)
(* of its job, and one job_steps row per repository and stage, kept by     *)
(* packages/initialization (service.py, _report of pipeline.py) while the  *)
(* API pauses, cancels, resumes and retries the job, workers are restarted *)
(* and repositories are added to the project.                              *)
(*                                                                         *)
(* JobLifecycle has the job's status in every interleaving, two executions *)
(* of one job included; here at most one execution runs at a time.         *)
(***************************************************************************)
EXTENDS FiniteSets, Integers

CONSTANTS
  Repos,        \* repositories of the project, some of them added later
  Stages,       \* number of INITIALIZATION_STAGES
  Parts,        \* reports a stage may make
  MaxRetries0,  \* MAX_INITIALIZATION_RETRIES
  MaxRestarts   \* bound on worker restarts

ASSUME StepsAssumption ==
  {Stages, Parts, MaxRetries0, MaxRestarts} \subseteq Nat

VARIABLES
  repos,     \* repositories there are
  init_job,  \* the jobs row
  job_steps, \* status of the step of each repository and stage
  runner,    \* the worker thread
  eager,     \* history: stages started since the job was last paused
  restarts   \* worker restarts so far

stepVars == <<repos, init_job, job_steps, runner, eager, restarts>>

Detail == Stages + 1      \* current_stage holds the text of a report
Full   == Stages * Parts  \* a progress of 1.0

Cancelling == {"cancelled", "cancel_requested"}
JobRow ==
  [status : Cancelling \cup {"queued", "running", "paused", "failed", "succeeded"},
   current_stage : 0..Detail, progress : 0..Full, completed : 0..Stages,
   retry_count : 0..MaxRetries0]
StepStatuses == {"none", "queued", "running", "failed", "succeeded"}

\* seen: status when the row was last read.  done: the run's own list of
\* completed stages.  steps: repositories whose steps the stage took along.
Runner == [at : {"idle", "load", "begin", "boundary", "start", "work", "finish"},
           seen : {"none"} \cup {"queued", "running", "paused", "failed"},
           done : 0..Stages, steps : SUBSET Repos]
Resting == [at |-> "idle", seen |-> "none", done |-> 0, steps |-> {}]

\* _ensure_steps adds what is missing.
Ensured(steps) == [r \in Repos |-> [s \in 1..Stages |->
  IF r \in repos /\ steps[r][s] = "none" THEN "queued" ELSE steps[r][s]]]

\* The steps of stages S of repositories R move from status `from' to `to'.
Moved(R, S, from, to) == [r \in Repos |-> [s \in 1..Stages |->
  IF r \in R /\ s \in S /\ job_steps[r][s] \in from THEN to ELSE job_steps[r][s]]]

\* InitializationService.create
StepsInit ==
  /\ repos \in SUBSET Repos \ {{}}
  /\ init_job = [status |-> "queued", current_stage |-> 0, progress |-> 0,
                 completed |-> 0, retry_count |-> 0]
  /\ job_steps = Ensured([r \in Repos |-> [s \in 1..Stages |-> "none"]])
  /\ runner = Resting
  /\ eager = 0 /\ restarts = 0

Larger(a, b) == IF a > b THEN a ELSE b

SetStatus(s) == init_job' = [init_job EXCEPT !.status = s]
Idle0 == runner' = Resting

\* Every refresh that finds a cancellation confirms it and returns.
Cancelled0 == /\ init_job.status \in Cancelling
              /\ SetStatus("cancelled")
              /\ Idle0
-----------------------------------------------------------------------------
(***************************************************************************)
(* The run                                                                 *)
(***************************************************************************)
ClaimRun ==
  /\ runner.at = "idle" /\ init_job.status = "queued"
  /\ SetStatus("running")
  /\ runner' = [Resting EXCEPT !.at = "load"]
  /\ UNCHANGED <<repos, job_steps, eager, restarts>>

LoadRun ==
  /\ runner.at = "load"
  /\ \/ Cancelled0
     \/ /\ init_job.status \notin Cancelling
        /\ runner' = [Resting EXCEPT !.at = "begin", !.seen = init_job.status,
                                     !.done = init_job.completed]
        /\ UNCHANGED init_job
  /\ UNCHANGED <<repos, job_steps, eager, restarts>>

\* Steps for repositories added since; "running" is written only over
\* another value, so a pause read by LoadRun is lost here.
BeginRun ==
  /\ runner.at = "begin"
  /\ job_steps' = Ensured(job_steps)
  /\ IF runner.seen # "running" THEN SetStatus("running") ELSE UNCHANGED init_job
  /\ runner' = [runner EXCEPT !.at = "boundary"]
  /\ UNCHANGED <<repos, eager, restarts>>

BoundaryIgnoresPause ==
  /\ runner.at = "boundary"
  /\ \/ Cancelled0
     \/ /\ init_job.status \notin Cancelling
        /\ runner' = [runner EXCEPT !.at = IF runner.done < Stages THEN "start"
                                           ELSE "finish"]
        /\ UNCHANGED init_job
  /\ UNCHANGED <<repos, job_steps, eager, restarts>>

StageBoundary ==
  /\ runner.at = "boundary"
  /\ \/ Cancelled0
     \/ /\ init_job.status = "paused" /\ runner.done < Stages
        /\ Idle0
        /\ UNCHANGED init_job
     \/ /\ init_job.status \notin Cancelling
        /\ init_job.status = "paused" => runner.done = Stages
        /\ runner' = [runner EXCEPT !.at = IF runner.done < Stages THEN "start"
                                           ELSE "finish"]
        /\ UNCHANGED init_job
  /\ UNCHANGED <<repos, job_steps, eager, restarts>>

RowsOf(stage) == {r \in Repos : job_steps[r][stage] # "none"}

StartStage ==
  LET stage == runner.done + 1
  IN  /\ runner.at = "start"
      /\ init_job' = [init_job EXCEPT !.current_stage = stage,
                        !.progress = Larger(@, runner.done * Parts)]
      /\ job_steps' = Moved(RowsOf(stage), {stage}, StepStatuses, "running")
      /\ runner' = [runner EXCEPT !.at = "work", !.steps = RowsOf(stage)]
      /\ eager' = IF init_job.status = "paused" THEN eager + 1 ELSE 0
      /\ UNCHANGED <<repos, restarts>>

\* A report of the stage (_report): fraction is in Parts of a stage.
ReportLatest(fraction) ==
  /\ runner.at = "work"
  /\ \/ Cancelled0
     \/ /\ init_job.status \notin Cancelling
        /\ init_job' = [init_job EXCEPT !.current_stage = Detail,
                          !.progress = init_job.completed * Parts + fraction]
        /\ UNCHANGED runner
  /\ UNCHANGED <<repos, job_steps, eager, restarts>>

Report(fraction) ==
  /\ runner.at = "work"
  /\ \/ Cancelled0
     \/ /\ init_job.status \notin Cancelling
        /\ init_job' = [init_job EXCEPT !.current_stage = Detail,
                          !.progress = Larger(@, init_job.completed * Parts + fraction)]
        /\ UNCHANGED runner
  /\ UNCHANGED <<repos, job_steps, eager, restarts>>

StepsOfCurrentStage ==
  IF init_job.current_stage \in 1..Stages THEN {init_job.current_stage} ELSE {}

CheckpointStageByName ==
  LET done == runner.done + 1
  IN  /\ runner.at = "work"
      /\ \/ Cancelled0 /\ UNCHANGED job_steps
         \/ /\ init_job.status \notin Cancelling
            /\ init_job' = [init_job EXCEPT !.completed = done,
                              !.progress = Larger(@, done * Parts)]
            /\ job_steps' = Moved(Repos, StepsOfCurrentStage,
                                  StepStatuses \ {"none"}, "succeeded")
            /\ runner' = [runner EXCEPT !.at = "boundary", !.done = done, !.steps = {}]
      /\ UNCHANGED <<repos, eager, restarts>>

CheckpointStage ==
  LET done == runner.done + 1
  IN  /\ runner.at = "work"
      /\ \/ Cancelled0 /\ UNCHANGED job_steps
         \/ /\ init_job.status \notin Cancelling
            /\ init_job' = [init_job EXCEPT !.completed = done,
                              !.progress = Larger(@, done * Parts)]
            /\ job_steps' = Moved(runner.steps, {done}, StepStatuses, "succeeded")
            /\ runner' = [runner EXCEPT !.at = "boundary", !.done = done, !.steps = {}]
      /\ UNCHANGED <<repos, eager, restarts>>

\* The stage raises.  The steps to fail are looked up by current_stage, which
\* names no stage any more once there has been a report.
StageRaises ==
  /\ runner.at = "work"
  /\ \/ Cancelled0 /\ UNCHANGED job_steps
     \/ /\ init_job.status \notin Cancelling
        /\ SetStatus("failed")
        /\ job_steps' = Moved(Repos, StepsOfCurrentStage,
                              StepStatuses \ {"none"}, "failed")
        /\ Idle0
  /\ UNCHANGED <<repos, eager, restarts>>

FinishRun ==
  /\ runner.at = "finish"
  /\ init_job' = [init_job EXCEPT !.status = "succeeded", !.progress = Full,
                    !.current_stage = Detail, !.completed = runner.done]
  /\ Idle0
  /\ UNCHANGED <<repos, job_steps, eager, restarts>>
-----------------------------------------------------------------------------
(***************************************************************************)
(* The API and the restart of a worker                                     *)
(***************************************************************************)
AddRepository(r) ==
  /\ r \notin repos
  /\ repos' = repos \cup {r}
  /\ UNCHANGED <<init_job, job_steps, runner, eager, restarts>>

Pause ==
  /\ init_job.status \in {"queued", "running"}
  /\ SetStatus("paused")
  /\ eager' = 0
  /\ UNCHANGED <<repos, job_steps, runner, restarts>>

Resume ==
  /\ init_job.status = "paused" /\ runner = Resting
  /\ SetStatus("queued")
  /\ UNCHANGED <<repos, job_steps, runner, eager, restarts>>

RequestCancel ==
  /\ init_job.status \in {"queued", "running", "paused"}
  /\ SetStatus(IF init_job.status = "running" THEN "cancel_requested" ELSE "cancelled")
  /\ UNCHANGED <<repos, job_steps, runner, eager, restarts>>

RetryAlways ==
  /\ init_job.status \in {"failed", "cancelled"} /\ runner = Resting
  /\ init_job' = [init_job EXCEPT !.status = "queued", !.retry_count = @ + 1]
  /\ job_steps' = Moved(Repos, 1..Stages, {"failed"}, "queued")
  /\ UNCHANGED <<repos, runner, eager, restarts>>

RetryRun ==
  /\ init_job.status \in {"failed", "cancelled"} /\ runner = Resting
  /\ init_job.retry_count < MaxRetries0
  /\ init_job' = [init_job EXCEPT !.status = "queued", !.retry_count = @ + 1]
  /\ job_steps' = Moved(Repos, 1..Stages, {"failed"}, "queued")
  /\ UNCHANGED <<repos, runner, eager, restarts>>

\* The worker dies; reclaim_orphaned_jobs and _fail_running_steps run when
\* it starts again.
RestartWorker ==
  /\ restarts < MaxRestarts
  /\ runner # Resting
  /\ restarts' = restarts + 1
  /\ Idle0
  /\ \/ /\ init_job.status \in {"running", "cancel_requested"}
        /\ SetStatus(IF init_job.status = "running" THEN "failed" ELSE "cancelled")
        /\ job_steps' = Moved(Repos, 1..Stages, {"running"}, "failed")
     \/ /\ init_job.status \notin {"running", "cancel_requested"}
        /\ UNCHANGED <<init_job, job_steps>>
  /\ UNCHANGED <<repos, eager>>

StepsNext ==
  \/ ClaimRun \/ LoadRun \/ BeginRun \/ StageBoundary \/ StartStage
  \/ \E f \in 0..Parts : Report(f)
  \/ CheckpointStage \/ StageRaises \/ FinishRun
  \/ \E r \in Repos : AddRepository(r)
  \/ Pause \/ Resume \/ RequestCancel \/ RetryRun \/ RestartWorker

StepsSpec == StepsInit /\ [][StepsNext]_stepVars
-----------------------------------------------------------------------------
(***************************************************************************)
(* Properties                                                              *)
(***************************************************************************)
\* Type invariant of the tables and the worker thread.
StepsTypeOK ==
  /\ repos \subseteq Repos
  /\ init_job \in JobRow
  /\ job_steps \in [Repos -> [1..Stages -> StepStatuses]]
  /\ runner \in Runner
  /\ eager \in Nat /\ restarts \in 0..MaxRestarts

\* _report, "must not go back": over stages, failures, retries and restarts
\* the progress of a job never decreases.
ProgressNeverBack == [][init_job'.progress >= init_job.progress]_stepVars

\* service.run: a step has succeeded exactly when the checkpoint has its
\* stage, except for a repository that joined after the stage (its step stays
\* queued, nothing will run it).  Failures, retries, restarts and texts in
\* current_stage do not shake this, whatever they do to unfinished steps.
StepsFollowCheckpoint ==
  \A r \in Repos, s \in 1..Stages :
    /\ job_steps[r][s] = "succeeded" => s <= init_job.completed
    /\ s <= init_job.completed => job_steps[r][s] \in {"succeeded", "queued", "none"}
    /\ s <= init_job.completed => \A t \in 1..s :
         job_steps[r][t] = "succeeded" => job_steps[r][s] = "succeeded"

\* pause: a paused initialization starts at most the one stage it was about
\* to start.
PauseStopsSoon == eager <= 1
=============================================================================
