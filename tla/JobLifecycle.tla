---------------------------- MODULE JobLifecycle ----------------------------
(***************************************************************************)
(* The life of a background job of MemLoci: the jobs table in PostgreSQL,  *)
(* the Redis messages that point at its rows, the Dramatiq workers that    *)
(* execute them and the FastAPI handlers that pause, resume, cancel, retry *)
(* and delete them.                                                        *)
(*                                                                         *)
(* PostgreSQL runs at READ COMMITTED and SessionLocal is created with      *)
(* expire_on_commit=False, so a handler or a worker decides on the copy of *)
(* the row it read last (field `seen'), and an UPDATE carries only the     *)
(* columns whose value differs from that copy.  Every action below is one  *)
(* read or one commit; what happens between them may come from any other   *)
(* process.                                                                *)
(***************************************************************************)
EXTENDS Naturals

CONSTANTS
  Jobs,        \* ids of the jobs table
  Workers,     \* worker processes, each one thread (--processes 1 --threads 1)
  Requests,    \* API request threads, and the nightly scheduler thread
  ApiJobs,     \* ids the API may give out; the others are left for polish jobs
  Kinds,       \* the job kinds the API may create
  NoJob,       \* not a job id
  NStages,     \* number of initialization stages
  MaxRetries,  \* MAX_INITIALIZATION_RETRIES
  Faults,      \* what the environment may do wrong, a subset of AllFaults
  MaxFaults,   \* bound on process restarts and crashes
  MaxGrants,   \* bound on how often one job may be (re)queued
  MaxQueue     \* bound on the messages sent for one job

AllKinds == {"full_initialization", "memory_polish", "dream", "mirror_sync",
             "history_sync"}

\* Kinds whose actor has max_retries=1 and whose handler re-reads its row.
SyncKinds == {"mirror_sync", "history_sync"}

\* Kinds whose service catches JobCancelled and settles the row itself.
SettlingKinds == {"full_initialization", "memory_polish"}

AllFaults == {"send_failure",    \* Redis refuses a message
              "api_restart",     \* the API process dies and boots again
              "worker_crash",    \* a worker process dies and boots again
              "flush_error",     \* a flush inside the business logic fails
              "slow_stage"}      \* no progress report for ten minutes

ASSUME ConstantAssumption ==
  /\ NoJob \notin Jobs
  /\ ApiJobs \subseteq Jobs
  /\ Kinds \subseteq AllKinds \ {"memory_polish"}
  /\ Faults \subseteq AllFaults
  /\ NStages \in Nat \ {0}
  /\ {MaxRetries, MaxFaults, MaxGrants, MaxQueue} \subseteq Nat

VARIABLES
  status,       \* column jobs.status, or "absent" / "deleted"
  kind,         \* column jobs.kind
  retry_count,  \* column jobs.retry_count
  completed,    \* checkpoint["completed_stages"], a prefix of the stages
  child,        \* checkpoint["child_job_id"]
  queue,        \* queue[j][a]: messages for job j delivered a times before
  worker,       \* what each worker is doing
  request,      \* what each API request is doing
  entered,      \* history: times the business logic of a job was entered
  granted,      \* history: times a job was put (back) to queued
  lost,         \* history: the send after the commit never took place
  faults        \* restarts and crashes so far

row     == <<status, kind, retry_count, completed, child>>
history == <<entered, granted, lost>>
vars    == <<row, queue, worker, request, history, faults>>
-----------------------------------------------------------------------------
Gone      == {"absent", "deleted"}
Stored    == {"queued", "running", "paused", "cancel_requested", "cancelled",
              "succeeded", "failed"}
Cancelled == {"cancelled", "cancel_requested"}
Statuses  == Gone \cup Stored

WorkerAt  == {"idle", "down", "load", "begin", "boundary", "work", "confirm",
              "caught", "settle", "finish", "spawn", "reload", "dispatch",
              "failing", "abort"}

WorkerState == [at : WorkerAt, job : Jobs \cup {NoJob}, attempt : {0, 1},
                seen : Statuses, done : 0..NStages, child : Jobs \cup {NoJob}]

Ops == {"create", "pause", "cancel", "retry", "run", "delete"}

RequestState == [at : {"idle", "write", "send"}, op : Ops, seen : Statuses,
                 job : Jobs \cup {NoJob}, count : 0..MaxRetries]

Idle == [at |-> "idle", job |-> NoJob, attempt |-> 0, seen |-> "absent",
         done |-> 0, child |-> NoJob]

NoRequest == [at |-> "idle", op |-> "create", seen |-> "absent",
              job |-> NoJob, count |-> 0]

Init ==
  /\ status      = [j \in Jobs |-> "absent"]
  /\ kind        = [j \in Jobs |-> "full_initialization"]
  /\ retry_count = [j \in Jobs |-> 0]
  /\ completed   = [j \in Jobs |-> 0]
  /\ child       = [j \in Jobs |-> NoJob]
  /\ queue       = [j \in Jobs |-> [a \in {0, 1} |-> 0]]
  /\ worker      = [w \in Workers |-> Idle]
  /\ request     = [r \in Requests |-> NoRequest]
  /\ entered     = [j \in Jobs |-> 0]
  /\ granted     = [j \in Jobs |-> 0]
  /\ lost        = [j \in Jobs |-> FALSE]
  /\ faults      = 0

\* The UPDATE the session emits for job j when it last read s and commits t.
Flushed(j, s, t) ==
  IF t # s /\ status[j] \notin Gone THEN [status EXCEPT ![j] = t] ELSE status

\* A new row, as Job(...) and db.add make it.
Insert(j, k) ==
  /\ status[j] = "absent"
  /\ status'  = [status EXCEPT ![j] = "queued"]
  /\ kind'    = [kind EXCEPT ![j] = k]
  /\ granted' = [granted EXCEPT ![j] = @ + 1]

Send(j, a) == queue' = [queue EXCEPT ![j][a] = @ + 1]

Become(w, state) == worker' = [worker EXCEPT ![w] = state]

\* The worker moves on within its handler ...
Goto(w, at) == Become(w, [worker[w] EXCEPT !.at = at])

\* ... having just read its row, or having just written `written' to it ...
See(w, at) ==
  Become(w, [worker[w] EXCEPT !.at = at, !.seen = status[worker[w].job]])

Wrote(w, at, written) == Become(w, [worker[w] EXCEPT !.at = at, !.seen = written])

\* ... or returns from it.
Leave(w) == Become(w, Idle)

\* Dramatiq puts the message of a failed actor back once, for SyncKinds.
RequeueFailed(w) ==
  IF kind[worker[w].job] \in SyncKinds /\ worker[w].attempt = 0
  THEN Send(worker[w].job, 1)
  ELSE UNCHANGED queue

Executing(w, j) == worker[w].at \notin {"idle", "down"} /\ worker[w].job = j
-----------------------------------------------------------------------------
(***************************************************************************)
(* Claiming.  claim_job locks the row, so test and update are one step.    *)
(***************************************************************************)
\* Mutant of Claimable: a running job may be claimed again.
ClaimableTwice(j) == status[j] \in {"queued", "running"}

Claimable(j) == status[j] = "queued"

Claim(w, j, a) ==
  /\ worker[w].at = "idle"
  /\ queue[j][a] > 0
  /\ Claimable(j)
  /\ queue'   = [queue EXCEPT ![j][a] = @ - 1]
  /\ status'  = [status EXCEPT ![j] = "running"]
  /\ entered' = [entered EXCEPT ![j] = @ + 1]
  /\ Become(w, [at |-> IF kind[j] = "dream" THEN "work" ELSE "load",
                job |-> j, attempt |-> a, seen |-> "running", done |-> 0,
                child |-> NoJob])
  /\ UNCHANGED <<kind, retry_count, completed, child, request, granted, lost, faults>>

Drop(w, j, a) ==
  /\ worker[w].at = "idle"
  /\ queue[j][a] > 0
  /\ ~Claimable(j)
  /\ queue' = [queue EXCEPT ![j][a] = @ - 1]
  /\ UNCHANGED <<row, worker, request, history, faults>>
-----------------------------------------------------------------------------
(***************************************************************************)
(* The first read after the claim, and the second write of "running".      *)
(* claim_job's return value is dropped, so db.get reads the row afresh.    *)
(***************************************************************************)
StopsOnLoad(k) ==
  CASE k \in SyncKinds         -> {"succeeded"}
    [] k = "memory_polish"     -> {"succeeded", "cancelled", "cancel_requested"}
    [] OTHER                   -> {"succeeded", "cancelled"}

\* Mutant of Load: a resumed initialization does not look at its checkpoint.
LoadFromScratch(w) ==
  /\ worker[w].at = "load"
  /\ See(w, "begin")
  /\ UNCHANGED <<row, queue, request, history, faults>>

Load(w) ==
  LET j == worker[w].job
      k == kind[j]
      ends == status[j] \in Gone \cup StopsOnLoad(k)
      resend == /\ k = "full_initialization"
                /\ status[j] = "succeeded"
                /\ child[j] # NoJob
      settles == k = "full_initialization" /\ status[j] = "cancel_requested"
  IN  /\ worker[w].at = "load"
      /\ \/ ends /\ ~resend /\ Leave(w)
         \/ resend /\ Become(w, [worker[w] EXCEPT !.at = "dispatch",
                                                  !.seen = status[j],
                                                  !.child = child[j]])
         \/ settles /\ See(w, "settle")
         \/ /\ ~ends /\ ~settles
            /\ Become(w, [worker[w] EXCEPT !.at = "begin", !.seen = status[j],
                                           !.done = completed[j]])
      /\ UNCHANGED <<row, queue, request, history, faults>>

Begin(w) ==
  LET j == worker[w].job
  IN  /\ worker[w].at = "begin"
      /\ status' = Flushed(j, worker[w].seen, "running")
      /\ Wrote(w, CASE status[j] \in Gone -> "failing"
                    [] kind[j] = "full_initialization" -> "boundary"
                    [] OTHER -> "work",
                  "running")
      /\ UNCHANGED <<kind, retry_count, completed, child, queue, request, history,
                     faults>>
-----------------------------------------------------------------------------
(***************************************************************************)
(* Business logic.  A progress report refreshes the row and raises         *)
(* JobCancelled when a cancellation is pending; between two reports the    *)
(* session knows nothing of what the API writes.                           *)
(***************************************************************************)
Progress(w) ==
  LET j == worker[w].job
      settling == kind[j] \in SettlingKinds
  IN  /\ worker[w].at = "work"
      /\ \/ status[j] \in Gone /\ Goto(w, "failing")
         \/ status[j] = "cancel_requested" /\ See(w, "confirm")
         \/ status[j] = "cancelled" /\ settling /\ See(w, "caught")
         \/ status[j] = "cancelled" /\ ~settling /\ Leave(w)
         \/ status[j] \in Stored \ Cancelled /\ See(w, "work")
      /\ UNCHANGED <<row, queue, request, history, faults>>

\* raise_if_cancelled turns cancel_requested into cancelled and raises.
Confirm(w) ==
  LET j == worker[w].job
  IN  /\ worker[w].at = "confirm"
      /\ status' = Flushed(j, "cancel_requested", "cancelled")
      /\ \/ status[j] \in Gone /\ Goto(w, "failing")
         \/ status[j] \notin Gone /\ kind[j] \in SettlingKinds /\ Goto(w, "caught")
         \/ status[j] \notin Gone /\ kind[j] \notin SettlingKinds /\ Leave(w)
      /\ UNCHANGED <<kind, retry_count, completed, child, queue, request, history,
                     faults>>

\* except JobCancelled of the initialization and polish services: refresh ...
Caught(w) ==
  /\ worker[w].at = "caught"
  /\ \/ status[worker[w].job] \in Gone /\ Leave(w)
     \/ status[worker[w].job] \notin Gone /\ See(w, "settle")
  /\ UNCHANGED <<row, queue, request, history, faults>>

\* ... and write cancelled, whatever the refresh has shown.
Settle(w) ==
  /\ worker[w].at = "settle"
  /\ status' = Flushed(worker[w].job, worker[w].seen, "cancelled")
  /\ Leave(w)
  /\ UNCHANGED <<kind, retry_count, completed, child, queue, request, history, faults>>

\* Mutant of Boundary: the loop over the stages ends one stage early.
BoundaryStopsEarly(w) ==
  /\ worker[w].at = "boundary"
  /\ See(w, IF worker[w].done + 1 < NStages THEN "work" ELSE "finish")
  /\ UNCHANGED <<row, queue, request, history, faults>>

\* The refresh before the next stage of an initialization, or before its end.
Boundary(w) ==
  LET j == worker[w].job
      more == worker[w].done < NStages
  IN  /\ worker[w].at = "boundary"
      /\ \/ status[j] \in Gone /\ Goto(w, "failing")
         \/ status[j] \in Cancelled /\ See(w, "settle")
         \/ status[j] = "paused" /\ more /\ Leave(w)
         \/ status[j] \in Stored \ (Cancelled \cup {"paused"}) /\ more /\ See(w, "work")
         \/ status[j] \in Stored \ Cancelled /\ ~more /\ See(w, "finish")
      /\ UNCHANGED <<row, queue, request, history, faults>>

\* A stage has returned: refresh, then commit the extended checkpoint.
StageDone(w) ==
  LET j == worker[w].job
      done == worker[w].done + 1
  IN  /\ worker[w].at = "work"
      /\ kind[j] = "full_initialization"
      /\ \/ /\ status[j] \in Gone
            /\ Goto(w, "failing")
            /\ UNCHANGED completed
         \/ /\ status[j] \in Cancelled
            /\ See(w, "settle")
            /\ UNCHANGED completed
         \/ /\ status[j] \in Stored \ Cancelled
            /\ completed' = [completed EXCEPT ![j] = done]
            /\ Become(w, [worker[w] EXCEPT !.at = "boundary", !.seen = status[j],
                                           !.done = done])
      /\ UNCHANGED <<status, kind, retry_count, child, queue, request, history, faults>>

PolishDone(w) ==
  LET j == worker[w].job
  IN  /\ worker[w].at = "work"
      /\ kind[j] = "memory_polish"
      /\ \/ status[j] \in Gone /\ Goto(w, "failing")
         \/ status[j] \in Cancelled /\ See(w, "settle")
         \/ status[j] \in Stored \ Cancelled /\ See(w, "finish")
      /\ UNCHANGED <<row, queue, request, history, faults>>

\* Dream, mirror and history jobs finish on the copy of their last report.
BodyDone(w) ==
  /\ worker[w].at = "work"
  /\ kind[worker[w].job] \notin SettlingKinds
  /\ Goto(w, "finish")
  /\ UNCHANGED <<row, queue, request, history, faults>>

\* Mutant of Finish: an initialization that finishes clears its checkpoint.
FinishForgetsStages(w) ==
  LET j == worker[w].job
  IN  /\ worker[w].at = "finish"
      /\ status' = Flushed(j, worker[w].seen, "succeeded")
      /\ completed' = [completed EXCEPT ![j] = 0]
      /\ Leave(w)
      /\ UNCHANGED <<kind, retry_count, child, queue, request, history, faults>>

Finish(w) ==
  LET j == worker[w].job
  IN  /\ worker[w].at = "finish"
      /\ status' = Flushed(j, worker[w].seen, "succeeded")
      /\ \/ /\ status[j] \in Gone
            /\ Goto(w, "failing")
            /\ UNCHANGED <<completed, child>>
         \/ /\ status[j] \notin Gone
            /\ kind[j] = "full_initialization"
            /\ completed' = [completed EXCEPT ![j] = worker[w].done]
            /\ child' = [child EXCEPT ![j] = NoJob]
            /\ Wrote(w, "spawn", "succeeded")
         \/ /\ status[j] \notin Gone
            /\ kind[j] # "full_initialization"
            /\ Leave(w)
            /\ UNCHANGED <<completed, child>>
      /\ UNCHANGED <<kind, retry_count, queue, request, history, faults>>
-----------------------------------------------------------------------------
(***************************************************************************)
(* The polish job that a succeeded initialization leaves behind.           *)
(***************************************************************************)
Spawn(w) ==
  LET j == worker[w].job
  IN  /\ worker[w].at = "spawn"
      /\ \/ /\ status[j] \in Gone
            /\ Leave(w)
            /\ UNCHANGED <<status, kind, granted, child>>
         \/ /\ status[j] \notin Gone
            /\ \E c \in Jobs :
                 /\ Insert(c, "memory_polish")
                 /\ child' = [child EXCEPT ![j] = c]
                 /\ Become(w, [worker[w] EXCEPT !.at = "reload", !.child = c])
      /\ UNCHANGED <<retry_count, completed, queue, request, entered, lost, faults>>

\* The message for the child is sent only if the parent still reads succeeded.
Reload(w) ==
  LET j == worker[w].job
      sends == status[j] = "succeeded" /\ child[j] # NoJob
  IN  /\ worker[w].at = "reload"
      /\ \/ /\ sends
            /\ Become(w, [worker[w] EXCEPT !.at = "dispatch", !.seen = status[j],
                                           !.child = child[j]])
         \/ ~sends /\ Leave(w)
      /\ lost' = [c \in Jobs |->
                    lost[c] \/ (c = worker[w].child /\ ~(sends /\ c = child[j]))]
      /\ UNCHANGED <<row, queue, request, entered, granted, faults>>

Dispatch(w) ==
  LET c == worker[w].child
  IN  /\ worker[w].at = "dispatch"
      /\ Send(c, 0)
      /\ lost' = [lost EXCEPT ![c] = FALSE]
      /\ Leave(w)
      /\ UNCHANGED <<row, request, entered, granted, faults>>

DispatchFails(w) ==
  /\ "send_failure" \in Faults
  /\ worker[w].at = "dispatch"
  /\ lost' = [lost EXCEPT ![worker[w].child] = TRUE]
  /\ Goto(w, "abort")
  /\ UNCHANGED <<row, queue, request, entered, granted, faults>>
-----------------------------------------------------------------------------
(***************************************************************************)
(* Failure of the business logic, and of the processes.                    *)
(***************************************************************************)
Raise(w) ==
  /\ worker[w].at = "work"
  /\ Goto(w, "failing")
  /\ UNCHANGED <<row, queue, request, history, faults>>

\* After a failed flush the session refuses every statement until rollback();
\* run_initialization and run_memory_polish never roll back, so their handlers
\* raise again before they can write "failed".
FlushError(w) ==
  /\ "flush_error" \in Faults
  /\ worker[w].at = "work"
  /\ kind[worker[w].job] \in SettlingKinds
  /\ Leave(w)
  /\ UNCHANGED <<row, queue, request, history, faults>>

\* Mutant of Failing: a failure leaves alone every job with a cancel request.
FailingIgnoresCancel(w) ==
  /\ worker[w].at = "failing"
  /\ IF status[worker[w].job] \in Stored \ Cancelled THEN See(w, "abort") ELSE Leave(w)
  /\ UNCHANGED <<row, queue, request, history, faults>>

Failing(w) ==
  LET j == worker[w].job
  IN  /\ worker[w].at = "failing"
      /\ \/ /\ status[j] \in Gone
            /\ Leave(w)
            /\ RequeueFailed(w)
         \/ /\ status[j] \in Cancelled
            /\ kind[j] \in SettlingKinds
            /\ See(w, "settle")
            /\ UNCHANGED queue
         \/ /\ status[j] \in Cancelled
            /\ kind[j] \notin SettlingKinds
            /\ Leave(w)
            /\ UNCHANGED queue
         \/ /\ status[j] \in Stored \ Cancelled
            /\ See(w, "abort")
            /\ UNCHANGED queue
      /\ UNCHANGED <<row, request, history, faults>>

Abort(w) ==
  /\ worker[w].at = "abort"
  /\ status' = Flushed(worker[w].job, worker[w].seen, "failed")
  /\ Leave(w)
  /\ RequeueFailed(w)
  /\ UNCHANGED <<kind, retry_count, completed, child, request, history, faults>>

\* A worker process dies; its unacknowledged message will be delivered again.
Crash(w) ==
  /\ "worker_crash" \in Faults
  /\ faults < MaxFaults
  /\ worker[w].at # "down"
  /\ Become(w, [Idle EXCEPT !.at = "down"])
  /\ IF worker[w].at = "idle" THEN UNCHANGED queue
     ELSE Send(worker[w].job, worker[w].attempt)
  /\ lost' = [c \in Jobs |-> lost[c] \/ (worker[w].at # "idle" /\ c = worker[w].child)]
  /\ faults' = faults + 1
  /\ UNCHANGED <<row, request, entered, granted>>

\* reclaim_orphaned_jobs, where `interrupted' are the running jobs it fails.
Reclaimed(interrupted) ==
  [j \in Jobs |-> CASE status[j] = "cancel_requested" -> "cancelled"
                    [] status[j] = "running" /\ j \in interrupted -> "failed"
                    [] OTHER -> status[j]]

\* Mutant of InterruptedOnBoot: a booting worker leaves running jobs alone.
NoneInterrupted(w) == {}

\* interrupt_running=True: every running job, whoever may be executing it.
InterruptedOnBoot(w) == {j \in Jobs : status[j] = "running"}

\* ReclaimOnBoot.before_worker_boot.
Boot(w) ==
  /\ worker[w].at = "down"
  /\ Leave(w)
  /\ status' = Reclaimed(InterruptedOnBoot(w))
  /\ UNCHANGED <<kind, retry_count, completed, child, queue, request, history, faults>>
-----------------------------------------------------------------------------
(***************************************************************************)
(* API handlers: one read, one commit and, for some, one send.             *)
(***************************************************************************)
Accepts ==
  [pause  |-> {"queued", "running"},
   cancel |-> {"queued", "running", "paused", "failed"},
   retry  |-> {"failed", "cancelled"},
   run    |-> {"queued", "paused"},
   delete |-> {"failed", "cancelled"}]

Target(op, seen) ==
  CASE op = "pause"  -> "paused"
    [] op = "cancel" -> IF seen = "running" THEN "cancel_requested" ELSE "cancelled"
    [] op = "delete" -> "deleted"
    [] OTHER         -> "queued"

CreateJob(r, j, k) ==
  /\ request[r].at = "idle"
  /\ Insert(j, k)
  /\ request' = [request EXCEPT ![r] = [at |-> "send", op |-> "create", job |-> j,
                                        seen |-> "queued", count |-> 0]]
  /\ UNCHANGED <<retry_count, completed, child, queue, worker, entered, lost, faults>>

\* Mutant of Receive: retry() does not compare retry_count with its limit.
ReceiveWithoutLimit(r, op, j) ==
  /\ request[r].at = "idle"
  /\ status[j] \in Accepts[op]
  /\ op \in {"retry", "run"} => granted[j] < MaxGrants /\ queue[j][0] < MaxQueue
  /\ request' = [request EXCEPT ![r] =
                   [at |-> "write", op |-> op, seen |-> status[j], job |-> j,
                    count |-> retry_count[j]]]
  /\ UNCHANGED <<row, queue, worker, history, faults>>

\* Reads that end in an early return change nothing and are left out.
Receive(r, op, j) ==
  /\ request[r].at = "idle"
  /\ status[j] \in Accepts[op]
  /\ op = "retry" => retry_count[j] < MaxRetries
  /\ op \in {"retry", "run"} => granted[j] < MaxGrants /\ queue[j][0] < MaxQueue
  /\ request' = [request EXCEPT ![r] =
                   [at |-> "write", op |-> op, seen |-> status[j], job |-> j,
                    count |-> retry_count[j]]]
  /\ UNCHANGED <<row, queue, worker, history, faults>>

Apply(r) ==
  LET j == request[r].job
      op == request[r].op
      to == Target(op, request[r].seen)
      stale == status[j] \in Gone      \* StaleDataError, answered with a 500
  IN  /\ request[r].at = "write"
      /\ status' = Flushed(j, request[r].seen, to)
      /\ retry_count' = IF op = "retry" /\ ~stale
                        THEN [retry_count EXCEPT ![j] = request[r].count + 1]
                        ELSE retry_count
      /\ granted' = IF to = "queued" /\ status'[j] = "queued" /\ status[j] # "queued"
                    THEN [granted EXCEPT ![j] = @ + 1]
                    ELSE granted
      /\ request' = [request EXCEPT ![r] =
                       IF to = "queued" /\ ~stale
                       THEN [@ EXCEPT !.at = "send", !.seen = "queued"]
                       ELSE NoRequest]
      /\ UNCHANGED <<kind, completed, child, queue, worker, entered, lost, faults>>

\* Mutant of Enqueue: the handler believes somebody else has sent it.
EnqueueForgets(r) ==
  /\ request[r].at = "send"
  /\ request' = [request EXCEPT ![r] = NoRequest]
  /\ UNCHANGED <<row, queue, worker, history, faults>>

Enqueue(r) ==
  LET j == request[r].job
  IN  /\ request[r].at = "send"
      /\ Send(j, 0)
      /\ lost' = [lost EXCEPT ![j] = FALSE]
      /\ request' = [request EXCEPT ![r] = NoRequest]
      /\ UNCHANGED <<row, worker, entered, granted, faults>>

\* create_initialization ignores the outcome of the send; every other handler
\* writes "failed" over the row it has just queued.
EnqueueFails(r) ==
  LET j == request[r].job
      ignored == request[r].op = "create" /\ kind[j] = "full_initialization"
  IN  /\ "send_failure" \in Faults
      /\ request[r].at = "send"
      /\ \/ /\ ignored
            /\ lost' = [lost EXCEPT ![j] = TRUE]
            /\ UNCHANGED status
         \/ /\ ~ignored
            /\ status' = Flushed(j, "queued", "failed")
            /\ UNCHANGED lost
      /\ request' = [request EXCEPT ![r] = NoRequest]
      /\ UNCHANGED <<kind, retry_count, completed, child, queue, worker, entered,
                     granted, faults>>

\* The API process dies with every request in flight, and its lifespan hook
\* reclaims jobs whose row has not been touched for ten minutes.
ApiRestart ==
  /\ "api_restart" \in Faults
  /\ faults < MaxFaults
  /\ \E stale \in SUBSET {j \in Jobs : \/ "slow_stage" \in Faults
                                       \/ \A w \in Workers : ~Executing(w, j)} :
       status' = Reclaimed(stale)
  /\ lost' = [j \in Jobs |-> lost[j] \/ \E r \in Requests : /\ request[r].at = "send"
                                                            /\ request[r].job = j]
  /\ request' = [r \in Requests |-> NoRequest]
  /\ faults' = faults + 1
  /\ UNCHANGED <<kind, retry_count, completed, child, queue, worker, entered, granted>>
-----------------------------------------------------------------------------
\* What a worker does of its own accord once it has claimed a job.
Step(w) ==
  \/ Load(w) \/ Begin(w) \/ Confirm(w) \/ Caught(w) \/ Settle(w) \/ Boundary(w)
  \/ StageDone(w) \/ PolishDone(w) \/ BodyDone(w) \/ Finish(w) \/ Spawn(w)
  \/ Reload(w) \/ Dispatch(w) \/ DispatchFails(w) \/ Raise(w) \/ FlushError(w)
  \/ Failing(w) \/ Abort(w)

WorkerNext ==
  \E w \in Workers :
    \/ \E j \in Jobs, a \in {0, 1} : Claim(w, j, a) \/ Drop(w, j, a)
    \/ Step(w) \/ Progress(w) \/ Crash(w) \/ Boot(w)

ApiNext ==
  \/ \E r \in Requests :
       \/ \E j \in ApiJobs, k \in Kinds : CreateJob(r, j, k)
       \/ \E j \in Jobs, op \in Ops \ {"create"} : Receive(r, op, j)
       \/ Apply(r) \/ Enqueue(r) \/ EnqueueFails(r)
  \/ ApiRestart

Next == WorkerNext \/ ApiNext

Spec == Init /\ [][Next]_vars

(***************************************************************************)
(* A worker that has a job goes on with it (every LLM and git call has a   *)
(* timeout), a dead worker process is started again, and Redis hands out   *)
(* messages in order, so a message is not passed over for ever.            *)
(***************************************************************************)
Fairness ==
  \A w \in Workers :
    /\ WF_vars(Step(w))
    /\ WF_vars(Boot(w))
    /\ \A j \in Jobs : SF_vars(\E a \in {0, 1} : Claim(w, j, a) \/ Drop(w, j, a))

FairSpec == Spec /\ Fairness
-----------------------------------------------------------------------------
TypeOK ==
  /\ status      \in [Jobs -> Statuses]
  /\ kind        \in [Jobs -> AllKinds]
  /\ retry_count \in [Jobs -> 0..MaxRetries]
  /\ completed   \in [Jobs -> 0..NStages]
  /\ child       \in [Jobs -> Jobs \cup {NoJob}]
  /\ queue       \in [Jobs -> [{0, 1} -> Nat]]
  /\ worker      \in [Workers -> WorkerState]
  /\ request     \in [Requests -> RequestState]
  /\ entered     \in [Jobs -> Nat]
  /\ granted     \in [Jobs -> Nat]
  /\ lost        \in [Jobs -> BOOLEAN]
  /\ faults      \in Nat

\* However many messages Redis holds for a job (resumes, redeliveries after a
\* crash, Dramatiq retries), its business logic is entered at most once per time
\* the job was put to queued.
EnteredAtMostOncePerGrant == \A j \in Jobs : entered[j] <= granted[j]

\* The jobs table as a box of tickets: queued is an open one, claiming uses it.
Tickets == INSTANCE JobTickets WITH open <- {j \in Jobs : status[j] = "queued"},
                                    issued <- granted, used <- entered

\* claim_job and every other write of status implement JobTickets: the business
\* logic is entered by nobody who has not taken the job out of queued in the same
\* step, and no message, redelivery or stale write opens a ticket of its own.
ImplementsTickets == Tickets!Spec

\* A queued job has a message in Redis or somebody about to send one, unless the
\* process that queued it died, or create_initialization ignored a failed send:
\* no interleaving of claims, dropped duplicates and user requests eats the last
\* message of a queued job.
QueuedIsDeliverable ==
  \A j \in Jobs :
    status[j] = "queued" /\ ~lost[j] =>
      \/ \E a \in {0, 1} : queue[j][a] > 0
      \/ \E r \in Requests : request[r].at = "send" /\ request[r].job = j
      \/ \E w \in Workers : /\ worker[w].at \in {"reload", "dispatch"}
                            /\ worker[w].child = j

\* A job the database calls running is being executed, or a worker is down and
\* its boot will reclaim it.
RunningHasExecutor ==
  \A j \in Jobs :
    status[j] = "running" =>
      \/ \E w \in Workers : Executing(w, j)
      \/ \E w \in Workers : worker[w].at = "down"

\* An initialization that reads succeeded has every stage in its checkpoint. This
\* and the next two rest on the documented single worker thread: with two, pause
\* and run give one job two executions, and the slower one writes an older list.
SucceededIsComplete ==
  \A j \in Jobs :
    kind[j] = "full_initialization" /\ status[j] = "succeeded"
      => completed[j] = NStages

\* README: a completed pass is never executed again (after a resume, a retry or a
\* redelivery; one worker thread).
CompletedStageNotRerun ==
  \A w \in Workers :
    worker[w].at = "work" /\ kind[worker[w].job] = "full_initialization"
      => completed[worker[w].job] <= worker[w].done

\* claim_job: of several messages only one may enter the business logic.
OneExecution ==
  \A j \in Jobs, v, w \in Workers :
    Executing(v, j) /\ Executing(w, j) /\ worker[v].at = "work" /\ worker[w].at = "work"
      => v = w

\* A checkpoint is never taken back (one worker thread).
CheckpointGrows == [][\A j \in Jobs : completed'[j] >= completed[j]]_completed

\* raise_if_cancelled ends every kind of job by a cancel request it has accepted:
\* nobody writes running or succeeded over cancel_requested.
CancelNotOverwritten ==
  [][\A j \in Jobs : status[j] = "cancel_requested"
                       => status'[j] \notin {"running", "succeeded"}]_status

\* The worker is past its last write and will not touch the row again.
Through(w) ==
  \/ worker[w].at \in {"caught", "spawn", "reload", "dispatch"}
  \/ worker[w].at = "settle" /\ worker[w].seen = "cancelled"
  \/ worker[w].at = "finish" /\ worker[w].seen = "succeeded"
  \/ worker[w].at = "abort" /\ worker[w].seen = "failed"
  \/ /\ worker[w].at = "work" /\ worker[w].seen = "succeeded"
     /\ kind[worker[w].job] \notin SettlingKinds

Live(w, j) == Executing(w, j) /\ ~Through(w)

CancelPending(j) ==
  status[j] = "cancel_requested" /\ \E w \in Workers : Live(w, j)

\* request_cancel leaves a running job to its worker: while one is executing the
\* job the request is answered, for initializations.
InitializationCancelAnswered ==
  \A j \in Jobs :
    (kind[j] = "full_initialization" /\ CancelPending(j))
      ~> (status[j] # "cancel_requested")

\* The same of every kind of job.
CancelAnswered ==
  \A j \in Jobs : CancelPending(j) ~> (status[j] # "cancel_requested")
=============================================================================
