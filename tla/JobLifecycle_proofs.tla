------------------------ MODULE JobLifecycle_proofs ------------------------
(***************************************************************************)
(* Proofs about JobLifecycle for every set of jobs, workers and requests,  *)
(* every number of stages and every bound: type correctness, at most one   *)
(* entry per grant, no queued job without a message, no running job without*)
(* an executor; what the checkpoint of an initialization is worth; and that*)
(* JobLifecycle implements JobTickets.                                     *)
(*                                                                         *)
(* TInv strengthens the type invariant by what the handlers rely on; the   *)
(* three safety invariants are then each inductive relative to it, in the  *)
(* forms GrantsOK, QueuedIsDeliverable and ExecutorOK.                     *)
(***************************************************************************)
EXTENDS JobLifecycle, TLAPS

\* The types of the columns, of Redis and of the history variables.

TableOK ==
  /\ status      \in [Jobs -> Statuses]
  /\ kind        \in [Jobs -> AllKinds]
  /\ retry_count \in [Jobs -> 0..MaxRetries]
  /\ completed   \in [Jobs -> 0..NStages]
  /\ child       \in [Jobs -> Jobs \cup {NoJob}]
  /\ queue       \in [Jobs -> [{0, 1} -> Nat]]
  /\ entered     \in [Jobs -> Nat]
  /\ granted     \in [Jobs -> Nat]
  /\ lost        \in [Jobs -> BOOLEAN]
  /\ faults      \in Nat

\* What holds of every worker record s: the job it holds was created, a stage it
\* executes is one of the stages, and a child it is about to send exists.
Sound(s) ==
  /\ s.at \notin {"idle", "down"} => s.job \in Jobs /\ status[s.job] # "absent"
  /\ s.at = "work" /\ kind[s.job] = "full_initialization" => s.done < NStages
  /\ s.at \in {"reload", "dispatch"} => s.child \in Jobs

WorkersOK ==
  /\ worker \in [Workers -> WorkerState]
  /\ \A w \in Workers : Sound(worker[w])

\* A request in flight is about a job, and a retry was accepted below its limit.
RequestsOK ==
  /\ request \in [Requests -> RequestState]
  /\ \A r \in Requests :
       /\ request[r].at # "idle" => request[r].job \in Jobs
       /\ request[r].at = "write" /\ request[r].op = "retry"
            => request[r].count < MaxRetries

TInv == TableOK /\ WorkersOK /\ RequestsOK

\* A row that exists keeps its kind and is at most marked deleted.
RowsKept == \A j \in Jobs : status[j] # "absent" =>
              status'[j] # "absent" /\ kind'[j] = kind[j]

\* The strengthened invariant contains the type invariant.
LEMMA Typed == TInv => TypeOK
  BY DEF TInv, TableOK, WorkersOK, RequestsOK, TypeOK

\* The empty database satisfies it.
LEMMA InitTInv == Init => TInv
  BY ConstantAssumption DEF Init, TInv, TableOK, WorkersOK, RequestsOK, Sound, Statuses, Gone,
     Stored, AllKinds, WorkerState, WorkerAt, RequestState, Ops, Idle, NoRequest

\* Become moves one worker and no other.
LEMMA Becoming ==
  ASSUME WorkersOK, NEW w \in Workers, NEW s \in WorkerState, Become(w, s)
  PROVE  /\ worker' \in [Workers -> WorkerState]
         /\ worker'[w] = s
         /\ \A v \in Workers \ {w} : worker'[v] = worker[v]
  BY DEF WorkersOK, Become

\* A worker may become any sound record.
LEMMA BecomeKeeps ==
  ASSUME WorkersOK, RowsKept, NEW w \in Workers, NEW s \in WorkerState, Sound(s),
         Become(w, s)
  PROVE  WorkersOK'
<1>1. \A v \in Workers \ {w} : Sound(worker[v])'
  BY Becoming DEF WorkersOK, Sound, RowsKept
<1>2. Sound(s)'
  BY DEF Sound, RowsKept
<1> QED  BY <1>1, <1>2, Becoming DEF WorkersOK

\* The worker is inside a handler ...
Busy(w) == worker[w].at \notin {"idle", "down"}

\* ... at a place where it carries no child.
Plain == WorkerAt \ {"idle", "down", "reload", "dispatch"}

\* What is known of a worker inside a handler, and of its job.
LEMMA BusyWorker ==
  ASSUME TInv, NEW w \in Workers, Busy(w)
  PROVE  /\ worker[w] \in WorkerState
         /\ worker[w].job \in Jobs
         /\ status[worker[w].job] \in Statuses \ {"absent"}
  BY DEF TInv, TableOK, WorkersOK, Sound, Busy

\* Moves within a handler, with any value read from or written to the row.
LEMMA MoveKeeps ==
  ASSUME TInv, RowsKept, NEW w \in Workers, Busy(w),
         NEW at \in Plain, NEW seen \in Statuses,
         at = "work" => \/ worker[w].at = "work"
                        \/ kind[worker[w].job] # "full_initialization"
                        \/ worker[w].done < NStages,
         Become(w, [worker[w] EXCEPT !.at = at, !.seen = seen])
  PROVE  WorkersOK'
<1> DEFINE s == [worker[w] EXCEPT !.at = at, !.seen = seen]
<1>1. s \in WorkerState
  BY BusyWorker DEF WorkerState, Plain
<1>2. Sound(s)
  BY BusyWorker DEF TInv, WorkersOK, WorkerState, Sound, Plain
<1> QED  BY <1>1, <1>2, BecomeKeeps DEF TInv

\* Returning from a handler.
LEMMA LeaveKeeps ==
  ASSUME TInv, RowsKept, NEW w \in Workers, Leave(w)
  PROVE  WorkersOK'
<1>1. Idle \in WorkerState
  BY ConstantAssumption DEF Idle, WorkerState, WorkerAt, Statuses, Gone
<1>2. Sound(Idle)
  BY DEF Idle, Sound
<1> QED  BY <1>1, <1>2, BecomeKeeps DEF Leave, TInv

\* Moving on without a read.
LEMMA GotoKeeps ==
  ASSUME TInv, RowsKept, NEW w \in Workers, Busy(w), NEW at \in Plain, at # "work",
         Goto(w, at)
  PROVE  WorkersOK'
<1>1. [worker[w] EXCEPT !.at = at]
         = [worker[w] EXCEPT !.at = at, !.seen = worker[w].seen]
  BY BusyWorker DEF WorkerState
<1>2. worker[w].seen \in Statuses
  BY BusyWorker DEF WorkerState
<1> QED  BY <1>1, <1>2, MoveKeeps DEF Goto

\* Moving on after a commit.
LEMMA WroteKeeps ==
  ASSUME TInv, RowsKept, NEW w \in Workers, Busy(w), NEW at \in Plain,
         NEW seen \in Statuses,
         at = "work" => kind[worker[w].job] # "full_initialization",
         Wrote(w, at, seen)
  PROVE  WorkersOK'
  BY MoveKeeps DEF Wrote

\* Moving on after a read.
LEMMA SeeKeeps ==
  ASSUME TInv, RowsKept, NEW w \in Workers, Busy(w), NEW at \in Plain,
         at = "work" => worker[w].at = "work" \/ worker[w].done < NStages,
         See(w, at)
  PROVE  WorkersOK'
  BY MoveKeeps, BusyWorker DEF See

\* Dramatiq's retry of a failed actor.
LEMMA RequeueKeeps ==
  ASSUME TInv, NEW w \in Workers, Busy(w), RequeueFailed(w)
  PROVE  queue' \in [Jobs -> [{0, 1} -> Nat]]
<1>1. \A j \in Jobs, a \in {0, 1} : Send(j, a) => queue' \in [Jobs -> [{0, 1} -> Nat]]
  BY DEF Send, TInv, TableOK
<1> QED  BY <1>1, BusyWorker DEF RequeueFailed, TInv, TableOK

(***************************************************************************)
(* What the actions do to the table, action by action.                     *)
(***************************************************************************)
TableKept == TableOK' /\ RowsKept /\ RequestsOK'

\* Steps that only read.
ReadOnly(w) ==
  \/ Load(w) \/ Progress(w) \/ Caught(w) \/ Boundary(w) \/ PolishDone(w)
  \/ BodyDone(w) \/ Raise(w) \/ FlushError(w)

\* Everything a worker does apart from taking a message.
Moves(w) == Step(w) \/ Progress(w) \/ Crash(w) \/ Boot(w)

\* Every step of a worker other than taking a message keeps the table typed.
LEMMA MovesKeepTable == ASSUME TInv, NEW w \in Workers, Moves(w) PROVE TableKept
<1> USE DEF TInv, TableKept, TableOK, RequestsOK, RowsKept, history, row
<1>1. CASE ReadOnly(w)
  BY <1>1 DEF ReadOnly, Load, Progress, Caught, Boundary, PolishDone, BodyDone, Raise,
     FlushError
<1>2. CASE Begin(w) \/ Confirm(w) \/ Settle(w)
  BY <1>2 DEF Begin, Confirm, Settle, Flushed, Statuses, Stored, Gone
<1>3. CASE StageDone(w)
  <2>1. worker[w].done + 1 \in 0..NStages
    BY <1>3, ConstantAssumption DEF StageDone, WorkersOK, Sound, WorkerState
  <2> QED  BY <1>3, <2>1 DEF StageDone
<1>4. CASE Finish(w)
  <2>1. worker[w].done \in 0..NStages
    BY <1>4 DEF WorkersOK, WorkerState
  <2> QED  BY <1>4, <2>1 DEF Finish, Flushed, Statuses, Stored, Gone
<1>5. CASE Spawn(w)
  <2>1. CASE UNCHANGED <<status, kind, granted, child>>
    BY <1>5, <2>1 DEF Spawn
  <2>2. ASSUME NEW c \in Jobs, Insert(c, "memory_polish"),
               child' = [child EXCEPT ![worker[w].job] = c]
        PROVE  TableKept
    <3>1. UNCHANGED <<retry_count, completed, queue, request, entered, lost, faults>>
      BY <1>5 DEF Spawn
    <3>2. status' \in [Jobs -> Statuses] /\ kind' \in [Jobs -> AllKinds]
      BY <2>2 DEF Insert, AllKinds, Statuses, Stored
    <3>3. RowsKept
      BY <2>2 DEF Insert
    <3>4. child' \in [Jobs -> Jobs \cup {NoJob}]
      BY <2>2
    <3>5. granted' \in [Jobs -> Nat]
      BY <2>2 DEF Insert
    <3> QED  BY <3>1, <3>2, <3>3, <3>4, <3>5
  <2> QED  BY <1>5, <2>1, <2>2 DEF Spawn
<1>6. CASE Reload(w) \/ DispatchFails(w)
  BY <1>6 DEF Reload, DispatchFails
<1>7. CASE Dispatch(w)
  BY <1>7 DEF Dispatch, Send, WorkersOK, Sound
<1>8. CASE Failing(w)
  BY <1>8, RequeueKeeps DEF Failing, Busy
<1>9. CASE Abort(w)
  BY <1>9, RequeueKeeps DEF Abort, Busy, Flushed, Statuses, Stored, Gone
<1>10. CASE Crash(w)
  BY <1>10 DEF Crash, Send, WorkersOK, Sound, WorkerState
<1>11. CASE Boot(w)
  BY <1>11 DEF Boot, Reclaimed, Statuses, Stored, Gone
<1> QED
  BY <1>1, <1>2, <1>3, <1>4, <1>5, <1>6, <1>7, <1>8, <1>9, <1>10, <1>11
  DEF Moves, Step, ReadOnly

\* The same steps keep every worker record sound.
LEMMA MovesKeepWorkers == ASSUME TInv, NEW w \in Workers, Moves(w) PROVE WorkersOK'
<1>1. RowsKept
  BY MovesKeepTable DEF TableKept
<1>2. TableOK /\ WorkersOK
  BY DEF TInv
<1> USE <1>1, GotoKeeps, SeeKeeps, WroteKeeps, LeaveKeeps
    DEF Busy, Plain, WorkerAt, Statuses, Gone, Stored, Cancelled
<1>3. CASE Load(w)
  <2>1. Busy(w)
    BY <1>3 DEF Load
  <2> DEFINE j == worker[w].job
             resent == [worker[w] EXCEPT !.at = "dispatch", !.seen = status[j],
                                         !.child = child[j]]
             begun == [worker[w] EXCEPT !.at = "begin", !.seen = status[j],
                                        !.done = completed[j]]
  <2>2. /\ worker[w] \in WorkerState
        /\ status[j] \in Statuses
        /\ child[j] \in Jobs \cup {NoJob}
        /\ completed[j] \in 0..NStages
    BY <1>2, <2>1, BusyWorker DEF TableOK
  <2>6. resent \in WorkerState
    BY <2>2 DEF WorkerState
  <2>7. begun \in WorkerState
    BY <2>2 DEF WorkerState
  <2>3. Sound(begun) /\ (child[j] # NoJob => Sound(resent))
    BY <1>2, <2>1, BusyWorker DEF TableOK, WorkerState, Sound
  <2>4. CASE child[j] # NoJob /\ Become(w, resent)
    BY <1>2, <2>6, <2>3, <2>4, BecomeKeeps
  <2>5. CASE Become(w, begun)
    BY <1>2, <2>7, <2>3, <2>5, BecomeKeeps
  <2> QED  BY <1>3, <2>1, <2>4, <2>5 DEF Load
<1>4. CASE Begin(w)
  BY <1>4 DEF Begin
<1>5. CASE Progress(w) \/ Confirm(w) \/ Caught(w) \/ Settle(w) \/ Boundary(w)
  BY <1>5 DEF Progress, Confirm, Caught, Settle, Boundary
<1>6. CASE StageDone(w)
  <2>1. Busy(w)
    BY <1>6 DEF StageDone
  <2> DEFINE j == worker[w].job
             s == [worker[w] EXCEPT !.at = "boundary", !.seen = status[j],
                                    !.done = worker[w].done + 1]
  <2>2. worker[w].done + 1 \in 0..NStages
    BY <1>2, <1>6, ConstantAssumption DEF StageDone, WorkersOK, WorkerState, Sound
  <2>3. worker[w] \in WorkerState /\ j \in Jobs /\ status[j] \in Statuses \ {"absent"}
    BY <2>1, BusyWorker
  <2>4. s \in WorkerState
    BY <2>2, <2>3 DEF WorkerState
  <2>5. Sound(s)
    BY <2>3 DEF WorkerState, Sound
  <2>6. CASE Become(w, s)
    BY <1>2, <2>4, <2>5, <2>6, BecomeKeeps
  <2> QED  BY <1>6, <2>1, <2>6 DEF StageDone
<1>7. CASE PolishDone(w) \/ BodyDone(w) \/ Finish(w)
  BY <1>7 DEF PolishDone, BodyDone, Finish
<1>8. CASE Spawn(w)
  <2>1. Busy(w)
    BY <1>8 DEF Spawn
  <2>2. ASSUME NEW c \in Jobs,
               Become(w, [worker[w] EXCEPT !.at = "reload", !.child = c])
        PROVE  WorkersOK'
    <3> DEFINE s == [worker[w] EXCEPT !.at = "reload", !.child = c]
    <3>1. s \in WorkerState /\ Sound(s)
      BY <2>1, BusyWorker DEF WorkerState, Sound
    <3> QED  BY <1>2, <2>2, <3>1, BecomeKeeps
  <2> QED  BY <1>8, <2>1, <2>2 DEF Spawn
<1>9. CASE Reload(w)
  <2>1. Busy(w)
    BY <1>9 DEF Reload
  <2> DEFINE j == worker[w].job
             s == [worker[w] EXCEPT !.at = "dispatch", !.seen = status[j],
                                    !.child = child[j]]
  <2>2. child[j] # NoJob => s \in WorkerState /\ Sound(s)
    BY <1>2, <2>1, BusyWorker DEF TableOK, WorkerState, Sound
  <2>3. CASE child[j] # NoJob /\ Become(w, s)
    BY <1>2, <2>2, <2>3, BecomeKeeps
  <2> QED  BY <1>9, <2>1, <2>3 DEF Reload
<1>10. CASE Dispatch(w) \/ DispatchFails(w) \/ Raise(w) \/ FlushError(w)
  BY <1>10 DEF Dispatch, DispatchFails, Raise, FlushError
<1>11. CASE Failing(w) \/ Abort(w) \/ Boot(w)
  BY <1>11 DEF Failing, Abort, Boot
<1>12. CASE Crash(w)
  <2> DEFINE s == [Idle EXCEPT !.at = "down"]
  <2>1. s = [at |-> "down", job |-> NoJob, attempt |-> 0, seen |-> "absent",
             done |-> 0, child |-> NoJob]
    BY DEF Idle
  <2>2. s \in WorkerState
    BY <2>1, ConstantAssumption DEF WorkerState
  <2>3. Sound(s)
    BY <2>1 DEF Sound
  <2> QED  BY <1>2, <1>12, <2>2, <2>3, BecomeKeeps DEF Crash
<1> QED
  BY <1>3, <1>4, <1>5, <1>6, <1>7, <1>8, <1>9, <1>10, <1>11, <1>12 DEF Moves, Step

\* claim_job keeps the invariant.
LEMMA ClaimKeeps ==
  ASSUME TInv, NEW w \in Workers, NEW j \in Jobs, NEW a \in {0, 1}, Claim(w, j, a)
  PROVE  TInv'
<1> DEFINE s == [at |-> IF kind[j] = "dream" THEN "work" ELSE "load", job |-> j,
                  attempt |-> a, seen |-> "running", done |-> 0, child |-> NoJob]
<1>1. s \in WorkerState /\ Sound(s)
  BY ConstantAssumption
  DEF Claim, Claimable, WorkerState, WorkerAt, Sound, Statuses, Stored
<1>2. TableOK' /\ RowsKept /\ RequestsOK'
  BY DEF Claim, Claimable, TInv, TableOK, RequestsOK, RowsKept, Statuses, Stored
<1>3. WorkersOK'
  BY <1>1, <1>2, BecomeKeeps DEF Claim, TInv
<1> QED  BY <1>2, <1>3 DEF TInv

\* So does dropping a message whose job is not queued.
LEMMA DropKeeps ==
  ASSUME TInv, NEW w \in Workers, NEW j \in Jobs, NEW a \in {0, 1}, Drop(w, j, a)
  PROVE  TInv'
  BY DEF Drop, TInv, TableOK, WorkersOK, RequestsOK, Sound, row, history

\* So does creating a job.
LEMMA CreateKeeps ==
  ASSUME TInv, NEW r \in Requests, NEW j \in ApiJobs, NEW k \in Kinds, CreateJob(r, j, k)
  PROVE  TInv'
<1>1. TableOK' /\ RowsKept
  BY ConstantAssumption
  DEF CreateJob, Insert, TInv, TableOK, RowsKept, AllKinds, Statuses, Stored
<1>2. WorkersOK'
  BY <1>1 DEF CreateJob, TInv, WorkersOK, Sound, RowsKept
<1>3. RequestsOK'
  BY ConstantAssumption
  DEF CreateJob, TInv, RequestsOK, RequestState, Ops, Statuses, Stored
<1> QED  BY <1>1, <1>2, <1>3 DEF TInv

\* So does the read of an API handler.
LEMMA ReceiveKeeps ==
  ASSUME TInv, NEW r \in Requests, NEW j \in Jobs, NEW op \in Ops \ {"create"},
         Receive(r, op, j)
  PROVE  TInv'
<1>1. TableOK' /\ WorkersOK'
  BY DEF Receive, TInv, TableOK, WorkersOK, Sound, row, history
<1>2. RequestsOK'
  BY ConstantAssumption DEF Receive, TInv, TableOK, RequestsOK, RequestState
<1> QED  BY <1>1, <1>2 DEF TInv

\* So does its commit.
LEMMA ApplyKeeps ==
  ASSUME TInv, NEW r \in Requests, Apply(r)
  PROVE  TInv'
<1> DEFINE j == request[r].job
<1>1. j \in Jobs /\ request[r] \in RequestState
  BY DEF Apply, TInv, RequestsOK
<1>2. Target(request[r].op, request[r].seen) \in Statuses \ {"absent"}
  BY <1>1 DEF Target, RequestState, Ops, Statuses, Stored, Gone
<1>3. status' \in [Jobs -> Statuses] /\ RowsKept
  BY <1>1, <1>2 DEF Apply, Flushed, TInv, TableOK, RowsKept
<1>4. retry_count' \in [Jobs -> 0..MaxRetries]
  BY <1>1, ConstantAssumption DEF Apply, TInv, TableOK, RequestsOK, RequestState
<1>5. granted' \in [Jobs -> Nat]
  BY <1>1 DEF Apply, TInv, TableOK
<1>6. TableOK'
  BY <1>3, <1>4, <1>5 DEF Apply, TInv, TableOK
<1>7. WorkersOK'
  BY <1>3 DEF Apply, TInv, WorkersOK, Sound, RowsKept
<1>8. RequestsOK'
  <2>1. \A q \in Requests \ {r} : request'[q] = request[q]
    BY DEF Apply, TInv, RequestsOK
  <2>2. NoRequest \in RequestState
    BY ConstantAssumption DEF NoRequest, RequestState, Ops, Statuses, Gone
  <2>3. [request[r] EXCEPT !.at = "send", !.seen = "queued"] \in RequestState
    BY <1>1 DEF RequestState, Statuses, Stored
  <2>4. request' \in [Requests -> RequestState]
    BY <2>2, <2>3 DEF Apply, TInv, RequestsOK
  <2>5. request'[r] = NoRequest \/ (request'[r].at = "send" /\ request'[r].job \in Jobs)
    BY <1>1 DEF Apply, TInv, RequestsOK, RequestState
  <2> QED  BY <2>1, <2>4, <2>5 DEF TInv, RequestsOK, NoRequest
<1> QED  BY <1>6, <1>7, <1>8 DEF TInv

\* So does its send, or the failure of it.
LEMMA EnqueueKeeps ==
  ASSUME TInv, NEW r \in Requests, Enqueue(r) \/ EnqueueFails(r)
  PROVE  TInv'
<1>1. request[r].job \in Jobs
  BY DEF Enqueue, EnqueueFails, TInv, RequestsOK
<1>2. TableOK' /\ RowsKept
  <2> USE <1>1 DEF TInv, TableOK, RowsKept
  <2>1. CASE Enqueue(r)
    BY <2>1 DEF Enqueue, Send, row
  <2>2. CASE EnqueueFails(r)
    <3>1. status' \in [Jobs -> Statuses] /\ RowsKept
      BY <2>2 DEF EnqueueFails, Flushed, Statuses, Stored, Gone
    <3> QED  BY <2>2, <3>1 DEF EnqueueFails
  <2> QED  BY <2>1, <2>2
<1>3. WorkersOK'
  BY <1>2 DEF Enqueue, EnqueueFails, TInv, WorkersOK, Sound, RowsKept, row
<1>4. NoRequest \in RequestState
  BY ConstantAssumption DEF NoRequest, RequestState, Ops, Statuses, Gone
<1>5. RequestsOK'
  BY <1>4 DEF Enqueue, EnqueueFails, TInv, RequestsOK, NoRequest
<1> QED  BY <1>2, <1>3, <1>5 DEF TInv

\* So does a restart of the API.
LEMMA RestartKeeps == ASSUME TInv, ApiRestart PROVE TInv'
<1>1. TableOK' /\ RowsKept
  BY DEF ApiRestart, Reclaimed, TInv, TableOK, RowsKept, Statuses, Stored, Gone
<1>2. WorkersOK'
  BY <1>1 DEF ApiRestart, TInv, WorkersOK, Sound, RowsKept
<1>3. NoRequest \in RequestState
  BY ConstantAssumption DEF NoRequest, RequestState, Ops, Statuses, Gone
<1>4. RequestsOK'
  BY <1>3 DEF ApiRestart, RequestsOK, NoRequest
<1> QED  BY <1>1, <1>2, <1>4 DEF TInv

\* The strengthened invariant is inductive.
LEMMA TInvInductive == TInv /\ [Next]_vars => TInv'
<1> SUFFICES ASSUME TInv, [Next]_vars PROVE TInv'
  OBVIOUS
<1>1. ASSUME NEW w \in Workers, Moves(w) PROVE TInv'
  BY <1>1, MovesKeepTable, MovesKeepWorkers DEF TInv, TableKept
<1>2. CASE WorkerNext
  BY <1>1, <1>2, ClaimKeeps, DropKeeps DEF WorkerNext, Moves
<1>3. CASE ApiNext
  BY <1>3, CreateKeeps, ReceiveKeeps, ApplyKeeps, EnqueueKeeps, RestartKeeps DEF ApiNext
<1>4. CASE UNCHANGED vars
  BY <1>4 DEF vars, row, history, TInv, TableOK, WorkersOK, RequestsOK, Sound
<1> QED  BY <1>2, <1>3, <1>4 DEF Next

\* It holds in every reachable state.
THEOREM AlwaysTInv == Spec => []TInv
  BY InitTInv, TInvInductive, PTL DEF Spec

\* Every column, message count and program counter has its type: no retry exceeds
\* MAX_INITIALIZATION_RETRIES, no checkpoint exceeds the stages.
THEOREM TypeCorrect == Spec => []TypeOK
  BY AlwaysTInv, Typed, PTL

(***************************************************************************)
(* At most one entry per grant: the grant of a queued job is still unused. *)
(***************************************************************************)
GrantsOK ==
  \A j \in Jobs :
    entered[j] + (IF status[j] = "queued" THEN 1 ELSE 0) <= granted[j]

\* GrantsOK is inductive relative to TInv.
LEMMA GrantsInductive == TInv /\ GrantsOK /\ [Next]_vars => GrantsOK'
<1> SUFFICES ASSUME TInv, GrantsOK, [Next]_vars PROVE GrantsOK'
  OBVIOUS
<1>1. ASSUME NEW w \in Workers, NEW j \in Jobs, NEW a \in {0, 1}, Claim(w, j, a)
      PROVE  GrantsOK'
  BY <1>1 DEF Claim, Claimable, GrantsOK, TInv, TableOK
<1>2. ASSUME NEW w \in Workers, Moves(w) PROVE GrantsOK'
  <2> USE DEF GrantsOK, TInv, TableOK, history, row
  <2>1. CASE ReadOnly(w)
    BY <2>1 DEF ReadOnly, Load, Progress, Caught, Boundary, PolishDone, BodyDone, Raise,
       FlushError
  <2>2. CASE Begin(w) \/ Confirm(w) \/ Settle(w) \/ Abort(w)
    BY <2>2 DEF Begin, Confirm, Settle, Abort, Flushed
  <2>3. CASE StageDone(w) \/ Failing(w) \/ Reload(w) \/ Dispatch(w) \/ DispatchFails(w)
              \/ Crash(w)
    BY <2>3 DEF StageDone, Failing, Reload, Dispatch, DispatchFails, Crash
  <2>4. CASE Finish(w)
    BY <2>4 DEF Finish, Flushed
  <2>5. CASE Spawn(w)
    <3>1. CASE UNCHANGED <<status, granted>>
      BY <2>5, <3>1 DEF Spawn
    <3>2. ASSUME NEW c \in Jobs, Insert(c, "memory_polish") PROVE GrantsOK'
      <4>1. entered' = entered
        BY <2>5 DEF Spawn
      <4> QED  BY <3>2, <4>1 DEF Insert
    <3> QED  BY <2>5, <3>1, <3>2 DEF Spawn
  <2>6. CASE Boot(w)
    BY <2>6 DEF Boot, Reclaimed
  <2> QED
    BY <1>2, <2>1, <2>2, <2>3, <2>4, <2>5, <2>6 DEF Moves, Step, ReadOnly
<1>3. ASSUME NEW r \in Requests, Apply(r) PROVE GrantsOK'
  <2>1. request[r].job \in Jobs
    BY <1>3 DEF Apply, TInv, RequestsOK
  <2> QED  BY <1>3, <2>1 DEF Apply, Flushed, GrantsOK, TInv, TableOK, Gone
<1>4. CASE ApiNext
  <2> USE DEF GrantsOK, TInv, TableOK, history, row
  <2>1. ASSUME NEW r \in Requests, NEW j \in ApiJobs, NEW k \in Kinds, CreateJob(r, j, k)
        PROVE  GrantsOK'
    BY <2>1, ConstantAssumption DEF CreateJob, Insert
  <2>2. ASSUME NEW r \in Requests, NEW j \in Jobs, NEW op \in Ops, Receive(r, op, j)
        PROVE  GrantsOK'
    BY <2>2 DEF Receive
  <2>3. ASSUME NEW r \in Requests, Enqueue(r) \/ EnqueueFails(r) PROVE GrantsOK'
    BY <2>3 DEF Enqueue, EnqueueFails, Flushed
  <2>4. CASE ApiRestart
    BY <2>4 DEF ApiRestart, Reclaimed
  <2> QED  BY <1>3, <1>4, <2>1, <2>2, <2>3, <2>4 DEF ApiNext
<1>5. CASE WorkerNext
  <2>1. ASSUME NEW w \in Workers, NEW j \in Jobs, NEW a \in {0, 1}, Drop(w, j, a)
        PROVE  GrantsOK'
    BY <2>1 DEF Drop, row, history, GrantsOK
  <2> QED  BY <1>1, <1>2, <1>5, <2>1 DEF WorkerNext, Moves
<1>6. CASE UNCHANGED vars
  BY <1>6 DEF vars, row, history, GrantsOK
<1> QED  BY <1>4, <1>5, <1>6 DEF Next

\* claim_job: whatever Redis holds for a job, its business logic is entered at
\* most once per time the job was put to queued.
THEOREM AtMostOneEntryPerGrant == Spec => []EnteredAtMostOncePerGrant
<1>1. Init => GrantsOK
  <2> SUFFICES ASSUME Init, NEW j \in Jobs
               PROVE  entered[j] + (IF status[j] = "queued" THEN 1 ELSE 0) <= granted[j]
    BY DEF GrantsOK
  <2>1. entered[j] = 0 /\ granted[j] = 0 /\ status[j] = "absent"
    BY DEF Init
  <2> QED  BY <2>1
<1>2. TInv /\ GrantsOK => EnteredAtMostOncePerGrant
  <2> SUFFICES ASSUME TInv, GrantsOK, NEW j \in Jobs PROVE entered[j] <= granted[j]
    BY DEF EnteredAtMostOncePerGrant
  <2>1. entered[j] \in Nat /\ granted[j] \in Nat
    BY DEF TInv, TableOK
  <2> QED  BY <2>1 DEF GrantsOK
<1> QED  BY <1>1, <1>2, AlwaysTInv, GrantsInductive, PTL DEF Spec

(***************************************************************************)
(* A running job has an executor that will still write to its row.         *)
(***************************************************************************)
ExecutorOK ==
  \A j \in Jobs :
    status[j] = "running" =>
      \/ \E w \in Workers : Live(w, j)
      \/ \E w \in Workers : worker[w].at = "down"

\* The fields of a worker record after a move within the handler.
MovedTo(w, at, seen) ==
  /\ worker'[w].at = at
  /\ worker'[w].job = worker[w].job
  /\ worker'[w].done = worker[w].done
  /\ worker'[w].seen = seen

\* The moves within a handler, field by field.
LEMMA Moved ==
  ASSUME TInv, NEW w \in Workers, Busy(w), NEW at \in WorkerAt
  PROVE  /\ Goto(w, at) => MovedTo(w, at, worker[w].seen)
         /\ See(w, at) => MovedTo(w, at, status[worker[w].job])
         /\ \A seen : Wrote(w, at, seen) => MovedTo(w, at, seen)
         /\ Leave(w) => worker'[w].at = "idle"
<1>1. \A s : Become(w, s) => worker'[w] = s
  BY DEF Become, TInv, WorkersOK
<1> USE <1>1, BusyWorker DEF MovedTo, WorkerState
<1>2. Goto(w, at) => MovedTo(w, at, worker[w].seen)
  BY DEF Goto
<1>3. See(w, at) => MovedTo(w, at, status[worker[w].job])
  BY DEF See
<1>4. ASSUME NEW seen, Wrote(w, at, seen) PROVE MovedTo(w, at, seen)
  BY <1>4 DEF Wrote
<1>5. Leave(w) => worker'[w].at = "idle"
  BY DEF Leave, Idle
<1> QED  BY <1>2, <1>3, <1>4, <1>5

\* Only a worker inside a handler takes a step of it.
LEMMA StepBusy ==
  ASSUME NEW w \in Workers, Step(w) \/ Progress(w)
  PROVE  Busy(w)
  BY DEF Step, Busy, Load, Begin, Progress, Confirm, Caught, Settle, Boundary, StageDone,
     PolishDone, BodyDone, Finish, Spawn, Reload, Dispatch, DispatchFails, Raise,
     FlushError, Failing, Abort

\* A step of a handler moves exactly one worker.
LEMMA StepBecomes ==
  ASSUME TInv, NEW w \in Workers, Step(w) \/ Progress(w)
  PROVE  \E s \in WorkerState : Become(w, s)
<1>1. \E s : Become(w, s)
  BY DEF Step, Load, Begin, Progress, Confirm, Caught, Settle, Boundary, StageDone,
     PolishDone, BodyDone, Finish, Spawn, Reload, Dispatch, DispatchFails, Raise,
     FlushError, Failing, Abort, Goto, See, Wrote, Leave
<1>2. worker'[w] \in WorkerState
  BY MovesKeepWorkers DEF Moves, WorkersOK
<1> QED  BY <1>1, <1>2 DEF Become, TInv, WorkersOK

\* A job that w was executing and that is still running after a step of w is
\* still being executed by w; w makes no other job running.
LEMMA StepKeepsHold ==
  ASSUME TInv, NEW w \in Workers, Step(w) \/ Progress(w), "flush_error" \notin Faults,
         NEW i \in Jobs, status'[i] = "running"
  PROVE  (status[i] = "running" /\ ~Live(w, i)) \/ Live(w, i)'
<1> DEFINE j == worker[w].job
           Holds == worker'[w].job = j /\ ~Through(w)' /\ Busy(w)'
<1>1. Busy(w)
  BY StepBusy
<1>2. worker[w] \in WorkerState /\ j \in Jobs /\ status[j] \in Statuses \ {"absent"}
  BY <1>1, BusyWorker
<1>3. status \in [Jobs -> Statuses]
  BY DEF TInv, TableOK
<1>4. kind'[j] = kind[j]
  BY <1>2, MovesKeepTable DEF Moves, TableKept, RowsKept
<1>5. CASE i # j
  <2>1. status[i] = "running"
    BY <1>2, <1>3, <1>5
    DEF Step, Load, Begin, Progress, Confirm, Caught, Settle, Boundary, StageDone,
        PolishDone, BodyDone, Finish, Spawn, Insert, Reload, Dispatch, DispatchFails,
        Raise, FlushError, Failing, Abort, Flushed, row
  <2> QED  BY <1>5, <2>1 DEF Live, Executing
<1>6. ASSUME i = j, Live(w, j) \/ status[j] # "running" PROVE Holds
  <2> USE <1>1, <1>2, <1>4, <1>6, Moved
      DEF MovedTo, Through, WorkerAt, Statuses, Stored, Gone, Cancelled, SettlingKinds, Flushed,
          history, row, Busy
  <2>1. CASE Load(w)
    <3>1. status[j] = "running" /\ "running" \notin StopsOnLoad(kind[j])
      BY <2>1 DEF Load, StopsOnLoad, SyncKinds
    <3>2. Become(w, [worker[w] EXCEPT !.at = "begin", !.seen = status[j],
                                      !.done = completed[j]])
      BY <2>1, <3>1 DEF Load
    <3> QED  BY <3>2 DEF Become, WorkerState, TInv, WorkersOK
  <2>2. CASE Begin(w)
    BY <2>2 DEF Begin
  <2>3. CASE Progress(w)
    <3>1. status[j] = "running" /\ See(w, "work")
      BY <2>3 DEF Progress
    <3> QED  BY <2>3, <3>1
  <2>4. CASE Confirm(w) \/ Settle(w) \/ Finish(w) \/ Abort(w)
    BY <1>3, <2>4 DEF Confirm, Settle, Finish, Abort, Live, Executing
  <2>5. CASE Caught(w) \/ Dispatch(w) \/ DispatchFails(w) \/ Reload(w)
    BY <2>5 DEF Caught, Dispatch, DispatchFails, Reload, Live, Executing
  <2>6. CASE Spawn(w)
    BY <1>3, <2>6 DEF Spawn, Insert, Live, Executing
  <2>7. CASE Boundary(w)
    <3>1. status[j] = "running" /\ (See(w, "work") \/ See(w, "finish"))
      BY <2>7 DEF Boundary
    <3> QED  BY <2>7, <3>1
  <2>8. CASE StageDone(w)
    <3>1. /\ status[j] = "running"
          /\ Become(w, [worker[w] EXCEPT !.at = "boundary", !.seen = status[j],
                                         !.done = worker[w].done + 1])
      BY <2>8 DEF StageDone
    <3> QED  BY <3>1 DEF Become, WorkerState, TInv, WorkersOK
  <2>9. CASE PolishDone(w)
    BY <2>9 DEF PolishDone
  <2>10. CASE BodyDone(w)
    BY <2>10 DEF BodyDone, Live, Executing
  <2>11. CASE Raise(w) \/ FlushError(w)
    BY <2>11 DEF Raise, FlushError
  <2>12. CASE Failing(w)
    BY <2>12 DEF Failing
  <2> QED
    BY <2>1, <2>2, <2>3, <2>4, <2>5, <2>6, <2>7, <2>8, <2>9, <2>10, <2>11, <2>12 DEF Step
<1> QED  BY <1>5, <1>6 DEF Live, Executing, Busy

\* A step of w leaves the executions of the other workers alone.
LEMMA LiveElsewhere ==
  ASSUME TInv, RowsKept, NEW w \in Workers, NEW s \in WorkerState, Become(w, s),
         NEW v \in Workers \ {w}, NEW j \in Jobs, Live(v, j)
  PROVE  Live(v, j)'
<1>1. worker'[v] = worker[v]
  BY Becoming DEF TInv
<1>2. kind'[j] = kind[j]
  BY DEF TInv, WorkersOK, Sound, Live, Executing, RowsKept
<1> QED  BY <1>1, <1>2 DEF Live, Executing, Through

\* ExecutorOK is inductive relative to TInv, when flushes do not fail.
LEMMA ExecutorInductive ==
  ASSUME "flush_error" \notin Faults
  PROVE  TInv /\ ExecutorOK /\ [Next]_vars => ExecutorOK'
<1> SUFFICES ASSUME TInv, ExecutorOK, [Next]_vars, TInv',
                    NEW i \in Jobs, status'[i] = "running"
             PROVE  (\E w \in Workers : Live(w, i)') \/ (\E w \in Workers : worker'[w].at = "down")
  BY TInvInductive DEF ExecutorOK
<1> DEFINE Goal == \/ \E w \in Workers : Live(w, i)'
                   \/ \E w \in Workers : worker'[w].at = "down"
<1>1. ASSUME NEW w \in Workers, NEW s \in WorkerState, Become(w, s), RowsKept,
             worker[w].at # "down",
             (status[i] = "running" /\ ~Live(w, i)) \/ Live(w, i)'
      PROVE  Goal
  <2>1. CASE Live(w, i)'
    BY <2>1
  <2>2. CASE status[i] = "running" /\ ~Live(w, i)
    <3>1. \A v \in Workers \ {w} : worker'[v] = worker[v]
      BY <1>1, Becoming DEF TInv
    <3>2. CASE \E v \in Workers : Live(v, i)
      BY <1>1, <2>2, <3>2, LiveElsewhere
    <3>3. CASE \E v \in Workers : worker[v].at = "down"
      BY <1>1, <3>1, <3>3
    <3> QED  BY <2>2, <3>2, <3>3 DEF ExecutorOK
  <2> QED  BY <1>1, <2>1, <2>2
<1>2. ASSUME NEW w \in Workers, Step(w) \/ Progress(w) PROVE Goal
  <2>1. RowsKept
    BY <1>2, MovesKeepTable DEF Moves, TableKept
  <2>2. \E s \in WorkerState : Become(w, s)
    BY <1>2, StepBecomes
  <2>3. worker[w].at # "down"
    BY <1>2, StepBusy DEF Busy
  <2> QED  BY <1>1, <1>2, <2>1, <2>2, <2>3, StepKeepsHold
<1>3. ASSUME NEW w \in Workers, NEW j \in Jobs, NEW a \in {0, 1}, Claim(w, j, a)
      PROVE  Goal
  <2> DEFINE s == [at |-> IF kind[j] = "dream" THEN "work" ELSE "load", job |-> j,
                   attempt |-> a, seen |-> "running", done |-> 0, child |-> NoJob]
  <2>1. s \in WorkerState
    BY ConstantAssumption DEF WorkerState, WorkerAt, Statuses, Stored
  <2>2. RowsKept
    BY <1>3 DEF Claim, Claimable, RowsKept, TInv, TableOK
  <2>3. worker'[w] = s
    BY <1>3, <2>1, Becoming DEF Claim, TInv
  <2>4. CASE i = j
    BY <1>3, <2>3, <2>4 DEF Live, Executing, Through, Claim
  <2>5. CASE i # j
    BY <1>1, <1>3, <2>1, <2>2, <2>5
    DEF Claim, TInv, TableOK, Live, Executing
  <2> QED  BY <2>4, <2>5
<1>4. ASSUME NEW w \in Workers, Crash(w) PROVE Goal
  BY <1>4 DEF Crash, Become, Idle, TInv, WorkersOK
<1>5. ASSUME NEW w \in Workers, Boot(w) PROVE Goal
  BY <1>5 DEF Boot, Reclaimed, InterruptedOnBoot, TInv, TableOK
<1>6. ASSUME RowsKept, UNCHANGED worker, status[i] = "running" PROVE Goal
  <2>1. ASSUME NEW v \in Workers, Live(v, i) PROVE Live(v, i)'
    BY <1>6, <2>1 DEF Live, Executing, Through, RowsKept
  <2> QED  BY <1>6, <2>1 DEF ExecutorOK
<1>7. CASE ApiNext
  <2> USE DEF TInv, TableOK, RowsKept, row, history
  <2>1. ASSUME NEW r \in Requests, NEW j \in ApiJobs, NEW k \in Kinds, CreateJob(r, j, k)
        PROVE  Goal
    BY <1>6, <2>1, ConstantAssumption DEF CreateJob, Insert
  <2>2. ASSUME NEW r \in Requests, NEW j \in Jobs, NEW op \in Ops, Receive(r, op, j)
        PROVE  Goal
    BY <1>6, <2>2 DEF Receive
  <2>3. ASSUME NEW r \in Requests, Apply(r) PROVE Goal
    <3>1. Target(request[r].op, request[r].seen) \notin {"running", "absent"}
      BY DEF Target
    <3> QED  BY <1>6, <2>3, <3>1 DEF Apply, Flushed
  <2>4. ASSUME NEW r \in Requests, Enqueue(r) \/ EnqueueFails(r) PROVE Goal
    BY <1>6, <2>4 DEF Enqueue, EnqueueFails, Flushed
  <2>5. CASE ApiRestart
    BY <1>6, <2>5 DEF ApiRestart, Reclaimed
  <2> QED  BY <1>7, <2>1, <2>2, <2>3, <2>4, <2>5 DEF ApiNext
<1>8. CASE WorkerNext
  <2>1. ASSUME NEW w \in Workers, NEW j \in Jobs, NEW a \in {0, 1}, Drop(w, j, a)
        PROVE  Goal
    BY <1>6, <2>1 DEF Drop, row, RowsKept
  <2> QED  BY <1>2, <1>3, <1>4, <1>5, <1>8, <2>1 DEF WorkerNext
<1>9. CASE UNCHANGED vars
  BY <1>6, <1>9 DEF vars, row, RowsKept
<1> QED  BY <1>7, <1>8, <1>9 DEF Next

\* Claims, settles, failures, crashes and boots keep an executor behind every job
\* the table calls running, as long as no flush fails inside a handler that does
\* not roll back (the run JobLifecycle_failed_flush shows the other case).
THEOREM RunningIsExecuted ==
  ASSUME "flush_error" \notin Faults
  PROVE  Spec => []RunningHasExecutor
<1>1. Init => ExecutorOK
  BY DEF Init, ExecutorOK
<1>2. ExecutorOK => RunningHasExecutor
  BY DEF ExecutorOK, RunningHasExecutor, Live
<1> QED  BY <1>1, <1>2, AlwaysTInv, ExecutorInductive, PTL DEF Spec

(***************************************************************************)
(* A queued job has a message, or somebody about to send one.              *)
(***************************************************************************)
Sending(r, j) == request[r].at = "send" /\ request[r].job = j

Sparing(w, j) == worker[w].at \in {"reload", "dispatch"} /\ worker[w].child = j

Covered(j) ==
  \/ \E a \in {0, 1} : queue[j][a] > 0
  \/ \E r \in Requests : Sending(r, j)
  \/ \E w \in Workers : Sparing(w, j)

\* The invariant in terms of Covered.
LEMMA DeliverableIs ==
  QueuedIsDeliverable <=> \A j \in Jobs : status[j] = "queued" /\ ~lost[j] => Covered(j)
  BY DEF QueuedIsDeliverable, Covered, Sending, Sparing

\* A send adds a message and takes none.
LEMMA SentIsQueued ==
  ASSUME TInv, NEW j \in Jobs, NEW a \in {0, 1}, Send(j, a), NEW i \in Jobs
  PROVE  /\ i = j => \E b \in {0, 1} : queue'[i][b] > 0
         /\ \A b \in {0, 1} : queue[i][b] > 0 => queue'[i][b] > 0
  BY DEF Send, TInv, TableOK

\* QueuedIsDeliverable is inductive relative to TInv.
LEMMA DeliverableInductive == TInv /\ QueuedIsDeliverable /\ [Next]_vars => QueuedIsDeliverable'
<1> SUFFICES ASSUME TInv, QueuedIsDeliverable, [Next]_vars,
                    NEW i \in Jobs, status'[i] = "queued", ~lost'[i]
             PROVE  Covered(i)'
  BY DEF QueuedIsDeliverable, Covered, Sending, Sparing
<1>1. ASSUME status[i] = "queued", ~lost[i] PROVE Covered(i)
  BY <1>1, DeliverableIs
<1>2. ASSUME NEW w \in Workers, NEW s \in WorkerState, Become(w, s), ~Sparing(w, i),
             request' = request, status[i] = "queued", ~lost[i],
             \A b \in {0, 1} : queue[i][b] > 0 => queue'[i][b] > 0
      PROVE  Covered(i)'
  <2>1. \A v \in Workers \ {w} : worker'[v] = worker[v]
    BY <1>2, Becoming DEF TInv
  <2> QED  BY <1>1, <1>2, <2>1 DEF Covered, Sending, Sparing
<1>3. ASSUME NEW w \in Workers, NEW j \in Jobs, NEW a \in {0, 1}, Claim(w, j, a) \/ Drop(w, j, a)
      PROVE  Covered(i)'
  <2>1. i # j /\ status[i] = "queued" /\ ~lost[i]
    BY <1>3 DEF Claim, Drop, Claimable, TInv, TableOK, row, history
  <2>2. \A b \in {0, 1} : queue'[i][b] = queue[i][b]
    BY <1>3, <2>1 DEF Claim, Drop, TInv, TableOK
  <2>3. CASE Drop(w, j, a)
    BY <1>1, <2>1, <2>2, <2>3 DEF Drop, Covered, Sending, Sparing
  <2>4. CASE Claim(w, j, a)
    <3>1. \A v \in Workers : Sparing(v, i) => Sparing(v, i)'
      BY <2>4 DEF Claim, Become, Sparing, TInv, WorkersOK
    <3> QED  BY <1>1, <2>1, <2>2, <2>4, <3>1 DEF Claim, Covered, Sending
  <2> QED  BY <1>3, <2>3, <2>4
<1>4. ASSUME NEW w \in Workers, Step(w) \/ Progress(w) PROVE Covered(i)'
  <2> USE DEF history, row
  <2>1. PICK s \in WorkerState : Become(w, s)
    BY <1>4, StepBecomes
  <2>2. Busy(w) /\ worker[w] \in WorkerState /\ worker[w].job \in Jobs
    BY <1>4, StepBusy, BusyWorker
  <2>3. CASE ReadOnly(w)
    BY <1>2, <2>1, <2>3
    DEF ReadOnly, Load, Progress, Caught, Boundary, PolishDone, BodyDone, Raise, FlushError,
        Sparing
  <2>4. CASE Begin(w) \/ Confirm(w) \/ Settle(w) \/ StageDone(w) \/ Finish(w)
    BY <1>2, <2>1, <2>4
    DEF Begin, Confirm, Settle, StageDone, Finish, Flushed, Sparing, TInv, TableOK
  <2>5. CASE Failing(w) \/ Abort(w)
    <3>1. \A b \in {0, 1} : queue[i][b] > 0 => queue'[i][b] > 0
      BY <2>2, <2>5, SentIsQueued DEF Failing, Abort, RequeueFailed
    <3> QED  BY <1>2, <2>1, <2>5, <3>1 DEF Failing, Abort, Flushed, Sparing, TInv, TableOK
  <2>6. CASE Spawn(w)
    <3>1. CASE status' = status
      BY <1>2, <2>1, <2>6, <3>1 DEF Spawn, Sparing
    <3>2. ASSUME NEW c \in Jobs, Insert(c, "memory_polish"),
                 Become(w, [worker[w] EXCEPT !.at = "reload", !.child = c])
          PROVE  Covered(i)'
      <4>1. CASE i = c
        <5>1. Sparing(w, i)'
          BY <2>2, <3>2, <4>1 DEF Become, Sparing, WorkerState, TInv, WorkersOK
        <5> QED  BY <5>1 DEF Covered
      <4>2. CASE i # c
        BY <1>2, <2>1, <2>6, <3>2, <4>2 DEF Spawn, Sparing, Insert, TInv, TableOK
      <4> QED  BY <4>1, <4>2
    <3> QED  BY <2>6, <3>1, <3>2 DEF Spawn
  <2>7. CASE Reload(w)
    <3>1. CASE i = worker[w].child
      <4>1. /\ status[worker[w].job] = "succeeded"
            /\ child[worker[w].job] # NoJob
            /\ i = child[worker[w].job]
        BY <2>7, <3>1 DEF Reload
      <4>3. Become(w, [worker[w] EXCEPT !.at = "dispatch", !.seen = status[worker[w].job],
                                        !.child = child[worker[w].job]])
        BY <2>7, <4>1 DEF Reload
      <4>2. worker'[w].at = "dispatch" /\ worker'[w].child = i
        BY <2>2, <4>1, <4>3 DEF Become, WorkerState, TInv, WorkersOK
      <4> QED  BY <4>2 DEF Covered, Sparing
    <3>2. CASE i # worker[w].child
      BY <1>2, <2>1, <2>7, <3>2 DEF Reload, Sparing, TInv, TableOK
    <3> QED  BY <3>1, <3>2
  <2>8. CASE Dispatch(w)
    <3>1. worker[w].child \in Jobs
      BY <2>8 DEF Dispatch, TInv, WorkersOK, Sound
    <3>2. CASE i = worker[w].child
      BY <2>8, <3>1, <3>2, SentIsQueued DEF Dispatch, Covered
    <3>3. CASE i # worker[w].child
      BY <1>2, <2>1, <2>8, <3>1, <3>3, SentIsQueued DEF Dispatch, Sparing, TInv, TableOK
    <3> QED  BY <3>2, <3>3
  <2>9. CASE DispatchFails(w)
    BY <1>2, <2>1, <2>9 DEF DispatchFails, Sparing, TInv, TableOK, WorkersOK, Sound
  <2> QED
    BY <1>4, <2>3, <2>4, <2>5, <2>6, <2>7, <2>8, <2>9 DEF Step, ReadOnly
<1>5. ASSUME NEW w \in Workers, Crash(w) PROVE Covered(i)'
  <2>1. \A b \in {0, 1} : queue[i][b] > 0 => queue'[i][b] > 0
    BY <1>5, SentIsQueued, BusyWorker DEF Crash, Busy, WorkerState
  <2>2. [Idle EXCEPT !.at = "down"] \in WorkerState
    BY ConstantAssumption DEF Idle, WorkerState, WorkerAt, Statuses, Gone
  <2> QED  BY <1>2, <1>5, <2>1, <2>2 DEF Crash, Sparing, TInv, TableOK, row
<1>6. ASSUME NEW w \in Workers, Boot(w) PROVE Covered(i)'
  <2>1. Idle \in WorkerState
    BY ConstantAssumption DEF Idle, WorkerState, WorkerAt, Statuses, Gone
  <2> QED  BY <1>2, <1>6, <2>1 DEF Boot, Reclaimed, Leave, Sparing, TInv, TableOK, history
<1>7. ASSUME UNCHANGED <<queue, worker>>, status[i] = "queued", ~lost[i],
             \A r \in Requests : Sending(r, i) => Sending(r, i)'
      PROVE  Covered(i)'
  BY <1>1, <1>7 DEF Covered, Sparing
<1>8. CASE ApiNext
  <2> USE DEF TInv, TableOK, RequestsOK, row, history, Sending
  <2>1. ASSUME NEW r \in Requests, NEW j \in ApiJobs, NEW k \in Kinds, CreateJob(r, j, k)
        PROVE  Covered(i)'
    <3>1. CASE i = j
      BY <2>1, <3>1 DEF CreateJob, Covered
    <3>2. CASE i # j
      BY <1>7, <2>1, <3>2, ConstantAssumption DEF CreateJob, Insert
    <3> QED  BY <3>1, <3>2
  <2>2. ASSUME NEW r \in Requests, NEW j \in Jobs, NEW op \in Ops, Receive(r, op, j)
        PROVE  Covered(i)'
    BY <1>7, <2>2 DEF Receive
  <2>3. ASSUME NEW r \in Requests, Apply(r) PROVE Covered(i)'
    <3>1. CASE i = request[r].job /\ status[i] # "queued"
      <4>1. Sending(r, i)'
        BY <2>3, <3>1 DEF Apply, Flushed, RequestState, Gone
      <4> QED  BY <4>1 DEF Covered
    <3>2. CASE ~(i = request[r].job /\ status[i] # "queued")
      BY <1>7, <2>3, <3>2 DEF Apply, Flushed
    <3> QED  BY <3>1, <3>2
  <2>4. ASSUME NEW r \in Requests, Enqueue(r) PROVE Covered(i)'
    <3>1. CASE i = request[r].job
      BY <2>4, <3>1, SentIsQueued DEF Enqueue, Covered
    <3>2. CASE i # request[r].job
      <4>1. \A b \in {0, 1} : queue[i][b] > 0 => queue'[i][b] > 0
        BY <2>4, SentIsQueued DEF Enqueue
      <4>2. \A q \in Requests : Sending(q, i) => Sending(q, i)'
        BY <2>4, <3>2 DEF Enqueue
      <4>3. status[i] = "queued" /\ ~lost[i] /\ worker' = worker
        BY <2>4, <3>2 DEF Enqueue
      <4> QED  BY <1>1, <4>1, <4>2, <4>3 DEF Covered, Sparing
    <3> QED  BY <3>1, <3>2
  <2>5. ASSUME NEW r \in Requests, EnqueueFails(r) PROVE Covered(i)'
    BY <1>7, <2>5 DEF EnqueueFails, Flushed, Gone
  <2>6. CASE ApiRestart
    BY <1>7, <2>6 DEF ApiRestart, Reclaimed
  <2> QED  BY <1>8, <2>1, <2>2, <2>3, <2>4, <2>5, <2>6 DEF ApiNext
<1>9. CASE WorkerNext
  BY <1>3, <1>4, <1>5, <1>6, <1>9 DEF WorkerNext
<1>10. CASE UNCHANGED vars
  BY <1>1, <1>10 DEF vars, row, history, Covered, Sending, Sparing
<1> QED  BY <1>8, <1>9, <1>10 DEF Next

\* No interleaving of claims, dropped duplicates and user requests eats the last
\* message of a queued job.
THEOREM QueuedJobsAreDeliverable == Spec => []QueuedIsDeliverable
<1>1. Init => QueuedIsDeliverable
  BY DEF Init, QueuedIsDeliverable
<1> QED  BY <1>1, AlwaysTInv, DeliverableInductive, PTL DEF Spec

-----------------------------------------------------------------------------
(***************************************************************************)
(* What the checkpoint of an initialization is worth when one worker thread*)
(* consumes the queue, as in the compose file (--processes 1 --threads 1). *)
(* With two executors of one job each of these properties fails.           *)
(***************************************************************************)
OneWorker == \A v, w \in Workers : v = w

Carrying == {"begin", "boundary", "work", "finish"}

\* The worker carries what the checkpoint says, and all of it before the final
\* write.
Carries(w) ==
  worker[w].at \in Carrying /\ kind[worker[w].job] = "full_initialization"
    => /\ worker[w].done = completed[worker[w].job]
       /\ worker[w].at = "finish" => worker[w].done = NStages

CheckpointOK == (\A w \in Workers : Carries(w)) /\ SucceededIsComplete

Grows == \A j \in Jobs : completed'[j] >= completed[j]

\* Steps that leave the checkpoint and what the worker carries of it alone.
LEMMA StepFrame ==
  ASSUME TInv, CheckpointOK, RowsKept, NEW w \in Workers, \A v \in Workers : v = w,
         Busy(w), UNCHANGED completed,
         worker'[w].at \in Carrying =>
           /\ worker'[w].job = worker[w].job /\ worker'[w].done = worker[w].done
           /\ worker[w].at \in Carrying
           /\ kind[worker[w].job] = "full_initialization" /\ worker'[w].at = "finish"
                => worker[w].done = NStages,
         \A i \in Jobs : status'[i] = "succeeded" => status[i] = "succeeded" \/
                          (i = worker[w].job /\ kind[i] # "full_initialization")
  PROVE  CheckpointOK' /\ Grows
<1>1. \A i \in Jobs : status[i] # "absent" => kind'[i] = kind[i]
  BY DEF RowsKept
<1>2. worker[w].job \in Jobs /\ status[worker[w].job] # "absent"
  BY BusyWorker
<1>3. Carries(w)'
  BY <1>1, <1>2 DEF Carries, CheckpointOK
<1>4. SucceededIsComplete'
  BY <1>1, <1>2 DEF CheckpointOK, SucceededIsComplete
<1>5. Grows
  BY DEF Grows, TInv, TableOK
<1> QED  BY <1>3, <1>4, <1>5 DEF CheckpointOK

\* Every step of a handler keeps the invariant and takes no stage back.
LEMMA StepKeepsCheckpoint ==
  ASSUME TInv, CheckpointOK, NEW w \in Workers, \A v \in Workers : v = w,
         Step(w) \/ Progress(w)
  PROVE  CheckpointOK' /\ Grows
<1> DEFINE j == worker[w].job
<1>1. Busy(w) /\ worker[w] \in WorkerState /\ j \in Jobs /\ status[j] \in Statuses \ {"absent"}
  BY StepBusy, BusyWorker
<1>2. RowsKept /\ kind'[j] = kind[j]
  BY <1>1, MovesKeepTable DEF Moves, TableKept, RowsKept
<1>3. worker \in [Workers -> WorkerState] /\ TableOK
  BY DEF TInv, WorkersOK
<1> USE <1>1, <1>2, Moved, StepFrame DEF MovedTo, history, row, WorkerAt, Carrying
<1>4. CASE Load(w)
  <2>1. CASE Become(w, [worker[w] EXCEPT !.at = "begin", !.seen = status[j],
                                         !.done = completed[j]])
    <3>1. Carries(w)'
      BY <1>3, <1>4, <2>1 DEF Load, Become, WorkerState, Carries
    <3>2. SucceededIsComplete' /\ Grows
      BY <1>3, <1>4 DEF Load, CheckpointOK, SucceededIsComplete, Grows, TableOK
    <3> QED  BY <3>1, <3>2 DEF CheckpointOK
  <2>2. CASE worker'[w].at \notin Carrying
    BY <1>4, <2>2 DEF Load
  <2>3. CASE Become(w, [worker[w] EXCEPT !.at = "dispatch", !.seen = status[j],
                                         !.child = child[j]])
    <3>1. worker'[w].at = "dispatch"
      BY <1>3, <2>3 DEF Become, WorkerState
    <3> QED  BY <2>2, <3>1
  <2> QED  BY <1>4, <2>1, <2>2, <2>3 DEF Load
<1>5. CASE Begin(w)
  BY <1>3, <1>5 DEF Begin, Flushed, TableOK
<1>6. CASE Progress(w) \/ Confirm(w) \/ Caught(w) \/ Settle(w) \/ Raise(w) \/ FlushError(w)
  BY <1>3, <1>6 DEF Progress, Confirm, Caught, Settle, Raise, FlushError, Flushed, TableOK
<1>7. CASE Boundary(w)
  <2>1. worker[w].done \in 0..NStages
    BY <1>3 DEF WorkerState
  <2>2. worker'[w].at = "finish" => worker[w].done = NStages
    BY <1>7, <2>1, ConstantAssumption DEF Boundary
  <2> QED  BY <1>7, <2>2 DEF Boundary
<1>8. CASE StageDone(w)
  <2>1. CASE UNCHANGED completed
    <3>1. Goto(w, "failing") \/ See(w, "settle")
      BY <1>3, <1>8, <2>1 DEF StageDone, TableOK, CheckpointOK, Carries
    <3> QED  BY <1>8, <2>1, <3>1 DEF StageDone
  <2>2. CASE /\ completed' = [completed EXCEPT ![j] = worker[w].done + 1]
             /\ Become(w, [worker[w] EXCEPT !.at = "boundary", !.seen = status[j],
                                            !.done = worker[w].done + 1])
    <3>1. worker[w].done = completed[j] /\ completed[j] < NStages
      BY <1>3, <1>8 DEF StageDone, CheckpointOK, Carries, TInv, WorkersOK, Sound
    <3>2. Carries(w)'
      BY <1>3, <2>2 DEF Become, WorkerState, Carries, TableOK
    <3>3. SucceededIsComplete'
      BY <1>3, <1>8, <2>2, <3>1 DEF StageDone, CheckpointOK, SucceededIsComplete, TableOK
    <3>4. Grows
      BY <1>3, <2>2, <3>1 DEF Grows, TableOK
    <3> QED  BY <3>2, <3>3, <3>4 DEF CheckpointOK
  <2> QED  BY <1>8, <2>1, <2>2 DEF StageDone
<1>9. CASE PolishDone(w) \/ BodyDone(w)
  BY <1>9 DEF PolishDone, BodyDone, SettlingKinds
<1>10. CASE Finish(w)
  <2>1. CASE status[j] \in Gone
    BY <1>3, <1>10, <2>1 DEF Finish, Flushed, TableOK, Gone
  <2>2. CASE status[j] \notin Gone /\ kind[j] # "full_initialization"
    BY <1>3, <1>10, <2>2 DEF Finish, Flushed, TableOK
  <2>3. CASE status[j] \notin Gone /\ kind[j] = "full_initialization"
    <3>1. worker[w].done = completed[j] /\ completed[j] = NStages
      BY <1>10, <2>3 DEF Finish, CheckpointOK, Carries
    <3>2. worker'[w].at = "spawn" /\ completed' = completed
      BY <1>3, <1>10, <2>3, <3>1 DEF Finish, TableOK
    <3>3. Carries(w)'
      BY <3>2 DEF Carries
    <3>4. SucceededIsComplete'
      BY <1>3, <1>10, <3>1, <3>2 DEF Finish, Flushed, CheckpointOK, SucceededIsComplete, TableOK
    <3>5. Grows
      BY <1>3, <3>2 DEF Grows, TableOK
    <3> QED  BY <3>3, <3>4, <3>5 DEF CheckpointOK
  <2> QED  BY <2>1, <2>2, <2>3
<1>11. CASE Spawn(w)
  <2>1. CASE Leave(w) /\ status' = status
    BY <1>11, <2>1 DEF Spawn
  <2>2. ASSUME NEW c \in Jobs, Insert(c, "memory_polish"),
               Become(w, [worker[w] EXCEPT !.at = "reload", !.child = c])
        PROVE  CheckpointOK' /\ Grows
    <3>1. worker'[w].at = "reload"
      BY <1>3, <2>2 DEF Become, WorkerState
    <3>2. \A i \in Jobs : status'[i] = "succeeded" => status[i] = "succeeded"
      BY <1>3, <2>2 DEF Insert, TableOK
    <3>3. completed' = completed
      BY <1>11 DEF Spawn
    <3> QED  BY <3>1, <3>2, <3>3
  <2> QED  BY <1>11, <2>1, <2>2 DEF Spawn
<1>12. CASE Reload(w)
  <2>1. CASE Leave(w)
    BY <1>12, <2>1 DEF Reload
  <2>2. CASE Become(w, [worker[w] EXCEPT !.at = "dispatch", !.seen = status[j],
                                         !.child = child[j]])
    <3>1. worker'[w].at = "dispatch"
      BY <1>3, <2>2 DEF Become, WorkerState
    <3> QED  BY <1>12, <3>1 DEF Reload
  <2> QED  BY <1>12, <2>1, <2>2 DEF Reload
<1>13. CASE Dispatch(w) \/ DispatchFails(w)
  BY <1>13 DEF Dispatch, DispatchFails
<1>14. CASE Failing(w) \/ Abort(w)
  BY <1>3, <1>14 DEF Failing, Abort, Flushed, TableOK
<1> QED
  BY <1>4, <1>5, <1>6, <1>7, <1>8, <1>9, <1>10, <1>11, <1>12, <1>13, <1>14 DEF Step

\* Steps of the API, and of Redis: the worker does not move.
LEMMA IdleFrame ==
  ASSUME TInv, CheckpointOK, RowsKept, UNCHANGED <<completed, worker>>,
         \A i \in Jobs : status'[i] = "succeeded" => status[i] = "succeeded"
  PROVE  CheckpointOK' /\ Grows
<1>1. \A i \in Jobs : status[i] # "absent" => kind'[i] = kind[i]
  BY DEF RowsKept
<1>2. \A w \in Workers : Carries(w)'
  BY <1>1, BusyWorker DEF Carries, CheckpointOK, Carrying, Busy
<1>3. SucceededIsComplete' /\ Grows
  BY <1>1 DEF CheckpointOK, SucceededIsComplete, Grows, TInv, TableOK
<1> QED  BY <1>2, <1>3 DEF CheckpointOK

\* With one worker the invariant is inductive, and no step takes a stage back.
LEMMA CheckpointInductive ==
  ASSUME OneWorker
  PROVE  TInv /\ CheckpointOK /\ [Next]_vars => CheckpointOK' /\ Grows
<1> SUFFICES ASSUME TInv, CheckpointOK, [Next]_vars PROVE CheckpointOK' /\ Grows
  OBVIOUS
<1> USE DEF history, row
<1>1. ASSUME NEW w \in Workers, Step(w) \/ Progress(w) PROVE CheckpointOK' /\ Grows
  BY <1>1, StepKeepsCheckpoint DEF OneWorker
<1>2. ASSUME NEW w \in Workers, UNCHANGED completed, RowsKept,
             worker'[w].at \notin Carrying \/ kind'[worker'[w].job] # "full_initialization",
             \A i \in Jobs : status'[i] = "succeeded" => status[i] = "succeeded"
      PROVE  CheckpointOK' /\ Grows
  <2>1. Carries(w)'
    BY <1>2 DEF Carries
  <2>2. SucceededIsComplete' /\ Grows
    BY <1>2 DEF CheckpointOK, SucceededIsComplete, Grows, TInv, TableOK, RowsKept
  <2> QED  BY <2>1, <2>2 DEF OneWorker, CheckpointOK
<1>3. ASSUME NEW w \in Workers, NEW j \in Jobs, NEW a \in {0, 1}, Claim(w, j, a)
      PROVE  CheckpointOK' /\ Grows
  BY <1>2, <1>3
  DEF Claim, Claimable, Become, Carrying, RowsKept, TInv, TableOK, WorkersOK
<1>4. ASSUME NEW w \in Workers, Crash(w) \/ Boot(w) PROVE CheckpointOK' /\ Grows
  <2>1. worker'[w].at \in {"down", "idle"}
    BY <1>4 DEF Crash, Boot, Leave, Become, Idle, TInv, WorkersOK
  <2> QED
    BY <1>2, <1>4, <2>1 DEF Crash, Boot, Reclaimed, Carrying, RowsKept, TInv, TableOK
<1>5. CASE WorkerNext
  <2>1. ASSUME NEW w \in Workers, NEW j \in Jobs, NEW a \in {0, 1}, Drop(w, j, a)
        PROVE  CheckpointOK' /\ Grows
    BY <2>1, IdleFrame DEF Drop, RowsKept
  <2> QED  BY <1>1, <1>3, <1>4, <1>5, <2>1 DEF WorkerNext
<1>6. CASE ApiNext
  <2> USE IdleFrame DEF TInv, TableOK, RowsKept
  <2>1. ASSUME NEW r \in Requests, NEW j \in ApiJobs, NEW k \in Kinds, CreateJob(r, j, k)
        PROVE  CheckpointOK' /\ Grows
    BY <2>1, ConstantAssumption DEF CreateJob, Insert
  <2>2. ASSUME NEW r \in Requests, NEW j \in Jobs, NEW op \in Ops, Receive(r, op, j)
        PROVE  CheckpointOK' /\ Grows
    BY <2>2 DEF Receive
  <2>3. ASSUME NEW r \in Requests, Apply(r) PROVE CheckpointOK' /\ Grows
    <3>1. Target(request[r].op, request[r].seen) \notin {"succeeded", "absent"}
      BY DEF Target
    <3> QED  BY <2>3, <3>1 DEF Apply, Flushed
  <2>4. ASSUME NEW r \in Requests, Enqueue(r) \/ EnqueueFails(r)
        PROVE  CheckpointOK' /\ Grows
    BY <2>4 DEF Enqueue, EnqueueFails, Flushed
  <2>5. CASE ApiRestart
    BY <2>5 DEF ApiRestart, Reclaimed
  <2> QED  BY <1>6, <2>1, <2>2, <2>3, <2>4, <2>5 DEF ApiNext
<1>7. CASE UNCHANGED vars
  BY <1>7, IdleFrame DEF vars, RowsKept
<1> QED  BY <1>5, <1>6, <1>7 DEF Next

\* It holds in every reachable state.
LEMMA AlwaysCheckpointOK ==
  ASSUME OneWorker
  PROVE  Spec => []CheckpointOK
<1>1. Init => CheckpointOK
  BY DEF Init, CheckpointOK, Carries, Carrying, SucceededIsComplete, Idle
<1> QED  BY <1>1, AlwaysTInv, CheckpointInductive, PTL DEF Spec

\* An initialization that reads succeeded has every stage in its checkpoint, over
\* all pauses, failures, crashes, cancellations and retries on the way.
THEOREM SucceededMeansComplete ==
  ASSUME OneWorker
  PROVE  Spec => []SucceededIsComplete
<1>1. CheckpointOK => SucceededIsComplete
  BY DEF CheckpointOK
<1> QED  BY <1>1, AlwaysCheckpointOK, PTL

\* README: a completed pass is never executed again.
THEOREM NoCompletedStageRuns ==
  ASSUME OneWorker
  PROVE  Spec => []CompletedStageNotRerun
<1>1. TInv /\ CheckpointOK => CompletedStageNotRerun
  <2> SUFFICES ASSUME TInv, CheckpointOK, NEW w \in Workers, worker[w].at = "work",
                      kind[worker[w].job] = "full_initialization"
               PROVE  completed[worker[w].job] <= worker[w].done
    BY DEF CompletedStageNotRerun
  <2>1. worker[w].done = completed[worker[w].job] /\ worker[w].done \in 0..NStages
    BY DEF CheckpointOK, Carries, Carrying, TInv, WorkersOK, WorkerState
  <2> QED  BY <2>1
<1> QED  BY <1>1, AlwaysTInv, AlwaysCheckpointOK, PTL

\* No step of any process takes a checkpoint back.
THEOREM CheckpointsGrow ==
  ASSUME OneWorker
  PROVE  Spec => CheckpointGrows
<1>1. TInv /\ CheckpointOK /\ [Next]_vars
        => [\A j \in Jobs : completed'[j] >= completed[j]]_completed
  BY CheckpointInductive DEF Grows
<1> QED  BY <1>1, AlwaysTInv, AlwaysCheckpointOK, PTL DEF Spec, CheckpointGrows

-----------------------------------------------------------------------------
(***************************************************************************)
(* JobLifecycle implements JobTickets, for every set of jobs, workers and  *)
(* requests and every fault.  Each step either leaves the set of queued    *)
(* jobs and both counters alone, or takes one job out of it, or puts one   *)
(* job into it.                                                            *)
(***************************************************************************)
\* The action of the abstract specification, or a stutter of it.
TicketStep == [Tickets!Next]_(Tickets!vars)

QueuedJobs == {j \in Jobs : status[j] = "queued"}

\* A write to job j that does not queue it withdraws its ticket or does nothing.
LEMMA WriteIsTicketStep ==
  ASSUME NEW j \in Jobs, UNCHANGED <<entered, granted>>,
         \A i \in Jobs : status'[i] = "queued" => status[i] = "queued",
         \A i \in Jobs \ {j} : status[i] = "queued" => status'[i] = "queued"
  PROVE  TicketStep
<1>1. CASE QueuedJobs' = QueuedJobs
  BY <1>1 DEF TicketStep, Tickets!vars, QueuedJobs
<1>2. CASE QueuedJobs' # QueuedJobs
  <2>1. j \in QueuedJobs /\ QueuedJobs' = QueuedJobs \ {j}
    BY <1>2 DEF QueuedJobs
  <2> QED  BY <2>1 DEF TicketStep, Tickets!Next, Tickets!Withdraw, QueuedJobs
<1> QED  BY <1>1, <1>2

\* A step that keeps who is queued is a stutter.
LEMMA QuietIsTicketStep ==
  ASSUME UNCHANGED <<entered, granted>>,
         \A i \in Jobs : status'[i] = "queued" <=> status[i] = "queued"
  PROVE  TicketStep
  BY DEF TicketStep, Tickets!vars

\* Putting one job to queued and counting it issues a ticket.
LEMMA QueueingIsTicketStep ==
  ASSUME NEW j \in Jobs, status[j] # "queued", entered' = entered,
         status \in [Jobs -> Statuses],
         status' = [status EXCEPT ![j] = "queued"],
         granted' = [granted EXCEPT ![j] = @ + 1]
  PROVE  TicketStep
<1>1. QueuedJobs' = QueuedJobs \cup {j} /\ j \notin QueuedJobs
  BY DEF QueuedJobs
<1> QED  BY <1>1 DEF TicketStep, Tickets!Next, Tickets!Issue, QueuedJobs

\* claim_job uses the ticket of its job.
LEMMA ClaimIsTicketStep ==
  ASSUME TInv, NEW w \in Workers, NEW j \in Jobs, NEW a \in {0, 1}, Claim(w, j, a)
  PROVE  TicketStep
<1>1. j \in QueuedJobs /\ QueuedJobs' = QueuedJobs \ {j}
  BY DEF Claim, Claimable, QueuedJobs, TInv, TableOK
<1> QED  BY <1>1 DEF Claim, TicketStep, Tickets!Next, Tickets!Use, QueuedJobs

\* Every other step of a worker is a ticket step.
LEMMA MovesAreTicketSteps ==
  ASSUME TInv, NEW w \in Workers, Moves(w)
  PROVE  TicketStep
<1> USE DEF history, row
<1>1. CASE ReadOnly(w)
  BY <1>1, QuietIsTicketStep
  DEF ReadOnly, Load, Progress, Caught, Boundary, PolishDone, BodyDone, Raise, FlushError
<1>2. CASE Begin(w) \/ Confirm(w) \/ Settle(w) \/ Finish(w) \/ Abort(w)
  <2> DEFINE j == worker[w].job
  <2>1. j \in Jobs
    BY <1>2, BusyWorker DEF Begin, Confirm, Settle, Finish, Abort, Busy
  <2>2. UNCHANGED <<entered, granted>>
    BY <1>2 DEF Begin, Confirm, Settle, Finish, Abort
  <2>3. \A i \in Jobs \ {j} : status'[i] = status[i]
    BY <1>2, <2>1 DEF Begin, Confirm, Settle, Finish, Abort, Flushed, TInv, TableOK
  <2>4. status'[j] = "queued" => status[j] = "queued"
    BY <1>2, <2>1 DEF Begin, Confirm, Settle, Finish, Abort, Flushed, TInv, TableOK
  <2> QED  BY <2>1, <2>2, <2>3, <2>4, WriteIsTicketStep
<1>3. CASE StageDone(w) \/ Failing(w) \/ Reload(w) \/ Dispatch(w) \/ DispatchFails(w)
            \/ Crash(w)
  BY <1>3, QuietIsTicketStep
  DEF StageDone, Failing, Reload, Dispatch, DispatchFails, Crash
<1>4. CASE Spawn(w)
  <2>1. CASE UNCHANGED <<status, granted>>
    BY <1>4, <2>1, QuietIsTicketStep DEF Spawn
  <2>2. ASSUME NEW c \in Jobs, Insert(c, "memory_polish") PROVE TicketStep
    BY <1>4, <2>2, QueueingIsTicketStep DEF Spawn, Insert, TInv, TableOK
  <2> QED  BY <1>4, <2>1, <2>2 DEF Spawn
<1>5. CASE Boot(w)
  BY <1>5, QuietIsTicketStep DEF Boot, Reclaimed
<1> QED  BY <1>1, <1>2, <1>3, <1>4, <1>5 DEF Moves, Step, ReadOnly

\* The commit of a handler issues a ticket, withdraws one, or does neither.
LEMMA ApplyIsTicketStep ==
  ASSUME TInv, NEW r \in Requests, Apply(r)
  PROVE  TicketStep
<1> DEFINE j == request[r].job
           to == Target(request[r].op, request[r].seen)
<1>1. j \in Jobs /\ status \in [Jobs -> Statuses] /\ entered' = entered
  BY DEF Apply, TInv, TableOK, RequestsOK
<1>2. status' = status \/ status' = [status EXCEPT ![j] = to]
  BY DEF Apply, Flushed
<1>3. CASE status'[j] = "queued" /\ status[j] # "queued"
  <2>1. to = "queued" /\ status' = [status EXCEPT ![j] = "queued"]
    BY <1>1, <1>2, <1>3
  <2>2. granted' = [granted EXCEPT ![j] = @ + 1]
    BY <1>3, <2>1 DEF Apply
  <2> QED  BY <1>1, <1>3, <2>1, <2>2, QueueingIsTicketStep
<1>4. CASE ~(status'[j] = "queued" /\ status[j] # "queued")
  <2>1. granted' = granted
    BY <1>4 DEF Apply
  <2>2. \A i \in Jobs \ {j} : status'[i] = status[i]
    BY <1>1, <1>2
  <2> QED  BY <1>1, <1>4, <2>1, <2>2, WriteIsTicketStep
<1> QED  BY <1>3, <1>4

\* So do the other steps of the API.
LEMMA ApiIsTicketStep == ASSUME TInv, ApiNext PROVE TicketStep
<1> USE DEF TInv, TableOK, history, row
<1>1. ASSUME NEW r \in Requests, NEW j \in ApiJobs, NEW k \in Kinds, CreateJob(r, j, k)
      PROVE  TicketStep
  <2>1. j \in Jobs
    BY ConstantAssumption
  <2> QED  BY <1>1, <2>1, QueueingIsTicketStep DEF CreateJob, Insert
<1>2. ASSUME NEW r \in Requests, NEW j \in Jobs, NEW op \in Ops, Receive(r, op, j)
      PROVE  TicketStep
  BY <1>2, QuietIsTicketStep DEF Receive
<1>3. ASSUME NEW r \in Requests, Enqueue(r) PROVE TicketStep
  BY <1>3, QuietIsTicketStep DEF Enqueue
<1>4. ASSUME NEW r \in Requests, EnqueueFails(r) PROVE TicketStep
  <2>1. request[r].job \in Jobs
    BY <1>4 DEF EnqueueFails, RequestsOK
  <2> QED  BY <1>4, <2>1, WriteIsTicketStep DEF EnqueueFails, Flushed
<1>5. CASE ApiRestart
  BY <1>5, QuietIsTicketStep DEF ApiRestart, Reclaimed
<1> QED  BY <1>1, <1>2, <1>3, <1>4, <1>5, ApplyIsTicketStep DEF ApiNext

\* Every step of JobLifecycle is a ticket step.
LEMMA NextIsTicketStep == TInv /\ [Next]_vars => TicketStep
<1> SUFFICES ASSUME TInv, [Next]_vars PROVE TicketStep
  OBVIOUS
<1>1. CASE ApiNext
  BY <1>1, ApiIsTicketStep
<1>2. CASE WorkerNext
  <2>1. ASSUME NEW w \in Workers, NEW j \in Jobs, NEW a \in {0, 1}, Drop(w, j, a)
        PROVE  TicketStep
    BY <2>1, QuietIsTicketStep DEF Drop, row, history
  <2> QED  BY <1>2, <2>1, ClaimIsTicketStep, MovesAreTicketSteps DEF WorkerNext, Moves
<1>3. CASE UNCHANGED vars
  BY <1>3, QuietIsTicketStep DEF vars, row, history
<1> QED  BY <1>1, <1>2, <1>3 DEF Next

\* claim_job, the guards of the handlers and the stale writes of workers together
\* implement the box of tickets: whatever Redis delivers and whoever crashes, each
\* time a job is queued lets at most one execution into its business logic.
THEOREM JobsAreTickets == Spec => ImplementsTickets
<1>1. Init => Tickets!Init
  BY DEF Init, Tickets!Init
<1>2. TInv /\ [Next]_vars => [Tickets!Next]_(Tickets!vars)
  BY NextIsTicketStep DEF TicketStep
<1> QED  BY <1>1, <1>2, AlwaysTInv, PTL DEF Spec, ImplementsTickets, Tickets!Spec
=============================================================================
