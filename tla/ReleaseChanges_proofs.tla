----------------------- MODULE ReleaseChanges_proofs -----------------------
(***************************************************************************)
(* Proofs about ReleaseChanges for every history of the branch, every       *)
(* number of workers, requests, retries and faults.                         *)
(***************************************************************************)
EXTENDS ReleaseChanges, TLAPS

Statuses == {"pending", "processing", "succeeded", "retryable"}

\* GitLab, the mirror, the index and the history variables.
PlainOK ==
  /\ tip \in Commits
  /\ pushes \in 0..MaxPushes
  /\ hooks \subseteq Hook
  /\ sync \in SyncState
  /\ mirrored \subseteq Commits
  /\ index \in [Files -> Nat]
  /\ indexedTo \in Shas
  /\ chained \in BOOLEAN
  /\ faults \in Nat

\* Whatever names a row names one that exists.
RowsOK ==
  /\ changes \in Seq(Change)
  /\ exhausted \subseteq Rows
  /\ unsent \subseteq Rows

QueueOK ==
  /\ queue \subseteq Message
  /\ \A m \in queue : m.change \in Rows

Handling == {"fetch", "index", "finish", "raised", "ack"}

SoundWorker(s) ==
  /\ s.at \in Handling => s.change \in Rows
  /\ s.at \notin Handling => s.change = 0
  /\ s.at \in {"sync", "scan"} => s.sha \in Commits

WorkersOK ==
  /\ worker \in [Workers -> WorkerState]
  /\ \A w \in Workers : SoundWorker(worker[w])

SoundRequest(q, rows) ==
  /\ q.at \in {"lookup", "insert", "send"} => q.after \in Commits
  /\ q.at = "send" => q.change \in rows

RequestsOK ==
  /\ request \in [Requests -> RequestState]
  /\ \A r \in Requests : SoundRequest(request[r], Rows)

TInv == PlainOK /\ RowsOK /\ QueueOK /\ WorkersOK /\ RequestsOK

\* No row disappears, and of a row only the status changes.
RowsKept ==
  /\ Rows \subseteq Rows'
  /\ \A i \in Rows : /\ changes'[i].before = changes[i].before
                     /\ changes'[i].after  = changes[i].after
                     /\ changes'[i].source = changes[i].source

\* The strengthened invariant contains the type invariant.
LEMMA Typed == TInv => TypeOK
  BY DEF TInv, PlainOK, RowsOK, QueueOK, WorkersOK, RequestsOK, TypeOK, Rows

\* What an idle worker and an idle request look like is sound.
LEMMA IdleSound ==
  /\ IdleWorker \in WorkerState
  /\ IdleWorker.at = "idle" /\ IdleWorker.change = 0
  /\ SoundWorker(IdleWorker)
  /\ NoRequest \in RequestState
  /\ NoRequest.at = "idle"
  /\ SoundRequest(NoRequest, Rows)
  BY ReleaseAssumption DEF IdleWorker, NoRequest, WorkerState, RequestState, SoundWorker,
     SoundRequest, Handling, Shas, SyncState

\* The first state satisfies it.
LEMMA InitTInv == Init => TInv
<1> SUFFICES ASSUME Init PROVE TInv
  OBVIOUS
<1>1. PlainOK
  BY ReleaseAssumption DEF Init, PlainOK, SyncState, Shas, Empty
<1>2. RowsOK /\ QueueOK
  BY DEF Init, RowsOK, QueueOK
<1>3. WorkersOK /\ RequestsOK
  BY IdleSound DEF Init, WorkersOK, RequestsOK
<1> QED  BY <1>1, <1>2, <1>3 DEF TInv

\* Writing the status of a row.
LEMMA SettingStatus ==
  ASSUME TInv, NEW i \in Rows, NEW s \in Statuses, SetStatus(i, s)
  PROVE  /\ changes' \in Seq(Change)
         /\ Rows' = Rows
         /\ changes'[i].status = s
         /\ \A j \in Rows \ {i} : changes'[j] = changes[j]
         /\ RowsKept
<1>1. changes[i] \in Change
  BY DEF TInv, RowsOK, Rows
<1>2. [changes[i] EXCEPT !.status = s] \in Change
  BY <1>1 DEF Change, Statuses
<1>3. changes' \in Seq(Change)
  BY <1>2 DEF SetStatus, TInv, RowsOK, Rows
<1>4. Rows' = Rows
  BY DEF SetStatus, Rows
<1>5. changes' = [changes EXCEPT ![i] = [changes[i] EXCEPT !.status = s]]
  BY DEF SetStatus
<1>6. changes'[i] = [changes[i] EXCEPT !.status = s]
  BY <1>5 DEF Rows
<1>7. \A j \in Rows \ {i} : changes'[j] = changes[j]
  BY <1>5 DEF Rows
<1>8. RowsKept
  BY <1>1, <1>4, <1>6, <1>7 DEF RowsKept, Change
<1> QED  BY <1>1, <1>3, <1>4, <1>6, <1>7, <1>8 DEF Change

\* Appending a row.
LEMMA Appending ==
  ASSUME TInv, NEW c \in Change, changes' = Append(changes, c)
  PROVE  /\ changes' \in Seq(Change)
         /\ Rows' = Rows \cup {Len(changes) + 1}
         /\ Len(changes) + 1 \notin Rows
         /\ Len(changes) + 1 \in Nat
         /\ changes'[Len(changes) + 1] = c
         /\ \A j \in Rows : changes'[j] = changes[j]
         /\ RowsKept
<1>1. /\ changes' \in Seq(Change)
      /\ Rows' = Rows \cup {Len(changes) + 1}
      /\ Len(changes) + 1 \notin Rows
      /\ Len(changes) + 1 \in Nat
      /\ changes'[Len(changes) + 1] = c
      /\ \A j \in Rows : changes'[j] = changes[j]
  BY DEF TInv, RowsOK, Rows
<1> QED  BY <1>1 DEF RowsKept

\* Become moves one worker and no other.
LEMMA Becoming ==
  ASSUME TInv, NEW w \in Workers, NEW s \in WorkerState, Become(w, s)
  PROVE  /\ worker' \in [Workers -> WorkerState]
         /\ worker'[w] = s
         /\ \A v \in Workers \ {w} : worker'[v] = worker[v]
  BY DEF TInv, WorkersOK, Become

\* A worker may become any record that is sound for the new table.
LEMMA BecomeKeeps ==
  ASSUME TInv, RowsKept, NEW w \in Workers, NEW s \in WorkerState, SoundWorker(s),
         Become(w, s)
  PROVE  WorkersOK'
<1>1. \A v \in Workers \ {w} : SoundWorker(worker[v])'
  BY Becoming DEF TInv, WorkersOK, SoundWorker, RowsKept
<1>2. SoundWorker(s)'
  BY DEF SoundWorker, RowsKept
<1> QED  BY <1>1, <1>2, Becoming DEF WorkersOK

\* The other parts of TInv survive a step that leaves their variables alone.
LEMMA QueueKept == TInv /\ RowsKept /\ UNCHANGED queue => QueueOK'
  BY DEF TInv, QueueOK, RowsKept

LEMMA WorkersKept == TInv /\ RowsKept /\ UNCHANGED worker => WorkersOK'
  BY DEF TInv, WorkersOK, SoundWorker, RowsKept

LEMMA RequestsKept == TInv /\ RowsKept /\ UNCHANGED request => RequestsOK'
  BY DEF TInv, RequestsOK, SoundRequest, RowsKept

LEMMA RowsUnchanged == UNCHANGED changes => RowsKept /\ Rows' = Rows
  BY DEF RowsKept, Rows

\* One request moves to a sound record.
LEMMA RequestMoves ==
  ASSUME TInv, RowsKept, NEW r \in Requests, NEW q \in RequestState, SoundRequest(q, Rows'),
         request' = [request EXCEPT ![r] = q]
  PROVE  /\ RequestsOK'
         /\ request'[r] = q
         /\ \A p \in Requests \ {r} : request'[p] = request[p]
<1>1. /\ request' \in [Requests -> RequestState]
      /\ request'[r] = q
      /\ \A p \in Requests \ {r} : request'[p] = request[p]
  BY DEF TInv, RequestsOK
<1>2. \A p \in Requests \ {r} : SoundRequest(request[p], Rows')
  BY <1>1 DEF TInv, RequestsOK, SoundRequest, RowsKept
<1> QED  BY <1>1, <1>2 DEF RequestsOK
-----------------------------------------------------------------------------
(***************************************************************************)
(* TInv is inductive: GitLab, the API, the workers.                        *)
(***************************************************************************)
LEMMA GitLabKeeps ==
  ASSUME TInv, \/ \E c \in Commits : Push(c)
               \/ \E h \in hooks : LoseHook(h)
  PROVE  TInv'
<1>1. UNCHANGED <<changes, queue, worker, request, history, mirrored, index, sync, faults>>
  BY DEF Push, LoseHook
<1>2. PlainOK'
  <2>1. CASE \E c \in Commits : Push(c)
    <3>1. PICK c \in Commits : Push(c)
      BY <2>1
    <3>2. HooksOf(tip, c) \subseteq Hook
      BY ReleaseAssumption DEF HooksOf, Hook, Shas, TInv, PlainOK
    <3>3. /\ tip' \in Commits
          /\ pushes' \in 0..MaxPushes
          /\ hooks' \subseteq Hook
      BY <3>1, <3>2, ReleaseAssumption DEF Push, TInv, PlainOK
    <3> QED  BY <1>1, <3>3 DEF TInv, PlainOK, history
  <2>2. CASE \E h \in hooks : LoseHook(h)
    BY <1>1, <2>2 DEF LoseHook, TInv, PlainOK, history
  <2> QED  BY <2>1, <2>2
<1>3. RowsOK'
  BY <1>1 DEF TInv, RowsOK, Rows, history
<1> QED  BY <1>1, <1>2, <1>3, RowsUnchanged, QueueKept, WorkersKept, RequestsKept
         DEF TInv

LEMMA WebhookKeeps ==
  ASSUME TInv, NEW r \in Requests, NEW h \in hooks, Webhook(r, h)
  PROVE  TInv'
<1> DEFINE q == [NoRequest EXCEPT !.at = "insert", !.before = h.before, !.after = h.after]
<1>1. h \in Hook
  BY DEF TInv, PlainOK
<1>2. UNCHANGED <<changes, queue, worker, history, mirrored, index, sync, faults, tip, pushes>>
  BY DEF Webhook
<1>3. RowsKept /\ Rows' = Rows
  BY <1>2, RowsUnchanged
<1>4. PlainOK' /\ RowsOK'
  BY <1>2 DEF Webhook, TInv, PlainOK, RowsOK, Rows, history
<1>5. q \in RequestState /\ SoundRequest(q, Rows')
  BY <1>1, IdleSound DEF NoRequest, Hook, RequestState, SoundRequest, Shas
<1>6. RequestsOK'
  <2>1. CASE request' = request
    BY <2>1, <1>3, RequestsKept
  <2>2. CASE request' = [request EXCEPT ![r] = q]
    BY <2>2, <1>3, <1>5, RequestMoves
  <2> QED  BY <2>1, <2>2 DEF Webhook
<1> QED  BY <1>2, <1>3, <1>4, <1>6, QueueKept, WorkersKept DEF TInv

LEMMA ReconcileKeeps ==
  ASSUME TInv, NEW r \in Requests, Reconcile(r) \/ Compare(r) \/ Lookup(r)
  PROVE  TInv'
<1>1. UNCHANGED <<changes, queue, worker, history, mirrored, index, faults, gitlab>>
  BY DEF Reconcile, Compare, Lookup
<1>2. RowsKept /\ Rows' = Rows
  BY <1>1, RowsUnchanged
<1>3. request[r] \in RequestState /\ SoundRequest(request[r], Rows)
  BY DEF TInv, RequestsOK
<1>4. CASE Reconcile(r)
  <2> DEFINE q == [NoRequest EXCEPT !.at = "compare", !.source = "reconcile",
                                     !.before = sync.synced, !.remote = sync.remote]
  <2>1. q \in RequestState /\ SoundRequest(q, Rows')
    BY IdleSound DEF NoRequest, RequestState, SoundRequest, SyncState, TInv, PlainOK
  <2>2. RequestsOK'
    BY <1>2, <1>4, <2>1, RequestMoves DEF Reconcile
  <2>3. PlainOK' /\ RowsOK'
    BY <1>1, <1>4 DEF Reconcile, TInv, PlainOK, RowsOK, Rows, history, gitlab
  <2> QED  BY <1>1, <1>2, <2>2, <2>3, QueueKept, WorkersKept DEF TInv
<1>5. CASE Compare(r)
  <2> DEFINE q == IF tip \in {request[r].remote, request[r].before} THEN NoRequest
                  ELSE [request[r] EXCEPT !.at = "lookup", !.after = tip]
  <2>1. q \in RequestState /\ SoundRequest(q, Rows')
    <3>1. SoundRequest(NoRequest, Rows')
      BY IdleSound DEF SoundRequest
    <3> QED  BY <1>3, <3>1, IdleSound DEF RequestState, SoundRequest, TInv, PlainOK, Shas
  <2>2. RequestsOK'
    BY <1>2, <1>5, <2>1, RequestMoves DEF Compare
  <2>3. PlainOK' /\ RowsOK'
    BY <1>1, <1>5 DEF Compare, TInv, PlainOK, RowsOK, Rows, history, gitlab
  <2> QED  BY <1>1, <1>2, <2>2, <2>3, QueueKept, WorkersKept DEF TInv
<1>6. CASE Lookup(r)
  <2> DEFINE known == Known(request[r].before, request[r].after)
             q == IF known THEN NoRequest ELSE [request[r] EXCEPT !.at = "insert"]
  <2>1. q \in RequestState /\ SoundRequest(q, Rows')
    <3>1. SoundRequest(NoRequest, Rows')
      BY IdleSound DEF SoundRequest
    <3> QED  BY <1>3, <1>6, <3>1, IdleSound DEF RequestState, SoundRequest, Lookup
  <2>2. RequestsOK'
    BY <1>2, <1>6, <2>1, RequestMoves DEF Lookup
  <2>3. sync' \in SyncState
    BY <1>3, <1>6 DEF Lookup, TInv, PlainOK, SyncState, SoundRequest, Shas
  <2>4. PlainOK' /\ RowsOK'
    BY <1>1, <2>3 DEF TInv, PlainOK, RowsOK, Rows, history, gitlab
  <2> QED  BY <1>1, <1>2, <2>2, <2>4, QueueKept, WorkersKept DEF TInv
<1> QED  BY <1>4, <1>5, <1>6

\* The record the INSERT writes, and whether change_key lets it in.
NewRow(q) == [before |-> q.before, after |-> q.after, source |-> q.source,
              status |-> "pending"]

Twin(q) == \E i \in Rows : changes[i].before = q.before /\ changes[i].after = q.after

\* The two outcomes of Insert.
LEMMA Inserting ==
  ASSUME TInv, NEW r \in Requests, Insert(r)
  PROVE  /\ request[r].at = "insert"
         /\ NewRow(request[r]) \in Change
         /\ \/ /\ Twin(request[r])
               /\ UNCHANGED changes
               /\ request' = [request EXCEPT ![r] = NoRequest]
            \/ /\ ~Twin(request[r])
               /\ changes' = Append(changes, NewRow(request[r]))
               /\ request' = [request EXCEPT ![r] =
                                [request[r] EXCEPT !.at = "send", !.change = Len(changes) + 1]]
<1>1. request[r] \in RequestState /\ SoundRequest(request[r], Rows)
  BY DEF TInv, RequestsOK
<1>2. NewRow(request[r]) \in Change
  BY <1>1 DEF Insert, NewRow, Change, RequestState, SoundRequest
<1> QED  BY <1>2 DEF Insert, NewRow, Twin

LEMMA InsertKeeps ==
  ASSUME TInv, NEW r \in Requests, Insert(r)
  PROVE  TInv'
<1> DEFINE new == [request[r] EXCEPT !.at = "send", !.change = Len(changes) + 1]
<1>1. request[r] \in RequestState /\ SoundRequest(request[r], Rows) /\ request[r].at = "insert"
  BY DEF TInv, RequestsOK, Insert
<1>2. UNCHANGED <<queue, worker, history, mirrored, index, faults, gitlab>>
  BY DEF Insert
<1>3. sync' \in SyncState
  BY <1>1 DEF Insert, TInv, PlainOK, SyncState, SoundRequest, Shas
<1>4. PlainOK'
  BY <1>2, <1>3 DEF TInv, PlainOK, history, gitlab
<1>5. RowsKept /\ RowsOK' /\ RequestsOK'
  <2>1. CASE Twin(request[r])
    <3>1. UNCHANGED changes /\ request' = [request EXCEPT ![r] = NoRequest]
      BY <2>1, Inserting
    <3>2. SoundRequest(NoRequest, Rows')
      BY IdleSound DEF SoundRequest
    <3> QED  BY <1>2, <3>1, <3>2, IdleSound, RowsUnchanged, RequestMoves
             DEF TInv, RowsOK, history
  <2>2. CASE ~Twin(request[r])
    <3>1. changes' = Append(changes, NewRow(request[r])) /\ NewRow(request[r]) \in Change
          /\ request' = [request EXCEPT ![r] = new]
      BY <2>2, Inserting
    <3>2. /\ RowsKept
          /\ changes' \in Seq(Change)
          /\ Rows' = Rows \cup {Len(changes) + 1}
          /\ Len(changes) + 1 \in Nat
      BY <3>1, Appending
    <3>3. new \in RequestState /\ SoundRequest(new, Rows')
      BY <1>1, <3>2 DEF RequestState, SoundRequest
    <3>4. RequestsOK'
      BY <3>1, <3>2, <3>3, RequestMoves
    <3> QED  BY <1>2, <3>2, <3>4 DEF TInv, RowsOK, history
  <2> QED  BY <2>1, <2>2
<1> QED  BY <1>2, <1>4, <1>5, QueueKept, WorkersKept DEF TInv

LEMMA SendKeeps ==
  ASSUME TInv, NEW r \in Requests, Send(r) \/ SendFails(r)
  PROVE  TInv'
<1>1. /\ request[r] \in RequestState
      /\ request[r].at = "send"
      /\ request[r].change \in Rows
  BY DEF Send, SendFails, TInv, RequestsOK, SoundRequest
<1>2. /\ UNCHANGED <<changes, worker, mirrored, index, faults, gitlab, sync, indexedTo,
                     chained, exhausted>>
      /\ request' = [request EXCEPT ![r] = NoRequest]
  BY DEF Send, SendFails, history
<1>3. RowsKept /\ Rows' = Rows
  BY <1>2, RowsUnchanged
<1>4. RequestsOK'
  <2>1. SoundRequest(NoRequest, Rows')
    BY IdleSound DEF SoundRequest
  <2> QED  BY <1>2, <1>3, <2>1, IdleSound, RequestMoves
<1>5. [change |-> request[r].change, attempt |-> 0] \in Message
  BY <1>1, ReleaseAssumption DEF Message, RequestState
<1>6. RowsOK'
  BY <1>1, <1>2, <1>3 DEF Send, SendFails, TInv, RowsOK, history
<1>7. QueueOK'
  BY <1>1, <1>3, <1>5 DEF Send, SendFails, TInv, QueueOK
<1>8. PlainOK'
  BY <1>2 DEF TInv, PlainOK, gitlab
<1> QED  BY <1>2, <1>3, <1>4, <1>6, <1>7, <1>8, WorkersKept DEF TInv

LEMMA ApiCrashKeeps == ASSUME TInv, ApiCrash PROVE TInv'
<1>1. UNCHANGED <<changes, worker, mirrored, index, gitlab, sync, indexedTo, chained,
                  exhausted, queue>>
  BY DEF ApiCrash
<1>2. RowsKept /\ Rows' = Rows
  BY <1>1, RowsUnchanged
<1>3. RequestsOK'
  <2>1. SoundRequest(NoRequest, Rows')
    BY IdleSound DEF SoundRequest
  <2> QED  BY <2>1, IdleSound DEF ApiCrash, RequestsOK
<1>4. RowsOK'
  BY <1>1, <1>2 DEF ApiCrash, TInv, RowsOK, RequestsOK, SoundRequest
<1>5. PlainOK'
  BY <1>1 DEF ApiCrash, TInv, PlainOK, gitlab
<1> QED  BY <1>1, <1>2, <1>3, <1>4, <1>5, WorkersKept, QueueKept DEF TInv
\* What is known of a worker that handles a message.
LEMMA HandlingWorker ==
  ASSUME TInv, NEW w \in Workers
  PROVE  /\ worker[w] \in WorkerState
         /\ worker[w].at \in Handling => worker[w].change \in Rows
         /\ worker[w].at \notin Handling => worker[w].change = 0
         /\ worker[w].at \in {"sync", "scan"} => worker[w].sha \in Commits
  BY DEF TInv, WorkersOK, SoundWorker

LEMMA RowIsTyped ==
  ASSUME TInv, NEW i \in Rows
  PROVE  /\ changes[i] \in Change
         /\ i \in Nat /\ i # 0
  BY DEF TInv, RowsOK, Rows

\* Moving on within process_release_change, with files or without.
LEMMA MoveKeeps ==
  ASSUME TInv, RowsKept, NEW w \in Workers, worker[w].at \in Handling,
         NEW at \in Handling, NEW files \in SUBSET Files,
         Become(w, [worker[w] EXCEPT !.at = at, !.files = files])
  PROVE  WorkersOK'
<1> DEFINE s == [worker[w] EXCEPT !.at = at, !.files = files]
<1>1. s \in WorkerState
  BY HandlingWorker DEF WorkerState, Handling
<1>2. SoundWorker(s)
  BY HandlingWorker DEF SoundWorker, WorkerState, Handling
<1> QED  BY <1>1, <1>2, BecomeKeeps

LEMMA GotoKeeps ==
  ASSUME TInv, RowsKept, NEW w \in Workers, worker[w].at \in Handling,
         NEW at \in Handling, Goto(w, at)
  PROVE  WorkersOK'
<1>1. [worker[w] EXCEPT !.at = at]
        = [worker[w] EXCEPT !.at = at, !.files = worker[w].files]
  BY HandlingWorker DEF WorkerState
<1>2. worker[w].files \in SUBSET Files
  BY HandlingWorker DEF WorkerState
<1> QED  BY <1>1, <1>2, MoveKeeps DEF Goto

LEMMA LeaveKeeps ==
  ASSUME TInv, RowsKept, NEW w \in Workers, Become(w, IdleWorker)
  PROVE  WorkersOK'
  BY IdleSound, BecomeKeeps

\* Taking a message.
TakenAs(m) == [IdleWorker EXCEPT !.at = "fetch", !.change = m.change,
                                 !.attempt = m.attempt]

LEMMA Taking ==
  ASSUME TInv, NEW w \in Workers, NEW m \in queue, Take(w, m)
  PROVE  /\ m \in Message /\ m.change \in Rows
         /\ worker[w].at = "idle" /\ worker[w].change = 0
         /\ TakenAs(m) \in WorkerState
         /\ TakenAs(m).at = "fetch" /\ TakenAs(m).change = m.change
         /\ queue' = queue \ {m}
         /\ \/ /\ changes[m.change].status = "succeeded"
               /\ UNCHANGED <<changes, worker>>
            \/ /\ changes[m.change].status # "succeeded"
               /\ SetStatus(m.change, "processing")
               /\ Become(w, TakenAs(m))
<1>1. m \in Message /\ m.change \in Rows
  BY DEF TInv, QueueOK
<1>2. worker[w].at = "idle" /\ worker[w].change = 0
  BY HandlingWorker DEF Take, Handling
<1>3. /\ TakenAs(m) \in WorkerState
      /\ TakenAs(m).at = "fetch" /\ TakenAs(m).change = m.change
  BY <1>1, IdleSound DEF TakenAs, IdleWorker, WorkerState, Message
<1> QED  BY <1>1, <1>2, <1>3 DEF Take, TakenAs

LEMMA TakeKeeps ==
  ASSUME TInv, NEW w \in Workers, NEW m \in queue, Take(w, m)
  PROVE  TInv'
<1>1. UNCHANGED <<gitlab, sync, mirrored, index, request, history, faults>>
  BY DEF Take
<1>2. PlainOK'
  BY <1>1 DEF TInv, PlainOK, gitlab, history
<1>3. RowsKept /\ RowsOK' /\ Rows' = Rows /\ WorkersOK'
  <2>1. CASE UNCHANGED <<changes, worker>>
    BY <1>1, <2>1, RowsUnchanged, WorkersKept DEF TInv, RowsOK, history
  <2>2. CASE SetStatus(m.change, "processing") /\ Become(w, TakenAs(m))
    <3>1. /\ changes' \in Seq(Change)
          /\ Rows' = Rows
          /\ RowsKept
      BY <2>2, Taking, SettingStatus DEF Statuses
    <3>2. SoundWorker(TakenAs(m))
      BY Taking DEF SoundWorker, Handling
    <3> QED  BY <1>1, <2>2, <3>1, <3>2, Taking, BecomeKeeps DEF TInv, RowsOK, history
  <2> QED  BY <2>1, <2>2, Taking
<1>4. QueueOK'
  BY <1>3, Taking DEF TInv, QueueOK
<1> QED  BY <1>1, <1>2, <1>3, <1>4, RequestsKept DEF TInv

\* Fetching, failing, indexing.
LEMMA WorkKeeps ==
  ASSUME TInv, NEW w \in Workers, Fetch(w) \/ Index(w) \/ Fail(w) \/ Ack(w)
  PROVE  TInv'
<1>1. UNCHANGED <<gitlab, sync, changes, queue, request, exhausted, unsent, faults>>
  BY DEF Fetch, Index, Fail, Ack, history
<1>2. RowsKept /\ Rows' = Rows
  BY <1>1, RowsUnchanged
<1>3. RowsOK'
  BY <1>1, <1>2 DEF TInv, RowsOK
<1>4. WorkersOK'
  <2>1. CASE Fetch(w)
    <3>1. worker[w].at \in Handling /\ "finish" \in Handling /\ "index" \in Handling
      BY <2>1 DEF Fetch, Handling
    <3>2. CASE Goto(w, "finish")
      BY <1>2, <3>1, <3>2, GotoKeeps
    <3>3. CASE Become(w, [worker[w] EXCEPT !.at = "index",
                                !.files = Diff(Row(w).before, Row(w).after)])
      <4>1. Diff(Row(w).before, Row(w).after) \in SUBSET Files
        BY DEF Diff
      <4> QED  BY <1>2, <3>1, <3>3, <4>1, MoveKeeps
    <3> QED  BY <2>1, <3>2, <3>3 DEF Fetch
  <2>2. CASE Index(w)
    BY <1>2, <2>2, GotoKeeps DEF Index, Handling
  <2>3. CASE Fail(w)
    BY <1>2, <2>3, GotoKeeps DEF Fail, Handling
  <2>4. CASE Ack(w)
    BY <1>2, <2>4, LeaveKeeps DEF Ack
  <2> QED  BY <2>1, <2>2, <2>3, <2>4
<1>5. PlainOK'
  <2>1. CASE Fetch(w)
    <3>1. mirrored' \subseteq Commits
      BY <2>1, ReleaseAssumption DEF Fetch, TInv, PlainOK
    <3> QED  BY <1>1, <2>1, <3>1 DEF Fetch, TInv, PlainOK, gitlab, history
  <2>2. CASE Index(w)
    <3>1. worker[w].change \in Rows
      BY <2>2, HandlingWorker DEF Index, Handling
    <3>2. Row(w).after \in Commits
      BY <3>1, RowIsTyped DEF Row, Change
    <3>3. index' \in [Files -> Nat]
      BY <2>2, <3>2, ReleaseAssumption DEF Index, Updated, TInv, PlainOK
    <3>4. indexedTo' \in Shas /\ chained' \in BOOLEAN
      BY <2>2, <3>2 DEF Index, Shas, TInv, PlainOK
    <3> QED  BY <1>1, <2>2, <3>3, <3>4 DEF Index, TInv, PlainOK, gitlab
  <2>3. CASE Fail(w) \/ Ack(w)
    BY <1>1, <2>3 DEF Fail, Ack, TInv, PlainOK, gitlab, history
  <2> QED  BY <2>1, <2>2, <2>3
<1> QED  BY <1>1, <1>2, <1>3, <1>4, <1>5, QueueKept, RequestsKept DEF TInv

LEMMA FinishKeeps ==
  ASSUME TInv, NEW w \in Workers, Finish(w)
  PROVE  TInv'
<1>1. UNCHANGED <<gitlab, sync, mirrored, index, queue, request, history, faults>>
  BY DEF Finish
<1>2. worker[w].change \in Rows /\ worker[w].at \in Handling
  BY HandlingWorker DEF Finish, Handling
<1>3. RowsKept /\ Rows' = Rows /\ changes' \in Seq(Change)
  BY <1>2, SettingStatus DEF Finish, Statuses
<1>4. WorkersOK'
  BY <1>2, <1>3, GotoKeeps DEF Finish, Handling
<1>5. RowsOK' /\ PlainOK'
  BY <1>1, <1>3 DEF TInv, RowsOK, PlainOK, gitlab, history
<1> QED  BY <1>1, <1>3, <1>4, <1>5, QueueKept, RequestsKept DEF TInv

LEMMA RetryKeeps ==
  ASSUME TInv, NEW w \in Workers, Retry(w)
  PROVE  TInv'
<1>1. UNCHANGED <<gitlab, sync, mirrored, index, request, indexedTo, chained, unsent, faults>>
  BY DEF Retry
<1>2. worker[w].change \in Rows /\ worker[w] \in WorkerState
  BY HandlingWorker DEF Retry, Handling
<1>3. RowsKept /\ Rows' = Rows /\ changes' \in Seq(Change)
  BY <1>2, SettingStatus DEF Retry, Statuses
<1>4. WorkersOK'
  BY <1>3, LeaveKeeps DEF Retry
<1>5. RowsOK' /\ PlainOK'
  BY <1>1, <1>2, <1>3 DEF Retry, TInv, RowsOK, PlainOK, gitlab
<1>6. QueueOK'
  <2>1. worker[w].attempt < MaxRetries
          => [change |-> worker[w].change, attempt |-> worker[w].attempt + 1] \in Message
    BY <1>2, ReleaseAssumption DEF WorkerState, Message
  <2> QED  BY <1>2, <1>3, <2>1 DEF Retry, TInv, QueueOK
<1> QED  BY <1>1, <1>3, <1>4, <1>5, <1>6, RequestsKept DEF TInv

\* The mirror sync and the scan.
LEMMA SyncKeeps ==
  ASSUME TInv, NEW w \in Workers,
         \/ \E scan \in BOOLEAN : SyncStart(w, scan)
         \/ SyncEnd(w) \/ Scan(w)
  PROVE  TInv'
<1>1. UNCHANGED <<gitlab, changes, queue, request, exhausted, unsent, faults>>
  BY DEF SyncStart, SyncEnd, Scan, history
<1>2. RowsKept /\ Rows' = Rows
  BY <1>1, RowsUnchanged
<1>3. RowsOK'
  BY <1>1, <1>2 DEF TInv, RowsOK
<1>4. CASE \E scan \in BOOLEAN : SyncStart(w, scan)
  <2>1. PICK scan \in BOOLEAN : SyncStart(w, scan)
    BY <1>4
  <2> DEFINE s == [IdleWorker EXCEPT !.at = "sync", !.sha = tip, !.seen = sync,
                                     !.scan = scan]
  <2>2. s \in WorkerState /\ SoundWorker(s)
    BY IdleSound DEF IdleWorker, WorkerState, SoundWorker, Handling, Shas, TInv, PlainOK
  <2>3. WorkersOK'
    BY <1>2, <2>1, <2>2, BecomeKeeps DEF SyncStart
  <2>4. PlainOK'
    BY <1>1, <2>1 DEF SyncStart, TInv, PlainOK, gitlab, history
  <2> QED  BY <1>1, <1>2, <1>3, <2>3, <2>4, QueueKept, RequestsKept DEF TInv
<1>5. CASE SyncEnd(w)
  <2> DEFINE s == [IdleWorker EXCEPT !.at = "scan", !.sha = worker[w].sha, !.scan = TRUE]
  <2>1. worker[w] \in WorkerState /\ worker[w].sha \in Commits
    BY <1>5, HandlingWorker DEF SyncEnd
  <2>2. s \in WorkerState /\ SoundWorker(s)
    BY <2>1, IdleSound DEF IdleWorker, WorkerState, SoundWorker, Handling, Shas
  <2>3. WorkersOK'
    <3>1. CASE Become(w, s)
      BY <1>2, <2>2, <3>1, BecomeKeeps
    <3>2. CASE Become(w, IdleWorker)
      BY <1>2, <3>2, LeaveKeeps
    <3> QED  BY <1>5, <3>1, <3>2 DEF SyncEnd
  <2>4. sync' \in SyncState
    BY <1>5, <2>1 DEF SyncEnd, Flushed, TInv, PlainOK, SyncState, Shas
  <2>5. mirrored' \subseteq Commits
    BY <1>5, ReleaseAssumption DEF SyncEnd, TInv, PlainOK
  <2>6. PlainOK'
    BY <1>1, <1>5, <2>4, <2>5 DEF SyncEnd, TInv, PlainOK, gitlab, history
  <2> QED  BY <1>1, <1>2, <1>3, <2>3, <2>6, QueueKept, RequestsKept DEF TInv
<1>6. CASE Scan(w)
  <2>1. worker[w].sha \in Commits
    BY <1>6, HandlingWorker DEF Scan
  <2>2. PlainOK'
    BY <1>1, <1>6, <2>1, ReleaseAssumption DEF Scan, TInv, PlainOK, gitlab, Shas
  <2>3. WorkersOK'
    BY <1>2, <1>6, LeaveKeeps DEF Scan
  <2> QED  BY <1>1, <1>2, <1>3, <2>2, <2>3, QueueKept, RequestsKept DEF TInv
<1> QED  BY <1>4, <1>5, <1>6

\* What a worker's death puts back.
Redelivered(w) == IF worker[w].change = 0 THEN {}
                  ELSE {[change |-> worker[w].change, attempt |-> worker[w].attempt]}

LEMMA Crashing ==
  ASSUME TInv, NEW w \in Workers, WorkerCrash(w)
  PROVE  /\ queue' = queue \cup Redelivered(w)
         /\ Redelivered(w) \subseteq Message
         /\ worker[w].change # 0 => worker[w].change \in Rows
<1>1. worker[w].change # 0 => worker[w].change \in Rows
  BY HandlingWorker
<1>2. Redelivered(w) \subseteq Message
  BY HandlingWorker DEF Redelivered, Message, WorkerState
<1> QED  BY <1>1, <1>2 DEF WorkerCrash, Redelivered

LEMMA CrashKeeps ==
  ASSUME TInv, NEW w \in Workers, WorkerCrash(w)
  PROVE  TInv'
<1>1. UNCHANGED <<gitlab, changes, sync, mirrored, index, request, history>>
  BY DEF WorkerCrash
<1>2. RowsKept /\ Rows' = Rows
  BY <1>1, RowsUnchanged
<1>3. QueueOK'
  BY <1>2, Crashing DEF TInv, QueueOK, Redelivered
<1>4. WorkersOK'
  BY <1>2, LeaveKeeps DEF WorkerCrash
<1>5. RowsOK' /\ PlainOK'
  BY <1>1, <1>2 DEF WorkerCrash, TInv, RowsOK, PlainOK, gitlab, history
<1> QED  BY <1>1, <1>2, <1>3, <1>4, <1>5, RequestsKept DEF TInv

\* TInv is inductive.
LEMMA TInvInductive == TInv /\ [Next]_vars => TInv'
<1> SUFFICES ASSUME TInv, [Next]_vars PROVE TInv'
  OBVIOUS
<1>1. CASE Next
  BY <1>1, GitLabKeeps, WebhookKeeps, ReconcileKeeps, InsertKeeps, SendKeeps, ApiCrashKeeps,
     TakeKeeps, WorkKeeps, FinishKeeps, RetryKeeps, SyncKeeps, CrashKeeps
     DEF Next, Process, Serve
<1>2. CASE UNCHANGED vars
  <2>1. RowsKept /\ Rows' = Rows
    BY <1>2, RowsUnchanged DEF vars
  <2>2. RowsOK' /\ PlainOK'
    BY <1>2, <2>1 DEF vars, gitlab, history, TInv, RowsOK, PlainOK
  <2> QED  BY <1>2, <2>1, <2>2, QueueKept, WorkersKept, RequestsKept DEF vars, TInv
<1> QED  BY <1>1, <1>2

THEOREM AlwaysTInv == Spec => []TInv
  BY InitTInv, TInvInductive, PTL DEF Spec

\* Type correctness: every message, worker and request names a row that exists, and
\* no attempt passes max_retries.
THEOREM TypeCorrect == Spec => []TypeOK
  BY AlwaysTInv, Typed, PTL
-----------------------------------------------------------------------------
(***************************************************************************)
(* A change is in one hand.  OneHand says it without the tagged pairs of    *)
(* InHand; it is inductive because a hand only ever passes a change on.     *)
(***************************************************************************)
Sends(r, i) == request[r].at = "send" /\ request[r].change = i

Held(i) == \/ \E m \in queue : m.change = i
           \/ \E w \in Workers : worker[w].change = i
           \/ \E r \in Requests : Sends(r, i)

OneHand ==
  \A i \in Rows :
    /\ \A m, n \in queue : m.change = i /\ n.change = i => m = n
    /\ \A v, w \in Workers : worker[v].change = i /\ worker[w].change = i => v = w
    /\ \A q, r \in Requests : Sends(q, i) /\ Sends(r, i) => q = r
    /\ \A m \in queue, w \in Workers : ~(m.change = i /\ worker[w].change = i)
    /\ \A m \in queue, r \in Requests : ~(m.change = i /\ Sends(r, i))
    /\ \A w \in Workers, r \in Requests : ~(worker[w].change = i /\ Sends(r, i))

LEMMA HeldIs == \A i \in Rows : InHand(i) # {} <=> Held(i)
  BY DEF InHand, Held, Sends

LEMMA OneHandImplies == OneHand => HandledOnce
<1> SUFFICES ASSUME OneHand, NEW i \in Rows, NEW x \in InHand(i), NEW y \in InHand(i)
             PROVE  x = y
  BY DEF HandledOnce
<1> DEFINE A == {<<"message", m>> : m \in {z \in queue : z.change = i}}
           B == {<<"worker", w>> : w \in {z \in Workers : worker[z].change = i}}
           C == {<<"request", r>> : r \in {z \in Requests : Sends(z, i)}}
<1>1. x \in A \cup B \cup C /\ y \in A \cup B \cup C
  BY DEF InHand, Sends
<1>2. (x \in A /\ y \in A) \/ (x \in B /\ y \in B) \/ (x \in C /\ y \in C)
  BY <1>1 DEF OneHand
<1> QED  BY <1>2 DEF OneHand

\* No hand changes, or one lets go.
Quiet ==
  /\ queue' \subseteq queue
  /\ \A w \in Workers : worker'[w].change \in {0, worker[w].change}
  /\ \A r \in Requests, i \in Rows : Sends(r, i)' => Sends(r, i)

LEMMA QuietKeeps ==
  ASSUME TInv, OneHand, Rows' = Rows, Quiet
  PROVE  OneHand'
<1>1. \A i \in Rows : i # 0
  BY RowIsTyped
<1>2. \A w \in Workers, i \in Rows : worker'[w].change = i => worker[w].change = i
  BY <1>1 DEF Quiet
<1> USE DEF OneHand
<1> QED  BY <1>1, <1>2 DEF Quiet

\* A worker that goes on keeps its change.
LEMMA BecomeSame ==
  ASSUME TInv, NEW w \in Workers, NEW s \in WorkerState, Become(w, s),
         s.change \in {0, worker[w].change}
  PROVE  \A v \in Workers : worker'[v].change \in {0, worker[v].change}
  BY Becoming

LEMMA GotoSame ==
  ASSUME TInv, NEW w \in Workers, NEW at \in Handling, Goto(w, at)
  PROVE  /\ worker'[w] = [worker[w] EXCEPT !.at = at]
         /\ worker'[w].at = at
         /\ worker'[w].change = worker[w].change
         /\ worker'[w].files = worker[w].files
         /\ worker'[w].scan = worker[w].scan
         /\ \A v \in Workers \ {w} : worker'[v] = worker[v]
<1>1. [worker[w] EXCEPT !.at = at] \in WorkerState
  BY HandlingWorker DEF WorkerState, Handling
<1>2. /\ [worker[w] EXCEPT !.at = at].at = at
      /\ [worker[w] EXCEPT !.at = at].change = worker[w].change
      /\ [worker[w] EXCEPT !.at = at].files = worker[w].files
      /\ [worker[w] EXCEPT !.at = at].scan = worker[w].scan
  BY HandlingWorker DEF WorkerState
<1> QED  BY <1>1, <1>2, Becoming DEF Goto

\* What Fetch does to its worker.
LEMMA Fetching ==
  ASSUME TInv, NEW w \in Workers, Fetch(w)
  PROVE  /\ worker'[w].change = worker[w].change
         /\ worker'[w].at \in {"index", "finish"}
         /\ worker'[w].at = "index" => worker'[w].files = Diff(Row(w).before, Row(w).after)
         /\ \A v \in Workers \ {w} : worker'[v] = worker[v]
<1>1. CASE Goto(w, "finish")
  BY <1>1, GotoSame DEF Handling
<1>2. CASE Become(w, [worker[w] EXCEPT !.at = "index",
                            !.files = Diff(Row(w).before, Row(w).after)])
  <2> DEFINE s == [worker[w] EXCEPT !.at = "index",
                                    !.files = Diff(Row(w).before, Row(w).after)]
  <2>1. Diff(Row(w).before, Row(w).after) \in SUBSET Files
    BY DEF Diff
  <2>2. /\ s \in WorkerState
        /\ s.change = worker[w].change /\ s.at = "index"
        /\ s.files = Diff(Row(w).before, Row(w).after)
    BY <2>1, HandlingWorker DEF WorkerState
  <2> QED  BY <1>2, <2>2, Becoming
<1> QED  BY <1>1, <1>2 DEF Fetch

\* The steps that only let go, or change no hand at all.
QuietStep ==
  \/ \E c \in Commits : Push(c)
  \/ \E h \in hooks : LoseHook(h)
  \/ \E r \in Requests :
       \/ \E h \in hooks : Webhook(r, h)
       \/ Reconcile(r) \/ Compare(r) \/ Lookup(r) \/ SendFails(r)
  \/ ApiCrash
  \/ \E w \in Workers :
       \/ \E scan \in BOOLEAN : SyncStart(w, scan)
       \/ Fetch(w) \/ Index(w) \/ Finish(w) \/ Ack(w) \/ Fail(w) \/ SyncEnd(w) \/ Scan(w)

LEMMA QuietRequests ==
  ASSUME TInv, NEW r \in Requests,
         \/ \E h \in hooks : Webhook(r, h)
         \/ Reconcile(r) \/ Compare(r) \/ Lookup(r) \/ SendFails(r)
  PROVE  \A q \in Requests, i \in Rows : Sends(q, i)' => Sends(q, i)
<1>1. request \in [Requests -> RequestState] /\ request[r] \in RequestState
  BY DEF TInv, RequestsOK
<1>2. \A q \in Requests \ {r} : request'[q] = request[q]
  BY <1>1 DEF Webhook, Reconcile, Compare, Lookup, SendFails
<1>3. request'[r].at # "send" \/ request'[r] = request[r]
  <2>1. CASE \E h \in hooks : Webhook(r, h)
    BY <1>1, <2>1, IdleSound DEF Webhook, NoRequest
  <2>2. CASE Reconcile(r)
    BY <1>1, <2>2, IdleSound DEF Reconcile, NoRequest
  <2>3. CASE Compare(r)
    BY <1>1, <2>3, IdleSound DEF Compare, RequestState
  <2>4. CASE Lookup(r)
    BY <1>1, <2>4, IdleSound DEF Lookup, RequestState
  <2>5. CASE SendFails(r)
    BY <1>1, <2>5, IdleSound DEF SendFails
  <2> QED  BY <2>1, <2>2, <2>3, <2>4, <2>5
<1> QED  BY <1>2, <1>3 DEF Sends

LEMMA QuietWorkers ==
  ASSUME TInv, NEW w \in Workers,
         \/ \E scan \in BOOLEAN : SyncStart(w, scan)
         \/ Fetch(w) \/ Index(w) \/ Finish(w) \/ Ack(w) \/ Fail(w) \/ SyncEnd(w) \/ Scan(w)
  PROVE  \A v \in Workers : worker'[v].change \in {0, worker[v].change}
<1>1. CASE \E scan \in BOOLEAN : SyncStart(w, scan)
  <2>1. PICK scan \in BOOLEAN : SyncStart(w, scan)
    BY <1>1
  <2> DEFINE s == [IdleWorker EXCEPT !.at = "sync", !.sha = tip, !.seen = sync,
                                     !.scan = scan]
  <2>2. s \in WorkerState /\ s.change = 0
    BY IdleSound DEF IdleWorker, WorkerState, Shas, TInv, PlainOK
  <2> QED  BY <2>1, <2>2, BecomeSame DEF SyncStart
<1>2. CASE Fetch(w)
  BY <1>2, Fetching
<1>3. CASE Index(w) \/ Finish(w) \/ Fail(w)
  BY <1>3, GotoSame DEF Index, Finish, Fail, Handling
<1>4. CASE Ack(w) \/ Scan(w)
  BY <1>4, IdleSound, BecomeSame DEF Ack, Scan
<1>5. CASE SyncEnd(w)
  <2> DEFINE s == [IdleWorker EXCEPT !.at = "scan", !.sha = worker[w].sha, !.scan = TRUE]
  <2>1. s \in WorkerState /\ s.change = 0
    BY IdleSound, HandlingWorker DEF IdleWorker, WorkerState
  <2> QED  BY <1>5, <2>1, IdleSound, BecomeSame DEF SyncEnd
<1> QED  BY <1>1, <1>2, <1>3, <1>4, <1>5

LEMMA QuietSteps ==
  ASSUME TInv, QuietStep
  PROVE  Quiet /\ Rows' = Rows
<1> USE DEF Quiet
<1>1. CASE \/ \E c \in Commits : Push(c)
           \/ \E h \in hooks : LoseHook(h)
  BY <1>1, RowsUnchanged DEF Push, LoseHook, Sends
<1>2. ASSUME NEW r \in Requests,
             \/ \E h \in hooks : Webhook(r, h)
             \/ Reconcile(r) \/ Compare(r) \/ Lookup(r) \/ SendFails(r)
      PROVE  Quiet /\ Rows' = Rows
  <2>1. UNCHANGED <<changes, queue, worker>>
    BY <1>2 DEF Webhook, Reconcile, Compare, Lookup, SendFails
  <2> QED  BY <1>2, <2>1, QuietRequests, RowsUnchanged
<1>3. CASE ApiCrash
  <2>1. UNCHANGED <<changes, queue, worker>>
    BY <1>3 DEF ApiCrash
  <2>2. \A r \in Requests, i \in Rows : ~Sends(r, i)'
    BY <1>3, IdleSound DEF ApiCrash, Sends
  <2> QED  BY <2>1, <2>2, RowsUnchanged
<1>4. ASSUME NEW w \in Workers,
             \/ \E scan \in BOOLEAN : SyncStart(w, scan)
             \/ Fetch(w) \/ Index(w) \/ Finish(w) \/ Ack(w) \/ Fail(w) \/ SyncEnd(w) \/ Scan(w)
      PROVE  Quiet /\ Rows' = Rows
  <2>1. UNCHANGED <<queue, request>>
    BY <1>4 DEF SyncStart, Fetch, Index, Finish, Ack, Fail, SyncEnd, Scan
  <2>2. Rows' = Rows
    <3>1. CASE Finish(w)
      BY <3>1, HandlingWorker, SettingStatus DEF Finish, Handling, Statuses
    <3>2. CASE UNCHANGED changes
      BY <3>2, RowsUnchanged
    <3> QED  BY <1>4, <3>1, <3>2 DEF SyncStart, Fetch, Index, Ack, Fail, SyncEnd, Scan
  <2> QED  BY <1>4, <2>1, <2>2, QuietWorkers DEF Sends
<1> QED  BY <1>1, <1>2, <1>3, <1>4 DEF QuietStep
\* The steps that hand a change on.
LEMMA InsertHands ==
  ASSUME TInv, OneHand, NEW r \in Requests, Insert(r)
  PROVE  OneHand'
<1>1. UNCHANGED <<queue, worker>>
  BY DEF Insert
<1>2. request \in [Requests -> RequestState] /\ request[r] \in RequestState
  BY DEF TInv, RequestsOK
<1>3. CASE Twin(request[r])
  <2>1. UNCHANGED changes /\ request' = [request EXCEPT ![r] = NoRequest]
    BY <1>3, Inserting
  <2>2. Quiet
    BY <1>1, <1>2, <2>1, IdleSound DEF Quiet, Sends
  <2> QED  BY <2>1, <2>2, QuietKeeps, RowsUnchanged
<1>4. CASE ~Twin(request[r])
  <2> DEFINE k == Len(changes) + 1
             new == [request[r] EXCEPT !.at = "send", !.change = k]
  <2>1. changes' = Append(changes, NewRow(request[r])) /\ NewRow(request[r]) \in Change
        /\ request' = [request EXCEPT ![r] = new] /\ request[r].at = "insert"
    BY <1>4, Inserting
  <2>2. Rows' = Rows \cup {k} /\ k \notin Rows /\ k \in Nat
    BY <2>1, Appending
  <2>3. request'[r].at = "send" /\ request'[r].change = k
        /\ \A q \in Requests \ {r} : request'[q] = request[q]
    BY <1>2, <2>1, <2>2 DEF RequestState
  <2>4. \A i \in Rows : ~Sends(r, i)' /\ ~Sends(r, i)
    BY <2>1, <2>2, <2>3 DEF Sends
  <2>5. \A q \in Requests, i \in Rows : Sends(q, i)' <=> Sends(q, i)
    BY <2>3, <2>4 DEF Sends
  <2>6. \A q \in Requests : request'[q].at = "send" /\ request'[q].change = k => q = r
    BY <2>2, <2>3 DEF TInv, RequestsOK, SoundRequest
  <2>7. (\A m \in queue : m.change # k) /\ (\A w \in Workers : worker[w].change # k)
    <3>1. k # 0
      BY DEF TInv, RowsOK
    <3> QED  BY <2>2, <3>1, HandlingWorker DEF TInv, QueueOK
  <2>8. ASSUME NEW i \in Rows'
        PROVE  /\ \A m, n \in queue : m.change = i /\ n.change = i => m = n
               /\ \A v, w \in Workers : worker[v].change = i /\ worker[w].change = i => v = w
               /\ \A q, p \in Requests : Sends(q, i)' /\ Sends(p, i)' => q = p
               /\ \A m \in queue, w \in Workers : ~(m.change = i /\ worker[w].change = i)
               /\ \A m \in queue, q \in Requests : ~(m.change = i /\ Sends(q, i)')
               /\ \A w \in Workers, q \in Requests : ~(worker[w].change = i /\ Sends(q, i)')
    <3>1. CASE i = k
      BY <2>6, <2>7, <3>1 DEF Sends
    <3>2. CASE i \in Rows
      BY <2>5, <3>2 DEF OneHand
    <3> QED  BY <2>2, <3>1, <3>2
  <2> QED  BY <1>1, <2>8 DEF OneHand, Sends
<1> QED  BY <1>3, <1>4

LEMMA SendHands ==
  ASSUME TInv, OneHand, NEW r \in Requests, Send(r)
  PROVE  OneHand'
<1> DEFINE m0 == [change |-> request[r].change, attempt |-> 0]
<1>1. UNCHANGED <<changes, worker>> /\ Rows' = Rows
  BY RowsUnchanged DEF Send
<1>2. \A q \in Requests, i \in Rows : Sends(q, i)' => q # r /\ Sends(q, i)
  BY IdleSound DEF Send, Sends, TInv, RequestsOK
<1>3. request[r].at = "send" /\ queue' = queue \cup {m0} /\ m0.change = request[r].change
  BY DEF Send
<1>4. Sends(r, m0.change)
  BY <1>3 DEF Sends
<1>5. ASSUME NEW i \in Rows
      PROVE  /\ \A m, n \in queue' : m.change = i /\ n.change = i => m = n
             /\ \A m \in queue', w \in Workers : ~(m.change = i /\ worker[w].change = i)
             /\ \A m \in queue', q \in Requests : ~(m.change = i /\ Sends(q, i)')
  <2>1. CASE i = m0.change
    BY <1>2, <1>3, <1>4, <2>1 DEF OneHand
  <2>2. CASE i # m0.change
    BY <1>2, <1>3, <2>2 DEF OneHand
  <2> QED  BY <2>1, <2>2
<1>6. ASSUME NEW i \in Rows
      PROVE  /\ \A v, w \in Workers : worker[v].change = i /\ worker[w].change = i => v = w
             /\ \A q, p \in Requests : Sends(q, i)' /\ Sends(p, i)' => q = p
             /\ \A w \in Workers, q \in Requests : ~(worker[w].change = i /\ Sends(q, i)')
  BY <1>2 DEF OneHand
<1> QED  BY <1>1, <1>5, <1>6 DEF OneHand, Sends

LEMMA TakeHands ==
  ASSUME TInv, OneHand, NEW w \in Workers, NEW m \in queue, Take(w, m)
  PROVE  OneHand'
<1>1. request' = request /\ queue' = queue \ {m} /\ m.change \in Rows
  BY Taking DEF Take
<1>2. CASE UNCHANGED <<changes, worker>>
  <2>1. Quiet
    BY <1>1, <1>2 DEF Quiet, Sends
  <2> QED  BY <1>2, <2>1, QuietKeeps, RowsUnchanged
<1>3. CASE SetStatus(m.change, "processing") /\ Become(w, TakenAs(m))
  <2>1. Rows' = Rows
    BY <1>1, <1>3, SettingStatus DEF Statuses
  <2>2. worker'[w].change = m.change /\ \A v \in Workers \ {w} : worker'[v] = worker[v]
    BY <1>3, Taking, Becoming
  <2>3. ASSUME NEW i \in Rows
        PROVE  /\ \A v, u \in Workers : worker'[v].change = i /\ worker'[u].change = i => v = u
               /\ \A n \in queue', v \in Workers : ~(n.change = i /\ worker'[v].change = i)
               /\ \A v \in Workers, r \in Requests : ~(worker'[v].change = i /\ Sends(r, i))
    BY <1>1, <2>2 DEF OneHand
  <2>4. ASSUME NEW i \in Rows
        PROVE  /\ \A n, p \in queue' : n.change = i /\ p.change = i => n = p
               /\ \A q, r \in Requests : Sends(q, i) /\ Sends(r, i) => q = r
               /\ \A n \in queue', r \in Requests : ~(n.change = i /\ Sends(r, i))
    BY <1>1 DEF OneHand
  <2> QED  BY <1>1, <2>1, <2>3, <2>4 DEF OneHand, Sends
<1> QED  BY <1>2, <1>3, Taking

\* A worker puts its change back into the queue.
LEMMA PutBack ==
  ASSUME TInv, OneHand, Rows' = Rows, request' = request, NEW w \in Workers,
         Become(w, IdleWorker), NEW back \in SUBSET Message, queue' = queue \cup back,
         \A m, n \in back : m = n,
         \A m \in back : m.change = worker[w].change
  PROVE  OneHand'
<1>1. worker'[w].change = 0 /\ \A v \in Workers \ {w} : worker'[v] = worker[v]
  BY IdleSound, Becoming
<1>2. \A i \in Rows : i # 0
  BY RowIsTyped
<1>3. ASSUME NEW i \in Rows
      PROVE  /\ \A m, n \in queue' : m.change = i /\ n.change = i => m = n
             /\ \A m \in queue', v \in Workers : ~(m.change = i /\ worker'[v].change = i)
             /\ \A m \in queue', r \in Requests : ~(m.change = i /\ Sends(r, i))
  <2>1. CASE i = worker[w].change
    BY <1>1, <1>2, <2>1 DEF OneHand
  <2>2. CASE i # worker[w].change
    BY <1>1, <1>2, <2>2 DEF OneHand
  <2> QED  BY <2>1, <2>2
<1>4. ASSUME NEW i \in Rows
      PROVE  /\ \A v, u \in Workers : worker'[v].change = i /\ worker'[u].change = i => v = u
             /\ \A q, r \in Requests : Sends(q, i) /\ Sends(r, i) => q = r
             /\ \A v \in Workers, r \in Requests : ~(worker'[v].change = i /\ Sends(r, i))
  BY <1>1, <1>2 DEF OneHand
<1> QED  BY <1>3, <1>4 DEF OneHand, Sends

LEMMA RetryHands ==
  ASSUME TInv, OneHand, NEW w \in Workers, Retry(w) \/ WorkerCrash(w)
  PROVE  OneHand'
<1>1. CASE Retry(w)
  <2> DEFINE m0 == [change |-> worker[w].change, attempt |-> worker[w].attempt + 1]
             back == IF worker[w].attempt < MaxRetries THEN {m0} ELSE {}
  <2>1. back \subseteq Message
    BY HandlingWorker, ReleaseAssumption DEF Message, WorkerState
  <2>2. /\ queue' = queue \cup back
        /\ \A m, n \in back : m = n
        /\ \A m \in back : m.change = worker[w].change
    BY <1>1 DEF Retry
  <2>3. Rows' = Rows
    BY <1>1, HandlingWorker, SettingStatus DEF Retry, Handling, Statuses
  <2> HIDE DEF back
  <2> QED  BY <1>1, <2>1, <2>2, <2>3, PutBack DEF Retry
<1>2. CASE WorkerCrash(w)
  <2>1. /\ \A m, n \in Redelivered(w) : m = n
        /\ \A m \in Redelivered(w) : m.change = worker[w].change
    BY DEF Redelivered
  <2>2. Rows' = Rows /\ request' = request /\ Become(w, IdleWorker)
    BY <1>2, RowsUnchanged DEF WorkerCrash
  <2> QED  BY <1>2, <2>1, <2>2, Crashing, PutBack
<1> QED  BY <1>1, <1>2

LEMMA OneHandInductive == TInv /\ OneHand /\ [Next]_vars => OneHand'
<1> SUFFICES ASSUME TInv, OneHand, [Next]_vars PROVE OneHand'
  OBVIOUS
<1>1. CASE Next
  <2>1. \/ QuietStep
        \/ \E r \in Requests : Insert(r) \/ Send(r)
        \/ \E w \in Workers : \/ \E m \in queue : Take(w, m)
                              \/ Retry(w) \/ WorkerCrash(w)
    BY <1>1 DEF Next, Process, Serve, QuietStep
  <2> QED  BY <2>1, QuietSteps, QuietKeeps, InsertHands, SendHands, TakeHands, RetryHands
<1>2. CASE UNCHANGED vars
  <2>1. Quiet /\ Rows' = Rows
    BY <1>2, RowsUnchanged DEF vars, Quiet, Sends
  <2> QED  BY <2>1, QuietKeeps
<1> QED  BY <1>1, <1>2

LEMMA AlwaysOneHand == Spec => []OneHand
<1>1. Init => OneHand
  BY DEF Init, OneHand, Rows
<1> QED  BY <1>1, AlwaysTInv, OneHandInductive, PTL DEF Spec

\* A change is never in two hands, for any number of workers, of API requests, of
\* faults and of retries.
THEOREM ChangesAreHandledOnce == Spec => []HandledOnce
  BY AlwaysOneHand, OneHandImplies, PTL
-----------------------------------------------------------------------------
(***************************************************************************)
(* The status of a row in a worker's hand: processing until it is           *)
(* acknowledged, succeeded then.  Hence no analysed change goes back.       *)
(***************************************************************************)
Fits(s, st) == /\ s.at \in Handling \ {"ack"} => st = "processing"
               /\ s.at = "ack" => st = "succeeded"

StatusOK == \A w \in Workers : Fits(worker[w], Row(w).status)

\* Steps that leave the table alone: the worker is in the same half of its work, or
\* has nothing in hand.
LEMMA StatusKept ==
  ASSUME TInv, StatusOK, NEW w \in Workers,
         \A v \in Workers \ {w} : worker'[v] = worker[v],
         \/ worker'[w].at \notin Handling
         \/ /\ worker'[w].change = worker[w].change
            /\ {worker[w].at, worker'[w].at} \subseteq Handling \ {"ack"},
         \A i \in Rows : changes'[i] = changes[i]
  PROVE  StatusOK'
<1>1. \A v \in Workers \ {w} : Fits(worker'[v], changes'[worker'[v].change].status)
  <2> SUFFICES ASSUME NEW v \in Workers \ {w}
               PROVE  Fits(worker[v], changes'[worker[v].change].status)
    OBVIOUS
  <2> QED  BY HandlingWorker DEF StatusOK, Fits, Row, Handling
<1>2. Fits(worker'[w], changes'[worker'[w].change].status)
  BY HandlingWorker DEF StatusOK, Fits, Row, Handling
<1> QED  BY <1>1, <1>2 DEF StatusOK, Row

\* Steps that write the status of the row in a worker's hand.
LEMMA StatusWritten ==
  ASSUME TInv, OneHand, StatusOK, NEW w \in Workers, NEW i \in Rows, NEW st \in Statuses,
         SetStatus(i, st),
         \/ worker[w].change = i
         \/ \E m \in queue : m.change = i,
         \A v \in Workers \ {w} : worker'[v] = worker[v],
         worker'[w].at \in Handling => worker'[w].change = i,
         Fits(worker'[w], st)
  PROVE  StatusOK'
<1>1. /\ changes'[i].status = st
      /\ \A j \in Rows \ {i} : changes'[j] = changes[j]
  BY SettingStatus
<1>2. \A v \in Workers \ {w} : Fits(worker'[v], changes'[worker'[v].change].status)
  <2> SUFFICES ASSUME NEW v \in Workers \ {w}
               PROVE  Fits(worker[v], changes'[worker[v].change].status)
    OBVIOUS
  <2>1. worker[v].change # i
    BY DEF OneHand
  <2> QED  BY <1>1, <2>1, HandlingWorker DEF StatusOK, Fits, Row, Handling
<1>3. Fits(worker'[w], changes'[worker'[w].change].status)
  BY <1>1 DEF Fits, Handling
<1> QED  BY <1>2, <1>3 DEF StatusOK, Row

LEMMA StatusInductive == TInv /\ OneHand /\ StatusOK /\ [Next]_vars => StatusOK'
<1> SUFFICES ASSUME TInv, OneHand, StatusOK, [Next]_vars PROVE StatusOK'
  OBVIOUS
<1>1. CASE UNCHANGED <<changes, worker>>
  BY <1>1 DEF StatusOK, Row
<1>2. ASSUME NEW r \in Requests, Insert(r) PROVE StatusOK'
  <2>1. worker' = worker
    BY <1>2 DEF Insert
  <2>2. \A i \in Rows : changes'[i] = changes[i]
    BY <1>2, Inserting, Appending
  <2>3. \A w \in Workers : Fits(worker[w], changes'[worker[w].change].status)
    BY <2>2, HandlingWorker DEF StatusOK, Fits, Row, Handling
  <2> QED  BY <2>1, <2>3 DEF StatusOK, Row
<1>3. ASSUME NEW w \in Workers, NEW m \in queue, Take(w, m) PROVE StatusOK'
  <2>1. CASE UNCHANGED <<changes, worker>>
    BY <1>1, <2>1
  <2>2. CASE SetStatus(m.change, "processing") /\ Become(w, TakenAs(m))
    <3>1. /\ worker'[w].at = "fetch" /\ worker'[w].change = m.change
          /\ \A v \in Workers \ {w} : worker'[v] = worker[v]
      BY <1>3, <2>2, Taking, Becoming
    <3> QED  BY <1>3, <2>2, <3>1, Taking, StatusWritten DEF Fits, Handling, Statuses
  <2> QED  BY <1>3, <2>1, <2>2, Taking
<1>4. ASSUME NEW w \in Workers, Fetch(w) \/ Index(w) \/ Fail(w) PROVE StatusOK'
  <2>1. changes' = changes
    BY <1>4 DEF Fetch, Index, Fail
  <2>2. /\ worker'[w].change = worker[w].change
        /\ {worker[w].at, worker'[w].at} \subseteq Handling \ {"ack"}
        /\ \A v \in Workers \ {w} : worker'[v] = worker[v]
    BY <1>4, Fetching, GotoSame DEF Fetch, Index, Fail, Handling
  <2> QED  BY <2>1, <2>2, StatusKept
<1>5. ASSUME NEW w \in Workers, Finish(w) PROVE StatusOK'
  <2>1. /\ worker'[w].at = "ack" /\ worker'[w].change = worker[w].change
        /\ \A v \in Workers \ {w} : worker'[v] = worker[v]
    BY <1>5, GotoSame DEF Finish, Handling
  <2>2. worker[w].change \in Rows /\ SetStatus(worker[w].change, "succeeded")
    BY <1>5, HandlingWorker DEF Finish, Handling
  <2> QED  BY <2>1, <2>2, StatusWritten DEF Fits, Handling, Statuses
<1>6. ASSUME NEW w \in Workers, Retry(w) PROVE StatusOK'
  <2>1. worker'[w] = IdleWorker /\ \A v \in Workers \ {w} : worker'[v] = worker[v]
    BY <1>6, IdleSound, Becoming DEF Retry
  <2>2. worker[w].change \in Rows /\ SetStatus(worker[w].change, "retryable")
    BY <1>6, HandlingWorker DEF Retry, Handling
  <2> QED  BY <2>1, <2>2, IdleSound, StatusWritten DEF Fits, Handling, Statuses
<1>7. ASSUME NEW w \in Workers, Ack(w) \/ WorkerCrash(w) \/ Scan(w) PROVE StatusOK'
  <2>1. changes' = changes /\ Become(w, IdleWorker)
    BY <1>7 DEF Ack, WorkerCrash, Scan
  <2>2. worker'[w] = IdleWorker /\ \A v \in Workers \ {w} : worker'[v] = worker[v]
    BY <2>1, IdleSound, Becoming
  <2> QED  BY <2>1, <2>2, IdleSound, StatusKept DEF Handling
<1>8. ASSUME NEW w \in Workers, (\E scan \in BOOLEAN : SyncStart(w, scan)) \/ SyncEnd(w)
      PROVE  StatusOK'
  <2>1. changes' = changes
    BY <1>8 DEF SyncStart, SyncEnd
  <2>2. /\ worker'[w].at \notin Handling
        /\ \A v \in Workers \ {w} : worker'[v] = worker[v]
    <3>1. worker[w].at \notin Handling
      BY <1>8 DEF SyncStart, SyncEnd, Handling
    <3>2. \A v \in Workers \ {w} : worker'[v] = worker[v]
      BY <1>8 DEF SyncStart, SyncEnd, Become, TInv, WorkersOK
    <3>3. worker' \in [Workers -> WorkerState] /\ \A v \in Workers : SoundWorker(worker[v])'
      BY <1>8, SyncKeeps DEF TInv, WorkersOK
    <3>4. worker'[w].change = 0
      BY <1>8, <3>1, HandlingWorker, QuietWorkers
    <3>5. 0 \notin Rows'
      BY <1>8, <2>1, RowIsTyped DEF Rows
    <3> QED  BY <3>2, <3>3, <3>4, <3>5 DEF SoundWorker
  <2> QED  BY <2>1, <2>2, StatusKept
<1>9. \/ UNCHANGED <<changes, worker>>
      \/ \E r \in Requests : Insert(r)
      \/ \E w \in Workers :
           \/ \E m \in queue : Take(w, m)
           \/ \E scan \in BOOLEAN : SyncStart(w, scan)
           \/ Fetch(w) \/ Index(w) \/ Finish(w) \/ Ack(w) \/ Retry(w) \/ SyncEnd(w) \/ Scan(w)
           \/ Fail(w) \/ WorkerCrash(w)
  BY DEF Next, vars, Process, Serve, Push, LoseHook, Webhook, Reconcile, Compare, Lookup, Send,
     SendFails, ApiCrash
<1> QED  BY <1>1, <1>2, <1>3, <1>4, <1>5, <1>6, <1>7, <1>8, <1>9

LEMMA AlwaysStatusOK == Spec => []StatusOK
<1>1. Init => StatusOK
  BY IdleSound DEF Init, StatusOK, Fits, Handling
<1> QED  BY <1>1, AlwaysTInv, AlwaysOneHand, StatusInductive, PTL DEF Spec

\* A succeeded row stays succeeded.
SucceededStay == \A i \in Rows : changes[i].status = "succeeded"
                                   => changes'[i].status = "succeeded"

LEMMA SucceededStays == TInv /\ StatusOK /\ [Next]_vars => SucceededStay
<1> SUFFICES ASSUME TInv, StatusOK, [Next]_vars PROVE SucceededStay
  OBVIOUS
<1>1. CASE UNCHANGED changes
  BY <1>1 DEF SucceededStay
<1>2. ASSUME NEW r \in Requests, Insert(r) PROVE SucceededStay
  BY <1>2, Inserting, Appending DEF SucceededStay
<1>3. ASSUME NEW w \in Workers, NEW m \in queue, Take(w, m) PROVE SucceededStay
  BY <1>3, Taking, SettingStatus DEF SucceededStay, Statuses
<1>4. ASSUME NEW w \in Workers, Finish(w) PROVE SucceededStay
  BY <1>4, HandlingWorker, SettingStatus DEF SucceededStay, Finish, Handling, Statuses
<1>5. ASSUME NEW w \in Workers, Retry(w) PROVE SucceededStay
  <2>1. worker[w].change \in Rows /\ changes[worker[w].change].status = "processing"
    BY <1>5, HandlingWorker DEF Retry, StatusOK, Fits, Row, Handling
  <2> QED  BY <1>5, <2>1, SettingStatus DEF Retry, SucceededStay, Statuses
<1>6. \/ UNCHANGED changes
      \/ \E r \in Requests : Insert(r)
      \/ \E w \in Workers : \/ \E m \in queue : Take(w, m)
                            \/ Finish(w) \/ Retry(w)
  BY DEF Next, vars, gitlab, Process, Serve, Push, LoseHook, Webhook, Reconcile, Compare, Lookup,
     Send, SendFails, ApiCrash, SyncStart, Fetch, Index, Ack, SyncEnd, Scan, Fail, WorkerCrash
<1> QED  BY <1>1, <1>2, <1>3, <1>4, <1>5, <1>6

\* An analysed change is never analysed again, whatever is delivered again, retried or
\* crashes, with any number of workers.
THEOREM AnalysedForGood == Spec => SucceededForGood
<1>1. TInv /\ StatusOK /\ [Next]_vars
        => [\A i \in Rows : changes[i].status = "succeeded"
                              => changes'[i].status = "succeeded"]_changes
  BY SucceededStays DEF SucceededStay
<1> QED  BY <1>1, AlwaysTInv, AlwaysStatusOK, PTL DEF Spec, SucceededForGood
-----------------------------------------------------------------------------
(***************************************************************************)
(* No change is forgotten.                                                  *)
(***************************************************************************)
Excused(i) == i \in exhausted \cup unsent

NoneForgotten ==
  \A i \in Rows : changes[i].status # "succeeded" => Held(i) \/ Excused(i)

LEMMA ForgottenIs == NothingForgotten <=> NoneForgotten
  BY HeldIs DEF NothingForgotten, NoneForgotten, Excused

\* It is enough that old rows stay held, excused or are analysed, and new ones are held.
LEMMA HoldsOn ==
  ASSUME TInv, StatusOK, NoneForgotten, [Next]_vars,
         \A i \in Rows : Held(i) => Held(i)' \/ Excused(i)' \/ changes'[i].status = "succeeded",
         \A i \in Rows' \ Rows : Held(i)'
  PROVE  NoneForgotten'
<1>1. \A i \in Rows : Excused(i) => Excused(i)'
  BY DEF Excused, Next, vars, history, gitlab, Process, Serve, Push, LoseHook, Webhook,
     Reconcile, Compare, Lookup, Insert, Send, SendFails, ApiCrash, Take, SyncStart, Fetch, Index,
     Finish, Ack, Retry, SyncEnd, Scan, Fail, WorkerCrash
<1>2. \A i \in Rows : changes[i].status = "succeeded" => changes'[i].status = "succeeded"
  BY SucceededStays DEF SucceededStay
<1>3. \A i \in Rows : Held(i)' \/ Excused(i)' \/ changes'[i].status = "succeeded"
  BY <1>1, <1>2 DEF NoneForgotten
<1> QED  BY <1>3 DEF NoneForgotten

\* A hand that keeps what it has.
LEMMA StillHeld ==
  ASSUME queue \subseteq queue',
         \A w \in Workers : worker'[w].change = worker[w].change \/ worker[w].change = 0,
         \A r \in Requests, i \in Rows : Sends(r, i) => Sends(r, i)' \/ Excused(i)'
  PROVE  \A i \in Rows : i # 0 /\ Held(i) => Held(i)' \/ Excused(i)'
  BY DEF Held

LEMMA ForgottenInductive ==
  TInv /\ StatusOK /\ NoneForgotten /\ [Next]_vars => NoneForgotten'
<1> SUFFICES ASSUME TInv, StatusOK, NoneForgotten, [Next]_vars PROVE NoneForgotten'
  OBVIOUS
<1>0. \A i \in Rows : i # 0
  BY RowIsTyped
<1>r. request \in [Requests -> RequestState]
  BY DEF TInv, RequestsOK
<1>1. CASE /\ UNCHANGED <<changes, queue, worker>>
           /\ \A r \in Requests, i \in Rows : Sends(r, i) => Sends(r, i)' \/ Excused(i)'
  <2>1. Rows' = Rows
    BY <1>1, RowsUnchanged
  <2>2. \A i \in Rows : Held(i) => Held(i)' \/ Excused(i)'
    BY <1>0, <1>1, StillHeld
  <2> QED  BY <2>1, <2>2, HoldsOn
<1>2. ASSUME NEW r \in Requests,
             \/ \E h \in hooks : Webhook(r, h)
             \/ Reconcile(r) \/ Compare(r) \/ Lookup(r) \/ SendFails(r)
      PROVE  NoneForgotten'
  <2>1. UNCHANGED <<changes, queue, worker>>
    BY <1>2 DEF Webhook, Reconcile, Compare, Lookup, SendFails
  <2>2. \A q \in Requests \ {r} : request'[q] = request[q]
    BY <1>r, <1>2 DEF Webhook, Reconcile, Compare, Lookup, SendFails
  <2>3. \A i \in Rows : Sends(r, i) => Excused(i)'
    BY <1>2 DEF Webhook, Reconcile, Compare, Lookup, SendFails, Sends, Excused
  <2> QED  BY <1>1, <2>1, <2>2, <2>3 DEF Sends
<1>3. CASE ApiCrash
  <2>1. \A r \in Requests, i \in Rows : Sends(r, i) => Excused(i)'
    BY <1>3 DEF ApiCrash, Sends, Excused
  <2>2. UNCHANGED <<changes, queue, worker>>
    BY <1>3 DEF ApiCrash
  <2> QED  BY <1>1, <2>1, <2>2
<1>4. ASSUME NEW r \in Requests, Insert(r) PROVE NoneForgotten'
  <2>1. UNCHANGED <<queue, worker>>
    BY <1>4 DEF Insert
  <2>2. request[r].at = "insert" /\ \A q \in Requests \ {r} : request'[q] = request[q]
    BY <1>r, <1>4 DEF Insert
  <2>3. \A i \in Rows : Held(i) => Held(i)' \/ Excused(i)'
    BY <1>0, <2>1, <2>2, StillHeld DEF Sends
  <2>4. \A i \in Rows' \ Rows : Held(i)'
    <3>1. CASE Twin(request[r])
      BY <1>4, <3>1, Inserting, RowsUnchanged
    <3>2. CASE ~Twin(request[r])
      <4> DEFINE k == Len(changes) + 1
      <4>1. /\ changes' = Append(changes, NewRow(request[r])) /\ NewRow(request[r]) \in Change
            /\ request' = [request EXCEPT ![r] = [request[r] EXCEPT !.at = "send", !.change = k]]
        BY <1>4, <3>2, Inserting
      <4>2. Rows' = Rows \cup {k}
        BY <4>1, Appending
      <4>3. request'[r].at = "send" /\ request'[r].change = k
        BY <1>r, <4>1 DEF RequestState
      <4> HIDE DEF k
      <4> QED  BY <4>2, <4>3 DEF Held, Sends
    <3> QED  BY <3>1, <3>2
  <2> QED  BY <2>3, <2>4, HoldsOn
<1>5. ASSUME NEW r \in Requests, Send(r) PROVE NoneForgotten'
  <2>1. UNCHANGED <<changes, worker>> /\ queue \subseteq queue' /\ Rows' = Rows
    BY <1>5, RowsUnchanged DEF Send
  <2>2. \E m \in queue' : m.change = request[r].change
    <3> DEFINE m == [change |-> request[r].change, attempt |-> 0]
    <3>1. m \in queue' /\ m.change = request[r].change
      BY <1>5 DEF Send
    <3> QED  BY <3>1
  <2>3. \A q \in Requests \ {r} : request'[q] = request[q]
    BY <1>r, <1>5 DEF Send
  <2>4. \A i \in Rows : Held(i) => Held(i)'
    BY <2>1, <2>2, <2>3 DEF Held, Sends
  <2> QED  BY <2>1, <2>4, HoldsOn
<1>6. ASSUME NEW w \in Workers, NEW m \in queue, Take(w, m) PROVE NoneForgotten'
  <2>1. request' = request /\ queue' = queue \ {m} /\ m.change \in Rows
    BY <1>6, Taking DEF Take
  <2>2. CASE changes[m.change].status = "succeeded" /\ UNCHANGED <<changes, worker>>
    <3>1. \A i \in Rows : Held(i) => Held(i)' \/ changes'[i].status = "succeeded"
      BY <2>1, <2>2 DEF Held, Sends
    <3> QED  BY <2>2, <3>1, RowsUnchanged, HoldsOn
  <2>3. CASE SetStatus(m.change, "processing") /\ Become(w, TakenAs(m))
    <3>1. Rows' = Rows
      BY <2>1, <2>3, SettingStatus DEF Statuses
    <3>2. /\ worker[w].change = 0
          /\ worker'[w].change = m.change
          /\ \A v \in Workers \ {w} : worker'[v] = worker[v]
      BY <1>6, <2>3, Taking, Becoming
    <3>3. \A i \in Rows : Held(i) => Held(i)'
      BY <1>0, <2>1, <3>2 DEF Held, Sends
    <3> QED  BY <3>1, <3>3, HoldsOn
  <2> QED  BY <1>6, <2>2, <2>3, Taking
<1>7. ASSUME NEW w \in Workers, Fetch(w) \/ Index(w) \/ Finish(w) \/ Fail(w)
      PROVE  NoneForgotten'
  <2>1. UNCHANGED <<queue, request>>
    BY <1>7 DEF Fetch, Index, Finish, Fail
  <2>2. /\ worker'[w].change = worker[w].change
        /\ \A v \in Workers \ {w} : worker'[v] = worker[v]
    BY <1>7, Fetching, GotoSame DEF Index, Finish, Fail, Handling
  <2>3. \A i \in Rows : Held(i) => Held(i)'
    BY <2>1, <2>2 DEF Held, Sends
  <2>4. Rows' = Rows
    BY <1>7, QuietSteps DEF QuietStep
  <2> QED  BY <2>3, <2>4, HoldsOn
<1>8. ASSUME NEW w \in Workers, Ack(w) PROVE NoneForgotten'
  <2>1. UNCHANGED <<queue, request, changes>> /\ Rows' = Rows
    BY <1>8, RowsUnchanged DEF Ack
  <2>2. changes'[worker[w].change].status = "succeeded"
    BY <1>8, <2>1 DEF Ack, StatusOK, Fits, Row
  <2>3. \A v \in Workers \ {w} : worker'[v] = worker[v]
    BY <1>8, IdleSound, Becoming DEF Ack
  <2>4. \A i \in Rows : Held(i) => Held(i)' \/ changes'[i].status = "succeeded"
    BY <2>1, <2>2, <2>3 DEF Held, Sends
  <2> QED  BY <2>1, <2>4, HoldsOn
<1>9. ASSUME NEW w \in Workers, Retry(w) PROVE NoneForgotten'
  <2>1. request' = request /\ queue \subseteq queue'
    BY <1>9 DEF Retry
  <2>2. Rows' = Rows
    BY <1>9, HandlingWorker, SettingStatus DEF Retry, Handling, Statuses
  <2>3. \A v \in Workers \ {w} : worker'[v] = worker[v]
    BY <1>9, IdleSound, Becoming DEF Retry
  <2>4. \/ \E m \in queue' : m.change = worker[w].change
        \/ worker[w].change \in exhausted'
    <3> DEFINE m == [change |-> worker[w].change, attempt |-> worker[w].attempt + 1]
    <3>1. m.change = worker[w].change
      OBVIOUS
    <3>2. m \in queue' \/ worker[w].change \in exhausted'
      BY <1>9 DEF Retry
    <3> QED  BY <3>1, <3>2
  <2>5. \A i \in Rows : Held(i) => Held(i)' \/ Excused(i)'
    BY <2>1, <2>3, <2>4 DEF Held, Sends, Excused
  <2> QED  BY <2>2, <2>5, HoldsOn
<1>10. ASSUME NEW w \in Workers, WorkerCrash(w) PROVE NoneForgotten'
  <2>1. UNCHANGED <<request, changes>> /\ Rows' = Rows /\ queue \subseteq queue'
    BY <1>10, RowsUnchanged DEF WorkerCrash
  <2>2. \A v \in Workers \ {w} : worker'[v] = worker[v]
    BY <1>10, IdleSound, Becoming DEF WorkerCrash
  <2>3. worker[w].change # 0 => \E m \in queue' : m.change = worker[w].change
    <3> DEFINE m == [change |-> worker[w].change, attempt |-> worker[w].attempt]
    <3>1. m.change = worker[w].change
      OBVIOUS
    <3>2. worker[w].change # 0 => m \in queue'
      BY <1>10, Crashing DEF Redelivered
    <3> QED  BY <3>1, <3>2
  <2>4. \A i \in Rows : Held(i) => Held(i)'
    BY <1>0, <2>1, <2>2, <2>3 DEF Held, Sends
  <2> QED  BY <2>1, <2>4, HoldsOn
<1>11. ASSUME NEW w \in Workers,
              (\E scan \in BOOLEAN : SyncStart(w, scan)) \/ SyncEnd(w) \/ Scan(w)
       PROVE  NoneForgotten'
  <2>1. UNCHANGED <<queue, request, changes>> /\ Rows' = Rows
    BY <1>11, RowsUnchanged DEF SyncStart, SyncEnd, Scan
  <2>2. worker[w].change = 0
    BY <1>11, HandlingWorker DEF SyncStart, SyncEnd, Scan, Handling
  <2>3. \A v \in Workers \ {w} : worker'[v] = worker[v]
    BY <1>11 DEF SyncStart, SyncEnd, Scan, Become, TInv, WorkersOK
  <2>4. \A i \in Rows : Held(i) => Held(i)'
    BY <1>0, <2>1, <2>2, <2>3 DEF Held, Sends
  <2> QED  BY <2>1, <2>4, HoldsOn
<1>12. CASE UNCHANGED <<changes, queue, worker, request>>
  BY <1>1, <1>12 DEF Sends
<1> QED  BY <1>2, <1>3, <1>4, <1>5, <1>6, <1>7, <1>8, <1>9, <1>10, <1>11, <1>12
         DEF Next, vars, Process, Serve, Push, LoseHook

\* For any number of requests and workers, under all faults: a recorded change that is not
\* analysed is in some hand, or it was never sent, or its retries are used up.
THEOREM NoChangeForgotten == Spec => []NothingForgotten
<1>1. Init => NoneForgotten
  BY DEF Init, NoneForgotten, Rows
<1>2. Spec => []NoneForgotten
  BY <1>1, AlwaysTInv, AlwaysStatusOK, ForgottenInductive, PTL DEF Spec
<1> QED  BY <1>2, ForgottenIs, PTL
-----------------------------------------------------------------------------
(***************************************************************************)
(* One row per merge.  The event loop runs one webhook at a time, so no     *)
(* other webhook inserts between the look-up of one and its INSERT.         *)
(***************************************************************************)
OnLoop(r) == request[r].at # "idle" /\ request[r].source = "hook"

OneOnLoop == \A q, r \in Requests : OnLoop(q) /\ OnLoop(r) => q = r

NoRowYet ==
  \A r \in Requests : request[r].at = "insert" /\ request[r].source = "hook" =>
    \A i \in Rows : changes[i].source = "hook" => changes[i].after # request[r].after

HooksInv == HooksMerged /\ OneOnLoop /\ NoRowYet

\* Steps that insert nothing leave the table as it is but for statuses.
LEMMA OnlyInsertAdds ==
  ASSUME TInv, [Next]_vars
  PROVE  \/ RowsKept /\ Rows' = Rows
         \/ \E r \in Requests : Insert(r)
<1>1. CASE UNCHANGED changes
  BY <1>1, RowsUnchanged
<1>2. ASSUME NEW w \in Workers, NEW m \in queue, Take(w, m) PROVE RowsKept /\ Rows' = Rows
  BY <1>2, Taking, SettingStatus, RowsUnchanged DEF Statuses
<1>3. ASSUME NEW w \in Workers, Finish(w) \/ Retry(w) PROVE RowsKept /\ Rows' = Rows
  BY <1>3, HandlingWorker, SettingStatus DEF Finish, Retry, Handling, Statuses
<1> QED  BY <1>1, <1>2, <1>3
         DEF Next, vars, gitlab, Process, Serve, Push, LoseHook, Webhook, Reconcile, Compare,
             Lookup, Send, SendFails, ApiCrash, SyncStart, Fetch, Index, Ack, SyncEnd, Scan, Fail,
             WorkerCrash

\* A request that goes on as what it was, or ends, and inserts nothing new.
LEMMA HooksKept ==
  ASSUME HooksInv, RowsKept, Rows' = Rows,
         \A r \in Requests : OnLoop(r)' => OnLoop(r),
         \A r \in Requests : request'[r].at = "insert" /\ request'[r].source = "hook" =>
           \/ request'[r] = request[r]
           \/ \A i \in Rows : changes[i].after # request'[r].after
  PROVE  HooksInv'
<1>1. HooksMerged'
  BY DEF HooksInv, HooksMerged, RowsKept
<1>2. OneOnLoop'
  BY DEF HooksInv, OneOnLoop
<1>3. NoRowYet'
  BY DEF HooksInv, NoRowYet, RowsKept
<1> QED  BY <1>1, <1>2, <1>3 DEF HooksInv

LEMMA HooksInductive == TInv /\ HooksInv /\ [Next]_vars => HooksInv'
<1> SUFFICES ASSUME TInv, HooksInv, [Next]_vars PROVE HooksInv'
  OBVIOUS
<1>r. request \in [Requests -> RequestState]
  BY DEF TInv, RequestsOK
<1>1. CASE request' = request
  <2>1. \A r \in Requests : ~Insert(r)
    <3> SUFFICES ASSUME NEW r \in Requests, Insert(r) PROVE FALSE
      OBVIOUS
    <3>1. request[r] \in RequestState /\ request[r].at = "insert"
      BY <1>r, Inserting
    <3>2. CASE request' = [request EXCEPT ![r] = NoRequest]
      BY <1>r, <1>1, <3>1, <3>2, IdleSound
    <3>3. CASE request' = [request EXCEPT ![r] =
                             [request[r] EXCEPT !.at = "send", !.change = Len(changes) + 1]]
      <4> DEFINE new == [request[r] EXCEPT !.at = "send", !.change = Len(changes) + 1]
      <4>1. new.at = "send"
        BY <3>1 DEF RequestState
      <4>2. request'[r] = new
        BY <1>r, <3>3
      <4> QED  BY <1>1, <3>1, <4>1, <4>2
    <3> QED  BY <3>2, <3>3, Inserting
  <2> QED  BY <1>1, <2>1, OnlyInsertAdds, HooksKept DEF OnLoop
<1>2. ASSUME NEW r \in Requests, NEW h \in hooks, Webhook(r, h) PROVE HooksInv'
  <2> DEFINE new == [NoRequest EXCEPT !.at = "insert", !.before = h.before, !.after = h.after]
  <2>1. CASE request' = request
    BY <1>1, <2>1
  <2>2. CASE ~Known(h.before, h.after) /\ request' = [request EXCEPT ![r] = new]
    <3>1. new.at = "insert" /\ new.source = "hook" /\ new.after = h.after
      BY DEF NoRequest
    <3>2. request'[r] = new /\ \A q \in Requests \ {r} : request'[q] = request[q]
      BY <1>r, <2>2
    <3> HIDE DEF new
    <3>3. RowsKept /\ Rows' = Rows
      BY <1>2, RowsUnchanged DEF Webhook
    <3>4. \A q \in Requests : ~OnLoop(q)
      BY <1>2 DEF Webhook, EventLoopBusy, OnLoop
    <3>5. OneOnLoop'
      BY <3>2, <3>4 DEF OneOnLoop, OnLoop
    <3>6. NoRowYet'
      BY <2>2, <3>1, <3>2, <3>3, <3>4 DEF NoRowYet, OnLoop, Known, RowsKept
    <3>7. HooksMerged'
      BY <3>3 DEF HooksInv, HooksMerged, RowsKept
    <3> QED  BY <3>5, <3>6, <3>7 DEF HooksInv
  <2> QED  BY <1>2, <2>1, <2>2 DEF Webhook
<1>3. ASSUME NEW r \in Requests, Reconcile(r) \/ Compare(r) \/ Lookup(r) PROVE HooksInv'
  <2>1. RowsKept /\ Rows' = Rows
    BY <1>3, RowsUnchanged DEF Reconcile, Compare, Lookup
  <2>2. \A q \in Requests \ {r} : request'[q] = request[q]
    BY <1>r, <1>3 DEF Reconcile, Compare, Lookup
  <2>3. /\ OnLoop(r)' => OnLoop(r)
        /\ request'[r].at = "insert" => \A i \in Rows : changes[i].after # request'[r].after
    <3>1. CASE Reconcile(r)
      BY <1>r, <3>1 DEF Reconcile, OnLoop, NoRequest
    <3>2. CASE Compare(r)
      <4>1. request[r] \in RequestState /\ request[r].at = "compare"
        BY <1>r, <3>2 DEF Compare
      <4>2. request'[r] = NoRequest
              \/ request'[r] = [request[r] EXCEPT !.at = "lookup", !.after = tip]
        BY <1>r, <3>2 DEF Compare
      <4>3. request'[r].at # "insert"
            /\ (request'[r].at = "idle" \/ request'[r].source = request[r].source)
        <5> DEFINE new == [request[r] EXCEPT !.at = "lookup", !.after = tip]
        <5>1. new.at = "lookup" /\ new.source = request[r].source
          BY <4>1 DEF RequestState
        <5>2. CASE request'[r] = new
          <6> HIDE DEF new
          <6> QED  BY <5>1, <5>2
        <5>3. CASE request'[r] = NoRequest
          BY <5>3, IdleSound
        <5> QED  BY <4>2, <5>2, <5>3
      <4> QED  BY <4>1, <4>3 DEF OnLoop
    <3>3. CASE Lookup(r)
      <4>1. request[r] \in RequestState /\ request[r].at = "lookup"
        BY <1>r, <3>3 DEF Lookup
      <4>2. \/ request'[r] = NoRequest
            \/ /\ ~Known(request[r].before, request[r].after)
               /\ request'[r] = [request[r] EXCEPT !.at = "insert"]
        BY <1>r, <3>3 DEF Lookup
      <4> QED  BY <4>1, <4>2 DEF RequestState, NoRequest, Known, OnLoop
    <3> QED  BY <1>3, <3>1, <3>2, <3>3
  <2> QED  BY <2>1, <2>2, <2>3, HooksKept DEF OnLoop
<1>4. ASSUME NEW r \in Requests, Insert(r) PROVE HooksInv'
  <2>1. CASE Twin(request[r])
    <3>1. UNCHANGED changes /\ request' = [request EXCEPT ![r] = NoRequest]
      BY <1>4, <2>1, Inserting
    <3>2. request'[r].at = "idle" /\ \A q \in Requests \ {r} : request'[q] = request[q]
      BY <1>r, <3>1, IdleSound
    <3> QED  BY <3>1, <3>2, RowsUnchanged, HooksKept DEF OnLoop
  <2>2. CASE ~Twin(request[r])
    <3> DEFINE k == Len(changes) + 1
    <3>1. /\ changes' = Append(changes, NewRow(request[r])) /\ NewRow(request[r]) \in Change
          /\ request' = [request EXCEPT ![r] = [request[r] EXCEPT !.at = "send", !.change = k]]
          /\ request[r].at = "insert"
      BY <1>4, <2>2, Inserting
    <3>2. /\ Rows' = Rows \cup {k} /\ k \notin Rows
          /\ changes'[k].source = request[r].source /\ changes'[k].after = request[r].after
          /\ \A i \in Rows : changes'[i] = changes[i]
      <4>1. /\ NewRow(request[r]).source = request[r].source
            /\ NewRow(request[r]).after = request[r].after
        BY DEF NewRow
      <4> QED  BY <3>1, <4>1, Appending
    <3>3. /\ request'[r].at = "send" /\ request'[r].source = request[r].source
          /\ \A q \in Requests \ {r} : request'[q] = request[q]
      BY <1>r, <3>1 DEF RequestState
    <3> HIDE DEF k
    <3>4. HooksMerged'
      <4> SUFFICES ASSUME NEW i \in Rows', NEW j \in Rows',
                          changes'[i].source = "hook", changes'[j].source = "hook",
                          changes'[i].after = changes'[j].after
                   PROVE  i = j
        BY DEF HooksMerged
      <4>1. CASE i \in Rows /\ j \in Rows
        BY <3>2, <4>1 DEF HooksInv, HooksMerged
      <4>2. CASE i = k /\ j \in Rows
        BY <3>1, <3>2, <4>2 DEF HooksInv, NoRowYet
      <4>3. CASE i \in Rows /\ j = k
        BY <3>1, <3>2, <4>3 DEF HooksInv, NoRowYet
      <4> QED  BY <3>2, <4>1, <4>2, <4>3
    <3>5. OneOnLoop'
      BY <3>1, <3>3 DEF HooksInv, OneOnLoop, OnLoop
    <3>6. NoRowYet'
      <4> SUFFICES ASSUME NEW q \in Requests, request'[q].at = "insert",
                          request'[q].source = "hook", NEW i \in Rows',
                          changes'[i].source = "hook"
                   PROVE  changes'[i].after # request'[q].after
        BY DEF NoRowYet
      <4>1. q # r /\ OnLoop(q)
        BY <3>3 DEF OnLoop
      <4>2. request[r].source # "hook"
        BY <3>1, <4>1 DEF HooksInv, OneOnLoop, OnLoop
      <4> QED  BY <3>2, <3>3, <4>1, <4>2 DEF HooksInv, NoRowYet
    <3> QED  BY <3>4, <3>5, <3>6 DEF HooksInv
  <2> QED  BY <2>1, <2>2
<1>5. ASSUME NEW r \in Requests, Send(r) \/ SendFails(r) PROVE HooksInv'
  <2>1. request'[r].at = "idle" /\ \A q \in Requests \ {r} : request'[q] = request[q]
    BY <1>r, <1>5, IdleSound DEF Send, SendFails
  <2>2. RowsKept /\ Rows' = Rows
    BY <1>5, RowsUnchanged DEF Send, SendFails
  <2> QED  BY <2>1, <2>2, HooksKept DEF OnLoop
<1>6. CASE ApiCrash
  <2>1. \A r \in Requests : request'[r].at = "idle"
    BY <1>6, IdleSound DEF ApiCrash
  <2>2. RowsKept /\ Rows' = Rows
    BY <1>6, RowsUnchanged DEF ApiCrash
  <2> QED  BY <2>1, <2>2, HooksKept DEF OnLoop
<1> QED  BY <1>1, <1>2, <1>3, <1>4, <1>5, <1>6
         DEF Next, vars, Process, Serve, Push, LoseHook, Take, SyncStart, Fetch, Index, Finish,
             Ack, Retry, SyncEnd, Scan, Fail, WorkerCrash

\* For every order and repetition of webhooks: the hooks of one commit make one row.
THEOREM HooksMakeOneRow == Spec => []HooksMerged
<1>1. Init => HooksInv
  BY IdleSound DEF Init, HooksInv, HooksMerged, OneOnLoop, NoRowYet, OnLoop, Rows
<1>2. HooksInv => HooksMerged
  BY DEF HooksInv
<1> QED  BY <1>1, <1>2, AlwaysTInv, HooksInductive, PTL DEF Spec
-----------------------------------------------------------------------------
(***************************************************************************)
(* The index follows the commits.                                           *)
(***************************************************************************)
FilesOK == \A w \in Workers :
  worker[w].at = "index" => worker[w].files = Diff(Row(w).before, Row(w).after)

NothingIndexed == indexedTo = NoSha => index = Empty

ChainInv == IndexFollowsChain /\ NothingIndexed /\ FilesOK

\* The files of a diff are all that tells two commits apart.
LEMMA DiffIsEnough ==
  ASSUME NEW before \in Commits, NEW after \in Commits,
         NEW old \in [Files -> Nat], old \in {Content[before], Content[after]}
  PROVE  [f \in Files |-> IF f \in Diff(before, after) THEN Content[after][f] ELSE old[f]]
           = Content[after]
<1>1. Content[after] \in [Files -> Nat]
  BY ReleaseAssumption
<1>2. Content[after] = [f \in Files |-> Content[after][f]]
  BY <1>1
<1>3. \A f \in Files : (IF f \in Diff(before, after) THEN Content[after][f] ELSE old[f])
                         = Content[after][f]
  BY ReleaseAssumption DEF Diff
<1> QED  BY <1>2, <1>3

LEMMA FilesInductive == TInv /\ FilesOK /\ [Next]_vars => FilesOK'
<1> SUFFICES ASSUME TInv, FilesOK, [Next]_vars, NEW w \in Workers, worker'[w].at = "index"
             PROVE  worker'[w].files = (Diff(Row(w).before, Row(w).after))'
  BY DEF FilesOK
<1>1. RowsKept
  <2>1. \A r \in Requests : Insert(r) => RowsKept
    BY Inserting, Appending, RowsUnchanged
  <2> QED  BY <2>1, OnlyInsertAdds
<1>2. CASE worker'[w] = worker[w]
  BY <1>1, <1>2, HandlingWorker DEF FilesOK, Row, RowsKept, Diff, Handling
<1>3. CASE Fetch(w)
  <2>1. /\ worker'[w].change = worker[w].change
        /\ worker'[w].files = Diff(Row(w).before, Row(w).after)
        /\ changes' = changes
    BY <1>3, Fetching DEF Fetch
  <2> QED  BY <2>1 DEF Row, Diff
<1>4. worker'[w] = worker[w] \/ Fetch(w)
  <2>w. worker \in [Workers -> WorkerState]
    BY DEF TInv, WorkersOK
  <2>1. CASE UNCHANGED worker
    BY <2>1
  <2>2. ASSUME NEW v \in Workers, NEW m \in queue, Take(v, m) PROVE worker'[w] = worker[w]
    BY <2>2, Taking, Becoming
  <2>3. ASSUME NEW v \in Workers, Fetch(v) PROVE worker'[w] = worker[w] \/ Fetch(w)
    BY <2>3, Fetching
  <2>4. ASSUME NEW v \in Workers, Index(v) \/ Finish(v) \/ Fail(v) PROVE worker'[w] = worker[w]
    BY <2>4, GotoSame DEF Index, Finish, Fail, Handling
  <2>5. ASSUME NEW v \in Workers, Ack(v) \/ Retry(v) \/ Scan(v) \/ WorkerCrash(v)
        PROVE  worker'[w] = worker[w]
    BY <2>5, IdleSound, Becoming DEF Ack, Retry, Scan, WorkerCrash
  <2>6. ASSUME NEW v \in Workers, (\E scan \in BOOLEAN : SyncStart(v, scan)) \/ SyncEnd(v)
        PROVE  worker'[w] = worker[w]
    <3>1. SoundWorker(worker[v])' /\ worker'[v].change = 0
      <4>1. TInv'
        BY <2>6, SyncKeeps
      <4>2. worker[v].change = 0
        BY <2>6, HandlingWorker DEF SyncStart, SyncEnd, Handling
      <4> QED  BY <2>6, <4>1, <4>2, QuietWorkers DEF TInv, WorkersOK
    <3>2. worker'[v].at # "index"
      <4>1. UNCHANGED changes
        BY <2>6 DEF SyncStart, SyncEnd
      <4> QED  BY <3>1, <4>1, RowIsTyped DEF SoundWorker, Handling, Rows
    <3>3. \A u \in Workers \ {v} : worker'[u] = worker[u]
      BY <2>w, <2>6 DEF SyncStart, SyncEnd, Become
    <3> QED  BY <3>2, <3>3
  <2> QED  BY <2>1, <2>2, <2>3, <2>4, <2>5, <2>6
           DEF Next, vars, Process, Serve, Push, LoseHook, Webhook, Reconcile, Compare, Lookup,
               Insert, Send, SendFails, ApiCrash
<1> QED  BY <1>2, <1>3, <1>4

LEMMA ChainInductive == TInv /\ ChainInv /\ [Next]_vars => ChainInv'
<1> SUFFICES ASSUME TInv, ChainInv, [Next]_vars PROVE ChainInv'
  OBVIOUS
<1>1. FilesOK'
  BY FilesInductive DEF ChainInv
<1>2. CASE UNCHANGED <<index, indexedTo, chained>>
  BY <1>1, <1>2 DEF ChainInv, IndexFollowsChain, NothingIndexed, Empty
<1>3. ASSUME NEW w \in Workers, Scan(w) PROVE ChainInv'
  <2>1. worker[w].sha \in Commits
    BY <1>3, HandlingWorker DEF Scan
  <2> QED  BY <1>1, <1>3, <2>1, ReleaseAssumption
           DEF Scan, ChainInv, IndexFollowsChain, NothingIndexed
<1>4. ASSUME NEW w \in Workers, Index(w) PROVE ChainInv'
  <2> DEFINE before == Row(w).before
             after  == Row(w).after
  <2>1. worker[w].change \in Rows /\ worker[w].files = Diff(before, after)
    BY <1>4, HandlingWorker DEF Index, Handling, ChainInv, FilesOK
  <2>2. after \in Commits /\ before \in Commits \cup {NoSha}
    BY <2>1, RowIsTyped DEF Row, Change, Shas
  <2>3. indexedTo' = after /\ index' = Updated(index, Diff(before, after), after)
        /\ chained' = (index = Empty \/ (chained /\ indexedTo \in {before, after}))
    BY <1>4, <2>1 DEF Index
  <2>4. index = Empty => index' = Content[after]
    BY <2>3 DEF Updated
  <2>5. ASSUME index # Empty, chained' PROVE index' = Content[after]
    <3>1. chained /\ indexedTo \in {before, after} /\ indexedTo # NoSha
      BY <2>3, <2>5 DEF ChainInv, NothingIndexed
    <3>2. index = Content[indexedTo]
      BY <3>1 DEF ChainInv, IndexFollowsChain
    <3>3. index' = [f \in Files |-> IF f \in Diff(before, after) THEN Content[after][f]
                                    ELSE index[f]]
      BY <2>3, <2>5 DEF Updated
    <3>4. index \in [Files -> Nat]
      BY DEF TInv, PlainOK
    <3>5. CASE before = NoSha
      <4>1. Diff(before, after) = {} /\ index = Content[after]
        BY <3>1, <3>2, <3>5 DEF Diff
      <4>2. index = [f \in Files |-> index[f]]
        BY <3>4
      <4> QED  BY <3>3, <4>1, <4>2
    <3>6. CASE before # NoSha
      <4>1. before \in Commits /\ index \in {Content[before], Content[after]}
        BY <2>2, <3>1, <3>2, <3>6
      <4> HIDE DEF before, after
      <4> QED  BY <2>2, <3>3, <3>4, <4>1, DiffIsEnough
    <3> QED  BY <3>5, <3>6
  <2>6. IndexFollowsChain'
    <3>1. chained' => index' = Content[indexedTo']
      BY <2>3, <2>4, <2>5
    <3> QED  BY <3>1 DEF IndexFollowsChain
  <2>7. NothingIndexed'
    BY <2>2, <2>3, ReleaseAssumption DEF NothingIndexed
  <2> QED  BY <1>1, <2>6, <2>7 DEF ChainInv
<1> QED  BY <1>2, <1>3, <1>4
         DEF Next, vars, history, Process, Serve, Push, LoseHook, Webhook, Reconcile, Compare,
             Lookup, Insert, Send, SendFails, ApiCrash, Take, SyncStart, Fetch, Finish, Ack,
             Retry, SyncEnd, Fail, WorkerCrash

\* For any commits, pushes and files: while each update starts where the one before ended, or
\* repeats it, the index is the commit's content; the diff between the two commits is enough.
THEOREM IndexIsTheCommit == Spec => []IndexFollowsChain
<1>1. Init => ChainInv
  BY IdleSound, ReleaseAssumption DEF Init, ChainInv, IndexFollowsChain, NothingIndexed, FilesOK
<1>2. ChainInv => IndexFollowsChain
  BY DEF ChainInv
<1> QED  BY <1>1, <1>2, AlwaysTInv, ChainInductive, PTL DEF Spec
============================================================================
