--------------------------- MODULE ReleaseChanges ---------------------------
(***************************************************************************)
(* From a push to GitLab to analysed evidence: webhooks and reconciliation *)
(* write a row of release_changes once, a Redis message points a worker at *)
(* the row, and process_release_change fetches the mirror, brings the code *)
(* index up to date and stores the evidence.  One repository and its       *)
(* release branch.                                                         *)
(*                                                                         *)
(* GitLab and git are external: a commit is a model value, what it holds   *)
(* is the constant Content, and fetching a commit fetches its Ancestors.   *)
(***************************************************************************)
EXTENDS Naturals, Sequences

CONSTANTS
  Commits,     \* commits the release branch may point at, and merge request heads
  NoSha,       \* the empty string or NULL in a column that holds a commit
  Base,        \* where the branch is at first
  Scanned,     \* whether an initialization has already scanned Base
  Moves,       \* pairs <<before, after>> the branch may be pushed along
  MergeHead,   \* [Commits -> Commits \cup {NoSha}]: the head a commit merged
  Ancestors,   \* [Commits -> SUBSET Commits], each commit its own ancestor
  Files,       \* paths
  Content,     \* [Commits -> [Files -> Nat]], 0 where the commit has no such file
  Workers,     \* worker threads
  Requests,    \* API requests that may be in flight
  MaxRetries,  \* max_retries of process_release_change
  Faults,      \* what the environment may do wrong, a subset of AllFaults
  MaxFaults,   \* bound on crashes of the API or of a worker
  MaxPushes    \* bound on the pushes to the branch

AllFaults == {"hook_lost",       \* GitLab gives up on a webhook
              "hook_repeated",   \* GitLab delivers a webhook again
              "send_failure",    \* Redis refuses the message
              "git_failure",     \* git raises RuntimeError
              "llm_failure",     \* anything else raises in the worker
              "api_crash", "worker_crash"}

ASSUME ReleaseAssumption ==
  /\ NoSha \notin Commits
  /\ Base \in Commits
  /\ Scanned \in BOOLEAN
  /\ Moves \subseteq Commits \X Commits
  /\ MergeHead \in [Commits -> Commits \cup {NoSha}]
  /\ Ancestors \in [Commits -> SUBSET Commits]
  /\ \A c \in Commits : c \in Ancestors[c]
  /\ Content \in [Commits -> [Files -> Nat]]
  /\ Faults \subseteq AllFaults
  /\ {MaxRetries, MaxFaults, MaxPushes} \subseteq Nat

VARIABLES
  tip,         \* the release branch at GitLab
  pushes,      \* pushes so far
  hooks,       \* webhooks GitLab still has to deliver
  changes,     \* the table release_changes, in the order of insertion
  sync,        \* repository_sync_state: last_remote_sha and last_synced_sha
  mirrored,    \* commits the bare mirror holds
  index,       \* code_files: the version indexed of each path, 0 for none
  queue,       \* messages of process_release_change
  worker,      \* what each worker is doing
  request,     \* what each API request is doing
  indexedTo,   \* history: the commit of the last index update
  chained,     \* history: each update started where the one before ended
  exhausted,   \* history: rows whose message used up its retries
  unsent,      \* history: rows whose message was never sent
  faults       \* crashes so far

gitlab  == <<tip, pushes, hooks>>
history == <<indexedTo, chained, exhausted, unsent>>
vars    == <<gitlab, changes, sync, mirrored, index, queue, worker, request,
             history, faults>>
-----------------------------------------------------------------------------
Shas  == Commits \cup {NoSha}
Rows  == DOMAIN changes
Empty == [f \in Files |-> 0]

SyncState == [remote : Shas, synced : Shas]

Hook    == [before : Shas, after : Commits]
Change  == [before : Shas, after : Commits, source : {"hook", "reconcile"},
            status : {"pending", "processing", "succeeded", "retryable"}]
Message == [change : Nat, attempt : 0..MaxRetries]

WorkerState == [at : {"idle", "fetch", "index", "finish", "raised", "ack",
                      "sync", "scan"},
                change : Nat, attempt : 0..MaxRetries, files : SUBSET Files,
                sha : Shas, seen : SyncState, scan : BOOLEAN]

RequestState == [at : {"idle", "compare", "lookup", "insert", "send"},
                 source : {"hook", "reconcile"}, before : Shas, after : Shas,
                 remote : Shas, change : Nat]

IdleWorker == [at |-> "idle", change |-> 0, attempt |-> 0, files |-> {},
               sha |-> NoSha, seen |-> [remote |-> NoSha, synced |-> NoSha],
               scan |-> FALSE]

NoRequest == [at |-> "idle", source |-> "hook", before |-> NoSha, after |-> NoSha,
              remote |-> NoSha, change |-> 0]

Init ==
  /\ tip = Base /\ pushes = 0 /\ hooks = {}
  /\ changes = <<>>
  /\ indexedTo = (IF Scanned THEN Base ELSE NoSha) /\ chained = TRUE
  /\ sync = [remote |-> indexedTo, synced |-> indexedTo]
  /\ mirrored = IF Scanned THEN Ancestors[Base] ELSE {}
  /\ index = IF Scanned THEN Content[Base] ELSE Empty
  /\ queue = {}
  /\ worker  = [w \in Workers |-> IdleWorker]
  /\ request = [r \in Requests |-> NoRequest]
  /\ exhausted = {} /\ unsent = {}
  /\ faults = 0

Become(w, state) == worker' = [worker EXCEPT ![w] = state]
Goto(w, at)      == Become(w, [worker[w] EXCEPT !.at = at])
Row(w)           == changes[worker[w].change]
SetStatus(i, s)  == changes' = [changes EXCEPT ![i].status = s]
-----------------------------------------------------------------------------
(***************************************************************************)
(* GitLab.  A merge fires a merge request hook besides the push hook, and  *)
(* it names the head of the merged branch as what was there before.        *)
(***************************************************************************)
HooksOf(before, after) ==
  {[before |-> before, after |-> after]}
    \cup {[before |-> m, after |-> after] : m \in {MergeHead[after]} \ {NoSha}}

Push(after) ==
  /\ pushes < MaxPushes
  /\ <<tip, after>> \in Moves
  /\ tip' = after
  /\ pushes' = pushes + 1
  /\ hooks' = hooks \cup HooksOf(tip, after)
  /\ UNCHANGED <<changes, sync, mirrored, index, queue, worker, request, history,
                 faults>>

LoseHook(h) ==
  /\ "hook_lost" \in Faults
  /\ hooks' = hooks \ {h}
  /\ UNCHANGED <<tip, pushes, changes, sync, mirrored, index, queue, worker, request,
                 history, faults>>
-----------------------------------------------------------------------------
(***************************************************************************)
(* The API.  gitlab_webhook is a coroutine that does not wait once it has  *)
(* its body, so the event loop runs one webhook at a time; reconcile is a  *)
(* plain function on a thread of its own.                                  *)
(***************************************************************************)
\* Mutant of Known: only the change key is looked up.
KnownByKey(before, after) ==
  \E i \in Rows : changes[i].before = before /\ changes[i].after = after

\* persist_release_change finds a row: the one with the same change key also has
\* the same branch and after_sha, which its second query looks for.
Known(before, after) == \E i \in Rows : changes[i].after = after

EventLoopBusy == \E r \in Requests : request[r].at # "idle" /\ request[r].source = "hook"

Webhook(r, h) ==
  /\ request[r].at = "idle"
  /\ ~EventLoopBusy
  /\ \/ hooks' = hooks \ {h}
     \/ "hook_repeated" \in Faults /\ UNCHANGED hooks
  /\ request' = IF Known(h.before, h.after) THEN request
                ELSE [request EXCEPT ![r] = [NoRequest EXCEPT !.at = "insert",
                                             !.before = h.before, !.after = h.after]]
  /\ UNCHANGED <<tip, pushes, changes, sync, mirrored, index, queue, worker, history,
                 faults>>

\* reconcile reads the sync state ...
Reconcile(r) ==
  /\ request[r].at = "idle"
  /\ request' = [request EXCEPT ![r] =
                   [NoRequest EXCEPT !.at = "compare", !.source = "reconcile",
                                     !.before = sync.synced, !.remote = sync.remote]]
  /\ UNCHANGED <<gitlab, changes, sync, mirrored, index, queue, worker, history, faults>>

\* ... asks GitLab for the branch, and returns if it knows the commit ...
Compare(r) ==
  LET same == tip \in {request[r].remote, request[r].before}
  IN  /\ request[r].at = "compare"
      /\ request' = [request EXCEPT ![r] =
                       IF same THEN NoRequest
                       ELSE [@ EXCEPT !.at = "lookup", !.after = tip]]
      /\ UNCHANGED <<gitlab, changes, sync, mirrored, index, queue, worker, history,
                     faults>>

\* Mutant of Lookup: a change that was found is handed on as if it were new.
LookupSendsAgain(r) ==
  /\ request[r].at = "lookup"
  /\ request' = [request EXCEPT ![r] =
                   IF Known(request[r].before, request[r].after)
                   THEN [@ EXCEPT !.at = "send",
                                  !.change = CHOOSE i \in Rows :
                                               changes[i].after = request[r].after]
                   ELSE [@ EXCEPT !.at = "insert"]]
  /\ UNCHANGED <<gitlab, changes, sync, mirrored, index, queue, worker, history, faults>>

\* ... and records the difference unless there is a row for it.
Lookup(r) ==
  LET known == Known(request[r].before, request[r].after)
  IN  /\ request[r].at = "lookup"
      /\ request' = [request EXCEPT ![r] =
                       IF known THEN NoRequest ELSE [@ EXCEPT !.at = "insert"]]
      /\ sync' = IF known THEN [sync EXCEPT !.remote = request[r].after] ELSE sync
      /\ UNCHANGED <<gitlab, changes, mirrored, index, queue, worker, history, faults>>

\* The INSERT; change_key is unique, so the second of two equal ones fails.
Insert(r) ==
  LET q == request[r]
      twin == \E i \in Rows : changes[i].before = q.before /\ changes[i].after = q.after
      recorded == q.source = "reconcile" /\ ~twin
  IN  /\ q.at = "insert"
      /\ changes' = IF twin THEN changes
                    ELSE Append(changes, [before |-> q.before, after |-> q.after,
                                          source |-> q.source, status |-> "pending"])
      /\ request' = [request EXCEPT ![r] =
                       IF twin THEN NoRequest
                       ELSE [@ EXCEPT !.at = "send", !.change = Len(changes) + 1]]
      /\ sync' = IF recorded THEN [sync EXCEPT !.remote = q.after] ELSE sync
      /\ UNCHANGED <<gitlab, mirrored, index, queue, worker, history, faults>>

Send(r) ==
  /\ request[r].at = "send"
  /\ queue' = queue \cup {[change |-> request[r].change, attempt |-> 0]}
  /\ request' = [request EXCEPT ![r] = NoRequest]
  /\ UNCHANGED <<gitlab, changes, sync, mirrored, index, worker, history, faults>>

\* _enqueue_release_change swallows the exception.
SendFails(r) ==
  /\ "send_failure" \in Faults
  /\ request[r].at = "send"
  /\ unsent' = unsent \cup {request[r].change}
  /\ request' = [request EXCEPT ![r] = NoRequest]
  /\ UNCHANGED <<gitlab, changes, sync, mirrored, index, queue, worker, indexedTo,
                 chained, exhausted, faults>>

ApiCrash ==
  /\ "api_crash" \in Faults
  /\ faults < MaxFaults
  /\ unsent' = unsent \cup {request[r].change : r \in {x \in Requests : request[x].at = "send"}}
  /\ request' = [r \in Requests |-> NoRequest]
  /\ faults' = faults + 1
  /\ UNCHANGED <<gitlab, changes, sync, mirrored, index, queue, worker, indexedTo,
                 chained, exhausted>>
-----------------------------------------------------------------------------
(***************************************************************************)
(* process_release_change.                                                 *)
(***************************************************************************)
\* Mutant of Take: the worker does not look at the status of the row.
TakeAlways(w, m) ==
  /\ worker[w].at = "idle"
  /\ queue' = queue \ {m}
  /\ SetStatus(m.change, "processing")
  /\ Become(w, [IdleWorker EXCEPT !.at = "fetch", !.change = m.change,
                                  !.attempt = m.attempt])
  /\ UNCHANGED <<gitlab, sync, mirrored, index, request, history, faults>>

\* Mutant of Take: only a pending row is worked on.
TakeOnlyPending(w, m) ==
  /\ worker[w].at = "idle"
  /\ queue' = queue \ {m}
  /\ IF changes[m.change].status # "pending"
     THEN UNCHANGED <<changes, worker>>
     ELSE /\ SetStatus(m.change, "processing")
          /\ Become(w, [IdleWorker EXCEPT !.at = "fetch", !.change = m.change,
                                          !.attempt = m.attempt])
  /\ UNCHANGED <<gitlab, sync, mirrored, index, request, history, faults>>

Take(w, m) ==
  /\ worker[w].at = "idle"
  /\ queue' = queue \ {m}
  /\ IF changes[m.change].status = "succeeded"
     THEN UNCHANGED <<changes, worker>>
     ELSE /\ SetStatus(m.change, "processing")
          /\ Become(w, [IdleWorker EXCEPT !.at = "fetch", !.change = m.change,
                                          !.attempt = m.attempt])
  /\ UNCHANGED <<gitlab, sync, mirrored, index, request, history, faults>>

\* git diff before after; without a before_sha the commit is compared to itself.
Diff(before, after) ==
  IF before = NoSha THEN {}
  ELSE {f \in Files : Content[before][f] # Content[after][f]}

\* mirror.sync and changed_files. A commit the mirror does not hold makes git
\* diff raise; the RuntimeError is swallowed and the change goes on without files.
Fetch(w) ==
  LET c == Row(w)
  IN  /\ worker[w].at = "fetch"
      /\ \/ /\ mirrored' = mirrored \cup Ancestors[tip]
            /\ IF {c.before, c.after} \ {NoSha} \subseteq mirrored'
               THEN Become(w, [worker[w] EXCEPT !.at = "index",
                                                !.files = Diff(c.before, c.after)])
               ELSE Goto(w, "finish")
         \/ /\ "git_failure" \in Faults
            /\ Goto(w, "finish")
            /\ mirrored' \in {mirrored, mirrored \cup Ancestors[tip]}
      /\ UNCHANGED <<gitlab, changes, sync, index, queue, request, history, faults>>

\* Mutant of Updated: the files are read at the commit the branch is at.
UpdatedToTip(old, files, sha) ==
  [f \in Files |-> IF f \in files THEN Content[tip][f] ELSE old[f]]

\* incremental_update, or index_snapshot of a repository with no indexed file.
Updated(old, files, sha) ==
  IF old = Empty THEN Content[sha]
  ELSE [f \in Files |-> IF f \in files THEN Content[sha][f] ELSE old[f]]

Index(w) ==
  LET c == Row(w)
  IN  /\ worker[w].at = "index"
      /\ index' = Updated(index, worker[w].files, c.after)
      /\ chained' = \/ index = Empty
                    \/ chained /\ indexedTo \in {c.before, c.after}
      /\ indexedTo' = c.after
      /\ Goto(w, "finish")
      /\ UNCHANGED <<gitlab, changes, sync, mirrored, queue, request, exhausted,
                     unsent, faults>>

\* Evidence, candidate and the status succeeded are one transaction.
Finish(w) ==
  /\ worker[w].at = "finish"
  /\ SetStatus(worker[w].change, "succeeded")
  /\ Goto(w, "ack")
  /\ UNCHANGED <<gitlab, sync, mirrored, index, queue, request, history, faults>>

Ack(w) ==
  /\ worker[w].at = "ack"
  /\ Become(w, IdleWorker)
  /\ UNCHANGED <<gitlab, changes, sync, mirrored, index, queue, request, history, faults>>

Fail(w) ==
  /\ "llm_failure" \in Faults
  /\ worker[w].at \in {"fetch", "index", "finish"}
  /\ Goto(w, "raised")
  /\ UNCHANGED <<gitlab, changes, sync, mirrored, index, queue, request, history, faults>>

\* Mutant of Retry: the handler does not raise again.
RetrySwallows(w) ==
  /\ worker[w].at = "raised"
  /\ SetStatus(worker[w].change, "retryable")
  /\ Become(w, IdleWorker)
  /\ UNCHANGED <<gitlab, sync, mirrored, index, queue, request, history, faults>>

\* Mutant of Retry: no attempt is the last one.
RetryForever(w) ==
  /\ worker[w].at = "raised"
  /\ SetStatus(worker[w].change, "retryable")
  /\ queue' = queue \cup {[change |-> worker[w].change,
                           attempt |-> worker[w].attempt + 1]}
  /\ Become(w, IdleWorker)
  /\ UNCHANGED <<gitlab, sync, mirrored, index, request, history, faults>>

\* The handler of Exception; Dramatiq puts the message back until max_retries.
Retry(w) ==
  LET again == worker[w].attempt < MaxRetries
  IN  /\ worker[w].at = "raised"
      /\ SetStatus(worker[w].change, "retryable")
      /\ queue' = IF again THEN queue \cup {[change |-> worker[w].change,
                                             attempt |-> worker[w].attempt + 1]}
                  ELSE queue
      /\ exhausted' = IF again THEN exhausted ELSE exhausted \cup {worker[w].change}
      /\ Become(w, IdleWorker)
      /\ UNCHANGED <<gitlab, sync, mirrored, index, request, indexedTo, chained,
                     unsent, faults>>
-----------------------------------------------------------------------------
(***************************************************************************)
(* RepositorySyncService.sync: a job of its own, or (scan) the first stage *)
(* of an initialization, which indexes the commit it has fetched.          *)
(***************************************************************************)
SyncStart(w, scan) ==
  /\ worker[w].at = "idle"
  /\ Become(w, [IdleWorker EXCEPT !.at = "sync", !.sha = tip, !.seen = sync,
                                  !.scan = scan])
  /\ UNCHANGED <<gitlab, changes, sync, mirrored, index, queue, request, history, faults>>

\* What the session writes of a column whose old value it remembers: an UPDATE
\* names only the columns that differ from the copy.
Flushed(current, seen, new) == IF new = seen THEN current ELSE new

\* The fetch must find the commit GitLab named, else the sync raises.
SyncEnd(w) ==
  LET sha  == worker[w].sha
      seen == worker[w].seen
  IN  /\ worker[w].at = "sync"
      /\ mirrored' = mirrored \cup Ancestors[tip]
      /\ \/ /\ tip = sha
            /\ sync' = [remote |-> Flushed(sync.remote, seen.remote, sha),
                        synced |-> Flushed(sync.synced, seen.synced, sha)]
            /\ Become(w, IF worker[w].scan
                         THEN [IdleWorker EXCEPT !.at = "scan", !.sha = sha, !.scan = TRUE]
                         ELSE IdleWorker)
         \/ tip # sha /\ Become(w, IdleWorker) /\ UNCHANGED sync
      /\ UNCHANGED <<gitlab, changes, index, queue, request, history, faults>>

Scan(w) ==
  /\ worker[w].at = "scan"
  /\ index' = Content[worker[w].sha]
  /\ indexedTo' = worker[w].sha
  /\ chained' = TRUE
  /\ Become(w, IdleWorker)
  /\ UNCHANGED <<gitlab, changes, sync, mirrored, queue, request, exhausted, unsent,
                 faults>>

\* A worker dies and comes back; an unacknowledged message comes back with it.
WorkerCrash(w) ==
  /\ "worker_crash" \in Faults
  /\ faults < MaxFaults
  /\ worker[w].at # "idle"
  /\ queue' = queue \cup {[change |-> worker[x].change, attempt |-> worker[x].attempt] :
                            x \in {y \in {w} : worker[y].change # 0}}
  /\ Become(w, IdleWorker)
  /\ faults' = faults + 1
  /\ UNCHANGED <<gitlab, changes, sync, mirrored, index, request, history>>
-----------------------------------------------------------------------------
Process(w) == Fetch(w) \/ Index(w) \/ Finish(w) \/ Ack(w) \/ Retry(w) \/ SyncEnd(w) \/ Scan(w)

Serve(r) == Compare(r) \/ Lookup(r) \/ Insert(r) \/ Send(r)

Next ==
  \/ \E c \in Commits : Push(c)
  \/ \E h \in hooks : LoseHook(h)
  \/ \E r \in Requests :
       \/ \E h \in hooks : Webhook(r, h)
       \/ Reconcile(r) \/ Serve(r) \/ SendFails(r)
  \/ ApiCrash
  \/ \E w \in Workers :
       \/ \E m \in queue : Take(w, m)
       \/ \E scan \in BOOLEAN : SyncStart(w, scan)
       \/ Process(w) \/ Fail(w) \/ WorkerCrash(w)

Spec == Init /\ [][Next]_vars

\* Workers go on with what they have taken, requests are served, and Redis passes
\* no message over for ever, whatever other jobs the worker also takes.
Fairness ==
  /\ \A w \in Workers :
       /\ WF_vars(Process(w))
       /\ SF_vars(\E m \in queue : Take(w, m))
  /\ \A r \in Requests : WF_vars(Serve(r))

FairSpec == Spec /\ Fairness
-----------------------------------------------------------------------------
TypeOK ==
  /\ tip \in Commits
  /\ pushes \in 0..MaxPushes
  /\ hooks \subseteq Hook
  /\ changes \in Seq(Change)
  /\ sync \in SyncState
  /\ mirrored \subseteq Commits
  /\ index \in [Files -> Nat]
  /\ queue \subseteq Message
  /\ worker \in [Workers -> WorkerState]
  /\ request \in [Requests -> RequestState]
  /\ indexedTo \in Shas
  /\ chained \in BOOLEAN
  /\ {exhausted, unsent} \subseteq SUBSET Rows
  /\ faults \in Nat

\* A change is in one hand: it has a message, or a worker, or a request about to
\* send its message, and never two of them. The look-ups of evidence and of
\* memories before their inserts are safe because no second worker runs between.
InHand(i) ==
  {<<"message", m>> : m \in {x \in queue : x.change = i}}
    \cup {<<"worker", w>> : w \in {x \in Workers : worker[x].change = i}}
    \cup {<<"request", r>> : r \in {x \in Requests : request[x].at = "send"
                                                    /\ request[x].change = i}}

HandledOnce == \A i \in Rows : \A x, y \in InHand(i) : x = y

\* A change that is not analysed yet is in some hand, unless its send failed, the
\* API died before it, or its retries are used up: crashes, repeated webhooks and
\* reconciliations lose none.
NothingForgotten ==
  \A i \in Rows : changes[i].status # "succeeded"
                    => InHand(i) # {} \/ i \in exhausted \cup unsent

\* models.ReleaseChange: the merge request hook and the push hook of one commit,
\* in either order and repeated, make one row.
HooksMerged ==
  \A i, j \in Rows :
    /\ changes[i].source = "hook" /\ changes[j].source = "hook"
    /\ changes[i].after = changes[j].after
    => i = j

\* While each update of the code index starts from the commit where the one before
\* ended, or repeats it, the index is the commit's content, file by file.
IndexFollowsChain == chained /\ indexedTo # NoSha => index = Content[indexedTo]

\* tasks.process_release_change: an analysed change is not analysed again, although
\* Dramatiq delivers at least once.
SucceededForGood ==
  [][\A i \in Rows : changes[i].status = "succeeded"
                       => changes'[i].status = "succeeded"]_changes

\* README: a lost webhook is made up for by reconciling the branch. A reconcile that
\* returns without a change has found a commit that is recorded, whose webhook is
\* still on its way, that the index is at or is being brought to, or that was there
\* when the repository was registered.
Settled(c) ==
  \/ c = Base \/ c = indexedTo
  \/ \E i \in Rows : changes[i].after = c
  \/ \E h \in hooks : h.after = c
  \/ \E r \in Requests : request[r].at = "insert" /\ request[r].after = c
  \/ \E w \in Workers : worker[w].scan /\ worker[w].sha = c

ReconcileCompensates ==
  [][\A r \in Requests :
       request[r].at = "compare" /\ request'[r].at = "idle" /\ faults' = faults
         => Settled(tip)]_request

Answered(c) ==
  \E i \in Rows : changes[i].after = c /\ (i \in exhausted \/ changes[i].status = "succeeded")

\* _enqueue_release_change: a change that could not be sent is sent again later.
StoredIsProcessed ==
  \A c \in Commits : (\E i \in Rows : changes[i].after = c) ~> Answered(c)
=============================================================================
