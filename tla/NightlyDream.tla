----------------------------- MODULE NightlyDream -----------------------------
(***************************************************************************)
(* enqueue_nightly_dreams (apps/worker/tasks.py): every worker process has *)
(* a thread that, once a minute after the configured hour, gives every     *)
(* project with candidate memories one incremental dream for the day.      *)
(* What keeps the processes apart is the lock on the project's row and a   *)
(* look at the day's jobs; create_dream of the API takes no such lock, and *)
(* a thread may still be at work when the day ends.                        *)
(***************************************************************************)
EXTENDS FiniteSets, Integers

CONSTANTS
  DreamProjects,  \* projects
  Schedulers,     \* worker processes
  MaxDays,        \* bound on days
  MaxManual,      \* bound on dreams created through the API
  MaxCrashes      \* bound on crashes of workers

ASSUME NightlyAssumption ==
  /\ MaxDays \in Nat \ {0} /\ {MaxManual, MaxCrashes} \subseteq Nat
  /\ "nobody" \notin Schedulers /\ "none" \notin DreamProjects

VARIABLES
  day, night,   \* the local date, and whether auto_dream_hour has come
  ripe,         \* projects that have candidate memories
  dreams,       \* rows of jobs of kind dream_incremental
  rowlock,      \* who holds the row of each project, if anybody
  scheduler,    \* what each thread is doing
  manual, crashes

nightlyVars == <<day, night, ripe, dreams, rowlock, scheduler, manual, crashes>>

Nobody == "nobody"
NoProject == "none"

\* created: day of created_at.  schedule: schedule_date, 0 if made by hand.
Dream0 == [project : DreamProjects, created : 1..MaxDays, schedule : 0..MaxDays,
           status : {"queued", "sent", "failed"}, number : Nat]

\* since is day_start, computed once; todo the projects still to be looked at.
Scheduler == [at : {"idle", "scan", "search", "insert", "send"}, since : 0..MaxDays,
              todo : SUBSET DreamProjects, project : DreamProjects \cup {NoProject}]
Asleep == [at |-> "idle", since |-> 0, todo |-> {}, project |-> NoProject]

NightlyInit ==
  /\ day = 1 /\ night = FALSE
  /\ ripe = {} /\ dreams = {}
  /\ rowlock = [p \in DreamProjects |-> Nobody]
  /\ scheduler = [s \in Schedulers |-> Asleep]
  /\ manual = 0 /\ crashes = 0

Step(s, at) == scheduler' = [scheduler EXCEPT ![s].at = at]

Next0(s) == scheduler' = [scheduler EXCEPT
  ![s].at = "scan", ![s].todo = @ \ {scheduler[s].project}, ![s].project = NoProject]

AlwaysFree(p) == TRUE
Free(p) == rowlock[p] = Nobody
-----------------------------------------------------------------------------
Wake(s) ==
  /\ scheduler[s].at = "idle"
  /\ night
  /\ ripe # {}
  /\ scheduler' = [scheduler EXCEPT ![s] =
       [Asleep EXCEPT !.at = "scan", !.since = day, !.todo = ripe]]
  /\ UNCHANGED <<day, night, ripe, dreams, rowlock, manual, crashes>>

Sleep(s) ==
  /\ scheduler[s].at = "scan" /\ scheduler[s].todo = {}
  /\ scheduler' = [scheduler EXCEPT ![s] = Asleep]
  /\ UNCHANGED <<day, night, ripe, dreams, rowlock, manual, crashes>>

\* SELECT ... FOR UPDATE on the project.
LockProject(s, p) ==
  /\ scheduler[s].at = "scan" /\ p \in scheduler[s].todo
  /\ Free(p)
  /\ rowlock' = [rowlock EXCEPT ![p] = s]
  /\ scheduler' = [scheduler EXCEPT ![s].at = "search", ![s].project = p]
  /\ UNCHANGED <<day, night, ripe, dreams, manual, crashes>>

Unlocked(s) == [p \in DreamProjects |-> IF rowlock[p] = s THEN Nobody ELSE rowlock[p]]

\* The day's incremental dream, made by whomever, in whatever status.
TakenToday(s) ==
  \E d \in dreams : d.project = scheduler[s].project /\ d.created >= scheduler[s].since

Search(s) ==
  /\ scheduler[s].at = "search"
  /\ IF TakenToday(s) THEN Next0(s) /\ rowlock' = Unlocked(s)
     ELSE Step(s, "insert") /\ UNCHANGED rowlock
  /\ UNCHANGED <<day, night, ripe, dreams, manual, crashes>>

\* created_at is the clock at the insert, schedule_date that at the start.
NewDream(p, schedule, status) ==
  [project |-> p, created |-> day, schedule |-> schedule, status |-> status,
   number |-> Cardinality(dreams) + 1]

InsertDream(s) ==
  /\ scheduler[s].at = "insert"
  /\ dreams' = dreams \cup
       {NewDream(scheduler[s].project, scheduler[s].since, "queued")}
  /\ rowlock' = Unlocked(s)
  /\ Step(s, "send")
  /\ UNCHANGED <<day, night, ripe, manual, crashes>>

\* run_dream.send, or the job is marked failed.
SendDream(s, ok) ==
  LET mine == {d \in dreams : /\ d.project = scheduler[s].project
                              /\ d.schedule = scheduler[s].since
                              /\ d.status = "queued"}
  IN  /\ scheduler[s].at = "send"
      /\ dreams' = (dreams \ mine) \cup
           {[d EXCEPT !.status = IF ok THEN "sent" ELSE "failed"] : d \in mine}
      /\ Next0(s)
      /\ UNCHANGED <<day, night, ripe, rowlock, manual, crashes>>

\* The process dies; its transaction is rolled back.
CrashScheduler(s) ==
  /\ scheduler[s].at # "idle" /\ crashes < MaxCrashes
  /\ crashes' = crashes + 1
  /\ rowlock' = Unlocked(s)
  /\ scheduler' = [scheduler EXCEPT ![s] = Asleep]
  /\ UNCHANGED <<day, night, ripe, dreams, manual>>

\* create_dream with dream_type incremental: no lock, no look at other jobs.
CreateDream(p, ok) ==
  /\ manual < MaxManual
  /\ manual' = manual + 1
  /\ dreams' = dreams \cup {NewDream(p, 0, IF ok THEN "sent" ELSE "failed")}
  /\ UNCHANGED <<day, night, ripe, rowlock, scheduler, crashes>>

\* Imports make candidates, dreams use them up.
Ripen(p) ==
  /\ ripe' = IF p \in ripe THEN ripe \ {p} ELSE ripe \cup {p}
  /\ UNCHANGED <<day, night, dreams, rowlock, scheduler, manual, crashes>>

Clock ==
  /\ IF night THEN day < MaxDays /\ day' = day + 1 ELSE UNCHANGED day
  /\ night' = ~night
  /\ UNCHANGED <<ripe, dreams, rowlock, scheduler, manual, crashes>>

NightlyNext ==
  \/ \E s \in Schedulers :
       \/ Wake(s) \/ Sleep(s) \/ Search(s) \/ InsertDream(s) \/ CrashScheduler(s)
       \/ \E p \in DreamProjects : LockProject(s, p)
       \/ \E ok \in BOOLEAN : SendDream(s, ok)
  \/ \E p \in DreamProjects : Ripen(p) \/ (\E ok \in BOOLEAN : CreateDream(p, ok))
  \/ Clock

NightlySpec == NightlyInit /\ [][NightlyNext]_nightlyVars
-----------------------------------------------------------------------------
(***************************************************************************)
(* Properties                                                              *)
(***************************************************************************)

\* Types, and that a row is locked only by the thread looking at its project.
NightlyTypeOK ==
  /\ day \in 1..MaxDays /\ night \in BOOLEAN
  /\ ripe \subseteq DreamProjects
  /\ dreams \subseteq Dream0
  /\ rowlock \in [DreamProjects -> Schedulers \cup {Nobody}]
  /\ scheduler \in [Schedulers -> Scheduler]
  /\ \A p \in DreamProjects, s \in Schedulers : rowlock[p] = s =>
       scheduler[s].at \in {"search", "insert"} /\ scheduler[s].project = p

\* enqueue_nightly_dreams, "at most one incremental dream per project a day":
\* however many processes run the scheduler, wherever they crash and whether
\* or not their sends fail, a project gets at most one automatic dream per
\* day, counted by the day it was meant for and by the day it was made; a
\* thread overtaken by midnight uses up the new day too.
OneNightlyPerDay ==
  \A d, e \in dreams :
    /\ d # e /\ d.project = e.project
    /\ d.schedule > 0 /\ e.schedule > 0
    => d.schedule # e.schedule /\ d.created # e.created
=============================================================================
