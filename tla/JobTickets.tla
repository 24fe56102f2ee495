----------------------------- MODULE JobTickets -----------------------------
(***************************************************************************)
(* What the jobs table promises about the business logic of a job, with    *)
(* neither messages nor workers nor requests: every time somebody queues   *)
(* the job a ticket is issued; the ticket of a job is used at most once,   *)
(* by the execution that enters the business logic, or it is withdrawn by  *)
(* whoever takes the job out of queued.  JobLifecycle implements this.     *)
(***************************************************************************)
EXTENDS Naturals

CONSTANT Jobs

VARIABLES
  open,    \* the jobs with a ticket nobody has used: those that read queued
  issued,  \* tickets issued for each job so far
  used     \* times the business logic of each job was entered

vars == <<open, issued, used>>

Init ==
  /\ open   = {}
  /\ issued = [j \in Jobs |-> 0]
  /\ used   = [j \in Jobs |-> 0]

\* A job without a ticket is created, resumed or retried.
Issue(j) ==
  /\ j \notin open
  /\ open'   = open \cup {j}
  /\ issued' = [issued EXCEPT ![j] = @ + 1]
  /\ UNCHANGED used

\* claim_job lets one execution in.
Use(j) ==
  /\ j \in open
  /\ open' = open \ {j}
  /\ used' = [used EXCEPT ![j] = @ + 1]
  /\ UNCHANGED issued

\* The job is paused, cancelled, deleted or overwritten by an older execution.
Withdraw(j) ==
  /\ j \in open
  /\ open' = open \ {j}
  /\ UNCHANGED <<issued, used>>

Next == \E j \in Jobs : Issue(j) \/ Use(j) \/ Withdraw(j)

Spec == Init /\ [][Next]_vars
=============================================================================
