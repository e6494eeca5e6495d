---------------------------- MODULE JobDispatch ----------------------------
(***************************************************************************)
(* The transactional outbox that carries background jobs to the broker:    *)
(* table job_dispatches, the reconciler that publishes its rows and the    *)
(* Redis queue they are published to (src/arduino_component_kb/dispatch).  *)
(*                                                                         *)
(* The module holds the state and the half of every operation that is the  *)
(* same for import, media and legacy jobs.  A module that extends it owns  *)
(* the job table and conjoins its own half: the reconciler reads and       *)
(* writes both tables in one transaction.                                  *)
(*                                                                         *)
(* Time is abstracted: next_attempt_at, delivered_at and the claim lease   *)
(* only decide WHEN a row may be picked, and any amount of time may pass   *)
(* between two steps, so a pass picks any subset of the rows that can be   *)
(* due.  That also covers SKIP LOCKED and the batch limit.                 *)
(***************************************************************************)
EXTENDS Naturals, FiniteSets

CONSTANTS
  Jobs,          \* jobs, each with at most one row of job_dispatches
  Reconcilers,   \* the looping service and a one-shot run by an operator
  NoJob,         \* no job
  MaxAttempts,   \* import_job_max_attempts, for the job and its dispatch
  MaxMessages    \* bound: further duplicates of a queued message are absorbed

ASSUME DispatchAssumption ==
  /\ MaxAttempts \in Nat /\ MaxAttempts >= 2   \* config.py: ge=2
  /\ MaxMessages \in Nat \ {0}
  /\ NoJob \notin Jobs

VARIABLES
  dispatchStatus,    \* job_dispatches.status, "none" while there is no row
  dispatchAttempts,  \* job_dispatches.attempts
  queue,             \* messages of the job waiting in Redis
  batch,             \* intents a pass has claimed and not yet published
  published,         \* the intent whose publish succeeded, not yet recorded
  refused            \* the intent whose publish raised, not yet recorded

dispatchRows == <<dispatchStatus, dispatchAttempts>>
reconciler == <<batch, published, refused>>
dispatchVars == <<dispatchRows, queue, reconciler>>

DispatchStatus == {"none", "pending", "delivered", "failed"}

DispatchTypeOK ==
  /\ dispatchStatus \in [Jobs -> DispatchStatus]
  /\ dispatchAttempts \in [Jobs -> 0..MaxAttempts]
  /\ queue \in [Jobs -> 0..MaxMessages]
  /\ batch \in [Reconcilers -> SUBSET Jobs]
  /\ published \in [Reconcilers -> Jobs \cup {NoJob}]
  /\ refused \in [Reconcilers -> Jobs \cup {NoJob}]

DispatchInit ==
  /\ dispatchStatus = [j \in Jobs |-> "none"]
  /\ dispatchAttempts = [j \in Jobs |-> 0]
  /\ queue = [j \in Jobs |-> 0]
  /\ batch = [r \in Reconcilers |-> {}]
  /\ published = [r \in Reconcilers |-> NoJob]
  /\ refused = [r \in Reconcilers |-> NoJob]

-----------------------------------------------------------------------------
(* The queue.                                                              *)

OneMore(n) == IF n < MaxMessages THEN n + 1 ELSE n

Enqueue(j) == queue' = [queue EXCEPT ![j] = OneMore(@)]

\* A consumer takes a message of j; it is acknowledged when its actor ends.
TakeMessage(j) ==
  /\ queue[j] > 0
  /\ queue' = [queue EXCEPT ![j] = @ - 1]

-----------------------------------------------------------------------------
(* Rows of job_dispatches.                                                 *)

\* add, and reset of an existing row: a fresh pending intent.
ResetDispatch(j) ==
  /\ dispatchStatus' = [dispatchStatus EXCEPT ![j] = "pending"]
  /\ dispatchAttempts' = [dispatchAttempts EXCEPT ![j] = 0]

Exhausted(j) == dispatchAttempts[j] >= MaxAttempts

\* claim_due takes pending rows with attempts left.
Claimable(j, recovered) ==
  /\ dispatchStatus[j] = "pending" \/ j \in recovered
  /\ ~ Exhausted(j)

Idle(r) == batch[r] = {} /\ published[r] = NoJob /\ refused[r] = NoJob

(***************************************************************************)
(* First transaction of reconcile_once: rows of `lost` are recovered, the  *)
(* ones without attempts left are failed; then the rows of `due` are       *)
(* claimed, each for one more attempt.                                     *)
(***************************************************************************)
RecoverAndClaim(r, lost, due) ==
  /\ Idle(r)
  /\ dispatchStatus' = [j \in Jobs |->
        IF j \in lost THEN IF Exhausted(j) THEN "failed" ELSE "pending"
        ELSE dispatchStatus[j]]
  /\ dispatchAttempts' = [j \in Jobs |->
        IF j \in due THEN dispatchAttempts[j] + 1 ELSE dispatchAttempts[j]]
  /\ batch' = [batch EXCEPT ![r] = due]
  /\ UNCHANGED <<queue, published, refused>>

\* publish_safely, outside any transaction.
PublishIntent(r, j) ==
  /\ j \in batch[r] /\ published[r] = NoJob /\ refused[r] = NoJob
  /\ batch' = [batch EXCEPT ![r] = @ \ {j}]
  /\ published' = [published EXCEPT ![r] = j]
  /\ Enqueue(j)
  /\ UNCHANGED <<dispatchRows, refused>>

\* publish_safely when the broker raises.
RefuseIntent(r, j) ==
  /\ j \in batch[r] /\ published[r] = NoJob /\ refused[r] = NoJob
  /\ batch' = [batch EXCEPT ![r] = @ \ {j}]
  /\ refused' = [refused EXCEPT ![r] = j]
  /\ UNCHANGED <<dispatchRows, queue, published>>

\* mark_delivered: a row that is no longer pending is left alone.
MarkDelivered(r) ==
  /\ published[r] # NoJob
  /\ dispatchStatus' = [dispatchStatus EXCEPT
        ![published[r]] = IF @ = "pending" THEN "delivered" ELSE @]
  /\ published' = [published EXCEPT ![r] = NoJob]
  /\ UNCHANGED <<dispatchAttempts, queue, batch, refused>>

\* Mutant: the last attempt is not recognised as the last.
GivesUpTooLate(j, active) ==
  dispatchStatus[j] = "pending" /\ active /\ dispatchAttempts[j] > MaxAttempts

\* Does mark_delivery_failed end the job?  The last attempt of an active job.
GivesUp(j, active) == dispatchStatus[j] = "pending" /\ active /\ Exhausted(j)

\* mark_delivery_failed: settled for an inactive job, failed on the last
\* attempt, else left pending until the backoff has passed.
MarkDeliveryFailed(r, active) ==
  /\ refused[r] # NoJob
  /\ dispatchStatus' = [dispatchStatus EXCEPT
        ![refused[r]] = IF GivesUp(refused[r], active) THEN "failed"
                        ELSE IF @ = "pending" /\ ~ active THEN "delivered"
                        ELSE @]
  /\ refused' = [refused EXCEPT ![r] = NoJob]
  /\ UNCHANGED <<dispatchAttempts, queue, batch, published>>

\* The process dies and is started again: what it had claimed is forgotten.
RestartReconciler(r) ==
  /\ ~ Idle(r)
  /\ batch' = [batch EXCEPT ![r] = {}]
  /\ published' = [published EXCEPT ![r] = NoJob]
  /\ refused' = [refused EXCEPT ![r] = NoJob]
  /\ UNCHANGED <<dispatchRows, queue>>
=============================================================================
