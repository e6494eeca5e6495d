----------------------------- MODULE ImportJobs -----------------------------
(***************************************************************************)
(* Import jobs from submission to a saved draft: the rows of import_jobs,  *)
(* the workers that process them, the users who cancel and retry them, and *)
(* the reconciler of JobDispatch that delivers them.                       *)
(*                                                                         *)
(* A worker keeps one database session for the whole job.  The session is  *)
(* made with expire_on_commit=False and get_job does not ask for           *)
(* populate_existing, so after the claim every "select ... for update"     *)
(* locks the row but hands back the attributes read at the claim, until a  *)
(* rollback expires them.  `stale` is that identity map: while it is TRUE  *)
(* the worker sees the status "running" and the attempt number it wrote    *)
(* itself, whatever the row now holds.                                     *)
(*                                                                         *)
(* A transaction that decides and writes under one row lock is one action. *)
(* The transaction that saves the draft is two (it reads the catalogue,    *)
(* and much later inserts), and holds the row lock of its job in between.  *)
(***************************************************************************)
EXTENDS JobDispatch

CONSTANTS
  Workers,      \* threads of the parser-worker process
  NoWorker,     \* no worker
  Entities,     \* identities an import resolves to (ExactKeys, repository entry)
  EntityOf,     \* what parsing the job's document yields
  SlowWorkers,  \* may processing outlast import_lock_ttl_seconds?
  Profiles      \* bounds: how often each disturbance may happen in a behaviour

Disturbances ==
  {"retry", "crash", "restart", "loss", "refusal", "disable", "cancel"}

ASSUME ImportAssumption ==
  /\ EntityOf \in [Jobs -> Entities]
  /\ SlowWorkers \in BOOLEAN
  /\ Profiles \subseteq [Disturbances -> Nat]
  /\ NoWorker \notin Workers

VARIABLES
  jobStatus,      \* import_jobs.status, "none" before the submission
  jobAttempts,    \* import_jobs.attempts
  leaseFresh,     \* heartbeat_at and updated_at within import_lock_ttl_seconds
  sourceEnabled,  \* sources.is_enabled, cleared by an operator
  sourceRow,      \* a row of component_sources exists for the entity
  drafts,         \* components created for the entity by imports
  holds,          \* the job a worker is processing
  phase,          \* where in process_import_job the worker is
  claimAttempts,  \* job.attempts as the worker's session last read it
  stale,          \* the worker's session still holds the row as claimed
  found,          \* the saving transaction saw a source row for the entity
  redisLock,      \* holder of the entity's Redis lock
  retried,        \* the job has been retried by hand
  left            \* how often each disturbance may still happen

jobRows == <<jobStatus, jobAttempts, leaseFresh>>
flags == <<sourceEnabled, retried>>
catalogue == <<sourceRow, drafts>>
session == <<claimAttempts, stale, found>>
workerVars == <<holds, phase, session>>
vars == <<dispatchVars, jobRows, flags, catalogue, workerVars,
          redisLock, left>>

Active == {"queued", "running", "retrying"}
JobStatus == Active \cup {"none", "succeeded", "failed", "cancelled"}
Phase == {"idle", "acquiring", "parsed", "locked", "saving",
          "conflict", "rejected"}

TypeOK ==
  /\ DispatchTypeOK
  /\ jobStatus \in [Jobs -> JobStatus]
  /\ jobAttempts \in [Jobs -> 0..MaxAttempts]
  /\ leaseFresh \in [Jobs -> BOOLEAN]
  /\ sourceEnabled \in BOOLEAN
  /\ sourceRow \in [Entities -> BOOLEAN]
  /\ drafts \in [Entities -> Nat]
  /\ holds \in [Workers -> Jobs \cup {NoJob}]
  /\ phase \in [Workers -> Phase]
  /\ claimAttempts \in [Workers -> 0..MaxAttempts]
  /\ stale \in [Workers -> BOOLEAN]
  /\ found \in [Workers -> BOOLEAN]
  /\ redisLock \in [Entities -> Workers \cup {NoWorker}]
  /\ retried \in [Jobs -> BOOLEAN]
  /\ left \in [Disturbances -> Nat]

Init ==
  /\ DispatchInit
  /\ jobStatus = [j \in Jobs |-> "none"]
  /\ jobAttempts = [j \in Jobs |-> 0]
  /\ leaseFresh = [j \in Jobs |-> FALSE]
  /\ sourceEnabled = TRUE
  /\ sourceRow = [e \in Entities |-> FALSE]
  /\ drafts = [e \in Entities |-> 0]
  /\ holds = [w \in Workers |-> NoJob]
  /\ phase = [w \in Workers |-> "idle"]
  /\ claimAttempts = [w \in Workers |-> 0]
  /\ stale = [w \in Workers |-> FALSE]
  /\ found = [w \in Workers |-> FALSE]
  /\ redisLock = [e \in Entities |-> NoWorker]
  /\ retried = [j \in Jobs |-> FALSE]
  /\ left \in Profiles

Disturb(d) == left[d] > 0 /\ left' = [left EXCEPT ![d] = @ - 1]

Held(j) == \E w \in Workers : holds[w] = j

\* No transaction that saves a draft holds the row lock of the job.
RowFree(j) == \A w \in Workers : holds[w] = j => phase[w] # "saving"

-----------------------------------------------------------------------------
(* What users and operators do.                                            *)

\* create_import, create_repository_import: job and dispatch in one commit.
Submit(j) ==
  /\ jobStatus[j] = "none"
  /\ jobStatus' = [jobStatus EXCEPT ![j] = "queued"]
  /\ ResetDispatch(j)
  /\ UNCHANGED <<queue, reconciler, jobAttempts, leaseFresh, flags,
                 catalogue, workerVars, redisLock, left>>

\* cancel_import: refused (409) unless the job is active.
Cancel(j) ==
  /\ Disturb("cancel")
  /\ RowFree(j)
  /\ jobStatus[j] \in Active
  /\ jobStatus' = [jobStatus EXCEPT ![j] = "cancelled"]
  /\ leaseFresh' = [leaseFresh EXCEPT ![j] = FALSE]
  /\ UNCHANGED <<dispatchVars, jobAttempts, flags, catalogue,
                 workerVars, redisLock>>

\* is_manually_retryable
ManuallyRetryable(j) ==
  \/ jobStatus[j] = "failed"
  \/ jobStatus[j] \in {"running", "retrying"} /\ ~ leaseFresh[j]

\* retry_import: the job starts over and so does its delivery; a job that is
\* still queued only gets a new delivery.
ManualRetry(j) ==
  /\ Disturb("retry")
  /\ RowFree(j)
  /\ jobStatus[j] = "queued" \/ ManuallyRetryable(j)
  /\ jobStatus' = [jobStatus EXCEPT ![j] = "queued"]
  /\ jobAttempts' = [jobAttempts EXCEPT ![j] = 0]
  /\ leaseFresh' = [leaseFresh EXCEPT ![j] = FALSE]
  /\ retried' = [retried EXCEPT ![j] = TRUE]
  /\ ResetDispatch(j)
  /\ UNCHANGED <<queue, reconciler, sourceEnabled, catalogue, workerVars,
                 redisLock>>

\* No handler clears sources.is_enabled; an operator does, in the database.
DisableSource ==
  /\ Disturb("disable")
  /\ sourceEnabled' = FALSE
  /\ UNCHANGED <<dispatchVars, jobRows, retried, catalogue, workerVars,
                 redisLock>>

-----------------------------------------------------------------------------
(* The worker: process_import_job.                                         *)

Release(w) ==
  [e \in Entities |-> IF redisLock[e] = w THEN NoWorker ELSE redisLock[e]]

\* The actor ends: the Redis lock is released if still owned.
Finish(w) ==
  /\ holds' = [holds EXCEPT ![w] = NoJob]
  /\ phase' = [phase EXCEPT ![w] = "idle"]
  /\ claimAttempts' = [claimAttempts EXCEPT ![w] = 0]
  /\ stale' = [stale EXCEPT ![w] = FALSE]
  /\ found' = [found EXCEPT ![w] = FALSE]
  /\ redisLock' = Release(w)

Deliverable(w, j) == phase[w] = "idle" /\ RowFree(j)

\* Mutants: a check of the claim is missing.
TurnsAwayWithoutBudget(j) ==
  \/ jobStatus[j] \notin Active
  \/ sourceEnabled /\ jobStatus[j] = "running" /\ leaseFresh[j]
TurnsAwayWithoutStatus(j) ==
  \/ jobAttempts[j] >= MaxAttempts
  \/ sourceEnabled /\ jobStatus[j] = "running" /\ leaseFresh[j]
TurnsAwayWithoutLease(j) ==
  jobStatus[j] \notin Active \/ jobAttempts[j] >= MaxAttempts

\* A delivery the claim turns away: the job is settled, has no attempt left,
\* or another worker's lease on it is fresh.
TurnsAway(j) ==
  \/ jobStatus[j] \notin Active
  \/ jobAttempts[j] >= MaxAttempts
  \/ sourceEnabled /\ jobStatus[j] = "running" /\ leaseFresh[j]

IgnoreDelivery(w, j) ==
  /\ Deliverable(w, j)
  /\ TakeMessage(j)
  /\ TurnsAway(j)
  /\ UNCHANGED <<dispatchRows, reconciler, jobRows, flags, catalogue,
                 workerVars, redisLock, left>>

\* The source was disabled after the submission: the job fails at the claim.
FailDisabledSource(w, j) ==
  /\ Deliverable(w, j)
  /\ TakeMessage(j)
  /\ ~ TurnsAway(j) /\ ~ sourceEnabled
  /\ jobStatus' = [jobStatus EXCEPT ![j] = "failed"]
  /\ leaseFresh' = [leaseFresh EXCEPT ![j] = FALSE]
  /\ UNCHANGED <<dispatchRows, reconciler, jobAttempts, flags,
                 catalogue, workerVars, redisLock, left>>

Claim(w, j) ==
  /\ Deliverable(w, j)
  /\ TakeMessage(j)
  /\ ~ TurnsAway(j) /\ sourceEnabled
  /\ jobStatus' = [jobStatus EXCEPT ![j] = "running"]
  /\ jobAttempts' = [jobAttempts EXCEPT ![j] = @ + 1]
  /\ leaseFresh' = [leaseFresh EXCEPT ![j] = TRUE]
  /\ holds' = [holds EXCEPT ![w] = j]
  /\ phase' = [phase EXCEPT ![w] = "acquiring"]
  /\ claimAttempts' = [claimAttempts EXCEPT ![w] = jobAttempts[j] + 1]
  /\ stale' = [stale EXCEPT ![w] = TRUE]
  /\ UNCHANGED <<dispatchRows, reconciler, flags, catalogue, found,
                 redisLock, left>>

\* What get_job shows the worker of the row it has just locked.
SeenStatus(w) == IF stale[w] THEN "running" ELSE jobStatus[holds[w]]
SeenAttempts(w) == IF stale[w] THEN claimAttempts[w] ELSE jobAttempts[holds[w]]

\* _mark_failed on the row of the worker's job.
MarkFailed(w) ==
  /\ RowFree(holds[w])
  /\ jobStatus' = [jobStatus EXCEPT
        ![holds[w]] = IF SeenStatus(w) = "cancelled" THEN @ ELSE "failed"]
  /\ leaseFresh' = [leaseFresh EXCEPT
        ![holds[w]] = @ /\ SeenStatus(w) = "cancelled"]
  /\ UNCHANGED jobAttempts

\* The outcome _record_transient gives the row.
TransientOutcome(w) ==
  IF SeenStatus(w) \in {"succeeded", "cancelled"} THEN jobStatus[holds[w]]
  ELSE IF SeenAttempts(w) >= MaxAttempts THEN "failed"
  ELSE "retrying"

RecordTransient(w) ==
  /\ RowFree(holds[w])
  /\ jobStatus' = [jobStatus EXCEPT ![holds[w]] = TransientOutcome(w)]
  /\ leaseFresh' = [leaseFresh EXCEPT ![holds[w]] =
        IF TransientOutcome(w) = "retrying" THEN TRUE
        ELSE @ /\ TransientOutcome(w) # "failed"]
  /\ UNCHANGED jobAttempts

\* Dramatiq's retry puts the message back.  It gives up after max_retries
\* retries of one message: the job is then on its last attempt, unless a
\* manual retry has reset the job's attempts and not the message's.
RetryMessage(w) ==
  \/ Enqueue(holds[w])
  \/ /\ SeenAttempts(w) >= MaxAttempts \/ retried[holds[w]]
     /\ UNCHANGED queue

\* A retryable failure anywhere: recorded, then raised to Dramatiq.
FailTransient(w) ==
  /\ RecordTransient(w)
  /\ RetryMessage(w)
  /\ Finish(w)
  /\ UNCHANGED <<dispatchRows, reconciler, flags, catalogue, left>>

\* A failure that retrying cannot help: the message is acknowledged.
FailPermanently(w) ==
  /\ MarkFailed(w)
  /\ Finish(w)
  /\ UNCHANGED <<dispatchVars, flags, catalogue, left>>

\* Download or parse fails, the source is unreachable or the document bad.
AcquireFails(w) == phase[w] = "acquiring" /\ FailTransient(w)
DocumentRejected(w) == phase[w] = "acquiring" /\ FailPermanently(w)

Step(w, from, to) ==
  /\ phase[w] = from
  /\ phase' = [phase EXCEPT ![w] = to]

Parse(w) ==
  /\ Step(w, "acquiring", "parsed")
  /\ UNCHANGED <<dispatchVars, jobRows, flags, catalogue, holds,
                 session, redisLock, left>>

LockEntity(w) ==
  /\ Step(w, "parsed", "locked")
  /\ redisLock[EntityOf[holds[w]]] = NoWorker
  /\ redisLock' = [redisLock EXCEPT ![EntityOf[holds[w]]] = w]
  /\ UNCHANGED <<dispatchVars, jobRows, flags, catalogue, holds,
                 session, left>>

\* The lock is not had within import_lock_wait_seconds, or Redis is down.
\* The failure is recorded, and recorded again by the handler of the raised
\* RetryableImportError, which rewrites timestamps only.
LockFails(w) == phase[w] = "parsed" /\ FailTransient(w)

\* Start of the saving transaction: get_job, then the exact-match look-up.
\* The return for a settled job is never taken: here the session is stale.
BeginSave(w) ==
  /\ Step(w, "locked", "saving")
  /\ RowFree(holds[w])
  /\ SeenStatus(w) \notin {"succeeded", "cancelled"}
  /\ found' = [found EXCEPT ![w] = sourceRow[EntityOf[holds[w]]]]
  /\ UNCHANGED <<dispatchVars, jobRows, flags, catalogue, holds,
                 claimAttempts, stale, redisLock, left>>

\* Mutant: no unique index on the source rows.
CommitSaveWithoutIndex(w) ==
  LET e == EntityOf[holds[w]] IN
  /\ phase[w] = "saving"
  /\ sourceRow' = [sourceRow EXCEPT ![e] = TRUE]
  /\ drafts' = [drafts EXCEPT ![e] = IF found[w] THEN @ ELSE @ + 1]
  /\ jobStatus' = [jobStatus EXCEPT ![holds[w]] = "succeeded"]
  /\ leaseFresh' = [leaseFresh EXCEPT ![holds[w]] = FALSE]
  /\ Finish(w)
  /\ UNCHANGED <<dispatchVars, jobAttempts, flags, left>>

\* Its end: with no source row found a draft and its source row are inserted,
\* which the unique index refuses if another job has inserted one since.
CommitSave(w) ==
  LET e == EntityOf[holds[w]] IN
  /\ phase[w] = "saving"
  /\ found[w] \/ ~ sourceRow[e]
  /\ sourceRow' = [sourceRow EXCEPT ![e] = TRUE]
  /\ drafts' = [drafts EXCEPT ![e] = IF found[w] THEN @ ELSE @ + 1]
  /\ jobStatus' = [jobStatus EXCEPT ![holds[w]] = "succeeded"]
  /\ leaseFresh' = [leaseFresh EXCEPT ![holds[w]] = FALSE]
  /\ Finish(w)
  /\ UNCHANGED <<dispatchVars, jobAttempts, flags, left>>

\* The transaction fails and is rolled back, which expires the session's rows.
\* IntegrityError and anything unforeseen are transient ("conflict"), a
\* CatalogValidationError is not ("rejected").
AbortSave(w, to) ==
  /\ Step(w, "saving", to)
  /\ stale' = [stale EXCEPT ![w] = FALSE]
  /\ found' = [found EXCEPT ![w] = FALSE]
  /\ UNCHANGED <<dispatchVars, jobRows, flags, catalogue, holds,
                 claimAttempts, redisLock, left>>

SaveFails(w) == phase[w] = "conflict" /\ FailTransient(w)
DraftRejected(w) == phase[w] = "rejected" /\ FailPermanently(w)

\* The process dies: its open transaction is rolled back, the message was
\* not acknowledged and is delivered again, the Redis lock is left to its TTL.
WorkerCrash(w) ==
  /\ phase[w] # "idle"
  /\ Disturb("crash")
  /\ Enqueue(holds[w])
  /\ holds' = [holds EXCEPT ![w] = NoJob]
  /\ phase' = [phase EXCEPT ![w] = "idle"]
  /\ claimAttempts' = [claimAttempts EXCEPT ![w] = 0]
  /\ stale' = [stale EXCEPT ![w] = FALSE]
  /\ found' = [found EXCEPT ![w] = FALSE]
  /\ UNCHANGED <<dispatchRows, reconciler, jobRows, flags, catalogue,
                 redisLock>>

-----------------------------------------------------------------------------
(* The passing of time.                                                    *)

\* import_lock_ttl_seconds pass without a heartbeat.  Nothing renews the
\* lease between the claim and the end of the job.
LeaseExpires(j) ==
  /\ leaseFresh[j]
  /\ SlowWorkers \/ ~ Held(j)
  /\ leaseFresh' = [leaseFresh EXCEPT ![j] = FALSE]
  /\ UNCHANGED <<dispatchVars, jobStatus, jobAttempts, flags,
                 catalogue, workerVars, redisLock, left>>

\* The TTL of the Redis lock passes, or Redis forgets it.
RedisLockExpires(e) ==
  /\ redisLock[e] # NoWorker
  /\ SlowWorkers \/ \A j \in Jobs : EntityOf[j] = e => holds[redisLock[e]] # j
  /\ redisLock' = [redisLock EXCEPT ![e] = NoWorker]
  /\ UNCHANGED <<dispatchVars, jobRows, flags, catalogue, workerVars,
                 left>>

\* Redis loses a message: a flush, a restart without persistence.
LoseMessage(j) ==
  /\ Disturb("loss")
  /\ TakeMessage(j)
  /\ UNCHANGED <<dispatchRows, reconciler, jobRows, flags, catalogue,
                 workerVars, redisLock>>

-----------------------------------------------------------------------------
(* The reconciler.                                                         *)

\* Mutant: a job whose worker died is not recovered.
RecoverableUnlessRunning(j) ==
  /\ dispatchStatus[j] = "delivered"
  /\ RowFree(j)
  /\ jobStatus[j] \in {"queued", "retrying"}

\* _recover_imports: delivered, and nobody seems to be working on the job.
\* The row lock of a saving worker makes SKIP LOCKED pass the row over.
Recoverable(j) ==
  /\ dispatchStatus[j] = "delivered"
  /\ RowFree(j)
  /\ \/ jobStatus[j] \in {"queued", "retrying"}
     \/ jobStatus[j] = "running" /\ ~ leaseFresh[j]

\* _fail_import on the jobs of S.
FailDispatchExhausted(S) ==
  /\ jobStatus' = [j \in Jobs |->
        IF j \in S /\ jobStatus[j] \in Active THEN "failed" ELSE jobStatus[j]]
  /\ leaseFresh' = [j \in Jobs |-> leaseFresh[j] /\ j \notin S]
  /\ UNCHANGED jobAttempts

Reconcile(r) ==
  \E lost \in SUBSET {j \in Jobs : Recoverable(j)} :
    \E due \in SUBSET {j \in Jobs : Claimable(j, lost)} :
      /\ RecoverAndClaim(r, lost, due)
      /\ FailDispatchExhausted({j \in lost : Exhausted(j)})
      /\ UNCHANGED <<flags, catalogue, workerVars, redisLock, left>>

importsOnly == <<jobRows, flags, catalogue, workerVars, redisLock>>

Publish(r) ==
  \E j \in batch[r] : PublishIntent(r, j) /\ UNCHANGED <<importsOnly, left>>

BrokerRefuses(r) ==
  /\ Disturb("refusal")
  /\ \E j \in batch[r] : RefuseIntent(r, j)
  /\ UNCHANGED importsOnly

RecordDelivered(r) == MarkDelivered(r) /\ UNCHANGED <<importsOnly, left>>

RecordRefused(r) ==
  LET j == refused[r]
      active == jobStatus[j] \in Active
  IN
  /\ j # NoJob
  /\ MarkDeliveryFailed(r, active)
  /\ GivesUp(j, active) => RowFree(j)
  /\ FailDispatchExhausted({i \in {j} : GivesUp(i, active)})
  /\ UNCHANGED <<flags, catalogue, workerVars, redisLock, left>>

Restart(r) ==
  /\ Disturb("restart")
  /\ RestartReconciler(r)
  /\ UNCHANGED importsOnly

-----------------------------------------------------------------------------
User == \E j \in Jobs : Submit(j) \/ Cancel(j) \/ ManualRetry(j)

Deliver(w, j) ==
  IgnoreDelivery(w, j) \/ FailDisabledSource(w, j) \/ Claim(w, j)

Work(w) ==
  \/ AcquireFails(w) \/ DocumentRejected(w) \/ Parse(w)
  \/ LockEntity(w) \/ LockFails(w) \/ BeginSave(w) \/ CommitSave(w)
  \/ AbortSave(w, "conflict") \/ AbortSave(w, "rejected")
  \/ SaveFails(w) \/ DraftRejected(w)

Send(r) ==
  Publish(r) \/ BrokerRefuses(r) \/ RecordDelivered(r) \/ RecordRefused(r)

Time ==
  \/ \E j \in Jobs : LeaseExpires(j) \/ LoseMessage(j)
  \/ \E e \in Entities : RedisLockExpires(e)

Next ==
  \/ User
  \/ DisableSource
  \/ \E w \in Workers, j \in Jobs : Deliver(w, j)
  \/ \E w \in Workers : Work(w) \/ WorkerCrash(w)
  \/ \E r \in Reconcilers : Reconcile(r) \/ Send(r) \/ Restart(r)
  \/ Time

Spec == Init /\ [][Next]_vars

\* A pass of the reconciler that moves the dispatch of j.
Serve(j) ==
  \E r \in Reconcilers :
    Reconcile(r) /\ (j \in batch'[r] \/ dispatchStatus'[j] # dispatchStatus[j])

(***************************************************************************)
(* The services run in a loop and are restarted when they stop: a worker   *)
(* that is processing goes on, a waiting message is taken in turn, the     *)
(* reconciler finishes its pass, and, its timers running out, it gets to   *)
(* every row that is due.  Users and disturbances promise nothing.         *)
(***************************************************************************)
Fairness ==
  /\ \A w \in Workers : WF_vars(Work(w))
  /\ \A j \in Jobs : SF_vars(\E w \in Workers : Deliver(w, j))
  /\ \A r \in Reconcilers : WF_vars(Send(r))
  /\ \A j \in Jobs : SF_vars(Serve(j))
  /\ \A j \in Jobs : WF_vars(LeaseExpires(j))
  /\ \A e \in Entities : WF_vars(RedisLockExpires(e))

FairSpec == Spec /\ Fairness

-----------------------------------------------------------------------------
(* Properties.                                                             *)

\* Importing an entity twice makes one component: the unique indexes of
\* component_sources decide, even when the Redis lock has expired under its
\* holder and two jobs save the same entity at once.
OneDraftPerEntity ==
  \A e \in Entities : drafts[e] = IF sourceRow[e] THEN 1 ELSE 0

\* A job no worker is processing stays succeeded or cancelled for ever, and
\* leaves "failed" only for "queued", by the retry a user asks for: neither a
\* redelivered message nor the reconciler revives it (process_import_job's
\* claim, prepare_manual_retry, _fail_import).
SettledJobIsFinal ==
  [][\A j \in Jobs : ~ Held(j) =>
       /\ jobStatus[j] \in {"succeeded", "cancelled"} =>
            jobStatus'[j] = jobStatus[j]
       /\ jobStatus[j] = "failed" => jobStatus'[j] \in {"failed", "queued"}]_vars

\* While processing keeps within the lease and nobody retries by hand, no
\* two workers process the same job, whatever is delivered twice or crashes.
OneWorkerPerJob ==
  \A v, w \in Workers : holds[v] = holds[w] /\ holds[v] # NoJob => v = w

\* Under the same conditions a saved import stays saved: no worker that lost
\* the job earlier comes back to overwrite it with the row it once read
\* (_record_transient, _mark_failed).
SucceededStays ==
  [][\A j \in Jobs :
       jobStatus[j] = "succeeded" => jobStatus'[j] = "succeeded"]_vars

\* Something will still move j: a message, a worker, an attempt of the
\* reconciler, or the recovery of a delivered intent.
HasWayForward(j) ==
  \/ queue[j] > 0
  \/ Held(j)
  \/ dispatchStatus[j] = "delivered"
  \/ dispatchStatus[j] = "pending" /\ ~ Exhausted(j)
  \/ \E r \in Reconcilers : j \in batch[r] \cup {published[r], refused[r]}

\* No unfinished job is ever left with nothing that would finish it: the
\* outbox and the workers together lose no task (docs/ARCHITECTURE.md:122).
NoJobIsStranded ==
  \A j \in Jobs : jobStatus[j] \in Active => HasWayForward(j)

\* Every submitted job is settled in the end: saved, failed or cancelled.
EveryJobSettles ==
  \A j \in Jobs : jobStatus[j] \in Active ~> jobStatus[j] \notin Active
=============================================================================
