----------------------------- MODULE MediaJobs -----------------------------
(***************************************************************************)
(* Images of one component, from the reserved upload to the registered     *)
(* variants: rows of media_assets, media_jobs and media_variants, the      *)
(* objects in MinIO, the workers that process them, the reconciler of      *)
(* JobDispatch and the retention sweep that deletes what is not needed.    *)
(* An asset has at most one job (uq_media_jobs_asset), so both are named   *)
(* by the same member of Jobs.                                             *)
(*                                                                         *)
(* A worker never locks or reads its rows again after the claim: it writes *)
(* the outcome over whatever they hold by then.  Only two constraints of   *)
(* the database stop it: one row per variant, and a cleaned asset stays    *)
(* rejected.                                                               *)
(***************************************************************************)
EXTENDS JobDispatch

CONSTANTS
  Workers,      \* threads of the image-worker process
  Videos,       \* the jobs whose asset is a video: their worker heartbeats
  ImageLimit,   \* MAX_COMPONENT_IMAGES
  SlowWorkers,  \* may processing outlast media_job_lease_seconds?
  Profiles      \* bounds: how often each disturbance may happen in a behaviour

Disturbances ==
  {"retry", "crash", "restart", "loss", "refusal", "reupload", "double",
   "sweep", "delay"}

ASSUME MediaAssumption ==
  /\ Videos \subseteq Jobs
  /\ IsFiniteSet(Jobs)
  /\ ImageLimit \in Nat \ {0}
  /\ SlowWorkers \in BOOLEAN
  /\ Profiles \subseteq [Disturbances -> Nat]

VARIABLES
  assetStatus,    \* media_assets.status, "none" before the reservation
  cleaned,        \* media_assets.storage_cleaned_at is set
  expired,        \* media_assets.upload_expires_at has passed
  confirming,     \* requests to confirm that have read the asset as pending
  timely,         \* those of them that took their time before the expiry
  late,           \* history: the upload was confirmed after its expiry
  jobStatus,      \* media_jobs.status, "none" while there is no job
  jobAttempts,    \* media_jobs.attempts
  leaseFresh,     \* heartbeat_at within media_job_lease_seconds
  registered,     \* the rows of media_variants exist
  original,       \* the object the user has put into quarantine
  variants,       \* the variant objects in the bucket, and their age
  holds,          \* the job a worker is processing
  phase,          \* where in process_media_job the worker is
  claimAttempts,  \* job.attempts as the claim left it in the session
  sweep,          \* the retention run: rows it locks, objects it will delete
  retried,        \* the job has been retried by hand
  left            \* how often each disturbance may still happen

assetRows == <<assetStatus, cleaned, expired>>
jobRows == <<jobStatus, jobAttempts, leaseFresh>>
storage == <<original, variants>>
workerVars == <<holds, phase, claimAttempts>>
requests == <<confirming, timely, late>>
rest == <<requests, registered, storage, sweep, retried>>
vars == <<dispatchVars, assetRows, jobRows, workerVars, rest, left>>

Active == {"queued", "running", "retrying"}
JobStatus == Active \cup {"none", "succeeded", "failed"}
AssetStatus == {"none", "pending", "processing", "ready", "rejected"}
Phase == {"idle", "downloading", "processed", "uploading"}
MaxConfirming == 2   \* bound: concurrent requests to confirm one upload

NoSweep == [stage |-> "idle", locked |-> {}, orphans |-> {}]

TypeOK ==
  /\ DispatchTypeOK
  /\ assetStatus \in [Jobs -> AssetStatus]
  /\ cleaned \in [Jobs -> BOOLEAN]
  /\ expired \in [Jobs -> BOOLEAN]
  /\ confirming \in [Jobs -> 0..MaxConfirming]
  /\ timely \in [Jobs -> 0..MaxConfirming]
  /\ late \in [Jobs -> BOOLEAN]
  /\ jobStatus \in [Jobs -> JobStatus]
  /\ jobAttempts \in [Jobs -> 0..MaxAttempts]
  /\ leaseFresh \in [Jobs -> BOOLEAN]
  /\ registered \in [Jobs -> BOOLEAN]
  /\ original \in [Jobs -> {"absent", "image", "other"}]
  /\ variants \in [Jobs -> {"absent", "recent", "old"}]
  /\ holds \in [Workers -> Jobs \cup {NoJob}]
  /\ phase \in [Workers -> Phase]
  /\ claimAttempts \in [Workers -> 0..MaxAttempts]
  /\ sweep \in [stage : {"idle", "cleaning", "listed"},
                locked : SUBSET Jobs, orphans : SUBSET Jobs]
  /\ retried \in [Jobs -> BOOLEAN]
  /\ left \in [Disturbances -> Nat]

Init ==
  /\ DispatchInit
  /\ assetStatus = [j \in Jobs |-> "none"]
  /\ cleaned = [j \in Jobs |-> FALSE]
  /\ expired = [j \in Jobs |-> FALSE]
  /\ confirming = [j \in Jobs |-> 0]
  /\ timely = [j \in Jobs |-> 0]
  /\ late = [j \in Jobs |-> FALSE]
  /\ jobStatus = [j \in Jobs |-> "none"]
  /\ jobAttempts = [j \in Jobs |-> 0]
  /\ leaseFresh = [j \in Jobs |-> FALSE]
  /\ registered = [j \in Jobs |-> FALSE]
  /\ original = [j \in Jobs |-> "absent"]
  /\ variants = [j \in Jobs |-> "absent"]
  /\ holds = [w \in Workers |-> NoJob]
  /\ phase = [w \in Workers |-> "idle"]
  /\ claimAttempts = [w \in Workers |-> 0]
  /\ sweep = NoSweep
  /\ retried = [j \in Jobs |-> FALSE]
  /\ left \in Profiles

Disturb(d) == left[d] > 0 /\ left' = [left EXCEPT ![d] = @ - 1]

Held(j) == \E w \in Workers : holds[w] = j

\* No retention run holds the row lock of the asset.
AssetFree(j) == j \notin sweep.locked

-----------------------------------------------------------------------------
(* What users do: reserve, upload, confirm, retry.                         *)

\* _component_quota_filter
CountsAgainstQuota(j) ==
  \/ assetStatus[j] \in {"ready", "processing"}
  \/ (assetStatus[j] = "pending" /\ ~ expired[j])

\* Mutant: only finished images are counted.
ReserveCountingReady(j) ==
  /\ assetStatus[j] = "none"
  /\ Cardinality({i \in Jobs : assetStatus[i] = "ready"}) < ImageLimit
  /\ assetStatus' = [assetStatus EXCEPT ![j] = "pending"]
  /\ UNCHANGED <<dispatchVars, cleaned, expired, jobRows, workerVars, rest, left>>

\* reserve_upload: counts under the advisory lock and the component's row lock.
Reserve(j) ==
  /\ assetStatus[j] = "none"
  /\ Cardinality({i \in Jobs : CountsAgainstQuota(i)}) < ImageLimit
  /\ assetStatus' = [assetStatus EXCEPT ![j] = "pending"]
  /\ UNCHANGED <<dispatchVars, cleaned, expired, jobRows, workerVars, rest, left>>

\* The user puts an object through the presigned URL; a second put, the URL
\* being good until it expires, is a disturbance.
Put(j, content) ==
  /\ assetStatus[j] # "none" /\ ~ expired[j]
  /\ IF original[j] = "absent" THEN UNCHANGED left ELSE Disturb("reupload")
  /\ original' = [original EXCEPT ![j] = content]
  /\ UNCHANGED <<dispatchVars, assetRows, requests, jobRows, registered,
                 variants, workerVars, sweep, retried>>

Expire(j) ==
  /\ assetStatus[j] # "none" /\ ~ expired[j]
  /\ expired' = [expired EXCEPT ![j] = TRUE]
  /\ UNCHANGED <<dispatchVars, assetStatus, cleaned, jobRows, workerVars, rest,
                 left>>

\* confirm_upload's handler reads the asset before the service locks it, and
\* the locking query leaves what was read in place (visible_asset, lock_asset).
\* A second request while one is open is a disturbance.
OpenConfirm(j) ==
  /\ assetStatus[j] = "pending" /\ confirming[j] < MaxConfirming
  /\ IF confirming[j] = 0 THEN UNCHANGED left ELSE Disturb("double")
  /\ confirming' = [confirming EXCEPT ![j] = @ + 1]
  /\ UNCHANGED <<dispatchVars, assetRows, jobRows, workerVars, timely, late,
                 registered, storage, sweep, retried>>

\* The service takes `now`; then it waits for the row lock and for
\* storage.stat, and the upload may expire on the way.
TakeTime(j) ==
  /\ timely[j] < confirming[j] /\ ~ expired[j]
  /\ timely' = [timely EXCEPT ![j] = @ + 1]
  /\ UNCHANGED <<dispatchVars, assetRows, jobRows, workerVars, confirming,
                 late, registered, storage, sweep, retried, left>>

EndConfirm(j) ==
  /\ confirming[j] > 0 /\ AssetFree(j)
  /\ confirming' = [confirming EXCEPT ![j] = @ - 1]

\* By its own time the request is early enough, whatever the time is now.
EndInTime(j) ==
  /\ EndConfirm(j)
  /\ timely[j] > 0
  /\ timely' = [timely EXCEPT ![j] = @ - 1]

\* start_processing: asset, job and dispatch in one commit; a second job for
\* the asset is refused by uq_media_jobs_asset.
Confirm(j) ==
  /\ EndInTime(j)
  /\ original[j] # "absent" /\ jobStatus[j] = "none"
  /\ assetStatus' = [assetStatus EXCEPT ![j] = "processing"]
  /\ jobStatus' = [jobStatus EXCEPT ![j] = "queued"]
  /\ late' = [late EXCEPT ![j] = @ \/ expired[j]]
  /\ ResetDispatch(j)
  /\ UNCHANGED <<queue, reconciler, cleaned, expired, jobAttempts, leaseFresh,
                 registered, storage, workerVars, sweep, retried, left>>

\* The upload has expired, or the object has not the declared size.
RejectUpload(j) ==
  /\ \/ EndConfirm(j) /\ timely[j] < confirming[j] /\ expired[j]
        /\ UNCHANGED timely
     \/ EndInTime(j) /\ original[j] = "other"
  /\ assetStatus' = [assetStatus EXCEPT ![j] = "rejected"]
  /\ UNCHANGED <<dispatchVars, cleaned, expired, jobRows, workerVars, late,
                 registered, storage, sweep, retried, left>>

\* The job exists already, or storage.stat raises: rolled back.
ConfirmFails(j) ==
  /\ EndInTime(j)
  /\ (jobStatus[j] # "none" \/ original[j] = "absent")
  /\ UNCHANGED <<dispatchVars, assetRows, jobRows, workerVars, late,
                 registered, storage, sweep, retried, left>>

\* Mutant: the job is retried although its objects are gone.
ManualRetryOfCleaned(j) ==
  /\ Disturb("retry")
  /\ AssetFree(j)
  /\ jobStatus[j] \in {"queued", "failed"}
  /\ jobStatus' = [jobStatus EXCEPT ![j] = "queued"]
  /\ jobAttempts' = [jobAttempts EXCEPT ![j] = 0]
  /\ leaseFresh' = [leaseFresh EXCEPT ![j] = FALSE]
  /\ assetStatus' = [assetStatus EXCEPT ![j] = "processing"]
  /\ retried' = [retried EXCEPT ![j] = TRUE]
  /\ ResetDispatch(j)
  /\ UNCHANGED <<queue, reconciler, cleaned, expired, requests, registered,
                 storage, workerVars, sweep>>

\* retry_job, prepare_manual_retry: a failed job starts over, unless its
\* objects were cleaned; a queued one only gets a new delivery.
ManualRetry(j) ==
  /\ Disturb("retry")
  /\ AssetFree(j)
  /\ \/ jobStatus[j] = "queued"
     \/ jobStatus[j] = "failed" /\ ~ cleaned[j]
  /\ jobStatus' = [jobStatus EXCEPT ![j] = "queued"]
  /\ jobAttempts' = [jobAttempts EXCEPT
        ![j] = IF jobStatus[j] = "failed" THEN 0 ELSE @]
  /\ leaseFresh' = [leaseFresh EXCEPT ![j] = FALSE]
  /\ assetStatus' = [assetStatus EXCEPT
        ![j] = IF jobStatus[j] = "failed" THEN "processing" ELSE @]
  /\ retried' = [retried EXCEPT ![j] = TRUE]
  /\ ResetDispatch(j)
  /\ UNCHANGED <<queue, reconciler, cleaned, expired, requests, registered,
                 storage, workerVars, sweep>>

-----------------------------------------------------------------------------
(* The worker: process_media_job, process_video_job.                       *)

Finish(w) ==
  /\ holds' = [holds EXCEPT ![w] = NoJob]
  /\ phase' = [phase EXCEPT ![w] = "idle"]
  /\ claimAttempts' = [claimAttempts EXCEPT ![w] = 0]

\* claim_job locks the job and its asset.
Deliverable(w, j) == phase[w] = "idle" /\ AssetFree(j) /\ TakeMessage(j)

\* Mutant: the lease is compared the wrong way round.
LeasedWhenStale(j) == jobStatus[j] = "running" /\ ~ leaseFresh[j]

LeasedToAnother(j) == jobStatus[j] = "running" /\ leaseFresh[j]

\* The claim turns the delivery away: the job is settled, its retry not yet
\* due, or a lease on it fresh.
IgnoreDelivery(w, j) ==
  /\ Deliverable(w, j)
  /\ jobStatus[j] \notin {"queued", "running"} \/ LeasedToAnother(j)
  /\ UNCHANGED <<dispatchRows, reconciler, assetRows, jobRows, workerVars, rest,
                 left>>

\* The job is settled as failed, and its asset as rejected.
FailJob(j) ==
  /\ jobStatus' = [jobStatus EXCEPT ![j] = "failed"]
  /\ assetStatus' = [assetStatus EXCEPT ![j] = "rejected"]
  /\ UNCHANGED <<jobAttempts, cleaned, expired>>

\* Mutant: an exhausted job is failed and its asset left processing.
FailExhaustedJobOnly(w, j) ==
  /\ Deliverable(w, j)
  /\ jobStatus[j] \in Active /\ ~ LeasedToAnother(j)
  /\ jobAttempts[j] >= MaxAttempts
  /\ jobStatus' = [jobStatus EXCEPT ![j] = "failed"]
  /\ UNCHANGED <<dispatchRows, reconciler, assetRows, jobAttempts, leaseFresh,
                 workerVars, rest, left>>

\* No attempt is left: the worker died during the last one.
FailExhausted(w, j) ==
  /\ Deliverable(w, j)
  /\ jobStatus[j] \in Active /\ ~ LeasedToAnother(j)
  /\ jobAttempts[j] >= MaxAttempts
  /\ FailJob(j)
  /\ UNCHANGED <<dispatchRows, reconciler, leaseFresh, workerVars, rest, left>>

\* The claim: job and lease in one commit.
Claim(w, j) ==
  /\ Deliverable(w, j)
  /\ jobStatus[j] \in Active /\ ~ LeasedToAnother(j)
  /\ jobAttempts[j] < MaxAttempts
  /\ jobStatus' = [jobStatus EXCEPT ![j] = "running"]
  /\ jobAttempts' = [jobAttempts EXCEPT ![j] = @ + 1]
  /\ leaseFresh' = [leaseFresh EXCEPT ![j] = TRUE]
  /\ holds' = [holds EXCEPT ![w] = j]
  /\ phase' = [phase EXCEPT ![w] = "downloading"]
  /\ claimAttempts' = [claimAttempts EXCEPT ![w] = jobAttempts[j] + 1]
  /\ UNCHANGED <<dispatchRows, reconciler, assetRows, rest, left>>

Step(w, from, to) ==
  /\ phase[w] = from
  /\ phase' = [phase EXCEPT ![w] = to]
  /\ UNCHANGED <<holds, claimAttempts>>

\* The original is downloaded, decoded and re-encoded; the video worker
\* renews its lease after each of these steps (_progress).
Process(w) ==
  /\ Step(w, "downloading", "processed")
  /\ original[holds[w]] = "image"
  /\ leaseFresh' = [leaseFresh EXCEPT ![holds[w]] = @ \/ holds[w] \in Videos]
  /\ UNCHANGED <<dispatchVars, assetRows, jobStatus, jobAttempts, rest, left>>

\* It is not what it was declared to be.
RejectOriginal(w) ==
  /\ phase[w] = "downloading"
  /\ original[holds[w]] = "other"
  /\ AssetFree(holds[w])
  /\ FailJob(holds[w])
  /\ leaseFresh' = [leaseFresh EXCEPT ![holds[w]] = TRUE]
  /\ Finish(w)
  /\ UNCHANGED <<dispatchVars, rest, left>>

UploadVariants(w) ==
  /\ Step(w, "processed", "uploading")
  /\ variants' = [variants EXCEPT ![holds[w]] = "recent"]
  /\ UNCHANGED <<dispatchVars, assetRows, jobRows, requests, registered,
                 original, sweep, retried, left>>

\* Dramatiq's retry puts the message back.  It gives up after max_retries
\* retries of one message: the job is then on its last attempt, unless a
\* manual retry has reset the job's attempts and not the message's.
RetryMessage(w) ==
  \/ Enqueue(holds[w])
  \/ /\ claimAttempts[w] >= MaxAttempts \/ retried[holds[w]]
     /\ UNCHANGED queue

\* Storage or a tool fails: retried, or failed on the last attempt.
FailTransient(w) ==
  LET j == holds[w] IN
  /\ phase[w] # "idle"
  /\ IF claimAttempts[w] >= MaxAttempts
     THEN AssetFree(j) /\ FailJob(j)
     ELSE /\ jobStatus' = [jobStatus EXCEPT ![j] = "retrying"]
          /\ UNCHANGED <<jobAttempts, assetRows>>
  /\ leaseFresh' = [leaseFresh EXCEPT ![j] = TRUE]
  /\ RetryMessage(w)
  /\ Finish(w)
  /\ UNCHANGED <<dispatchRows, reconciler, rest, left>>

\* uq_media_variants_asset_variant, ck_media_storage_cleaned_rejected
ConstraintsAllow(j) == ~ registered[j] /\ ~ cleaned[j]

\* complete_job, complete_video_job
Complete(w) ==
  LET j == holds[w] IN
  /\ phase[w] = "uploading"
  /\ AssetFree(j) /\ ConstraintsAllow(j)
  /\ registered' = [registered EXCEPT ![j] = TRUE]
  /\ assetStatus' = [assetStatus EXCEPT ![j] = "ready"]
  /\ jobStatus' = [jobStatus EXCEPT ![j] = "succeeded"]
  /\ leaseFresh' = [leaseFresh EXCEPT ![j] = TRUE]
  /\ Finish(w)
  /\ UNCHANGED <<dispatchVars, jobAttempts, cleaned, expired, requests,
                 storage, sweep, retried, left>>

\* The database refuses: rolled back, and raised to Dramatiq.
CompleteRefused(w) ==
  /\ phase[w] = "uploading"
  /\ AssetFree(holds[w]) /\ ~ ConstraintsAllow(holds[w])
  /\ RetryMessage(w)
  /\ Finish(w)
  /\ UNCHANGED <<dispatchRows, reconciler, assetRows, jobRows, rest, left>>

WorkerCrash(w) ==
  /\ phase[w] # "idle"
  /\ Disturb("crash")
  /\ Enqueue(holds[w])
  /\ Finish(w)
  /\ UNCHANGED <<dispatchRows, reconciler, assetRows, jobRows, rest>>

LeaseExpires(j) ==
  /\ leaseFresh[j] /\ jobStatus[j] = "running"
  /\ SlowWorkers \/ ~ Held(j)
  /\ leaseFresh' = [leaseFresh EXCEPT ![j] = FALSE]
  /\ UNCHANGED <<dispatchVars, assetRows, jobStatus, jobAttempts, workerVars,
                 rest, left>>

LoseMessage(j) ==
  /\ Disturb("loss")
  /\ TakeMessage(j)
  /\ UNCHANGED <<dispatchRows, reconciler, assetRows, jobRows, workerVars, rest>>

-----------------------------------------------------------------------------
(* Retention: MediaRetentionService.run, one transaction.                  *)

\* media_retention_grace_hours pass over the variants; no job and no
\* retention run takes so long.
Age(j) ==
  /\ variants[j] = "recent" /\ expired[j]
  /\ ~ Held(j) /\ sweep.stage = "idle"
  /\ Disturb("delay")
  /\ variants' = [variants EXCEPT ![j] = "old"]
  /\ UNCHANGED <<dispatchVars, assetRows, jobRows, workerVars, requests,
                 registered, original, sweep, retried>>

\* retention_candidates; which of them are old enough is left open.
Candidates ==
  {j \in Jobs : /\ ~ cleaned[j] /\ expired[j]
                /\ assetStatus[j] \in {"pending", "rejected"}}

\* The candidates are locked and their objects deleted.
SweepAssets(C) ==
  /\ sweep.stage = "idle"
  /\ Disturb("sweep")
  /\ sweep' = [stage |-> "cleaning", locked |-> C, orphans |-> {}]
  /\ original' = [j \in Jobs |-> IF j \in C THEN "absent" ELSE original[j]]
  /\ variants' = [j \in Jobs |-> IF j \in C THEN "absent" ELSE variants[j]]
  /\ UNCHANGED <<dispatchVars, assetRows, jobRows, workerVars, requests,
                 registered, retried>>

\* Mutant: every old object is an orphan.
SweepListAll ==
  /\ sweep.stage = "cleaning"
  /\ sweep' = [sweep EXCEPT !.stage = "listed",
        !.orphans = {j \in Jobs : variants[j] = "old"}]
  /\ UNCHANGED <<dispatchVars, assetRows, jobRows, workerVars, requests,
                 registered, storage, retried, left>>

\* The old objects that no row of media_variants refers to.
SweepList ==
  /\ sweep.stage = "cleaning"
  /\ sweep' = [sweep EXCEPT !.stage = "listed",
        !.orphans = {j \in Jobs : variants[j] = "old" /\ ~ registered[j]}]
  /\ UNCHANGED <<dispatchVars, assetRows, jobRows, workerVars, requests,
                 registered, storage, retried, left>>

DeleteVariants(S) ==
  variants' = [j \in Jobs |-> IF j \in S THEN "absent" ELSE variants[j]]

\* The orphans are deleted, the candidates marked cleaned, all committed.
SweepCommit ==
  /\ sweep.stage = "listed"
  /\ DeleteVariants(sweep.orphans)
  /\ cleaned' = [j \in Jobs |-> cleaned[j] \/ j \in sweep.locked]
  /\ assetStatus' = [j \in Jobs |->
        IF j \in sweep.locked THEN "rejected" ELSE assetStatus[j]]
  /\ sweep' = NoSweep
  /\ UNCHANGED <<dispatchVars, expired, jobRows, workerVars, requests,
                 registered, original, retried, left>>

\* It fails half-way: the rows are rolled back, what is deleted is deleted.
SweepAbort ==
  /\ sweep.stage # "idle"
  /\ \E S \in SUBSET sweep.orphans : DeleteVariants(S)
  /\ sweep' = NoSweep
  /\ UNCHANGED <<dispatchVars, assetRows, jobRows, workerVars, requests,
                 registered, original, retried, left>>

-----------------------------------------------------------------------------
(* The reconciler.                                                         *)

\* Mutant: a job that waits for its retry is not recovered.
RecoverableUnlessRetrying(j) ==
  /\ dispatchStatus[j] = "delivered"
  /\ AssetFree(j)
  /\ \/ jobStatus[j] = "queued"
     \/ jobStatus[j] = "running" /\ ~ leaseFresh[j]

\* _recover_media
Recoverable(j) ==
  /\ dispatchStatus[j] = "delivered"
  /\ AssetFree(j)
  /\ \/ jobStatus[j] \in {"queued", "retrying"}
     \/ jobStatus[j] = "running" /\ ~ leaseFresh[j]

\* _fail_media on the jobs of S.
FailDispatchExhausted(S) ==
  LET failed == {j \in S : jobStatus[j] \in Active} IN
  /\ jobStatus' = [j \in Jobs |->
        IF j \in failed THEN "failed" ELSE jobStatus[j]]
  /\ assetStatus' = [j \in Jobs |->
        IF j \in failed THEN "rejected" ELSE assetStatus[j]]
  /\ leaseFresh' = [j \in Jobs |-> leaseFresh[j] \/ j \in failed]
  /\ UNCHANGED <<jobAttempts, cleaned, expired>>

mediaOnly == <<assetRows, jobRows, workerVars, rest>>

Reconcile(r) ==
  \E lost \in SUBSET {j \in Jobs : Recoverable(j)} :
    \E due \in SUBSET {j \in Jobs : Claimable(j, lost)} :
      /\ RecoverAndClaim(r, lost, due)
      /\ FailDispatchExhausted({j \in lost : Exhausted(j)})
      /\ UNCHANGED <<workerVars, rest, left>>

Publish(r) ==
  \E j \in batch[r] : PublishIntent(r, j) /\ UNCHANGED <<mediaOnly, left>>

BrokerRefuses(r) ==
  /\ Disturb("refusal")
  /\ \E j \in batch[r] : RefuseIntent(r, j)
  /\ UNCHANGED mediaOnly

RecordDelivered(r) == MarkDelivered(r) /\ UNCHANGED <<mediaOnly, left>>

RecordRefused(r) ==
  LET j == refused[r]
      active == jobStatus[j] \in Active
  IN
  /\ j # NoJob
  /\ MarkDeliveryFailed(r, active)
  /\ GivesUp(j, active) => AssetFree(j)
  /\ FailDispatchExhausted({i \in {j} : GivesUp(i, active)})
  /\ UNCHANGED <<workerVars, rest, left>>

Restart(r) ==
  /\ Disturb("restart")
  /\ RestartReconciler(r)
  /\ UNCHANGED mediaOnly

-----------------------------------------------------------------------------
User(j) ==
  \/ Reserve(j) \/ Expire(j) \/ ManualRetry(j)
  \/ \E content \in {"image", "other"} : Put(j, content)
  \/ OpenConfirm(j) \/ TakeTime(j)
  \/ Confirm(j) \/ RejectUpload(j) \/ ConfirmFails(j)

Deliver(w, j) == IgnoreDelivery(w, j) \/ FailExhausted(w, j) \/ Claim(w, j)

Work(w) ==
  \/ Process(w) \/ RejectOriginal(w) \/ UploadVariants(w)
  \/ FailTransient(w) \/ Complete(w) \/ CompleteRefused(w)

Send(r) ==
  Publish(r) \/ BrokerRefuses(r) \/ RecordDelivered(r) \/ RecordRefused(r)

EndSweep == SweepList \/ SweepCommit \/ SweepAbort

Next ==
  \/ \E j \in Jobs : User(j)
  \/ \E w \in Workers, j \in Jobs : Deliver(w, j)
  \/ \E w \in Workers : Work(w) \/ WorkerCrash(w)
  \/ \E r \in Reconcilers : Reconcile(r) \/ Send(r) \/ Restart(r)
  \/ \E j \in Jobs : LeaseExpires(j) \/ LoseMessage(j) \/ Age(j)
  \/ \E C \in SUBSET Candidates : SweepAssets(C)
  \/ EndSweep

Spec == Init /\ [][Next]_vars

\* A pass of the reconciler that moves the dispatch of j.
Serve(j) ==
  \E r \in Reconcilers :
    Reconcile(r) /\ (j \in batch'[r] \/ dispatchStatus'[j] # dispatchStatus[j])

\* As in ImportJobs; a retention run also comes to its end.
Fairness ==
  /\ \A w \in Workers : WF_vars(Work(w))
  /\ \A j \in Jobs : SF_vars(\E w \in Workers : Deliver(w, j))
  /\ \A r \in Reconcilers : WF_vars(Send(r))
  /\ \A j \in Jobs : SF_vars(Serve(j))
  /\ \A j \in Jobs : WF_vars(LeaseExpires(j))
  /\ WF_vars(EndSweep)

FairSpec == Spec /\ Fairness

-----------------------------------------------------------------------------
(* Properties.                                                             *)

\* The two rows of an upload tell one story, through claims, crashes, retries
\* by hand, recovered deliveries and retention: claim_job, complete_job,
\* record_storage_failure, _fail_media and prepare_manual_retry each write
\* both, in different processes.  Not so once the delivery of a job that is
\* being processed was given up: its worker then overwrites one of the two.
JobAndAssetAgree ==
  \A j \in Jobs : dispatchStatus[j] # "failed" =>
    assetStatus[j] \in
      CASE jobStatus[j] = "none" -> {"none", "pending", "rejected"}
        [] jobStatus[j] \in Active -> {"processing"}
        [] jobStatus[j] = "succeeded" -> {"ready"}
        [] jobStatus[j] = "failed" -> {"rejected"}

\* While processing keeps within the lease, a picture that is ready stays
\* ready: no second worker of the same job rejects it, and retention never
\* takes it for a candidate.
ReadyStays ==
  [][\A j \in Jobs :
       assetStatus[j] = "ready" => assetStatus'[j] = "ready"]_vars

\* What retention has cleaned is nobody's any more: no upload, retry or worker
\* brings back an asset whose objects are deleted.
CleanedIsGone ==
  \A j \in Jobs :
    cleaned[j] => /\ assetStatus[j] = "rejected" /\ ~ registered[j]
                  /\ original[j] = "absent"

\* Variants that have been registered for longer than the grace period are
\* never deleted (referenced_object_keys).
ServedVariantsStay ==
  [][\A j \in Jobs :
       registered[j] /\ variants[j] = "old" => variants'[j] = "old"]_vars

\* docs/REQUIREMENTS.md:290: a component has at most 12 images
\* (MAX_COMPONENT_IMAGES, media/domain.py:18), under reservations that expire
\* and give their place to others.  Only an upload whose place had expired
\* when it was confirmed comes on top of them: confirm_upload compares the
\* expiry with the time it took before it waited for the row and the storage.
WithinImageLimit ==
  Cardinality({j \in Jobs : CountsAgainstQuota(j) /\ ~ late[j]}) <= ImageLimit

\* Every confirmed upload is ready or rejected in the end
\* (docs/REQUIREMENTS.md:304, REQ-MEDIA-003).
EveryUploadSettles ==
  \A j \in Jobs :
    assetStatus[j] = "processing" ~> assetStatus[j] \in {"ready", "rejected"}
=============================================================================
