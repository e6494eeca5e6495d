------------------------- MODULE ImportJobs_proofs -------------------------
(***************************************************************************)
(* Theorems about ImportJobs, for any number of jobs, workers, reconcilers *)
(* and attempts and any bound on the disturbances.                         *)
(***************************************************************************)
EXTENDS ImportRefinement, TLAPS

\* Type correctness: in particular neither a job nor its dispatch ever has
\* more attempts than it may have.
LEMMA TypeInit == Init => TypeOK
BY DispatchAssumption, ImportAssumption
DEF Init, DispatchInit, TypeOK, DispatchTypeOK, DispatchStatus, JobStatus,
    Active, Phase

USE DEF dispatchRows, reconciler, dispatchVars, jobRows, catalogue, session,
        workerVars, importsOnly, flags

LEMMA FinishType ==
  ASSUME TypeOK, NEW w \in Workers, Finish(w)
  PROVE  /\ holds' \in [Workers -> Jobs \cup {NoJob}]
         /\ phase' \in [Workers -> Phase]
         /\ claimAttempts' \in [Workers -> 0..MaxAttempts]
         /\ stale' \in [Workers -> BOOLEAN]
         /\ found' \in [Workers -> BOOLEAN]
         /\ redisLock' \in [Entities -> Workers \cup {NoWorker}]
BY DispatchAssumption DEF TypeOK, Finish, Release, Phase

LEMMA QueueType ==
  ASSUME TypeOK, NEW j \in Jobs, Enqueue(j) \/ TakeMessage(j)
  PROVE  queue' \in [Jobs -> 0..MaxMessages]
BY DispatchAssumption
DEF TypeOK, DispatchTypeOK, Enqueue, TakeMessage, OneMore

LEMMA DisturbType ==
  ASSUME TypeOK, NEW d \in Disturbances, Disturb(d)
  PROVE  left' \in [Disturbances -> Nat]
BY DEF TypeOK, Disturb

LEMMA TypeUser ==
  ASSUME TypeOK, User \/ DisableSource
  PROVE  TypeOK'
<1>1. ASSUME NEW j \in Jobs, Submit(j) PROVE TypeOK'
  BY <1>1, DispatchAssumption
  DEF Submit, ResetDispatch, TypeOK, DispatchTypeOK, DispatchStatus,
      JobStatus, Active
<1>2. ASSUME NEW j \in Jobs, Cancel(j) PROVE TypeOK'
  <2>1. "cancel" \in Disturbances
    BY DEF Disturbances
  <2>2. left' \in [Disturbances -> Nat]
    BY <1>2, <2>1, DisturbType DEF Cancel
  <2>3. QED
    BY <1>2, <2>2 DEF Cancel, TypeOK, DispatchTypeOK, JobStatus, Active
<1>3. ASSUME NEW j \in Jobs, ManualRetry(j) PROVE TypeOK'
  <2>1. "retry" \in Disturbances
    BY DEF Disturbances
  <2>2. left' \in [Disturbances -> Nat]
    BY <1>3, <2>1, DisturbType DEF ManualRetry
  <2>3. QED
    BY <1>3, <2>2, DispatchAssumption
    DEF ManualRetry, ResetDispatch, TypeOK, DispatchTypeOK, DispatchStatus,
        JobStatus, Active
<1>4. CASE DisableSource
  <2>1. "disable" \in Disturbances
    BY DEF Disturbances
  <2>2. left' \in [Disturbances -> Nat]
    BY <1>4, <2>1, DisturbType DEF DisableSource
  <2>3. QED
    BY <1>4, <2>2 DEF DisableSource, TypeOK, DispatchTypeOK
<1>5. QED BY <1>1, <1>2, <1>3, <1>4 DEF User

LEMMA TypeDeliver ==
  ASSUME TypeOK, NEW w \in Workers, NEW j \in Jobs, Deliver(w, j)
  PROVE  TypeOK'
<1>1. queue' \in [Jobs -> 0..MaxMessages]
  BY QueueType DEF Deliver, IgnoreDelivery, FailDisabledSource, Claim
<1>2. CASE IgnoreDelivery(w, j)
  BY <1>1, <1>2 DEF IgnoreDelivery, TypeOK, DispatchTypeOK
<1>3. CASE FailDisabledSource(w, j)
  BY <1>1, <1>3 DEF FailDisabledSource, TypeOK, DispatchTypeOK, JobStatus
<1>4. CASE Claim(w, j)
  <2>1. jobAttempts[j] + 1 \in 0..MaxAttempts
    BY <1>4, DispatchAssumption DEF Claim, TurnsAway, TypeOK
  <2>2. QED
    BY <1>1, <1>4, <2>1
    DEF Claim, TypeOK, DispatchTypeOK, JobStatus, Active, Phase
<1>5. QED BY <1>2, <1>3, <1>4 DEF Deliver

LEMMA FailTransientType ==
  ASSUME TypeOK, NEW w \in Workers, holds[w] \in Jobs, FailTransient(w)
  PROVE  TypeOK'
<1>1. queue' \in [Jobs -> 0..MaxMessages]
  BY QueueType DEF FailTransient, RetryMessage, TypeOK, DispatchTypeOK
<1>2. TransientOutcome(w) \in JobStatus
  BY DEF TransientOutcome, TypeOK, JobStatus, Active
<1>3. /\ jobStatus' \in [Jobs -> JobStatus]
      /\ jobAttempts' \in [Jobs -> 0..MaxAttempts]
      /\ leaseFresh' \in [Jobs -> BOOLEAN]
  BY <1>2 DEF FailTransient, RecordTransient, TypeOK
<1>4. QED
  BY <1>1, <1>3, FinishType DEF FailTransient, TypeOK, DispatchTypeOK

LEMMA FailPermanentlyType ==
  ASSUME TypeOK, NEW w \in Workers, FailPermanently(w)
  PROVE  TypeOK'
<1>1. /\ jobStatus' \in [Jobs -> JobStatus]
      /\ jobAttempts' \in [Jobs -> 0..MaxAttempts]
      /\ leaseFresh' \in [Jobs -> BOOLEAN]
  BY DEF FailPermanently, MarkFailed, TypeOK, JobStatus, Active
<1>2. QED
  BY <1>1, FinishType DEF FailPermanently, TypeOK, DispatchTypeOK

\* A worker that is not idle holds a job: what makes EntityOf[holds[w]] and
\* jobStatus[holds[w]] meaningful in the steps of a worker.
BusyHolds == \A w \in Workers : phase[w] = "idle" <=> holds[w] = NoJob

TypeInv == TypeOK /\ BusyHolds

LEMMA TypeWork ==
  ASSUME TypeInv, NEW w \in Workers, Work(w)
  PROVE  TypeOK'
<1>1. TypeOK
  BY DEF TypeInv
<1>2. holds[w] \in Jobs /\ EntityOf[holds[w]] \in Entities
  <2>1. phase[w] # "idle"
    BY DEF Work, AcquireFails, DocumentRejected, Parse, LockEntity, LockFails,
           BeginSave, CommitSave, AbortSave, SaveFails, DraftRejected, Step
  <2>2. QED
    BY <2>1, ImportAssumption DEF TypeInv, TypeOK, BusyHolds
<1>3. ASSUME NEW f, NEW t \in Phase, Step(w, f, t)
      PROVE  phase' \in [Workers -> Phase]
  BY <1>1, <1>3 DEF Step, TypeOK
<1>4. CASE AcquireFails(w) \/ LockFails(w) \/ SaveFails(w)
  BY <1>1, <1>2, <1>4, FailTransientType
  DEF AcquireFails, LockFails, SaveFails
<1>5. CASE DocumentRejected(w) \/ DraftRejected(w)
  BY <1>1, <1>5, FailPermanentlyType DEF DocumentRejected, DraftRejected
<1>6. CASE Parse(w)
  <2>1. phase' \in [Workers -> Phase]
    BY <1>3, <1>6 DEF Parse, Phase
  <2>2. QED
    BY <1>1, <1>6, <2>1 DEF Parse, TypeOK, DispatchTypeOK
<1>7. CASE LockEntity(w)
  <2>1. phase' \in [Workers -> Phase]
    BY <1>3, <1>7 DEF LockEntity, Phase
  <2>2. QED
    BY <1>1, <1>2, <1>7, <2>1 DEF LockEntity, TypeOK, DispatchTypeOK
<1>8. CASE BeginSave(w)
  <2>1. phase' \in [Workers -> Phase]
    BY <1>3, <1>8 DEF BeginSave, Phase
  <2>2. sourceRow[EntityOf[holds[w]]] \in BOOLEAN
    BY <1>1, <1>2 DEF TypeOK
  <2>3. QED
    BY <1>1, <1>8, <2>1, <2>2 DEF BeginSave, TypeOK, DispatchTypeOK
<1>9. CASE CommitSave(w)
  <2>1. Finish(w)
    BY <1>9 DEF CommitSave
  <2>2. drafts' \in [Entities -> Nat] /\ sourceRow' \in [Entities -> BOOLEAN]
    BY <1>1, <1>2, <1>9 DEF CommitSave, TypeOK
  <2>3. jobStatus' \in [Jobs -> JobStatus] /\ leaseFresh' \in [Jobs -> BOOLEAN]
    BY <1>1, <1>9 DEF CommitSave, TypeOK, JobStatus
  <2>4. QED
    BY <1>1, <1>9, <2>1, <2>2, <2>3, FinishType
    DEF CommitSave, TypeOK, DispatchTypeOK
<1>10. ASSUME NEW to \in {"conflict", "rejected"}, AbortSave(w, to)
       PROVE  TypeOK'
  <2>1. phase' \in [Workers -> Phase]
    BY <1>3, <1>10 DEF AbortSave, Phase
  <2>2. QED
    BY <1>1, <1>10, <2>1 DEF AbortSave, TypeOK, DispatchTypeOK
<1>11. QED
  BY <1>4, <1>5, <1>6, <1>7, <1>8, <1>9, <1>10 DEF Work

LEMMA TypeCrash ==
  ASSUME TypeInv, NEW w \in Workers, WorkerCrash(w)
  PROVE  TypeOK'
<1>1. "crash" \in Disturbances
  BY DEF Disturbances
<1>2. TypeOK /\ holds[w] \in Jobs
  BY DEF WorkerCrash, TypeInv, TypeOK, BusyHolds
<1>3. left' \in [Disturbances -> Nat]
  BY <1>1, <1>2, DisturbType DEF WorkerCrash
<1>4. queue' \in [Jobs -> 0..MaxMessages]
  BY <1>2, QueueType DEF WorkerCrash
<1>5. QED
  BY <1>2, <1>3, <1>4, DispatchAssumption
  DEF WorkerCrash, TypeOK, DispatchTypeOK, Phase

LEMMA TypeTime ==
  ASSUME TypeOK, Time
  PROVE  TypeOK'
<1>1. ASSUME NEW j \in Jobs, LeaseExpires(j) PROVE TypeOK'
  BY <1>1 DEF LeaseExpires, TypeOK, DispatchTypeOK
<1>2. ASSUME NEW j \in Jobs, LoseMessage(j) PROVE TypeOK'
  <2>1. "loss" \in Disturbances
    BY DEF Disturbances
  <2>2. left' \in [Disturbances -> Nat]
    BY <1>2, <2>1, DisturbType DEF LoseMessage
  <2>3. queue' \in [Jobs -> 0..MaxMessages]
    BY <1>2, QueueType DEF LoseMessage
  <2>4. QED
    BY <1>2, <2>2, <2>3 DEF LoseMessage, TypeOK, DispatchTypeOK
<1>3. ASSUME NEW e \in Entities, RedisLockExpires(e) PROVE TypeOK'
  BY <1>3 DEF RedisLockExpires, TypeOK, DispatchTypeOK
<1>4. QED BY <1>1, <1>2, <1>3 DEF Time

LEMMA TypeReconciler ==
  ASSUME TypeOK, NEW r \in Reconcilers, Reconcile(r) \/ Send(r) \/ Restart(r)
  PROVE  TypeOK'
<1>1. ASSUME NEW S, FailDispatchExhausted(S)
      PROVE  /\ jobStatus' \in [Jobs -> JobStatus]
             /\ jobAttempts' \in [Jobs -> 0..MaxAttempts]
             /\ leaseFresh' \in [Jobs -> BOOLEAN]
  BY <1>1 DEF FailDispatchExhausted, TypeOK, JobStatus
<1>2. CASE Reconcile(r)
  <2>1. PICK lost \in SUBSET Jobs :
          \E due \in SUBSET {j \in Jobs : Claimable(j, lost)} :
            /\ RecoverAndClaim(r, lost, due)
            /\ FailDispatchExhausted({j \in lost : Exhausted(j)})
    BY <1>2 DEF Reconcile
  <2>2. PICK due \in SUBSET {j \in Jobs : Claimable(j, lost)} :
            /\ RecoverAndClaim(r, lost, due)
            /\ FailDispatchExhausted({j \in lost : Exhausted(j)})
    BY <2>1
  <2>3. \A j \in due : j \in Jobs /\ dispatchAttempts[j] + 1 \in 0..MaxAttempts
    BY DispatchAssumption DEF Claimable, Exhausted, TypeOK, DispatchTypeOK
  <2>4. dispatchAttempts' \in [Jobs -> 0..MaxAttempts]
    BY <2>2, <2>3 DEF RecoverAndClaim, TypeOK, DispatchTypeOK
  <2>5. dispatchStatus' \in [Jobs -> DispatchStatus]
    BY <2>2 DEF RecoverAndClaim, TypeOK, DispatchTypeOK, DispatchStatus
  <2>6. batch' \in [Reconcilers -> SUBSET Jobs]
    BY <2>2, <2>3 DEF RecoverAndClaim, TypeOK, DispatchTypeOK
  <2>7. UNCHANGED <<flags, catalogue, workerVars, redisLock, left>>
    BY <1>2 DEF Reconcile
  <2>8. UNCHANGED <<queue, published, refused>>
    BY <2>2 DEF RecoverAndClaim
  <2>9. QED
    BY <1>1, <2>2, <2>4, <2>5, <2>6, <2>7, <2>8 DEF TypeOK, DispatchTypeOK
<1>3. CASE Publish(r)
  <2>1. PICK j \in Jobs : PublishIntent(r, j)
    BY <1>3 DEF Publish, TypeOK, DispatchTypeOK
  <2>2. queue' \in [Jobs -> 0..MaxMessages]
    BY <2>1, QueueType DEF PublishIntent
  <2>3. QED
    BY <1>3, <2>1, <2>2 DEF Publish, PublishIntent, TypeOK, DispatchTypeOK
<1>4. CASE BrokerRefuses(r)
  <2>1. "refusal" \in Disturbances
    BY DEF Disturbances
  <2>2. left' \in [Disturbances -> Nat]
    BY <1>4, <2>1, DisturbType DEF BrokerRefuses
  <2>3. PICK j \in Jobs : RefuseIntent(r, j)
    BY <1>4 DEF BrokerRefuses, TypeOK, DispatchTypeOK
  <2>4. QED
    BY <1>4, <2>2, <2>3 DEF BrokerRefuses, RefuseIntent, TypeOK, DispatchTypeOK
<1>5. CASE RecordDelivered(r)
  BY <1>5
  DEF RecordDelivered, MarkDelivered, TypeOK, DispatchTypeOK, DispatchStatus
<1>6. CASE RecordRefused(r)
  <2>1. PICK S : FailDispatchExhausted(S)
    BY <1>6 DEF RecordRefused
  <2>2. QED
    BY <1>1, <1>6, <2>1
    DEF RecordRefused, MarkDeliveryFailed, TypeOK, DispatchTypeOK,
        DispatchStatus
<1>7. CASE Restart(r)
  <2>1. "restart" \in Disturbances
    BY DEF Disturbances
  <2>2. left' \in [Disturbances -> Nat]
    BY <1>7, <2>1, DisturbType DEF Restart
  <2>3. QED
    BY <1>7, <2>2 DEF Restart, RestartReconciler, TypeOK, DispatchTypeOK
<1>8. QED BY <1>2, <1>3, <1>4, <1>5, <1>6, <1>7 DEF Send

LEMMA BusyStep ==
  ASSUME TypeInv, [Next]_vars
  PROVE  BusyHolds'
<1> USE DEF TypeInv, TypeOK, BusyHolds
<1>1. ASSUME UNCHANGED <<holds, phase>> PROVE BusyHolds'
  BY <1>1
<1>2. CASE User \/ DisableSource
  BY <1>1, <1>2 DEF User, Submit, Cancel, ManualRetry, DisableSource
<1>3. ASSUME NEW w \in Workers, NEW j \in Jobs, Deliver(w, j)
      PROVE  BusyHolds'
  <2>1. CASE Claim(w, j)
    BY <2>1, DispatchAssumption DEF Claim, Phase
  <2>2. QED
    BY <1>1, <1>3, <2>1 DEF Deliver, IgnoreDelivery, FailDisabledSource
<1>4. ASSUME NEW w \in Workers, Work(w) \/ WorkerCrash(w) PROVE BusyHolds'
  <2>1. CASE Finish(w)
    BY <2>1 DEF Finish
  <2>2. CASE WorkerCrash(w)
    BY <2>2 DEF WorkerCrash
  <2>3. ASSUME NEW f \in Phase \ {"idle"}, NEW t \in Phase \ {"idle"},
               Step(w, f, t), UNCHANGED holds
        PROVE  BusyHolds'
    BY <2>3 DEF Step
  <2>4. CASE Parse(w) \/ LockEntity(w) \/ BeginSave(w)
    BY <2>3, <2>4 DEF Parse, LockEntity, BeginSave, Phase
  <2>5. CASE AbortSave(w, "conflict") \/ AbortSave(w, "rejected")
    BY <2>3, <2>5 DEF AbortSave, Phase
  <2>6. QED
    BY <1>4, <2>1, <2>2, <2>4, <2>5
    DEF Work, AcquireFails, DocumentRejected, LockFails, CommitSave,
        SaveFails, DraftRejected, FailTransient, FailPermanently
<1>5. ASSUME NEW r \in Reconcilers, Reconcile(r) \/ Send(r) \/ Restart(r)
      PROVE  BusyHolds'
  BY <1>1, <1>5
  DEF Reconcile, Send, Publish, BrokerRefuses, RecordDelivered, RecordRefused,
      Restart
<1>6. CASE Time
  BY <1>1, <1>6 DEF Time, LeaseExpires, LoseMessage, RedisLockExpires
<1>7. CASE UNCHANGED vars
  BY <1>1, <1>7 DEF vars
<1>8. QED BY <1>2, <1>3, <1>4, <1>5, <1>6, <1>7 DEF Next

LEMMA TypeStep ==
  ASSUME TypeInv, [Next]_vars
  PROVE  TypeInv'
<1>1. TypeOK
  BY DEF TypeInv
<1>2. CASE Next
  BY <1>1, <1>2, TypeUser, TypeDeliver, TypeWork, TypeCrash, TypeReconciler,
     TypeTime, BusyStep
  DEF Next, TypeInv
<1>3. CASE UNCHANGED vars
  BY <1>1, <1>3, BusyStep DEF vars, TypeInv, TypeOK, DispatchTypeOK
<1>4. QED BY <1>2, <1>3

\* Every reachable state is well typed; in particular neither a job nor its
\* dispatch ever has more attempts than import_job_max_attempts
\* (process_import_job's claim, claim_due).
THEOREM TypeInvariant == Spec => []TypeInv
<1>1. Init => TypeInv
  BY TypeInit DEF TypeInv, BusyHolds, Init
<1>2. QED BY <1>1, TypeStep, PTL DEF Spec

THEOREM TypeCorrect == Spec => []TypeOK
<1>1. TypeInv => TypeOK
  BY DEF TypeInv
<1>2. QED BY <1>1, TypeInvariant, PTL

-----------------------------------------------------------------------------
\* What one step may do to a job no worker holds.
SettledStep ==
  \A j \in Jobs : ~ Held(j) =>
    /\ jobStatus[j] \in {"succeeded", "cancelled"} => jobStatus'[j] = jobStatus[j]
    /\ jobStatus[j] = "failed" => jobStatus'[j] \in {"failed", "queued"}

\* A worker writes the row of the job it holds and of no other.
LEMMA WorkWritesOwnRow ==
  ASSUME TypeInv, NEW w \in Workers, Work(w) \/ WorkerCrash(w)
  PROVE  /\ holds[w] \in Jobs
         /\ \A j \in Jobs : j # holds[w] =>
              jobStatus'[j] = jobStatus[j] /\ leaseFresh'[j] = leaseFresh[j]
         /\ \A v \in Workers : v # w => holds'[v] = holds[v]
         /\ holds'[w] \in {holds[w], NoJob}
<1>1. holds[w] \in Jobs
  <2>1. phase[w] # "idle"
    BY DEF Work, AcquireFails, DocumentRejected, Parse, LockEntity, LockFails,
           BeginSave, CommitSave, AbortSave, SaveFails, DraftRejected, Step,
           WorkerCrash
  <2>2. QED
    BY <2>1 DEF TypeInv, TypeOK, BusyHolds
<1>2. CASE FailTransient(w)
  BY <1>1, <1>2 DEF FailTransient, RecordTransient, Finish, TypeInv, TypeOK
<1>3. CASE FailPermanently(w)
  BY <1>1, <1>3 DEF FailPermanently, MarkFailed, Finish, TypeInv, TypeOK
<1>4. CASE CommitSave(w)
  BY <1>1, <1>4 DEF CommitSave, Finish, TypeInv, TypeOK
<1>5. CASE WorkerCrash(w)
  BY <1>1, <1>5 DEF WorkerCrash, TypeInv, TypeOK
<1>6. CASE UNCHANGED <<jobStatus, leaseFresh, holds>>
  BY <1>1, <1>6
<1>7. QED
  BY <1>2, <1>3, <1>4, <1>5, <1>6
  DEF Work, AcquireFails, DocumentRejected, LockFails, SaveFails,
      DraftRejected, Parse, LockEntity, BeginSave, AbortSave

\* _fail_import ends active jobs and leaves the others as they are.
LEMMA ReconcilerWrites ==
  ASSUME TypeInv, NEW r \in Reconcilers, Reconcile(r) \/ Send(r) \/ Restart(r)
  PROVE  /\ UNCHANGED holds
         /\ \A j \in Jobs :
              \/ jobStatus'[j] = jobStatus[j] /\ leaseFresh'[j] = leaseFresh[j]
              \/ jobStatus'[j] = "failed" /\ jobStatus[j] \in Active
              \/ jobStatus'[j] = jobStatus[j] /\ jobStatus[j] \notin Active
<1>1. ASSUME NEW S, FailDispatchExhausted(S), NEW j \in Jobs
      PROVE  \/ jobStatus'[j] = jobStatus[j] /\ leaseFresh'[j] = leaseFresh[j]
             \/ jobStatus'[j] = "failed" /\ jobStatus[j] \in Active
             \/ jobStatus'[j] = jobStatus[j] /\ jobStatus[j] \notin Active
  BY <1>1 DEF FailDispatchExhausted, TypeInv, TypeOK
<1>2. CASE \E S : FailDispatchExhausted(S)
  BY <1>1, <1>2 DEF Reconcile, Send, Publish, BrokerRefuses, RecordDelivered,
                    RecordRefused, Restart
<1>3. CASE UNCHANGED jobRows
  BY <1>3 DEF Reconcile, Send, Publish, BrokerRefuses, RecordDelivered,
              RecordRefused, Restart
<1>4. QED
  BY <1>2, <1>3 DEF Reconcile, Send, Publish, BrokerRefuses, RecordDelivered,
                    RecordRefused, Restart

LEMMA SettledInStep ==
  ASSUME TypeInv, [Next]_vars
  PROVE  SettledStep
<1> USE DEF TypeInv, TypeOK, SettledStep
<1>1. CASE UNCHANGED jobStatus
  BY <1>1
<1>2. ASSUME NEW j \in Jobs, Submit(j) PROVE SettledStep
  BY <1>2 DEF Submit
<1>3. ASSUME NEW j \in Jobs, Cancel(j) PROVE SettledStep
  BY <1>3 DEF Cancel, Active
<1>4. ASSUME NEW j \in Jobs, ManualRetry(j) PROVE SettledStep
  BY <1>4 DEF ManualRetry, ManuallyRetryable
<1>5. ASSUME NEW w \in Workers, NEW j \in Jobs, Deliver(w, j)
      PROVE  SettledStep
  BY <1>1, <1>5
  DEF Deliver, IgnoreDelivery, FailDisabledSource, Claim, TurnsAway, Active
<1>6. ASSUME NEW w \in Workers, Work(w) \/ WorkerCrash(w) PROVE SettledStep
  BY <1>6, WorkWritesOwnRow DEF Held
<1>7. ASSUME NEW r \in Reconcilers, Reconcile(r) \/ Send(r) \/ Restart(r)
      PROVE  SettledStep
  BY <1>7, ReconcilerWrites DEF Active
<1>8. CASE DisableSource \/ Time \/ UNCHANGED vars
  BY <1>1, <1>8
  DEF DisableSource, Time, LeaseExpires, LoseMessage, RedisLockExpires, vars
<1>9. QED
  BY <1>2, <1>3, <1>4, <1>5, <1>6, <1>7, <1>8 DEF Next, User

\* A settled import that no worker is processing is revived only by the retry
\* a user asks for, whatever the queue and the reconciler still hold for it
\* (process_import_job's claim, prepare_manual_retry, _fail_import).
THEOREM SettledFinal == Spec => SettledJobIsFinal
<1>1. TypeInv /\ [Next]_vars => [SettledStep]_vars
  BY SettledInStep
<1>2. SettledJobIsFinal <=> [][SettledStep]_vars
  BY DEF SettledJobIsFinal, SettledStep
<1>3. QED BY <1>1, <1>2, TypeInvariant, PTL DEF Spec

-----------------------------------------------------------------------------
\* A source row the saving transaction saw is still there when it commits:
\* nothing deletes rows of component_sources.
FoundExists ==
  \A w \in Workers : found[w] => /\ phase[w] = "saving"
                                 /\ sourceRow[EntityOf[holds[w]]]

DraftInv == OneDraftPerEntity /\ FoundExists

LEMMA DraftStep ==
  ASSUME TypeInv, DraftInv, [Next]_vars
  PROVE  DraftInv'
<1> USE DEF TypeInv, TypeOK, DraftInv, OneDraftPerEntity, FoundExists
<1>1. ASSUME UNCHANGED <<catalogue, workerVars>> PROVE DraftInv'
  BY <1>1
<1>2. CASE User \/ DisableSource
  BY <1>1, <1>2 DEF User, Submit, Cancel, ManualRetry, DisableSource
<1>3. ASSUME NEW w \in Workers, NEW j \in Jobs, Deliver(w, j)
      PROVE  DraftInv'
  <2>1. CASE Claim(w, j)
    <3>1. ~ found[w]
      BY <2>1 DEF Claim, Deliverable
    <3>2. QED BY <2>1, <3>1 DEF Claim
  <2>2. QED
    BY <1>1, <1>3, <2>1 DEF Deliver, IgnoreDelivery, FailDisabledSource
<1>4. ASSUME NEW w \in Workers, Work(w) \/ WorkerCrash(w) PROVE DraftInv'
  <2>1. holds[w] \in Jobs /\ EntityOf[holds[w]] \in Entities
    BY <1>4, WorkWritesOwnRow, ImportAssumption
  <2>2. ASSUME UNCHANGED catalogue, found' = [found EXCEPT ![w] = FALSE],
               NEW t, NEW h,
               phase' = [phase EXCEPT ![w] = t],
               holds' = [holds EXCEPT ![w] = h]
        PROVE  DraftInv'
    BY <2>2
  <2>3. CASE FailTransient(w) \/ FailPermanently(w)
    BY <2>2, <2>3 DEF FailTransient, FailPermanently, Finish
  <2>4. CASE WorkerCrash(w)
    BY <2>2, <2>4 DEF WorkerCrash
  <2>5. CASE AbortSave(w, "conflict") \/ AbortSave(w, "rejected")
    BY <2>5 DEF AbortSave, Step
  <2>6. CASE Parse(w) \/ LockEntity(w)
    BY <2>6 DEF Parse, LockEntity, Step
  <2>7. CASE BeginSave(w)
    BY <2>1, <2>7 DEF BeginSave, Step
  <2>8. CASE CommitSave(w)
    <3>1. sourceRow' = [sourceRow EXCEPT ![EntityOf[holds[w]]] = TRUE]
      BY <2>8 DEF CommitSave
    <3>2. drafts' = [drafts EXCEPT
            ![EntityOf[holds[w]]] = IF found[w] THEN @ ELSE @ + 1]
      BY <2>8 DEF CommitSave
    <3>3. drafts'[EntityOf[holds[w]]] = 1
      BY <2>1, <2>8, <3>2 DEF CommitSave
    <3>4. OneDraftPerEntity'
      BY <2>1, <3>1, <3>2, <3>3
    <3>5. FoundExists'
      BY <2>1, <2>8, <3>1 DEF CommitSave, Finish
    <3>6. QED BY <3>4, <3>5
  <2>9. QED
    BY <1>4, <2>3, <2>4, <2>5, <2>6, <2>7, <2>8
    DEF Work, AcquireFails, DocumentRejected, LockFails, SaveFails,
        DraftRejected
<1>5. ASSUME NEW r \in Reconcilers, Reconcile(r) \/ Send(r) \/ Restart(r)
      PROVE  DraftInv'
  BY <1>1, <1>5
  DEF Reconcile, Send, Publish, BrokerRefuses, RecordDelivered, RecordRefused,
      Restart
<1>6. CASE Time
  BY <1>1, <1>6 DEF Time, LeaseExpires, LoseMessage, RedisLockExpires
<1>7. CASE UNCHANGED vars
  BY <1>1, <1>7 DEF vars
<1>8. QED BY <1>2, <1>3, <1>4, <1>5, <1>6, <1>7 DEF Next

\* However many jobs import an entity at once, and with the Redis lock lost
\* or expired, there is one draft for it: the look-up and the unique indexes
\* of component_sources are enough (persist_draft, persist_repository_draft).
THEOREM OneDraft == Spec => []OneDraftPerEntity
<1>1. Init => DraftInv
  BY DEF Init, DraftInv, OneDraftPerEntity, FoundExists
<1>2. DraftInv => OneDraftPerEntity
  BY DEF DraftInv
<1>3. QED BY <1>1, <1>2, DraftStep, TypeInvariant, PTL DEF Spec

-----------------------------------------------------------------------------
\* Nobody retries by hand and processing keeps within the lease.
Disciplined == ~ SlowWorkers /\ \A p \in Profiles : p["retry"] = 0

\* A held job is leased to its holder, or has ended and cannot be claimed.
LeasedWhileHeld ==
  \A w \in Workers : holds[w] # NoJob =>
    \/ jobStatus[holds[w]] = "running" /\ leaseFresh[holds[w]]
    \/ jobStatus[holds[w]] \in {"failed", "cancelled"}

LeaseInv == LeasedWhileHeld /\ OneWorkerPerJob /\ left["retry"] = 0

\* A disturbance that may not happen any more does not.
LEMMA NoMore ==
  ASSUME TypeInv, [Next]_vars, NEW d \in Disturbances, left[d] = 0
  PROVE  left'[d] = 0
<1> USE DEF Disturb, TypeInv, TypeOK
<1>0. {"retry", "crash", "restart", "loss", "refusal", "disable", "cancel"}
        = Disturbances
  BY DEF Disturbances
<1>1. CASE UNCHANGED left
  BY <1>1
<1>2. ASSUME NEW e \in Disturbances, Disturb(e) PROVE left'[d] = 0
  BY <1>2
<1>3. CASE User \/ DisableSource
  BY <1>0, <1>1, <1>2, <1>3 DEF User, Submit, Cancel, ManualRetry, DisableSource
<1>4. ASSUME NEW w \in Workers, NEW j \in Jobs, Deliver(w, j)
      PROVE  left'[d] = 0
  BY <1>1, <1>4 DEF Deliver, IgnoreDelivery, FailDisabledSource, Claim
<1>5. ASSUME NEW w \in Workers, Work(w) \/ WorkerCrash(w)
      PROVE  left'[d] = 0
  BY <1>0, <1>1, <1>2, <1>5
  DEF Work, AcquireFails, DocumentRejected, LockFails, SaveFails,
      DraftRejected, FailTransient, FailPermanently, CommitSave,
      WorkerCrash, Parse, LockEntity, BeginSave, AbortSave
<1>6. ASSUME NEW r \in Reconcilers, Reconcile(r) \/ Send(r) \/ Restart(r)
      PROVE  left'[d] = 0
  BY <1>0, <1>1, <1>2, <1>6
  DEF Reconcile, Send, Publish, BrokerRefuses, RecordDelivered, RecordRefused,
      Restart
<1>7. CASE Time \/ UNCHANGED vars
  BY <1>0, <1>1, <1>2, <1>7
  DEF Time, LeaseExpires, LoseMessage, RedisLockExpires, vars
<1>8. QED BY <1>3, <1>4, <1>5, <1>6, <1>7 DEF Next

LEMMA LeaseStep ==
  ASSUME Disciplined, TypeInv, LeaseInv, [Next]_vars
  PROVE  LeaseInv'
<1> USE DEF TypeInv, TypeOK, LeaseInv, LeasedWhileHeld, OneWorkerPerJob
<1>0. left'["retry"] = 0
  BY NoMore DEF Disturbances
<1>1. ASSUME UNCHANGED <<holds, jobStatus, leaseFresh>> PROVE LeaseInv'
  BY <1>0, <1>1
<1>2. ASSUME NEW j \in Jobs, Submit(j) PROVE LeaseInv'
  BY <1>0, <1>2 DEF Submit
<1>3. ASSUME NEW j \in Jobs, Cancel(j) PROVE LeaseInv'
  BY <1>0, <1>3 DEF Cancel
<1>4. ASSUME NEW j \in Jobs, ManualRetry(j) PROVE FALSE
  BY <1>4 DEF ManualRetry, Disturb
<1>5. ASSUME NEW w \in Workers, NEW j \in Jobs, Deliver(w, j)
      PROVE  LeaseInv'
  <2>1. CASE IgnoreDelivery(w, j)
    BY <1>1, <2>1 DEF IgnoreDelivery
  <2>2. CASE FailDisabledSource(w, j)
    BY <1>0, <2>2 DEF FailDisabledSource
  <2>3. CASE Claim(w, j)
    <3>1. \A v \in Workers : holds[v] # j
      BY <2>3, DispatchAssumption DEF Claim, TurnsAway, Active
    <3>2. /\ jobStatus'[j] = "running" /\ leaseFresh'[j]
          /\ \A i \in Jobs : i # j => /\ jobStatus'[i] = jobStatus[i]
                                     /\ leaseFresh'[i] = leaseFresh[i]
      BY <2>3 DEF Claim
    <3>3. holds'[w] = j /\ \A v \in Workers : v # w => holds'[v] = holds[v]
      BY <2>3 DEF Claim
    <3>4. QED BY <1>0, <3>1, <3>2, <3>3
  <2>4. QED BY <1>5, <2>1, <2>2, <2>3 DEF Deliver
<1>6. ASSUME NEW w \in Workers, Work(w) \/ WorkerCrash(w) PROVE LeaseInv'
  <2>1. /\ holds[w] \in Jobs
        /\ \A j \in Jobs : j # holds[w] =>
             jobStatus'[j] = jobStatus[j] /\ leaseFresh'[j] = leaseFresh[j]
        /\ \A v \in Workers : v # w => holds'[v] = holds[v]
        /\ holds'[w] \in {holds[w], NoJob}
    BY <1>6, WorkWritesOwnRow
  <2>2. \A v \in Workers : v # w => holds[v] # holds[w]
    BY <2>1, DispatchAssumption
  <2>3. CASE holds'[w] = NoJob
    BY <1>0, <2>1, <2>2, <2>3
  <2>4. CASE UNCHANGED <<holds, jobStatus, leaseFresh>>
    BY <1>1, <2>4
  <2>5. QED
    BY <1>6, <2>3, <2>4
    DEF Work, AcquireFails, DocumentRejected, LockFails, SaveFails,
        DraftRejected, FailTransient, FailPermanently, Finish, CommitSave,
        WorkerCrash, Parse, LockEntity, BeginSave, AbortSave
<1>7. ASSUME NEW r \in Reconcilers, Reconcile(r) \/ Send(r) \/ Restart(r)
      PROVE  LeaseInv'
  BY <1>0, <1>7, ReconcilerWrites DEF Active
<1>8. CASE Time
  <2>1. ASSUME NEW j \in Jobs, LeaseExpires(j) PROVE LeaseInv'
    BY <1>0, <2>1 DEF LeaseExpires, Held, Disciplined
  <2>2. QED
    BY <1>1, <1>8, <2>1 DEF Time, LoseMessage, RedisLockExpires
<1>9. CASE DisableSource \/ UNCHANGED vars
  BY <1>1, <1>9 DEF DisableSource, vars
<1>10. QED
  BY <1>2, <1>3, <1>4, <1>5, <1>6, <1>7, <1>8, <1>9 DEF Next, User

LEMMA LeaseInvariant == Disciplined /\ Spec => []LeaseInv
<1>1. SUFFICES ASSUME Disciplined PROVE Spec => []LeaseInv
  OBVIOUS
<1>2. Init => LeaseInv
  BY <1>1 DEF Init, LeaseInv, LeasedWhileHeld, OneWorkerPerJob, Disciplined
<1>3. TypeInv /\ LeaseInv /\ [Next]_vars => LeaseInv'
  BY <1>1, LeaseStep
<1>4. QED BY <1>2, <1>3, TypeInvariant, PTL DEF Spec

\* As long as processing keeps within import_lock_ttl_seconds and nobody
\* retries by hand, the lease check of the claim keeps every second worker
\* away, through duplicate deliveries, crashes, cancellations and recoveries.
THEOREM OneWorker == Disciplined /\ Spec => []OneWorkerPerJob
<1>1. LeaseInv => OneWorkerPerJob
  BY DEF LeaseInv
<1>2. QED BY <1>1, LeaseInvariant, PTL

\* And no worker overwrites a saved import.
THEOREM SavedStays == Disciplined /\ Spec => SucceededStays
<1>1. TypeInv /\ LeaseInv /\ [Next]_vars
      => [\A j \in Jobs :
            jobStatus[j] = "succeeded" => jobStatus'[j] = "succeeded"]_vars
  <2>1. ASSUME TypeInv, LeaseInv, [Next]_vars, NEW j \in Jobs,
               jobStatus[j] = "succeeded"
        PROVE  jobStatus'[j] = "succeeded"
    <3>1. ~ Held(j)
      BY <2>1, DispatchAssumption DEF Held, LeaseInv, LeasedWhileHeld
    <3>2. QED BY <2>1, <3>1, SettledInStep DEF SettledStep
  <2>2. QED BY <2>1
<1>2. QED
  BY <1>1, LeaseInvariant, TypeInvariant, PTL DEF Spec, SucceededStays

-----------------------------------------------------------------------------
\* The broker refuses nothing and the reconciler is not killed.
Undisturbed == \A p \in Profiles : p["refusal"] = 0 /\ p["restart"] = 0

\* The counts of those disturbances stay at zero, so no pass of the
\* reconciler ever has a refusal to record.
CalmInv ==
  /\ left["refusal"] = 0
  /\ left["restart"] = 0
  /\ \A r \in Reconcilers : refused[r] = NoJob

\* A dead intent is that of a failed job nobody works on, and an intent whose
\* last attempt has been counted is in the hands of a reconciler.
IntentInv ==
  \A j \in Jobs :
    /\ dispatchStatus[j] = "none" => jobStatus[j] = "none"
    /\ dispatchStatus[j] = "failed" => jobStatus[j] = "failed" /\ ~ Held(j)
    /\ dispatchStatus[j] = "pending" /\ Exhausted(j) =>
         \E r \in Reconcilers : j \in batch[r] \/ published[r] = j

LEMMA CalmStep ==
  ASSUME TypeInv, CalmInv, [Next]_vars
  PROVE  CalmInv'
<1>1. left'["refusal"] = 0 /\ left'["restart"] = 0
  BY NoMore DEF CalmInv, Disturbances
<1>2. ASSUME NEW r \in Reconcilers PROVE refused'[r] = NoJob
  <2> USE DEF CalmInv
  <2>1. CASE UNCHANGED refused
    BY <2>1
  <2>2. ASSUME NEW s \in Reconcilers, Reconcile(s) \/ Send(s) \/ Restart(s)
        PROVE  refused'[r] = NoJob
    <3>1. CASE Reconcile(s)
      BY <2>1, <3>1 DEF Reconcile, RecoverAndClaim
    <3>2. CASE Publish(s) \/ RecordDelivered(s)
      BY <2>1, <3>2 DEF Publish, PublishIntent, RecordDelivered, MarkDelivered
    <3>3. ~ (BrokerRefuses(s) \/ RecordRefused(s) \/ Restart(s))
      BY DEF BrokerRefuses, RecordRefused, Restart, Disturb
    <3>4. QED BY <2>2, <3>1, <3>2, <3>3 DEF Send
  <2>3. ASSUME NEW w \in Workers, Work(w) \/ WorkerCrash(w)
        PROVE  UNCHANGED refused
    BY <2>3
    DEF Work, AcquireFails, DocumentRejected, LockFails, SaveFails,
        DraftRejected, FailTransient, FailPermanently, CommitSave,
        WorkerCrash, Parse, LockEntity, BeginSave, AbortSave
  <2>4. CASE User \/ DisableSource \/ Time \/ UNCHANGED vars
    BY <2>1, <2>4
    DEF User, Submit, Cancel, ManualRetry, DisableSource, Time, LeaseExpires,
        LoseMessage, RedisLockExpires, vars
  <2>5. ASSUME NEW w \in Workers, NEW j \in Jobs, Deliver(w, j)
        PROVE  UNCHANGED refused
    BY <2>5 DEF Deliver, IgnoreDelivery, FailDisabledSource, Claim
  <2>6. QED BY <2>1, <2>2, <2>3, <2>4, <2>5 DEF Next
<1>3. QED BY <1>1, <1>2 DEF CalmInv

LEMMA IntentStep ==
  ASSUME TypeInv, LeaseInv, CalmInv, IntentInv, [Next]_vars
  PROVE  IntentInv'
<1> USE DEF IntentInv, Exhausted
<1>a. /\ holds \in [Workers -> Jobs \cup {NoJob}]
      /\ jobStatus \in [Jobs -> JobStatus]
      /\ dispatchStatus \in [Jobs -> DispatchStatus]
      /\ dispatchAttempts \in [Jobs -> 0..MaxAttempts]
      /\ batch \in [Reconcilers -> SUBSET Jobs]
      /\ published \in [Reconcilers -> Jobs \cup {NoJob}]
  BY DEF TypeInv, TypeOK, DispatchTypeOK
<1>b. /\ NoJob \notin Jobs
      /\ MaxAttempts \in Nat /\ MaxAttempts >= 2
  BY DispatchAssumption
<1>1. ASSUME UNCHANGED <<dispatchRows, batch, published, jobStatus, holds>>
      PROVE  IntentInv'
  BY <1>1 DEF Held
<1>2. ASSUME NEW j \in Jobs, Submit(j) PROVE IntentInv'
  BY <1>2, <1>a, <1>b DEF Submit, ResetDispatch, Held
<1>3. ASSUME NEW j \in Jobs, Cancel(j) PROVE IntentInv'
  BY <1>3, <1>a DEF Cancel, Held, Active
<1>4. ASSUME NEW j \in Jobs, ManualRetry(j) PROVE FALSE
  BY <1>4 DEF ManualRetry, Disturb, LeaseInv
<1>5. ASSUME NEW w \in Workers, NEW j \in Jobs, Deliver(w, j)
      PROVE  IntentInv'
  <2>1. CASE IgnoreDelivery(w, j)
    BY <1>1, <2>1 DEF IgnoreDelivery
  <2>2. CASE FailDisabledSource(w, j)
    BY <2>2, <1>a DEF FailDisabledSource, TurnsAway, Active, Held
  <2>3. CASE Claim(w, j)
    BY <2>3, <1>a DEF Claim, TurnsAway, Active, Held
  <2>4. QED BY <1>5, <2>1, <2>2, <2>3 DEF Deliver
<1>6. ASSUME NEW w \in Workers, Work(w) \/ WorkerCrash(w) PROVE IntentInv'
  <2>1. /\ holds[w] \in Jobs
        /\ \A j \in Jobs : j # holds[w] => jobStatus'[j] = jobStatus[j]
        /\ \A v \in Workers : v # w => holds'[v] = holds[v]
        /\ holds'[w] \in {holds[w], NoJob}
    BY <1>6, WorkWritesOwnRow
  <2>2. UNCHANGED <<dispatchRows, batch, published>>
    BY <1>6
    DEF Work, AcquireFails, DocumentRejected, LockFails, SaveFails,
        DraftRejected, FailTransient, FailPermanently, CommitSave,
        WorkerCrash, Parse, LockEntity, BeginSave, AbortSave
  <2>3. /\ Held(holds[w])
        /\ jobStatus[holds[w]] # "none"
    BY <2>1, <1>b DEF LeaseInv, LeasedWhileHeld, Held
  <2>4. dispatchStatus[holds[w]] \notin {"none", "failed"}
    BY <2>1, <2>3
  <2>5. \A j \in Jobs : ~ Held(j) => ~ Held(j)'
    BY <2>1, <1>b DEF Held
  <2>6. QED BY <2>1, <2>2, <2>4, <2>5
<1>7. ASSUME NEW r \in Reconcilers, Reconcile(r) PROVE IntentInv'
  <2>1. PICK lost \in SUBSET {j \in Jobs : Recoverable(j)} :
          \E due \in SUBSET {j \in Jobs : Claimable(j, lost)} :
            /\ RecoverAndClaim(r, lost, due)
            /\ FailDispatchExhausted({j \in lost : Exhausted(j)})
            /\ UNCHANGED <<flags, catalogue, workerVars, redisLock, left>>
    BY <1>7 DEF Reconcile
  <2>2. PICK due \in SUBSET {j \in Jobs : Claimable(j, lost)} :
            /\ RecoverAndClaim(r, lost, due)
            /\ FailDispatchExhausted({j \in lost : Exhausted(j)})
            /\ UNCHANGED <<flags, catalogue, workerVars, redisLock, left>>
    BY <2>1
  <2>3. UNCHANGED <<holds, published>>
    BY <2>2 DEF RecoverAndClaim
  <2>4. \A j \in lost : jobStatus[j] \in Active /\ ~ Held(j)
    BY <1>b DEF Recoverable, Active, LeaseInv, LeasedWhileHeld, Held
  <2>5. SUFFICES ASSUME NEW j \in Jobs
        PROVE  /\ dispatchStatus'[j] = "none" => jobStatus'[j] = "none"
               /\ dispatchStatus'[j] = "failed"
                    => jobStatus'[j] = "failed" /\ ~ Held(j)'
               /\ dispatchStatus'[j] = "pending" /\ Exhausted(j)' =>
                    \E s \in Reconcilers : j \in batch'[s] \/ published'[s] = j
    BY DEF IntentInv
  <2>6. Held(j)' <=> Held(j)
    BY <2>3 DEF Held
  <2>7. /\ dispatchStatus'[j] = IF j \in lost
               THEN IF Exhausted(j) THEN "failed" ELSE "pending"
               ELSE dispatchStatus[j]
        /\ dispatchAttempts'[j] =
             IF j \in due THEN dispatchAttempts[j] + 1 ELSE dispatchAttempts[j]
        /\ batch' = [batch EXCEPT ![r] = due]
        /\ Idle(r)
    BY <2>2 DEF RecoverAndClaim
  <2>8. jobStatus'[j] =
          IF j \in lost /\ Exhausted(j) /\ jobStatus[j] \in Active
          THEN "failed" ELSE jobStatus[j]
    BY <2>2 DEF FailDispatchExhausted
  <2>9. dispatchStatus'[j] = "none" => jobStatus'[j] = "none"
    BY <2>7, <2>8
  <2>10. dispatchStatus'[j] = "failed" => jobStatus'[j] = "failed" /\ ~ Held(j)'
    BY <2>4, <2>6, <2>7, <2>8 DEF Active
  <2>11. ASSUME dispatchStatus'[j] = "pending", Exhausted(j)'
         PROVE  \E s \in Reconcilers : j \in batch'[s] \/ published'[s] = j
    <3>1. CASE j \in due
      BY <3>1, <2>7, <1>a
    <3>2. CASE j \notin due
      <4>1. dispatchStatus[j] = "pending" /\ Exhausted(j)
        BY <3>2, <2>7, <2>11
      <4>2. PICK s \in Reconcilers : j \in batch[s] \/ published[s] = j
        BY <4>1
      <4>3. s # r
        BY <4>2, <2>7, <1>b DEF Idle
      <4>4. QED BY <4>2, <4>3, <2>3, <2>7, <1>a
    <3>3. QED BY <3>1, <3>2
  <2>12. QED BY <2>9, <2>10, <2>11
<1>8. ASSUME NEW r \in Reconcilers, Publish(r) PROVE IntentInv'
  <2>1. PICK j \in batch[r] : PublishIntent(r, j) /\ UNCHANGED <<importsOnly, left>>
    BY <1>8 DEF Publish
  <2>2. UNCHANGED <<dispatchStatus, dispatchAttempts, jobStatus, holds>>
    BY <2>1 DEF PublishIntent
  <2>3. /\ batch' = [batch EXCEPT ![r] = @ \ {j}]
        /\ published' = [published EXCEPT ![r] = j]
        /\ published[r] = NoJob
    BY <2>1 DEF PublishIntent
  <2>4. ASSUME NEW i \in Jobs, NEW s \in Reconcilers,
               i \in batch[s] \/ published[s] = i
        PROVE  i \in batch'[s] \/ published'[s] = i
    BY <2>3, <2>4, <1>a, <1>b
  <2>5. QED BY <2>2, <2>4 DEF Held
<1>9. ASSUME NEW r \in Reconcilers, RecordDelivered(r) PROVE IntentInv'
  <2>1. /\ published[r] \in Jobs
        /\ dispatchStatus' = [dispatchStatus EXCEPT
              ![published[r]] = IF @ = "pending" THEN "delivered" ELSE @]
        /\ published' = [published EXCEPT ![r] = NoJob]
        /\ UNCHANGED <<dispatchAttempts, batch, jobStatus, holds>>
    BY <1>9, <1>a DEF RecordDelivered, MarkDelivered
  <2>2. ASSUME NEW i \in Jobs, dispatchStatus'[i] = "pending",
               NEW s \in Reconcilers, i \in batch[s] \/ published[s] = i
        PROVE  i \in batch'[s] \/ published'[s] = i
    BY <2>1, <2>2, <1>a
  <2>3. \A i \in Jobs : \/ dispatchStatus'[i] = dispatchStatus[i]
                        \/ dispatchStatus'[i] = "delivered"
    BY <2>1, <1>a
  <2>4. QED BY <2>1, <2>2, <2>3 DEF Held
<1>10. ASSUME NEW r \in Reconcilers, BrokerRefuses(r) \/ Restart(r) \/ RecordRefused(r)
       PROVE  FALSE
  BY <1>10 DEF BrokerRefuses, Restart, RecordRefused, Disturb, CalmInv
<1>11. CASE Time \/ DisableSource \/ UNCHANGED vars
  BY <1>1, <1>11
  DEF Time, LeaseExpires, LoseMessage, RedisLockExpires, DisableSource, vars,
      TakeMessage
<1>12. QED
  BY <1>2, <1>3, <1>4, <1>5, <1>6, <1>7, <1>8, <1>9, <1>10, <1>11
  DEF Next, User, Send

\* Nothing is lost: while the broker takes what it is given and the reconciler
\* is not killed between counting an attempt and recording it, no unfinished
\* job is left without something that will move it, through crashes of the
\* workers, lost messages, cancellations and disabled sources.
THEOREM NothingStranded ==
  Disciplined /\ Undisturbed /\ Spec => []NoJobIsStranded
<1>1. SUFFICES ASSUME Disciplined, Undisturbed
               PROVE  Spec => []NoJobIsStranded
  OBVIOUS
<1>2. Init => CalmInv /\ IntentInv
  BY <1>1 DEF Init, DispatchInit, CalmInv, IntentInv, Undisturbed
<1>3. TypeInv /\ CalmInv /\ [Next]_vars => CalmInv'
  BY CalmStep
<1>4. TypeInv /\ LeaseInv /\ CalmInv /\ IntentInv /\ [Next]_vars => IntentInv'
  BY IntentStep
<1>5. TypeInv /\ IntentInv => NoJobIsStranded
  <2>1. ASSUME TypeInv, IntentInv, NEW j \in Jobs, jobStatus[j] \in Active
        PROVE  HasWayForward(j)
    <3>1. dispatchStatus[j] \in {"pending", "delivered"}
      BY <2>1
      DEF IntentInv, Active, TypeInv, TypeOK, DispatchTypeOK, DispatchStatus
    <3>2. CASE dispatchStatus[j] = "pending" /\ Exhausted(j)
      BY <2>1, <3>2 DEF IntentInv, HasWayForward
    <3>3. QED BY <3>1, <3>2 DEF HasWayForward
  <2>2. QED BY <2>1 DEF NoJobIsStranded
<1>6. Disciplined
  BY <1>1
<1>7. QED
  BY <1>2, <1>3, <1>4, <1>5, <1>6, LeaseInvariant, TypeInvariant, PTL DEF Spec

-----------------------------------------------------------------------------
(* ImportJobs implements ImportPromise, as long as processing keeps within *)
(* the lease and nobody retries by hand.  The steps of the machinery that  *)
(* a user does not see map to stuttering; one lemma for each promise a     *)
(* step may keep, then one step per action.                                *)

PromiseStep == [Promise!Next]_(Promise!vars)

LEMMA Stutters ==
  ASSUME UNCHANGED <<jobStatus, holds, drafts>>
  PROVE  PromiseStep
<1>1. \A j : StateOf(j)' = StateOf(j) /\ Held(j)' = Held(j)
  BY DEF StateOf, Held
<1>2. QED BY <1>1 DEF PromiseStep, Promise!vars

\* The machinery fails open jobs, whether or not a worker is on them.
LEMMA GivesUpOn ==
  ASSUME NEW S \in SUBSET Jobs, \A j \in S : jobStatus[j] \in Active,
         \A j \in Jobs : jobStatus'[j] = IF j \in S THEN "failed" ELSE jobStatus[j],
         UNCHANGED <<holds, drafts>>
  PROVE  PromiseStep
<1>1. \A j \in Jobs : StateOf(j)' = IF j \in S THEN "failed" ELSE StateOf(j)
  BY DEF StateOf, Active
<1>2. \A j \in S : StateOf(j) = "open"
  BY DEF StateOf
<1>3. \A j : Held(j)' = Held(j)
  BY DEF Held
<1>4. Promise!GiveUp(S)
  BY <1>1, <1>2, <1>3 DEF Promise!GiveUp
<1>5. QED BY <1>4 DEF PromiseStep, Promise!Next

\* The last worker of a job leaves it.
LEMMA Leaves ==
  ASSUME TypeInv, LeaseInv, NEW w \in Workers, NEW h \in Jobs, holds[w] = h,
         holds' = [holds EXCEPT ![w] = NoJob]
  PROVE  /\ h \in {j \in Jobs : Held(j)}
         /\ {j \in Jobs : Held(j)}' = {j \in Jobs : Held(j)} \ {h}
<1>1. \A v \in Workers : v # w => holds'[v] = holds[v] /\ holds[v] # h
  BY DispatchAssumption DEF TypeInv, TypeOK, LeaseInv, OneWorkerPerJob
<1>2. holds'[w] = NoJob
  BY DEF TypeInv, TypeOK
<1>3. QED BY <1>1, <1>2, DispatchAssumption DEF Held

LEMMA Drops ==
  ASSUME TypeInv, LeaseInv, NEW w \in Workers, NEW h \in Jobs, holds[w] = h,
         holds' = [holds EXCEPT ![w] = NoJob], UNCHANGED drafts,
         \A j \in Jobs : j # h => jobStatus'[j] = jobStatus[j],
         jobStatus'[h] \in {jobStatus[h], "failed", "retrying"}
  PROVE  PromiseStep
<1> DEFINE state == [j \in Jobs |-> StateOf(j)]
<1>1. StateOf(h)' \in {"failed", "open", state[h]}
  BY DEF StateOf, Active
<1>2. state' = [state EXCEPT ![h] = StateOf(h)']
  BY DEF StateOf
<1>3. Promise!Drop(h)
  BY <1>1, <1>2, Leaves DEF Promise!Drop
<1>4. QED BY <1>3 DEF PromiseStep, Promise!Next

LEMMA Saves ==
  ASSUME TypeInv, DraftInv, LeaseInv, NEW w \in Workers, CommitSave(w)
  PROVE  PromiseStep
<1> DEFINE state == [j \in Jobs |-> StateOf(j)]
<1>0. PICK h \in Jobs : holds[w] = h
  BY WorkWritesOwnRow DEF Work
<1>1. EntityOf[h] \in Entities
  BY ImportAssumption
<1>2. holds' = [holds EXCEPT ![w] = NoJob]
  BY DEF CommitSave, Finish
<1>3. jobStatus' = [jobStatus EXCEPT ![h] = "succeeded"]
  BY <1>0 DEF CommitSave
<1>4. state' = [state EXCEPT ![h] = "succeeded"]
  BY <1>1, <1>3 DEF StateOf, Active, TypeInv, TypeOK
<1>5. drafts' = [drafts EXCEPT ![EntityOf[h]] = 1]
  <2>1. drafts' = [drafts EXCEPT ![EntityOf[h]] = IF found[w] THEN @ ELSE @ + 1]
    BY <1>0 DEF CommitSave
  <2>2. (IF found[w] THEN drafts[EntityOf[h]] ELSE drafts[EntityOf[h]] + 1) = 1
    BY <1>0, <1>1 DEF CommitSave, DraftInv, OneDraftPerEntity, FoundExists
  <2>3. QED BY <2>1, <2>2
<1>6. Promise!Save(h)
  BY <1>0, <1>2, <1>4, <1>5, Leaves DEF Promise!Save
<1>7. QED BY <1>6 DEF PromiseStep, Promise!Next

LEMMA WorkKeeps ==
  ASSUME TypeInv, DraftInv, LeaseInv, NEW w \in Workers,
         Work(w) \/ WorkerCrash(w)
  PROVE  PromiseStep
<1>1. PICK h \in Jobs : holds[w] = h
  BY WorkWritesOwnRow
<1>2. \A j \in Jobs : j # h => jobStatus'[j] = jobStatus[j]
  BY <1>1, WorkWritesOwnRow
<1>3. ASSUME holds' = [holds EXCEPT ![w] = NoJob], UNCHANGED drafts,
             jobStatus'[h] \in {jobStatus[h], "failed", "retrying"}
      PROVE  PromiseStep
  BY <1>1, <1>2, <1>3, Drops
<1>4. CASE FailTransient(w)
  <2>1. jobStatus'[h] = TransientOutcome(w)
    BY <1>1, <1>4 DEF FailTransient, RecordTransient, TypeInv, TypeOK
  <2>2. TransientOutcome(w) \in {jobStatus[h], "failed", "retrying"}
    BY <1>1 DEF TransientOutcome
  <2>3. QED
    BY <1>3, <1>4, <2>1, <2>2 DEF FailTransient, Finish
<1>5. CASE FailPermanently(w)
  <2>1. jobStatus'[h] \in {jobStatus[h], "failed"}
    BY <1>1, <1>5 DEF FailPermanently, MarkFailed, TypeInv, TypeOK
  <2>2. QED
    BY <1>3, <1>5, <2>1 DEF FailPermanently, Finish
<1>6. CASE WorkerCrash(w)
  BY <1>3, <1>6 DEF WorkerCrash
<1>7. CASE CommitSave(w)
  BY <1>7, Saves
<1>8. CASE UNCHANGED <<jobStatus, holds, drafts>>
  BY <1>8, Stutters
<1>9. QED
  BY <1>4, <1>5, <1>6, <1>7, <1>8
  DEF Work, AcquireFails, DocumentRejected, LockFails, SaveFails,
      DraftRejected, Parse, LockEntity, BeginSave, AbortSave

LEMMA DeliverKeeps ==
  ASSUME TypeInv, LeaseInv, NEW w \in Workers, NEW j \in Jobs, Deliver(w, j)
  PROVE  PromiseStep
<1> DEFINE state == [i \in Jobs |-> StateOf(i)]
<1>1. CASE IgnoreDelivery(w, j)
  BY <1>1, Stutters DEF IgnoreDelivery
<1>2. CASE FailDisabledSource(w, j)
  <2>1. /\ jobStatus[j] \in Active
        /\ \A i \in Jobs : jobStatus'[i] = IF i \in {j} THEN "failed" ELSE jobStatus[i]
        /\ UNCHANGED <<holds, drafts>>
    BY <1>2 DEF FailDisabledSource, TurnsAway, TypeInv, TypeOK
  <2>2. QED BY <2>1, GivesUpOn
<1>3. CASE Claim(w, j)
  <2>1. jobStatus[j] \in Active
    BY <1>3 DEF Claim, TurnsAway
  <2>2. ~ Held(j)
    BY <1>3, DispatchAssumption
    DEF Claim, TurnsAway, Active, Held, LeaseInv, LeasedWhileHeld
  <2>3. state' = state
    BY <1>3, <2>1 DEF Claim, StateOf, Active, TypeInv, TypeOK
  <2>4. holds' = [holds EXCEPT ![w] = j] /\ holds[w] = NoJob
    BY <1>3 DEF Claim, Deliverable, TypeInv, BusyHolds
  <2>5. {i \in Jobs : Held(i)}' = {i \in Jobs : Held(i)} \cup {j}
    BY <2>4, DispatchAssumption DEF Held, TypeInv, TypeOK
  <2>6. Promise!TakeUp(j)
    BY <1>3, <2>1, <2>2, <2>3, <2>5 DEF Promise!TakeUp, StateOf, Claim
  <2>7. QED BY <2>6 DEF PromiseStep, Promise!Next
<1>4. QED BY <1>1, <1>2, <1>3 DEF Deliver

LEMMA ReconcilerKeeps ==
  ASSUME TypeInv, NEW r \in Reconcilers, Reconcile(r) \/ Send(r) \/ Restart(r)
  PROVE  PromiseStep
<1>1. UNCHANGED <<holds, drafts>>
  BY DEF Reconcile, Send, Publish, BrokerRefuses, RecordDelivered,
         RecordRefused, Restart
<1>2. \A j \in Jobs : \/ jobStatus'[j] = jobStatus[j]
                      \/ jobStatus'[j] = "failed" /\ jobStatus[j] \in Active
  BY ReconcilerWrites
<1> DEFINE S == {j \in Jobs : jobStatus'[j] # jobStatus[j]}
<1>3. QED BY <1>1, <1>2, GivesUpOn, S \in SUBSET Jobs

LEMMA UserKeeps ==
  ASSUME TypeInv, LeaseInv, User
  PROVE  PromiseStep
<1> DEFINE state == [i \in Jobs |-> StateOf(i)]
<1>1. ASSUME NEW j \in Jobs, Submit(j) PROVE PromiseStep
  <2>1. state[j] = "none" /\ state' = [state EXCEPT ![j] = "open"]
    BY <1>1 DEF Submit, StateOf, Active, TypeInv, TypeOK
  <2>2. UNCHANGED drafts /\ {i \in Jobs : Held(i)}' = {i \in Jobs : Held(i)}
    BY <1>1 DEF Submit, Held
  <2>3. Promise!Request(j)
    BY <2>1, <2>2 DEF Promise!Request
  <2>4. QED BY <2>3 DEF PromiseStep, Promise!Next
<1>2. ASSUME NEW j \in Jobs, Cancel(j) PROVE PromiseStep
  <2>1. state[j] = "open" /\ state' = [state EXCEPT ![j] = "cancelled"]
    BY <1>2 DEF Cancel, StateOf, Active, TypeInv, TypeOK
  <2>2. UNCHANGED drafts /\ {i \in Jobs : Held(i)}' = {i \in Jobs : Held(i)}
    BY <1>2 DEF Cancel, Held
  <2>3. Promise!Cancel(j)
    BY <2>1, <2>2 DEF Promise!Cancel
  <2>4. QED BY <2>3 DEF PromiseStep, Promise!Next
<1>3. ASSUME NEW j \in Jobs, ManualRetry(j) PROVE FALSE
  BY <1>3 DEF ManualRetry, Disturb, LeaseInv
<1>4. QED BY <1>1, <1>2, <1>3 DEF User

\* Every step of the jobs, the workers and the reconciler keeps the promise.
LEMMA EveryStepKeeps ==
  ASSUME TypeInv, DraftInv, LeaseInv, [Next]_vars
  PROVE  PromiseStep
<1>1. CASE DisableSource \/ Time \/ UNCHANGED vars
  BY <1>1, Stutters
  DEF DisableSource, Time, LeaseExpires, LoseMessage, RedisLockExpires, vars
<1>2. QED
  BY <1>1, UserKeeps, DeliverKeeps, WorkKeeps, ReconcilerKeeps DEF Next

LEMMA DraftInvariant == Spec => []DraftInv
<1>1. Init => DraftInv
  BY DEF Init, DraftInv, OneDraftPerEntity, FoundExists
<1>2. QED BY <1>1, DraftStep, TypeInvariant, PTL DEF Spec

\* Whatever is delivered twice, lost, refused or restarted, and wherever a
\* worker dies, an import is taken up by one worker at a time and concluded
\* once, by whoever took it up.
THEOREM Implements == Disciplined /\ Spec => KeepsThePromise
<1>1. Init => Promise!Init
  BY DispatchAssumption DEF Init, Promise!Init, StateOf, Active, Held
<1>2. TypeInv /\ DraftInv /\ LeaseInv /\ [Next]_vars
      => [Promise!Next]_(Promise!vars)
  BY EveryStepKeeps DEF PromiseStep
<1>3. QED
  BY <1>1, <1>2, TypeInvariant, DraftInvariant, LeaseInvariant, PTL
  DEF Spec, KeepsThePromise, Promise!Spec
=============================================================================
