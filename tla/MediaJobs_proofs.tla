-------------------------- MODULE MediaJobs_proofs --------------------------
(***************************************************************************)
(* Theorems about MediaJobs, for any number of uploads, workers,           *)
(* reconcilers and attempts and any bound on the disturbances.             *)
(***************************************************************************)
EXTENDS MediaRefinement, FiniteSetTheorems, TLAPS

USE DEF dispatchRows, reconciler, dispatchVars, assetRows, jobRows, storage,
        workerVars, requests, rest, mediaOnly

LEMMA TypeInit == Init => TypeOK
BY DispatchAssumption, MediaAssumption
DEF Init, DispatchInit, TypeOK, DispatchTypeOK, DispatchStatus, JobStatus,
    Active, AssetStatus, Phase, NoSweep, MaxConfirming

LEMMA FinishType ==
  ASSUME TypeOK, NEW w \in Workers, Finish(w)
  PROVE  /\ holds' \in [Workers -> Jobs \cup {NoJob}]
         /\ phase' \in [Workers -> Phase]
         /\ claimAttempts' \in [Workers -> 0..MaxAttempts]
BY DispatchAssumption DEF TypeOK, Finish, Phase

LEMMA QueueType ==
  ASSUME TypeOK, NEW j \in Jobs, Enqueue(j) \/ TakeMessage(j)
  PROVE  queue' \in [Jobs -> 0..MaxMessages]
BY DispatchAssumption
DEF TypeOK, DispatchTypeOK, Enqueue, TakeMessage, OneMore

LEMMA DisturbType ==
  ASSUME TypeOK, NEW d \in Disturbances, Disturb(d)
  PROVE  left' \in [Disturbances -> Nat]
BY DEF TypeOK, Disturb

LEMMA Kinds ==
  /\ {"retry", "crash", "restart", "loss", "refusal", "reupload", "double",
      "sweep", "delay"} = Disturbances
BY DEF Disturbances

\* What a user does to the rows of one upload keeps their types.
LEMMA TypeUser ==
  ASSUME TypeOK, NEW j \in Jobs, User(j)
  PROVE  TypeOK'
<1> USE DEF TypeOK, DispatchTypeOK, AssetStatus
<1>0. CASE Reserve(j)
  BY <1>0 DEF Reserve
<1>1. CASE Expire(j)
  BY <1>1 DEF Expire
<1>2. CASE ManualRetry(j)
  <2>1. left' \in [Disturbances -> Nat]
    BY <1>2, Kinds, DisturbType DEF ManualRetry
  <2>2. QED
    BY <1>2, <2>1, DispatchAssumption
    DEF ManualRetry, ResetDispatch, DispatchStatus, JobStatus, Active
<1>3. ASSUME NEW content \in {"image", "other"}, Put(j, content)
      PROVE  TypeOK'
  <2>1. left' \in [Disturbances -> Nat]
    BY <1>3, Kinds, DisturbType DEF Put
  <2>2. QED BY <1>3, <2>1 DEF Put
<1>4. CASE OpenConfirm(j)
  <2>1. left' \in [Disturbances -> Nat]
    BY <1>4, Kinds, DisturbType DEF OpenConfirm
  <2>2. QED BY <1>4, <2>1 DEF OpenConfirm, MaxConfirming
<1>5. CASE TakeTime(j)
  BY <1>5 DEF TakeTime, MaxConfirming
<1>6. ASSUME EndConfirm(j) PROVE confirming' \in [Jobs -> 0..MaxConfirming]
  BY <1>6 DEF EndConfirm, MaxConfirming
<1>7. ASSUME EndInTime(j) PROVE timely' \in [Jobs -> 0..MaxConfirming]
  BY <1>7 DEF EndInTime, MaxConfirming
<1>8. CASE Confirm(j)
  <2>1. EndConfirm(j) /\ EndInTime(j)
    BY <1>8 DEF Confirm, EndInTime
  <2>2. late' \in [Jobs -> BOOLEAN]
    BY <1>8 DEF Confirm
  <2>3. QED
    BY <1>6, <1>7, <1>8, <2>1, <2>2, DispatchAssumption
    DEF Confirm, ResetDispatch, DispatchStatus, JobStatus, Active
<1>9. CASE RejectUpload(j)
  <2>1. EndConfirm(j) /\ (EndInTime(j) \/ UNCHANGED timely)
    BY <1>9 DEF RejectUpload, EndInTime
  <2>2. QED BY <1>6, <1>7, <1>9, <2>1 DEF RejectUpload
<1>10. CASE ConfirmFails(j)
  <2>1. EndConfirm(j) /\ EndInTime(j)
    BY <1>10 DEF ConfirmFails, EndInTime
  <2>2. QED BY <1>6, <1>7, <1>10, <2>1 DEF ConfirmFails
<1>11. QED
  BY <1>0, <1>1, <1>2, <1>3, <1>4, <1>5, <1>8, <1>9, <1>10 DEF User

LEMMA TypeDeliver ==
  ASSUME TypeOK, NEW w \in Workers, NEW j \in Jobs, Deliver(w, j)
  PROVE  TypeOK'
<1> USE DEF TypeOK, DispatchTypeOK
<1>1. queue' \in [Jobs -> 0..MaxMessages]
  BY QueueType DEF Deliver, IgnoreDelivery, FailExhausted, Claim, Deliverable
<1>2. CASE IgnoreDelivery(w, j)
  BY <1>1, <1>2 DEF IgnoreDelivery
<1>3. CASE FailExhausted(w, j)
  BY <1>1, <1>3 DEF FailExhausted, FailJob, JobStatus, AssetStatus
<1>4. CASE Claim(w, j)
  <2>1. jobAttempts[j] + 1 \in 0..MaxAttempts
    BY <1>4, DispatchAssumption DEF Claim
  <2>2. QED BY <1>1, <1>4, <2>1 DEF Claim, JobStatus, Active, Phase
<1>5. QED BY <1>2, <1>3, <1>4 DEF Deliver

\* A worker that is not idle holds a job.
BusyHolds == \A w \in Workers : phase[w] = "idle" <=> holds[w] = NoJob

TypeInv == TypeOK /\ BusyHolds

LEMMA WorkerHolds ==
  ASSUME TypeInv, NEW w \in Workers, Work(w) \/ WorkerCrash(w)
  PROVE  holds[w] \in Jobs /\ phase[w] # "idle"
<1>1. phase[w] # "idle"
  BY DEF Work, Process, RejectOriginal, UploadVariants, FailTransient, Complete,
         CompleteRefused, Step, WorkerCrash
<1>2. QED BY <1>1 DEF TypeInv, TypeOK, BusyHolds

LEMMA TypeWork ==
  ASSUME TypeInv, NEW w \in Workers, Work(w) \/ WorkerCrash(w)
  PROVE  TypeOK'
<1> USE DEF TypeOK, DispatchTypeOK
<1>1. TypeOK /\ holds[w] \in Jobs
  BY WorkerHolds DEF TypeInv
<1>2. ASSUME RetryMessage(w) PROVE queue' \in [Jobs -> 0..MaxMessages]
  BY <1>1, <1>2, QueueType DEF RetryMessage
<1>3. CASE Process(w)
  <2>1. phase' \in [Workers -> Phase]
    BY <1>1, <1>3 DEF Process, Step, Phase
  <2>2. leaseFresh' \in [Jobs -> BOOLEAN]
    BY <1>1, <1>3 DEF Process
  <2>3. QED BY <1>1, <1>3, <2>1, <2>2 DEF Process, Step
<1>4. CASE RejectOriginal(w)
  <2>1. Finish(w)
    BY <1>4 DEF RejectOriginal
  <2>2. QED
    BY <1>1, <1>4, <2>1, FinishType
    DEF RejectOriginal, FailJob, JobStatus, AssetStatus
<1>5. CASE UploadVariants(w)
  <2>1. phase' \in [Workers -> Phase]
    BY <1>1, <1>5 DEF UploadVariants, Step, Phase
  <2>2. variants' \in [Jobs -> {"absent", "recent", "old"}]
    BY <1>1, <1>5 DEF UploadVariants
  <2>3. QED BY <1>1, <1>5, <2>1, <2>2 DEF UploadVariants, Step
<1>6. CASE FailTransient(w)
  <2>1. Finish(w) /\ queue' \in [Jobs -> 0..MaxMessages]
    BY <1>2, <1>6 DEF FailTransient
  <2>2. /\ jobStatus' \in [Jobs -> JobStatus]
        /\ jobAttempts' \in [Jobs -> 0..MaxAttempts]
        /\ leaseFresh' \in [Jobs -> BOOLEAN]
    BY <1>1, <1>6 DEF FailTransient, FailJob, JobStatus, Active
  <2>3. /\ assetStatus' \in [Jobs -> AssetStatus]
        /\ UNCHANGED <<cleaned, expired>>
    BY <1>1, <1>6 DEF FailTransient, FailJob, AssetStatus
  <2>4. QED BY <1>1, <1>6, <2>1, <2>2, <2>3, FinishType DEF FailTransient
<1>7. CASE Complete(w)
  <2>1. Finish(w)
    BY <1>7 DEF Complete
  <2>2. QED
    BY <1>1, <1>7, <2>1, FinishType DEF Complete, JobStatus, AssetStatus
<1>8. CASE CompleteRefused(w)
  <2>1. Finish(w) /\ queue' \in [Jobs -> 0..MaxMessages]
    BY <1>2, <1>8 DEF CompleteRefused
  <2>2. QED BY <1>1, <1>8, <2>1, FinishType DEF CompleteRefused
<1>9. CASE WorkerCrash(w)
  <2>1. Finish(w) /\ queue' \in [Jobs -> 0..MaxMessages]
    BY <1>1, <1>9, QueueType DEF WorkerCrash
  <2>2. left' \in [Disturbances -> Nat]
    BY <1>1, <1>9, Kinds, DisturbType DEF WorkerCrash
  <2>3. QED BY <1>1, <1>9, <2>1, <2>2, FinishType DEF WorkerCrash
<1>10. QED BY <1>3, <1>4, <1>5, <1>6, <1>7, <1>8, <1>9 DEF Work

LEMMA TypeReconciler ==
  ASSUME TypeOK, NEW r \in Reconcilers, Reconcile(r) \/ Send(r) \/ Restart(r)
  PROVE  TypeOK'
<1> USE DEF TypeOK, DispatchTypeOK
<1>1. ASSUME NEW S, FailDispatchExhausted(S)
      PROVE  /\ jobStatus' \in [Jobs -> JobStatus]
             /\ assetStatus' \in [Jobs -> AssetStatus]
             /\ leaseFresh' \in [Jobs -> BOOLEAN]
             /\ UNCHANGED <<jobAttempts, cleaned, expired>>
  BY <1>1 DEF FailDispatchExhausted, JobStatus, AssetStatus
<1>2. CASE Reconcile(r)
  <2>1. PICK lost \in SUBSET Jobs :
          \E due \in SUBSET {j \in Jobs : Claimable(j, lost)} :
            /\ RecoverAndClaim(r, lost, due)
            /\ FailDispatchExhausted({j \in lost : Exhausted(j)})
    BY <1>2 DEF Reconcile
  <2>2. PICK due \in SUBSET {j \in Jobs : Claimable(j, lost)} :
            /\ RecoverAndClaim(r, lost, due)
            /\ FailDispatchExhausted({j \in lost : Exhausted(j)})
    BY <2>1
  <2>3. \A j \in due : j \in Jobs /\ dispatchAttempts[j] + 1 \in 0..MaxAttempts
    BY DispatchAssumption DEF Claimable, Exhausted
  <2>4. dispatchAttempts' \in [Jobs -> 0..MaxAttempts]
    BY <2>2, <2>3 DEF RecoverAndClaim
  <2>5. dispatchStatus' \in [Jobs -> DispatchStatus]
    BY <2>2 DEF RecoverAndClaim, DispatchStatus
  <2>6. batch' \in [Reconcilers -> SUBSET Jobs]
    BY <2>2, <2>3 DEF RecoverAndClaim
  <2>7. UNCHANGED <<workerVars, rest, left>>
    BY <1>2 DEF Reconcile
  <2>8. UNCHANGED <<queue, published, refused>>
    BY <2>2 DEF RecoverAndClaim
  <2>9. QED BY <1>1, <2>2, <2>4, <2>5, <2>6, <2>7, <2>8
<1>3. CASE Publish(r)
  <2>1. PICK j \in Jobs : PublishIntent(r, j)
    BY <1>3 DEF Publish
  <2>2. queue' \in [Jobs -> 0..MaxMessages]
    BY <2>1, QueueType DEF PublishIntent
  <2>3. QED BY <1>3, <2>1, <2>2 DEF Publish, PublishIntent
<1>4. CASE BrokerRefuses(r)
  <2>1. left' \in [Disturbances -> Nat]
    BY <1>4, Kinds, DisturbType DEF BrokerRefuses
  <2>2. PICK j \in Jobs : RefuseIntent(r, j)
    BY <1>4 DEF BrokerRefuses
  <2>3. QED BY <1>4, <2>1, <2>2 DEF BrokerRefuses, RefuseIntent
<1>5. CASE RecordDelivered(r)
  BY <1>5 DEF RecordDelivered, MarkDelivered, DispatchStatus
<1>6. CASE RecordRefused(r)
  <2>1. PICK S : FailDispatchExhausted(S)
    BY <1>6 DEF RecordRefused
  <2>2. QED
    BY <1>1, <1>6, <2>1 DEF RecordRefused, MarkDeliveryFailed, DispatchStatus
<1>7. CASE Restart(r)
  <2>1. left' \in [Disturbances -> Nat]
    BY <1>7, Kinds, DisturbType DEF Restart
  <2>2. QED BY <1>7, <2>1 DEF Restart, RestartReconciler
<1>8. QED BY <1>2, <1>3, <1>4, <1>5, <1>6, <1>7 DEF Send

\* Time passes, a message is lost, variants grow old.
Weather(j) == LeaseExpires(j) \/ LoseMessage(j) \/ Age(j)

LEMMA TypeWeather ==
  ASSUME TypeOK, NEW j \in Jobs, Weather(j)
  PROVE  TypeOK'
<1> USE DEF TypeOK, DispatchTypeOK
<1>1. CASE LeaseExpires(j)
  BY <1>1 DEF LeaseExpires
<1>2. CASE LoseMessage(j)
  <2>1. left' \in [Disturbances -> Nat]
    BY <1>2, Kinds, DisturbType DEF LoseMessage
  <2>2. queue' \in [Jobs -> 0..MaxMessages]
    BY <1>2, QueueType DEF LoseMessage
  <2>3. QED BY <1>2, <2>1, <2>2 DEF LoseMessage
<1>3. CASE Age(j)
  <2>1. left' \in [Disturbances -> Nat]
    BY <1>3, Kinds, DisturbType DEF Age
  <2>2. QED BY <1>3, <2>1 DEF Age
<1>4. QED BY <1>1, <1>2, <1>3 DEF Weather

\* A retention run: its start over the candidates C, or its other steps.
Retention == EndSweep \/ \E C \in SUBSET Candidates : SweepAssets(C)

LEMMA TypeRetention ==
  ASSUME TypeOK, Retention
  PROVE  TypeOK'
<1> USE DEF TypeOK, DispatchTypeOK
<1>1. ASSUME NEW C \in SUBSET Candidates, SweepAssets(C) PROVE TypeOK'
  <2>1. left' \in [Disturbances -> Nat]
    BY <1>1, Kinds, DisturbType DEF SweepAssets
  <2>2. C \subseteq Jobs
    BY DEF Candidates
  <2>3. QED BY <1>1, <2>1, <2>2 DEF SweepAssets
<1>2. ASSUME NEW S, DeleteVariants(S)
      PROVE  variants' \in [Jobs -> {"absent", "recent", "old"}]
  BY <1>2 DEF DeleteVariants
<1>3. CASE SweepList
  BY <1>3 DEF SweepList
<1>4. CASE SweepCommit
  BY <1>2, <1>4 DEF SweepCommit, NoSweep, AssetStatus
<1>5. CASE SweepAbort
  BY <1>2, <1>5 DEF SweepAbort, NoSweep
<1>6. QED BY <1>1, <1>3, <1>4, <1>5 DEF Retention, EndSweep

\* The steps by who takes them, as the lemmas below go through them.
LEMMA WhoSteps ==
  ASSUME Next
  PROVE  \/ \E j \in Jobs : User(j) \/ Weather(j)
         \/ \E w \in Workers, j \in Jobs : Deliver(w, j)
         \/ \E w \in Workers : Work(w) \/ WorkerCrash(w)
         \/ \E r \in Reconcilers : Reconcile(r) \/ Send(r) \/ Restart(r)
         \/ Retention
BY DEF Next, Weather, Retention

\* Only workers write what they hold.
LEMMA OthersLeaveWorkers ==
  /\ \A j \in Jobs : User(j) \/ Weather(j) => UNCHANGED workerVars
  /\ \A r \in Reconcilers :
       Reconcile(r) \/ Send(r) \/ Restart(r) => UNCHANGED workerVars
  /\ Retention => UNCHANGED workerVars
<1>1. ASSUME NEW j \in Jobs, User(j) \/ Weather(j) PROVE UNCHANGED workerVars
  BY <1>1
  DEF User, Reserve, Expire, ManualRetry, Put, OpenConfirm, TakeTime,
      Confirm, RejectUpload, ConfirmFails, Weather, LeaseExpires, LoseMessage, Age
<1>2. ASSUME NEW r \in Reconcilers, Reconcile(r) \/ Send(r) \/ Restart(r)
      PROVE  UNCHANGED workerVars
  BY <1>2
  DEF Reconcile, Send, Publish, BrokerRefuses, RecordDelivered, RecordRefused,
      Restart
<1>3. ASSUME Retention PROVE UNCHANGED workerVars
  BY <1>3 DEF Retention, EndSweep, SweepAssets, SweepList, SweepCommit,
              SweepAbort
<1>4. QED BY <1>1, <1>2, <1>3

LEMMA BusyStep ==
  ASSUME TypeInv, [Next]_vars
  PROVE  BusyHolds'
<1> USE DEF TypeInv, TypeOK, BusyHolds
<1>1. CASE UNCHANGED workerVars
  BY <1>1
<1>2. ASSUME NEW w \in Workers, NEW j \in Jobs, Deliver(w, j)
      PROVE  BusyHolds'
  <2>1. CASE Claim(w, j)
    BY <2>1, DispatchAssumption DEF Claim, Phase
  <2>2. QED BY <1>1, <1>2, <2>1 DEF Deliver, IgnoreDelivery, FailExhausted
<1>3. ASSUME NEW w \in Workers, Work(w) \/ WorkerCrash(w) PROVE BusyHolds'
  <2>1. CASE Finish(w)
    BY <2>1 DEF Finish
  <2>2. CASE Process(w) \/ UploadVariants(w)
    BY <2>2 DEF Process, UploadVariants, Step, Phase
  <2>3. QED
    BY <1>3, <2>1, <2>2
    DEF Work, RejectOriginal, FailTransient, Complete, CompleteRefused,
        WorkerCrash
<1>4. CASE UNCHANGED vars
  BY <1>1, <1>4 DEF vars
<1>5. QED BY <1>1, <1>2, <1>3, <1>4, WhoSteps, OthersLeaveWorkers

LEMMA TypeStep ==
  ASSUME TypeInv, [Next]_vars
  PROVE  TypeInv'
<1>1. TypeOK
  BY DEF TypeInv
<1>2. CASE Next
  BY <1>1, <1>2, WhoSteps, TypeUser, TypeWeather, TypeDeliver, TypeWork,
     TypeReconciler, TypeRetention, BusyStep
  DEF TypeInv
<1>3. CASE UNCHANGED vars
  BY <1>1, <1>3, BusyStep DEF vars, TypeInv, TypeOK, DispatchTypeOK
<1>4. QED BY <1>2, <1>3

LEMMA TypeInvariant == Spec => []TypeInv
<1>1. Init => TypeInv
  BY TypeInit DEF TypeInv, BusyHolds, Init
<1>2. QED BY <1>1, TypeStep, PTL DEF Spec

\* Every reachable state is well typed; in particular neither a job nor its
\* dispatch ever has more attempts than it may have (claim_job, claim_due).
THEOREM Types == Spec => []TypeOK
<1>1. TypeInv => TypeOK
  BY DEF TypeInv
<1>2. QED BY <1>1, TypeInvariant, PTL

-----------------------------------------------------------------------------
(* What holds while processing keeps within the lease, no request to       *)
(* confirm races another, and nobody retries by hand where the broker may  *)
(* refuse deliveries.                                                      *)

Disciplined ==
  /\ ~ SlowWorkers
  /\ \A p \in Profiles : /\ p["double"] = 0
                         /\ p["retry"] = 0 \/ p["refusal"] = 0

\* The counts of those disturbances stay at zero; without refusals there is
\* never one to record.
MildInv ==
  /\ left["double"] = 0
  /\ \/ left["retry"] = 0
     \/ left["refusal"] = 0 /\ \A r \in Reconcilers : refused[r] = NoJob

LEMMA LeftFalls ==
  ASSUME TypeInv, [Next]_vars, NEW d \in Disturbances
  PROVE  left[d] \in Nat /\ left'[d] \in Nat /\ left'[d] <= left[d]
<1> USE DEF TypeInv, TypeOK
<1>1. CASE UNCHANGED left
  BY <1>1
<1>2. ASSUME NEW e \in Disturbances, Disturb(e)
      PROVE  left[d] \in Nat /\ left'[d] \in Nat /\ left'[d] <= left[d]
  BY <1>2 DEF Disturb
<1>3. ASSUME NEW j \in Jobs, User(j)
      PROVE  UNCHANGED left \/ \E e \in Disturbances : Disturb(e)
  BY <1>3, Kinds
  DEF User, Reserve, Expire, ManualRetry, Put, OpenConfirm, TakeTime,
      Confirm, RejectUpload, ConfirmFails
<1>4. ASSUME NEW j \in Jobs, Weather(j)
      PROVE  UNCHANGED left \/ \E e \in Disturbances : Disturb(e)
  BY <1>4, Kinds DEF Weather, LeaseExpires, LoseMessage, Age
<1>5. ASSUME NEW w \in Workers, NEW j \in Jobs, Deliver(w, j)
      PROVE  UNCHANGED left
  BY <1>5 DEF Deliver, IgnoreDelivery, FailExhausted, Claim
<1>6. ASSUME NEW w \in Workers, Work(w) \/ WorkerCrash(w)
      PROVE  UNCHANGED left \/ \E e \in Disturbances : Disturb(e)
  BY <1>6, Kinds
  DEF Work, Process, RejectOriginal, UploadVariants, FailTransient, Complete,
      CompleteRefused, WorkerCrash
<1>7. ASSUME NEW r \in Reconcilers, Reconcile(r) \/ Send(r) \/ Restart(r)
      PROVE  UNCHANGED left \/ \E e \in Disturbances : Disturb(e)
  BY <1>7, Kinds
  DEF Reconcile, Send, Publish, BrokerRefuses, RecordDelivered, RecordRefused,
      Restart
<1>8. ASSUME Retention
      PROVE  UNCHANGED left \/ \E e \in Disturbances : Disturb(e)
  BY <1>8, Kinds
  DEF Retention, EndSweep, SweepAssets, SweepList, SweepCommit, SweepAbort
<1>9. CASE UNCHANGED vars
  BY <1>1, <1>9 DEF vars
<1>10. QED
  BY <1>1, <1>2, <1>3, <1>4, <1>5, <1>6, <1>7, <1>8, <1>9, WhoSteps

\* Only a refusal of the broker leaves one to be recorded.
LEMMA RefusedStep ==
  ASSUME TypeInv, [Next]_vars, left["refusal"] = 0,
         \A r \in Reconcilers : refused[r] = NoJob
  PROVE  \A r \in Reconcilers : refused'[r] = NoJob
<1>1. CASE UNCHANGED refused
  BY <1>1
<1>2. ASSUME NEW j \in Jobs, User(j) \/ Weather(j) PROVE UNCHANGED refused
  BY <1>2
  DEF User, Reserve, Expire, ManualRetry, Put, OpenConfirm, TakeTime,
      Confirm, RejectUpload, ConfirmFails, Weather, LeaseExpires, LoseMessage, Age
<1>3. ASSUME NEW w \in Workers, NEW j \in Jobs, Deliver(w, j)
      PROVE  UNCHANGED refused
  BY <1>3 DEF Deliver, IgnoreDelivery, FailExhausted, Claim
<1>4. ASSUME NEW w \in Workers, Work(w) \/ WorkerCrash(w)
      PROVE  UNCHANGED refused
  BY <1>4
  DEF Work, Process, RejectOriginal, UploadVariants, FailTransient, Complete,
      CompleteRefused, WorkerCrash
<1>5. ASSUME NEW s \in Reconcilers, Reconcile(s) \/ Send(s) \/ Restart(s)
      PROVE  \A r \in Reconcilers : refused'[r] = NoJob
  <2>1. CASE Reconcile(s) \/ Publish(s) \/ RecordDelivered(s)
    BY <1>1, <2>1 DEF Reconcile, RecoverAndClaim, Publish, PublishIntent,
                      RecordDelivered, MarkDelivered
  <2>2. ~ BrokerRefuses(s) /\ ~ RecordRefused(s)
    BY DEF BrokerRefuses, RecordRefused, Disturb
  <2>3. CASE Restart(s)
    BY <2>3 DEF Restart, RestartReconciler, TypeInv, TypeOK, DispatchTypeOK
  <2>4. QED BY <1>5, <2>1, <2>2, <2>3 DEF Send
<1>6. ASSUME Retention PROVE UNCHANGED refused
  BY <1>6
  DEF Retention, EndSweep, SweepAssets, SweepList, SweepCommit, SweepAbort
<1>7. CASE UNCHANGED vars
  BY <1>1, <1>7 DEF vars
<1>8. QED BY <1>1, <1>2, <1>3, <1>4, <1>5, <1>6, <1>7, WhoSteps

LEMMA MildStep ==
  ASSUME TypeInv, MildInv, [Next]_vars
  PROVE  MildInv'
<1>1. \A d \in {"double", "retry", "refusal"} :
        left[d] \in Nat /\ left'[d] \in Nat /\ left'[d] <= left[d]
  BY LeftFalls, Kinds
<1>2. QED BY <1>1, RefusedStep DEF MildInv

\* A held job is leased to the one worker that holds it, or its delivery was
\* given up and nothing will revive it; what it has uploaded is not old.
WorkerOf(j) ==
  /\ \A w, v \in Workers : holds[w] = j /\ holds[v] = j => w = v
  /\ Held(j) =>
       \/ jobStatus[j] = "running" /\ leaseFresh[j]
       \/ /\ jobStatus[j] = "failed" /\ dispatchStatus[j] = "failed"
          /\ left["retry"] = 0
  /\ \A w \in Workers :
       holds[w] = j /\ phase[w] = "uploading" => variants[j] # "old"

\* At most one request to confirm, and only while there is no job; retention
\* may have cleaned the upload meanwhile.
UploadOf(j) ==
  /\ confirming[j] <= 1 /\ timely[j] <= confirming[j]
  /\ confirming[j] = 1 => /\ jobStatus[j] = "none"
                          /\ assetStatus[j] = "pending" \/ cleaned[j]
  /\ assetStatus[j] \in {"none", "pending"} => jobStatus[j] = "none"

\* Variants are registered, the asset ready and the job succeeded together.
PictureOf(j) ==
  /\ registered[j] <=> assetStatus[j] = "ready"
  /\ registered[j] <=> jobStatus[j] = "succeeded"

\* What retention locks or has cleaned is expired and never became ready; what
\* it lists as an orphan is not registered, or uploaded again since.
RetentionOf(j) ==
  /\ cleaned[j] \/ j \in sweep.locked => expired[j] /\ original[j] = "absent"
  /\ cleaned[j] => assetStatus[j] = "rejected"
  /\ j \in sweep.locked => assetStatus[j] \in {"pending", "rejected"}
  /\ j \in sweep.orphans /\ registered[j] => variants[j] # "old"

\* As JobAndAssetAgree says of one asset.
Agree(j) ==
  /\ jobStatus[j] = "none" => assetStatus[j] \in {"none", "pending", "rejected"}
  /\ jobStatus[j] \in Active => assetStatus[j] = "processing"
  /\ jobStatus[j] = "succeeded" => assetStatus[j] = "ready"
  /\ jobStatus[j] = "failed" => assetStatus[j] = "rejected"

RowsOf(j) == dispatchStatus[j] # "failed" \/ left["retry"] > 0 => Agree(j)

StoryOf(j) ==
  WorkerOf(j) /\ UploadOf(j) /\ PictureOf(j) /\ RetentionOf(j) /\ RowsOf(j)

SweepInv ==
  /\ sweep.stage # "listed" => sweep.orphans = {}
  /\ sweep.stage = "idle" => sweep.locked = {}

StoryInv == SweepInv /\ \A j \in Jobs : StoryOf(j)

\* A step that writes nothing of j and starts nothing on it; the delivery of
\* j may get on, but not be given up.
LeavesAlone(j) ==
  /\ UNCHANGED <<assetStatus[j], cleaned[j], expired[j], confirming[j],
                 timely[j], jobStatus[j], leaseFresh[j], registered[j], original[j],
                 variants[j]>>
  /\ dispatchStatus'[j] = "failed" <=> dispatchStatus[j] = "failed"
  /\ \A w \in Workers : holds'[w] = j =>
       /\ holds[w] = j
       /\ phase'[w] = "uploading" => phase[w] = "uploading"
  /\ j \in sweep'.locked => j \in sweep.locked
  /\ j \in sweep'.orphans => j \in sweep.orphans

LEMMA LeftAlone ==
  ASSUME TypeInv, [Next]_vars, NEW j \in Jobs, StoryOf(j), LeavesAlone(j)
  PROVE  StoryOf(j)'
<1>1. /\ left["retry"] \in Nat /\ left'["retry"] \in Nat
      /\ left'["retry"] <= left["retry"]
  BY LeftFalls, Kinds
<1>2. WorkerOf(j)'
  BY <1>1 DEF StoryOf, WorkerOf, Held, LeavesAlone
<1>3. UploadOf(j)' /\ PictureOf(j)' /\ RetentionOf(j)'
  BY DEF StoryOf, UploadOf, PictureOf, RetentionOf, LeavesAlone
<1>4. RowsOf(j)'
  BY <1>1 DEF StoryOf, RowsOf, Agree, LeavesAlone
<1>5. QED BY <1>2, <1>3, <1>4 DEF StoryOf

\* A user writes the rows of one upload.
LEMMA UserAlone ==
  ASSUME TypeInv, NEW j \in Jobs, User(j), NEW i \in Jobs, i # j
  PROVE  LeavesAlone(i)
<1>1. UNCHANGED <<sweep, workerVars>>
  BY OthersLeaveWorkers
  DEF User, Reserve, Expire, ManualRetry, Put, OpenConfirm, TakeTime,
      Confirm, RejectUpload, ConfirmFails
<1>2. QED
  BY <1>1
  DEF TypeInv, TypeOK, DispatchTypeOK, LeavesAlone, User, Reserve, Expire,
      ManualRetry, Put, OpenConfirm, TakeTime, EndConfirm, EndInTime,
      Confirm, RejectUpload, ConfirmFails, ResetDispatch

\* The steps of users.
LEMMA StoryUser ==
  ASSUME TypeInv, MildInv, StoryInv, [Next]_vars, NEW j \in Jobs, User(j)
  PROVE  StoryInv'
<1> USE DEF TypeInv, TypeOK, DispatchTypeOK
<1>1. StoryOf(j) /\ UNCHANGED <<sweep, workerVars>>
  BY OthersLeaveWorkers
  DEF StoryInv, User, Reserve, Expire, ManualRetry, Put, OpenConfirm, TakeTime,
      Confirm, RejectUpload, ConfirmFails
<1>2. \A i \in Jobs : i # j => LeavesAlone(i)
  BY UserAlone
<1>3. SUFFICES StoryOf(j)'
  BY <1>1, <1>2, LeftAlone DEF StoryInv, SweepInv
<1>4. /\ left["retry"] \in Nat /\ left'["retry"] \in Nat
      /\ left'["retry"] <= left["retry"]
  BY LeftFalls, Kinds
<1> USE <1>1, <1>4
    DEF StoryOf, WorkerOf, UploadOf, PictureOf, RetentionOf, RowsOf, Agree,
        Held, Active, AssetFree
<1>5. CASE Reserve(j) \/ Expire(j)
  BY <1>5 DEF Reserve, Expire
<1>6. CASE ManualRetry(j)
  <2>1. left["retry"] > 0
    BY <1>6 DEF ManualRetry, Disturb
  <2>2. ~ Held(j)
    BY <1>6, <2>1 DEF ManualRetry
  <2>3. QED
    BY <1>6, <2>1, <2>2 DEF ManualRetry, ResetDispatch
<1>7. ASSUME NEW content \in {"image", "other"}, Put(j, content)
      PROVE  StoryOf(j)'
  BY <1>7 DEF Put
<1>8. CASE OpenConfirm(j)
  <2>1. left["double"] = 0
    BY DEF MildInv
  <2>2. confirming[j] = 0 /\ confirming'[j] = 1
    BY <1>8, <2>1 DEF OpenConfirm, Disturb
  <2>3. QED BY <1>8, <2>2 DEF OpenConfirm
<1>9. CASE TakeTime(j)
  BY <1>9 DEF TakeTime
<1>10. ASSUME EndConfirm(j) PROVE confirming[j] = 1 /\ confirming'[j] = 0
  BY <1>10 DEF EndConfirm, MaxConfirming
<1>11. ASSUME EndInTime(j)
       PROVE  EndConfirm(j) /\ timely[j] = 1 /\ timely'[j] = 0
  BY <1>11 DEF EndInTime, EndConfirm, MaxConfirming
<1>12. CASE Confirm(j)
  <2>1. ~ Held(j) /\ ~ cleaned[j]
    BY <1>12 DEF Confirm
  <2>2. QED
    BY <1>10, <1>11, <1>12, <2>1 DEF Confirm, EndConfirm, ResetDispatch
<1>13. CASE RejectUpload(j)
  <2>1. /\ confirming[j] = 1 /\ confirming'[j] = 0
        /\ timely'[j] = 0
    BY <1>10, <1>11, <1>13 DEF RejectUpload, MaxConfirming
  <2>2. QED BY <1>13, <2>1 DEF RejectUpload
<1>14. CASE ConfirmFails(j)
  BY <1>10, <1>11, <1>14 DEF ConfirmFails
<1>15. QED
  BY <1>5, <1>6, <1>7, <1>8, <1>9, <1>12, <1>13, <1>14 DEF User

\* The claim writes the rows of the job that is delivered.
LEMMA DeliverAlone ==
  ASSUME TypeInv, NEW w \in Workers, NEW j \in Jobs, Deliver(w, j),
         NEW i \in Jobs, i # j
  PROVE  LeavesAlone(i)
BY DEF TypeInv, TypeOK, DispatchTypeOK, LeavesAlone, Deliver, IgnoreDelivery,
       FailExhausted, FailJob, Claim

\* The claim of a delivery.
LEMMA StoryDeliver ==
  ASSUME TypeInv, StoryInv, [Next]_vars,
         NEW w \in Workers, NEW j \in Jobs, Deliver(w, j)
  PROVE  StoryInv'
<1> USE DEF TypeInv, TypeOK, DispatchTypeOK
<1>1. StoryOf(j) /\ UNCHANGED <<sweep, left, dispatchStatus>>
  BY DEF StoryInv, Deliver, IgnoreDelivery, FailExhausted, Claim
<1>2. \A i \in Jobs : i # j => LeavesAlone(i)
  BY DeliverAlone
<1>3. SUFFICES StoryOf(j)'
  BY <1>1, <1>2, LeftAlone DEF StoryInv, SweepInv
<1>4. CASE IgnoreDelivery(w, j)
  <2>1. LeavesAlone(j)
    BY <1>1, <1>4 DEF IgnoreDelivery, LeavesAlone
  <2>2. QED BY <1>1, <2>1, LeftAlone
<1>5. ASSUME jobStatus[j] \in Active, ~ LeasedToAnother(j)
      PROVE  /\ \A v \in Workers : holds[v] # j
             /\ ~ registered[j]
  BY <1>1, <1>5
  DEF StoryOf, WorkerOf, PictureOf, Held, LeasedToAnother, Active
<1> USE <1>1
    DEF StoryOf, WorkerOf, UploadOf, PictureOf, RetentionOf, RowsOf, Agree,
        Held, Active
<1>6. CASE FailExhausted(w, j)
  <2>1. \A v \in Workers : holds'[v] # j
    BY <1>5, <1>6 DEF FailExhausted
  <2>2. QED
    BY <1>5, <1>6, <2>1
    DEF FailExhausted, FailJob, Deliverable, AssetFree
<1>7. CASE Claim(w, j)
  <2>1. /\ holds'[w] = j /\ phase'[w] = "downloading"
        /\ \A v \in Workers : v # w => holds'[v] # j
    BY <1>5, <1>7 DEF Claim
  <2>2. jobStatus'[j] = "running" /\ leaseFresh'[j]
    BY <1>7 DEF Claim
  <2>3. WorkerOf(j)'
    BY <2>1, <2>2
  <2>4. UploadOf(j)' /\ PictureOf(j)' /\ RetentionOf(j)' /\ RowsOf(j)'
    BY <1>5, <1>7, <2>2 DEF Claim
  <2>5. QED BY <2>3, <2>4
<1>8. QED BY <1>4, <1>6, <1>7 DEF Deliver

\* A worker writes the rows of the job it holds and of no other.
LEMMA WorkAlone ==
  ASSUME TypeInv, NEW w \in Workers, Work(w) \/ WorkerCrash(w),
         NEW i \in Jobs, i # holds[w]
  PROVE  LeavesAlone(i)
<1> USE DEF TypeInv, TypeOK, LeavesAlone
<1>1. holds[w] \in Jobs
  BY WorkerHolds
<1>2. UNCHANGED <<dispatchStatus, sweep, requests, original>>
  BY DEF Work, Process, RejectOriginal, UploadVariants, FailTransient, Complete,
         CompleteRefused, WorkerCrash
<1>3. ASSUME Finish(w) PROVE \A v \in Workers : holds'[v] = i =>
                               holds[v] = i /\ phase'[v] = phase[v]
  BY <1>3, DispatchAssumption DEF Finish
<1>4. CASE Process(w)
  BY <1>1, <1>2, <1>4 DEF Process, Step
<1>5. CASE RejectOriginal(w)
  BY <1>1, <1>2, <1>3, <1>5 DEF RejectOriginal, FailJob
<1>6. CASE UploadVariants(w)
  BY <1>1, <1>2, <1>6 DEF UploadVariants, Step
<1>7. CASE FailTransient(w)
  <2>1. Finish(w) /\ UNCHANGED rest
    BY <1>7 DEF FailTransient
  <2>2. /\ jobStatus'[i] = jobStatus[i] /\ leaseFresh'[i] = leaseFresh[i]
        /\ assetStatus'[i] = assetStatus[i] /\ UNCHANGED <<cleaned, expired>>
    BY <1>1, <1>7 DEF FailTransient, FailJob
  <2>3. QED BY <1>2, <1>3, <2>1, <2>2
<1>8. CASE Complete(w)
  BY <1>1, <1>2, <1>3, <1>8 DEF Complete
<1>9. CASE CompleteRefused(w)
  BY <1>2, <1>3, <1>9 DEF CompleteRefused
<1>10. CASE WorkerCrash(w)
  BY <1>2, <1>3, <1>10 DEF WorkerCrash
<1>11. QED BY <1>4, <1>5, <1>6, <1>7, <1>8, <1>9, <1>10 DEF Work

LEMMA StoryWork ==
  ASSUME TypeInv, StoryInv, [Next]_vars,
         NEW w \in Workers, Work(w) \/ WorkerCrash(w)
  PROVE  StoryInv'
<1> USE DEF TypeInv, TypeOK, DispatchTypeOK
<1> SUFFICES ASSUME NEW j \in Jobs, j = holds[w] PROVE StoryInv'
  BY WorkerHolds
<1>1. /\ phase[w] # "idle" /\ StoryOf(j)
      /\ UNCHANGED <<sweep, dispatchStatus, requests, original>>
  BY WorkerHolds
  DEF StoryInv, Work, Process, RejectOriginal, UploadVariants, FailTransient,
      Complete, CompleteRefused, WorkerCrash
<1>2. SUFFICES StoryOf(j)'
  BY <1>1, WorkAlone, LeftAlone DEF StoryInv, SweepInv
<1>3. /\ \A v \in Workers : holds[v] = j => v = w
      /\ \/ jobStatus[j] = "running" /\ leaseFresh[j]
         \/ /\ jobStatus[j] = "failed" /\ dispatchStatus[j] = "failed"
            /\ left["retry"] = 0
      /\ ~ registered[j] /\ assetStatus[j] # "ready"
  BY <1>1 DEF StoryOf, WorkerOf, PictureOf, Held
<1>4. /\ left["retry"] \in Nat /\ left'["retry"] \in Nat
      /\ left'["retry"] <= left["retry"]
  BY LeftFalls, Kinds
<1>5. ASSUME Finish(w) PROVE \A v \in Workers : holds'[v] # j
  BY <1>1, <1>3, <1>5, DispatchAssumption DEF Finish
<1> USE <1>1, <1>3, <1>4
    DEF StoryOf, WorkerOf, UploadOf, PictureOf, RetentionOf, RowsOf, Agree,
        Held, Active, AssetFree
<1>6. CASE Process(w)
  <2>1. /\ UNCHANGED <<assetRows, jobStatus, rest, holds>>
        /\ leaseFresh[j] => leaseFresh'[j]
        /\ \A v \in Workers : phase'[v] = "uploading" => phase[v] = "uploading"
    BY <1>6 DEF Process, Step
  <2>2. QED BY <2>1
<1>7. CASE RejectOriginal(w)
  <2>1. /\ Finish(w) /\ UNCHANGED <<rest, cleaned, expired>>
        /\ j \notin sweep.locked
        /\ jobStatus'[j] = "failed" /\ assetStatus'[j] = "rejected"
    BY <1>7 DEF RejectOriginal, FailJob
  <2>2. QED BY <1>5, <2>1
<1>8. CASE UploadVariants(w)
  <2>1. /\ UNCHANGED <<assetRows, jobRows, holds, registered>>
        /\ variants'[j] = "recent"
    BY <1>8 DEF UploadVariants, Step
  <2>2. QED BY <2>1
<1>9. CASE FailTransient(w)
  <2>1. Finish(w) /\ UNCHANGED <<rest, cleaned, expired>>
    BY <1>9 DEF FailTransient, FailJob
  <2>2. \/ /\ jobStatus'[j] = "failed" /\ assetStatus'[j] = "rejected"
           /\ j \notin sweep.locked
        \/ jobStatus'[j] = "retrying" /\ UNCHANGED assetStatus
    BY <1>9 DEF FailTransient, FailJob
  <2>3. QED BY <1>5, <2>1, <2>2
<1>10. CASE Complete(w)
  <2>1. /\ Finish(w) /\ UNCHANGED <<cleaned, expired, storage>>
        /\ j \notin sweep.locked /\ ~ cleaned[j]
        /\ registered'[j] = TRUE
        /\ jobStatus'[j] = "succeeded" /\ assetStatus'[j] = "ready"
        /\ phase[w] = "uploading"
    BY <1>10 DEF Complete, ConstraintsAllow
  <2>2. variants[j] # "old"
    BY <2>1
  <2>3. QED BY <1>5, <2>1, <2>2
<1>11. CASE CompleteRefused(w)
  BY <1>5, <1>11 DEF CompleteRefused
<1>12. CASE WorkerCrash(w)
  BY <1>5, <1>12 DEF WorkerCrash
<1>13. QED
  BY <1>6, <1>7, <1>8, <1>9, <1>10, <1>11, <1>12 DEF Work

\* The passes of the reconciler: _recover_media never touches a job that is
\* held, mark_delivery_failed may.
LEMMA StoryReconciler ==
  ASSUME TypeInv, MildInv, StoryInv, [Next]_vars,
         NEW r \in Reconcilers, Reconcile(r) \/ Send(r) \/ Restart(r)
  PROVE  StoryInv'
<1> USE DEF TypeInv, TypeOK, DispatchTypeOK
<1>1. UNCHANGED <<rest, workerVars>>
  BY DEF Reconcile, Send, Publish, BrokerRefuses, RecordDelivered,
         RecordRefused, Restart
<1>2. SUFFICES ASSUME NEW j \in Jobs PROVE StoryOf(j)'
  BY <1>1 DEF StoryInv, SweepInv
<1>3. /\ left["retry"] \in Nat /\ left'["retry"] \in Nat
      /\ left'["retry"] <= left["retry"]
  BY LeftFalls, Kinds
<1>4. StoryOf(j)
  BY DEF StoryInv
<1>5. ASSUME UNCHANGED <<assetRows, jobRows>>,
             dispatchStatus'[j] = "failed" <=> dispatchStatus[j] = "failed"
      PROVE  StoryOf(j)'
  <2>1. LeavesAlone(j)
    BY <1>1, <1>5 DEF LeavesAlone
  <2>2. QED BY <1>4, <2>1, LeftAlone
<1>6. ASSUME jobStatus[j] \in Active, AssetFree(j),
             jobStatus'[j] = "failed", assetStatus'[j] = "rejected",
             dispatchStatus'[j] = "failed", left["retry"] = 0 \/ ~ Held(j),
             UNCHANGED <<cleaned, expired>>
      PROVE  StoryOf(j)'
  <2>1. WorkerOf(j)'
    BY <1>1, <1>3, <1>4, <1>6 DEF StoryOf, WorkerOf, Held
  <2>2. UploadOf(j)' /\ PictureOf(j)' /\ RetentionOf(j)'
    BY <1>1, <1>4, <1>6
    DEF StoryOf, UploadOf, PictureOf, RetentionOf, Active, AssetFree
  <2>3. RowsOf(j)'
    BY <1>6 DEF RowsOf, Agree, Active
  <2>4. QED BY <2>1, <2>2, <2>3 DEF StoryOf
<1>7. CASE Reconcile(r)
  <2>1. PICK lost \in SUBSET {i \in Jobs : Recoverable(i)} :
          \E due : /\ RecoverAndClaim(r, lost, due)
                   /\ FailDispatchExhausted({i \in lost : Exhausted(i)})
    BY <1>7 DEF Reconcile
  <2>2. /\ dispatchStatus' = [i \in Jobs |->
             IF i \in lost THEN IF Exhausted(i) THEN "failed" ELSE "pending"
             ELSE dispatchStatus[i]]
        /\ FailDispatchExhausted({i \in lost : Exhausted(i)})
    BY <2>1 DEF RecoverAndClaim
  <2>3. CASE j \in lost
    <3>1. Recoverable(j)
      BY <2>1, <2>3
    <3>2. ~ Held(j) /\ jobStatus[j] \in Active /\ dispatchStatus[j] # "failed"
      BY <1>4, <3>1 DEF Recoverable, StoryOf, WorkerOf, Active
    <3>3. CASE Exhausted(j)
      BY <1>6, <2>2, <2>3, <3>1, <3>2, <3>3
      DEF FailDispatchExhausted, Recoverable
    <3>4. CASE ~ Exhausted(j)
      <4>1. /\ dispatchStatus'[j] = "pending"
            /\ jobStatus'[j] = jobStatus[j] /\ assetStatus'[j] = assetStatus[j]
            /\ leaseFresh'[j] = leaseFresh[j] /\ UNCHANGED <<cleaned, expired>>
        BY <2>2, <2>3, <3>4 DEF FailDispatchExhausted
      <4>2. LeavesAlone(j)
        BY <1>1, <3>2, <4>1 DEF LeavesAlone
      <4>3. QED BY <1>4, <4>2, LeftAlone
    <3>5. QED BY <3>3, <3>4
  <2>4. CASE j \notin lost
    <3>1. LeavesAlone(j)
      BY <1>1, <2>2, <2>4 DEF LeavesAlone, FailDispatchExhausted
    <3>2. QED BY <1>4, <3>1, LeftAlone
  <2>5. QED BY <2>3, <2>4
<1>8. CASE Publish(r) \/ BrokerRefuses(r) \/ Restart(r)
  BY <1>5, <1>8
  DEF Publish, PublishIntent, BrokerRefuses, RefuseIntent, Restart,
      RestartReconciler
<1>9. CASE RecordDelivered(r)
  BY <1>5, <1>9 DEF RecordDelivered, MarkDelivered
<1>10. CASE RecordRefused(r)
  <2> DEFINE i == refused[r]
             active == jobStatus[i] \in Active
  <2>1. /\ i \in Jobs /\ MarkDeliveryFailed(r, active)
        /\ GivesUp(i, active) => AssetFree(i)
        /\ FailDispatchExhausted({k \in {i} : GivesUp(k, active)})
    BY <1>10 DEF RecordRefused
  <2>2. left["retry"] = 0
    BY <1>10 DEF MildInv, RecordRefused
  <2>3. CASE j = i /\ GivesUp(i, active)
    BY <1>6, <2>1, <2>2, <2>3
    DEF MarkDeliveryFailed, FailDispatchExhausted, GivesUp
  <2>4. CASE ~ (j = i /\ GivesUp(i, active))
    <3>1. /\ jobStatus'[j] = jobStatus[j] /\ assetStatus'[j] = assetStatus[j]
          /\ leaseFresh'[j] = leaseFresh[j] /\ UNCHANGED <<cleaned, expired>>
      BY <2>1, <2>4 DEF FailDispatchExhausted
    <3>2. dispatchStatus'[j] = "failed" <=> dispatchStatus[j] = "failed"
      BY <2>1, <2>4 DEF MarkDeliveryFailed
    <3>3. LeavesAlone(j)
      BY <1>1, <3>1, <3>2 DEF LeavesAlone
    <3>4. QED BY <1>4, <3>3, LeftAlone
  <2>5. QED BY <2>3, <2>4
<1>11. QED BY <1>7, <1>8, <1>9, <1>10 DEF Send

\* Leases run out only on jobs nobody holds.
LEMMA StoryWeather ==
  ASSUME Disciplined, TypeInv, StoryInv, [Next]_vars,
         NEW j \in Jobs, Weather(j)
  PROVE  StoryInv'
<1> USE DEF TypeInv, TypeOK, DispatchTypeOK
<1>1. StoryOf(j) /\ SweepInv /\ UNCHANGED <<workerVars, sweep>>
  BY DEF StoryInv, Weather, LeaseExpires, LoseMessage, Age
<1>2. ASSUME NEW i \in Jobs, i # j PROVE LeavesAlone(i)
  BY <1>1, <1>2 DEF LeavesAlone, Weather, LeaseExpires, LoseMessage, Age
<1>3. SUFFICES StoryOf(j)'
  BY <1>1, <1>2, LeftAlone DEF StoryInv, SweepInv
<1>4. CASE LoseMessage(j)
  BY <1>1, <1>4, LeftAlone DEF LoseMessage, LeavesAlone
<1>5. /\ left["retry"] \in Nat /\ left'["retry"] \in Nat
      /\ left'["retry"] <= left["retry"]
  BY LeftFalls, Kinds
<1> USE <1>1, <1>5
    DEF StoryOf, WorkerOf, UploadOf, PictureOf, RetentionOf, RowsOf, Agree,
        Held
<1>6. CASE LeaseExpires(j)
  BY <1>6 DEF LeaseExpires, Disciplined
<1>7. CASE Age(j)
  BY <1>7 DEF Age, SweepInv
<1>8. QED BY <1>4, <1>6, <1>7 DEF Weather

\* Retention, from the locks on its candidates to the commit or a failure.
LEMMA StoryRetention ==
  ASSUME TypeInv, StoryInv, [Next]_vars, Retention
  PROVE  StoryInv'
<1> USE DEF TypeInv, TypeOK, DispatchTypeOK, SweepInv, NoSweep
<1>1. /\ \A j \in Jobs : StoryOf(j)
      /\ SweepInv
      /\ UNCHANGED <<workerVars, jobRows, dispatchStatus, requests, expired,
                     registered>>
  BY DEF StoryInv, Retention, EndSweep, SweepAssets, SweepList, SweepCommit,
         SweepAbort
<1>2. /\ left["retry"] \in Nat /\ left'["retry"] \in Nat
      /\ left'["retry"] <= left["retry"]
  BY LeftFalls, Kinds
<1>3. SweepInv'
  <2>1. CASE SweepList
    BY <2>1 DEF SweepList
  <2>2. CASE SweepCommit \/ SweepAbort
    BY <2>2 DEF SweepCommit, SweepAbort
  <2>3. ASSUME NEW C \in SUBSET Candidates, SweepAssets(C) PROVE SweepInv'
    BY <2>3 DEF SweepAssets
  <2>4. QED BY <2>1, <2>2, <2>3 DEF Retention, EndSweep
<1>4. SUFFICES ASSUME NEW j \in Jobs PROVE StoryOf(j)'
  BY <1>3 DEF StoryInv
<1>5. StoryOf(j)
  BY <1>1
<1> USE <1>1, <1>2, <1>5
    DEF StoryOf, WorkerOf, UploadOf, PictureOf, RetentionOf, RowsOf, Agree,
        Held
<1>6. ASSUME NEW C \in SUBSET Candidates, SweepAssets(C) PROVE StoryOf(j)'
  <2>1. /\ UNCHANGED assetRows
        /\ sweep'.locked = C /\ sweep'.orphans = {}
        /\ original'[j] = IF j \in C THEN "absent" ELSE original[j]
        /\ variants'[j] \in {variants[j], "absent"}
    BY <1>6 DEF SweepAssets
  <2>2. j \in C => expired[j] /\ assetStatus[j] \in {"pending", "rejected"}
    BY DEF Candidates
  <2>3. QED BY <2>1, <2>2
<1>7. CASE SweepList
  <2>1. /\ UNCHANGED <<assetRows, storage>>
        /\ sweep'.locked = sweep.locked
        /\ j \in sweep'.orphans => ~ registered[j]
    BY <1>7 DEF SweepList
  <2>2. QED BY <2>1
<1>8. ASSUME NEW S, DeleteVariants(S)
      PROVE  variants'[j] \in {variants[j], "absent"}
  BY <1>8 DEF DeleteVariants
<1>9. CASE SweepCommit
  <2>1. /\ UNCHANGED original
        /\ sweep'.locked = {} /\ sweep'.orphans = {}
        /\ cleaned'[j] = (cleaned[j] \/ j \in sweep.locked)
        /\ assetStatus'[j] = IF j \in sweep.locked THEN "rejected"
                             ELSE assetStatus[j]
    BY <1>9 DEF SweepCommit
  <2>2. variants'[j] \in {variants[j], "absent"}
    BY <1>8, <1>9 DEF SweepCommit
  <2>3. WorkerOf(j)'
    BY <2>2
  <2>4. UploadOf(j)' /\ PictureOf(j)' /\ RetentionOf(j)'
    BY <2>1, <2>2
  <2>5. RowsOf(j)'
    BY <2>1 DEF JobStatus, Active
  <2>6. QED BY <2>3, <2>4, <2>5
<1>10. CASE SweepAbort
  <2>1. UNCHANGED <<assetRows, original>>
        /\ sweep'.locked = {} /\ sweep'.orphans = {}
    BY <1>10 DEF SweepAbort
  <2>2. variants'[j] \in {variants[j], "absent"}
    BY <1>8, <1>10 DEF SweepAbort
  <2>3. QED BY <2>1, <2>2
<1>11. QED BY <1>6, <1>7, <1>9, <1>10 DEF Retention, EndSweep

LEMMA StoryStep ==
  ASSUME Disciplined, TypeInv, MildInv, StoryInv, [Next]_vars
  PROVE  StoryInv'
<1>1. CASE Next
  BY <1>1, WhoSteps, StoryUser, StoryWeather, StoryDeliver, StoryWork,
     StoryReconciler, StoryRetention
<1>2. CASE UNCHANGED vars
  <2>1. ASSUME NEW j \in Jobs PROVE LeavesAlone(j)
    BY <1>2 DEF vars, LeavesAlone
  <2>2. QED BY <1>2, <2>1, LeftAlone DEF StoryInv, SweepInv, vars
<1>3. QED BY <1>1, <1>2

LEMMA StoryInit == ASSUME Disciplined, Init PROVE MildInv /\ StoryInv
<1>1. MildInv
  BY DEF Disciplined, Init, DispatchInit, MildInv
<1>2. SweepInv
  BY DEF Init, SweepInv, NoSweep
<1>3. ASSUME NEW j \in Jobs PROVE StoryOf(j)
  BY DispatchAssumption
  DEF Init, DispatchInit, NoSweep, StoryOf, WorkerOf, UploadOf, PictureOf,
      RetentionOf, RowsOf, Agree, Held, Active
<1>4. QED BY <1>1, <1>2, <1>3 DEF StoryInv

LEMMA StoryInvariant == Disciplined /\ Spec => [](TypeInv /\ MildInv /\ StoryInv)
<1>1. SUFFICES ASSUME Disciplined
               PROVE  Spec => [](TypeInv /\ MildInv /\ StoryInv)
  OBVIOUS
<1>2. Init => MildInv /\ StoryInv
  BY <1>1, StoryInit
<1>3. TypeInv /\ MildInv /\ StoryInv /\ [Next]_vars => MildInv' /\ StoryInv'
  BY <1>1, StoryStep, MildStep
<1>4. QED BY <1>2, <1>3, TypeInvariant, PTL DEF Spec

\* What retention has cleaned stays rejected, unregistered and without its
\* original (ck_media_storage_cleaned_rejected, retention_candidates).
THEOREM CleanedStaysGone == Disciplined /\ Spec => []CleanedIsGone
<1>1. StoryInv => CleanedIsGone
  BY DEF StoryInv, StoryOf, RetentionOf, PictureOf, CleanedIsGone
<1>2. QED BY <1>1, StoryInvariant, PTL

\* The rows of the asset and of its job tell one story as long as the delivery
\* was not given up (claim_job, complete_job, record_storage_failure,
\* _fail_media, prepare_manual_retry).
THEOREM RowsAgree == Disciplined /\ Spec => []JobAndAssetAgree
<1>1. ASSUME TypeInv, StoryInv PROVE JobAndAssetAgree
  <2>1. SUFFICES ASSUME NEW j \in Jobs, dispatchStatus[j] # "failed"
                 PROVE  assetStatus[j] \in
                   CASE jobStatus[j] = "none" -> {"none", "pending", "rejected"}
                     [] jobStatus[j] \in Active -> {"processing"}
                     [] jobStatus[j] = "succeeded" -> {"ready"}
                     [] jobStatus[j] = "failed" -> {"rejected"}
    BY DEF JobAndAssetAgree
  <2>2. Agree(j)
    BY <1>1, <2>1 DEF StoryInv, StoryOf, RowsOf
  <2>3. jobStatus[j] \in {"none", "queued", "running", "retrying", "succeeded",
                          "failed"}
    BY <1>1 DEF TypeInv, TypeOK, JobStatus, Active
  <2>4. CASE jobStatus[j] = "none"
    BY <2>2, <2>4 DEF Agree, Active
  <2>5. CASE jobStatus[j] \in Active
    BY <2>2, <2>5 DEF Agree, Active
  <2>6. CASE jobStatus[j] = "succeeded"
    BY <2>2, <2>6 DEF Agree, Active
  <2>7. CASE jobStatus[j] = "failed"
    BY <2>2, <2>7 DEF Agree, Active
  <2>8. QED BY <2>3, <2>4, <2>5, <2>6, <2>7 DEF Active
<1>2. QED BY <1>1, StoryInvariant, PTL

-----------------------------------------------------------------------------
(* Actions.                                                                *)

LEMMA RegisteredStays ==
  ASSUME TypeInv, [Next]_vars, NEW j \in Jobs, registered[j]
  PROVE  registered'[j]
<1> USE DEF TypeInv, TypeOK
<1>1. CASE UNCHANGED registered
  BY <1>1
<1>2. ASSUME NEW i \in Jobs, User(i) \/ Weather(i) PROVE UNCHANGED registered
  BY <1>2
  DEF User, Reserve, Expire, ManualRetry, Put, OpenConfirm, TakeTime,
      Confirm, RejectUpload, ConfirmFails, Weather, LeaseExpires, LoseMessage, Age
<1>3. ASSUME NEW w \in Workers, NEW i \in Jobs, Deliver(w, i)
      PROVE  UNCHANGED registered
  BY <1>3 DEF Deliver, IgnoreDelivery, FailExhausted, Claim
<1>4. ASSUME NEW w \in Workers, Work(w) \/ WorkerCrash(w) PROVE registered'[j]
  <2>1. CASE Complete(w)
    BY <2>1 DEF Complete
  <2>2. QED
    BY <1>1, <1>4, <2>1
    DEF Work, Process, RejectOriginal, UploadVariants, FailTransient,
        CompleteRefused, WorkerCrash
<1>5. ASSUME NEW r \in Reconcilers, Reconcile(r) \/ Send(r) \/ Restart(r)
      PROVE  UNCHANGED registered
  BY <1>5
  DEF Reconcile, Send, Publish, BrokerRefuses, RecordDelivered, RecordRefused,
      Restart
<1>6. ASSUME Retention PROVE UNCHANGED registered
  BY <1>6 DEF Retention, EndSweep, SweepAssets, SweepList, SweepCommit,
              SweepAbort
<1>7. CASE UNCHANGED vars
  BY <1>1, <1>7 DEF vars
<1>8. QED BY <1>1, <1>2, <1>3, <1>4, <1>5, <1>6, <1>7, WhoSteps

\* A picture that is ready stays ready: a second delivery, a recovery, a given
\* up delivery or a retention run never takes it back.
THEOREM PicturesStay == Disciplined /\ Spec => ReadyStays
<1>1. TypeInv /\ StoryInv /\ StoryInv' /\ [Next]_vars =>
        [\A j \in Jobs :
           assetStatus[j] = "ready" => assetStatus'[j] = "ready"]_vars
  BY RegisteredStays DEF StoryInv, StoryOf, PictureOf
<1>2. QED BY <1>1, StoryInvariant, PTL DEF Spec, ReadyStays

LEMMA OldStays ==
  ASSUME TypeInv, StoryInv, [Next]_vars,
         NEW j \in Jobs, registered[j], variants[j] = "old"
  PROVE  variants'[j] = "old"
<1> USE DEF TypeInv, TypeOK
<1>1. /\ ~ Held(j) /\ j \notin sweep.orphans
      /\ assetStatus[j] \notin {"pending", "rejected"}
  BY DEF StoryInv, StoryOf, WorkerOf, PictureOf, RetentionOf
<1>2. CASE UNCHANGED variants
  BY <1>2
<1>3. ASSUME NEW i \in Jobs, User(i) PROVE UNCHANGED variants
  BY <1>3
  DEF User, Reserve, Expire, ManualRetry, Put, OpenConfirm, TakeTime,
      Confirm, RejectUpload, ConfirmFails
<1>4. ASSUME NEW i \in Jobs, Weather(i) PROVE variants'[j] = "old"
  BY <1>4 DEF Weather, LeaseExpires, LoseMessage, Age
<1>5. ASSUME NEW w \in Workers, NEW i \in Jobs, Deliver(w, i)
      PROVE  UNCHANGED variants
  BY <1>5 DEF Deliver, IgnoreDelivery, FailExhausted, Claim
<1>6. ASSUME NEW w \in Workers, Work(w) \/ WorkerCrash(w)
      PROVE  variants'[j] = "old"
  <2>1. holds[w] # j
    BY <1>1 DEF Held
  <2>2. CASE UploadVariants(w)
    BY <2>1, <2>2, <1>6, WorkerHolds DEF UploadVariants
  <2>3. QED
    BY <1>2, <1>6, <2>2
    DEF Work, Process, RejectOriginal, FailTransient, Complete,
        CompleteRefused, WorkerCrash
<1>7. ASSUME NEW r \in Reconcilers, Reconcile(r) \/ Send(r) \/ Restart(r)
      PROVE  UNCHANGED variants
  BY <1>7
  DEF Reconcile, Send, Publish, BrokerRefuses, RecordDelivered, RecordRefused,
      Restart
<1>8. ASSUME Retention PROVE variants'[j] = "old"
  <2>1. ASSUME NEW C \in SUBSET Candidates, SweepAssets(C)
        PROVE  variants'[j] = "old"
    BY <1>1, <2>1 DEF SweepAssets, Candidates
  <2>2. CASE SweepList
    BY <2>2 DEF SweepList
  <2>3. ASSUME NEW S \in SUBSET sweep.orphans, DeleteVariants(S)
        PROVE  variants'[j] = "old"
    BY <1>1, <2>3 DEF DeleteVariants
  <2>4. CASE SweepCommit
    BY <2>3, <2>4 DEF SweepCommit
  <2>5. CASE SweepAbort
    BY <2>3, <2>5 DEF SweepAbort
  <2>6. QED BY <1>8, <2>1, <2>2, <2>4, <2>5 DEF Retention, EndSweep
<1>9. CASE UNCHANGED vars
  BY <1>2, <1>9 DEF vars
<1>10. QED
  BY <1>2, <1>3, <1>4, <1>5, <1>6, <1>7, <1>8, <1>9, WhoSteps

\* Retention never deletes variants that were registered for longer than its
\* grace period, whatever it listed before (referenced_object_keys).
THEOREM ServedStay == Disciplined /\ Spec => ServedVariantsStay
<1>1. TypeInv /\ StoryInv /\ [Next]_vars =>
        [\A j \in Jobs : registered[j] /\ variants[j] = "old"
                           => variants'[j] = "old"]_vars
  BY OldStays
<1>2. QED BY <1>1, StoryInvariant, PTL DEF Spec, ServedVariantsStay

-----------------------------------------------------------------------------
(* The quota.  A failed upload is not counted, so whatever revives one may *)
(* pass the limit: a retry by hand, or the worker of a job whose delivery  *)
(* was given up.  Without the two the limit holds.                         *)

Unrevived ==
  /\ ~ SlowWorkers
  /\ \A p \in Profiles :
       p["double"] = 0 /\ p["retry"] = 0 /\ p["refusal"] = 0

\* Who holds a job is processing it, and only failed jobs have no delivery.
FirmOf(j) ==
  /\ Held(j) => jobStatus[j] = "running"
  /\ dispatchStatus[j] = "failed" => jobStatus[j] = "failed"

FirmInv ==
  /\ left["retry"] = 0 /\ left["refusal"] = 0
  /\ \A r \in Reconcilers : refused[r] = NoJob
  /\ \A j \in Jobs : FirmOf(j)

LEMMA FirmStep ==
  ASSUME TypeInv, StoryInv, FirmInv, [Next]_vars
  PROVE  FirmInv'
<1> USE DEF TypeInv, TypeOK, DispatchTypeOK, Held, FirmOf
<1>1. SUFFICES ASSUME NEW j \in Jobs PROVE FirmOf(j)'
  <2>1. \A d \in {"retry", "refusal"} :
          left[d] \in Nat /\ left'[d] \in Nat /\ left'[d] <= left[d]
    BY LeftFalls, Kinds
  <2>2. QED BY <2>1, RefusedStep DEF FirmInv
<1>2. FirmOf(j) /\ left["retry"] = 0
  BY DEF FirmInv
<1>3. CASE UNCHANGED <<holds, dispatchStatus, jobStatus>>
  BY <1>2, <1>3
<1>4. ASSUME NEW i \in Jobs, User(i) PROVE FirmOf(j)'
  <2>1. ~ ManualRetry(i)
    BY <1>2 DEF ManualRetry, Disturb
  <2>2. CASE Confirm(i)
    BY <1>2, <2>2 DEF Confirm, ResetDispatch
  <2>3. QED
    BY <1>3, <1>4, <2>1, <2>2
    DEF User, Reserve, Expire, Put, OpenConfirm, TakeTime, RejectUpload,
        ConfirmFails
<1>5. ASSUME NEW w \in Workers, NEW i \in Jobs, Deliver(w, i)
      PROVE  FirmOf(j)'
  <2>1. CASE IgnoreDelivery(w, i)
    BY <1>3, <2>1 DEF IgnoreDelivery
  <2>2. ASSUME jobStatus[i] \in Active, ~ LeasedToAnother(i)
        PROVE  \A v \in Workers : holds[v] # i
    BY <2>2 DEF StoryInv, StoryOf, WorkerOf, LeasedToAnother, Active
  <2>3. CASE FailExhausted(w, i)
    BY <1>2, <2>2, <2>3 DEF FailExhausted, FailJob
  <2>4. CASE Claim(w, i)
    BY <1>2, <2>2, <2>4, DispatchAssumption DEF Claim, Active
  <2>5. QED BY <1>5, <2>1, <2>3, <2>4 DEF Deliver
<1>6. ASSUME NEW w \in Workers, Work(w) \/ WorkerCrash(w) PROVE FirmOf(j)'
  <2>1. CASE j # holds[w]
    <3>1. LeavesAlone(j)
      BY <1>6, <2>1, WorkAlone
    <3>2. QED BY <1>2, <3>1 DEF LeavesAlone
  <2>2. CASE j = holds[w]
    <3>1. /\ \A v \in Workers : holds[v] = j => v = w
          /\ dispatchStatus[j] # "failed"
      BY <1>2, <2>2 DEF StoryInv, StoryOf, WorkerOf
    <3>2. UNCHANGED dispatchStatus
      BY <1>6
      DEF Work, Process, RejectOriginal, UploadVariants, FailTransient,
          Complete, CompleteRefused, WorkerCrash
    <3>3. CASE Finish(w)
      BY <3>1, <3>2, <3>3, DispatchAssumption DEF Finish
    <3>4. QED
      BY <1>3, <1>6, <3>2, <3>3
      DEF Work, Process, RejectOriginal, UploadVariants, FailTransient,
          Complete, CompleteRefused, WorkerCrash, Step
  <2>3. QED BY <2>1, <2>2
<1>7. ASSUME NEW r \in Reconcilers, Reconcile(r) \/ Send(r) \/ Restart(r)
      PROVE  FirmOf(j)'
  <2>1. CASE Reconcile(r)
    <3>1. PICK lost \in SUBSET {i \in Jobs : Recoverable(i)} :
            \E due : /\ RecoverAndClaim(r, lost, due)
                     /\ FailDispatchExhausted({i \in lost : Exhausted(i)})
      BY <2>1 DEF Reconcile
    <3>2. /\ dispatchStatus' = [i \in Jobs |->
               IF i \in lost THEN IF Exhausted(i) THEN "failed" ELSE "pending"
               ELSE dispatchStatus[i]]
          /\ FailDispatchExhausted({i \in lost : Exhausted(i)})
      BY <3>1 DEF RecoverAndClaim
    <3>3. UNCHANGED holds
      BY <2>1 DEF Reconcile
    <3>4. CASE j \in lost
      <4>1. jobStatus[j] \in Active /\ ~ Held(j)
        BY <3>1, <3>4 DEF Recoverable, StoryInv, StoryOf, WorkerOf, Active
      <4>2. QED
        BY <3>2, <3>3, <3>4, <4>1 DEF FailDispatchExhausted
    <3>5. CASE j \notin lost
      BY <1>2, <3>2, <3>3, <3>5 DEF FailDispatchExhausted
    <3>6. QED BY <3>4, <3>5
  <2>2. ~ RecordRefused(r)
    BY DEF RecordRefused, FirmInv
  <2>3. CASE RecordDelivered(r)
    BY <1>2, <2>3 DEF RecordDelivered, MarkDelivered
  <2>4. QED
    BY <1>3, <1>7, <2>1, <2>2, <2>3
    DEF Send, Publish, PublishIntent, BrokerRefuses, RefuseIntent, Restart,
        RestartReconciler
<1>8. ASSUME NEW i \in Jobs, Weather(i)
      PROVE  UNCHANGED <<holds, dispatchStatus, jobStatus>>
  BY <1>8 DEF Weather, LeaseExpires, LoseMessage, Age
<1>9. ASSUME Retention PROVE UNCHANGED <<holds, dispatchStatus, jobStatus>>
  BY <1>9 DEF Retention, EndSweep, SweepAssets, SweepList, SweepCommit,
              SweepAbort
<1>10. CASE UNCHANGED vars
  BY <1>3, <1>10 DEF vars
<1>11. QED
  BY <1>3, <1>4, <1>5, <1>6, <1>7, <1>8, <1>9, <1>10, WhoSteps

\* What was confirmed late stays so: only a confirmation writes it.
LEMMA LateStays ==
  ASSUME TypeInv, [Next]_vars, NEW j \in Jobs, late[j]
  PROVE  late'[j]
<1> USE DEF TypeInv, TypeOK
<1>1. ASSUME NEW i \in Jobs, User(i) PROVE late'[j]
  <2>1. CASE Confirm(i)
    BY <2>1 DEF Confirm
  <2>2. QED
    BY <1>1, <2>1
    DEF User, Reserve, Expire, ManualRetry, Put, OpenConfirm, TakeTime,
        RejectUpload, ConfirmFails
<1>2. ASSUME NEW w \in Workers, NEW i \in Jobs, Deliver(w, i)
      PROVE  UNCHANGED late
  BY <1>2 DEF Deliver, IgnoreDelivery, FailExhausted, Claim
<1>3. ASSUME NEW w \in Workers, Work(w) \/ WorkerCrash(w)
      PROVE  UNCHANGED late
  BY <1>3
  DEF Work, Process, RejectOriginal, UploadVariants, FailTransient, Complete,
      CompleteRefused, WorkerCrash
<1>4. ASSUME NEW r \in Reconcilers, Reconcile(r) \/ Send(r) \/ Restart(r)
      PROVE  UNCHANGED late
  BY <1>4
  DEF Reconcile, Send, Publish, BrokerRefuses, RecordDelivered, RecordRefused,
      Restart
<1>5. ASSUME NEW i \in Jobs, Weather(i) PROVE UNCHANGED late
  BY <1>5 DEF Weather, LeaseExpires, LoseMessage, Age
<1>6. ASSUME Retention PROVE UNCHANGED late
  BY <1>6 DEF Retention, EndSweep, SweepAssets, SweepList, SweepCommit,
              SweepAbort
<1>7. CASE UNCHANGED vars
  BY <1>7 DEF vars
<1>8. QED BY <1>1, <1>2, <1>3, <1>4, <1>5, <1>6, <1>7, WhoSteps

\* No step but a reservation, or a confirmation that comes late, makes an
\* upload count that did not before.
LEMMA CountedBefore ==
  ASSUME TypeInv, StoryInv, FirmInv, [Next]_vars,
         ~ \E i \in Jobs : Reserve(i),
         NEW j \in Jobs, CountsAgainstQuota(j)', ~ late'[j]
  PROVE  CountsAgainstQuota(j)
<1> USE DEF TypeInv, TypeOK, DispatchTypeOK, CountsAgainstQuota
<1>1. CASE UNCHANGED <<assetStatus, expired>>
  BY <1>1
<1>2. CASE assetStatus'[j] \in {"none", "rejected"}
  BY <1>2
<1>3. ASSUME NEW i \in Jobs, User(i) PROVE CountsAgainstQuota(j)
  <2>1. ~ ManualRetry(i) /\ ~ Reserve(i)
    BY DEF ManualRetry, Disturb, FirmInv
  <2>2. CASE Expire(i)
    BY <2>2 DEF Expire
  <2>3. CASE Confirm(i)
    <3>1. confirming[i] > 0 /\ original[i] # "absent"
      BY <2>3 DEF Confirm, EndInTime, EndConfirm
    <3>2. assetStatus[i] = "pending"
      BY <3>1 DEF StoryInv, StoryOf, UploadOf, RetentionOf, MaxConfirming
    <3>3. i = j => ~ expired[j]
      BY <2>3 DEF Confirm
    <3>4. QED BY <2>3, <3>2, <3>3 DEF Confirm
  <2>4. CASE RejectUpload(i)
    BY <2>4 DEF RejectUpload
  <2>5. QED
    BY <1>1, <1>3, <2>1, <2>2, <2>3, <2>4
    DEF User, Put, OpenConfirm, TakeTime, ConfirmFails
<1>4. ASSUME NEW w \in Workers, NEW i \in Jobs, Deliver(w, i)
      PROVE  CountsAgainstQuota(j)
  <2>1. CASE FailExhausted(w, i)
    BY <2>1 DEF FailExhausted, FailJob
  <2>2. QED BY <1>1, <1>4, <2>1 DEF Deliver, IgnoreDelivery, Claim
<1>5. ASSUME NEW w \in Workers, Work(w) \/ WorkerCrash(w)
      PROVE  CountsAgainstQuota(j)
  <2>1. CASE j # holds[w]
    <3>1. LeavesAlone(j)
      BY <1>5, <2>1, WorkAlone
    <3>2. QED BY <3>1 DEF LeavesAlone
  <2>2. CASE j = holds[w]
    <3>1. jobStatus[j] = "running" /\ dispatchStatus[j] # "failed"
      BY <1>5, <2>2 DEF FirmInv, FirmOf, Held
    <3>2. assetStatus[j] = "processing"
      BY <3>1 DEF StoryInv, StoryOf, RowsOf, Agree, Active
    <3>3. QED BY <3>2
  <2>3. QED BY <2>1, <2>2
<1>6. ASSUME NEW r \in Reconcilers, Reconcile(r) \/ Send(r) \/ Restart(r)
      PROVE  CountsAgainstQuota(j)
  <2>1. ASSUME NEW S, FailDispatchExhausted(S) PROVE CountsAgainstQuota(j)
    BY <2>1 DEF FailDispatchExhausted
  <2>2. QED
    BY <1>1, <1>6, <2>1
    DEF Reconcile, Send, Publish, BrokerRefuses, RecordDelivered,
        RecordRefused, Restart
<1>7. ASSUME NEW i \in Jobs, Weather(i) PROVE UNCHANGED <<assetStatus, expired>>
  BY <1>7 DEF Weather, LeaseExpires, LoseMessage, Age
<1>8. ASSUME Retention PROVE CountsAgainstQuota(j)
  BY <1>1, <1>8
  DEF Retention, EndSweep, SweepAssets, SweepList, SweepCommit, SweepAbort
<1>9. CASE UNCHANGED vars
  BY <1>1, <1>9 DEF vars
<1>10. QED
  BY <1>1, <1>3, <1>4, <1>5, <1>6, <1>7, <1>8, <1>9, WhoSteps

LEMMA OneAdded ==
  ASSUME NEW S, IsFiniteSet(S), NEW x
  PROVE  /\ IsFiniteSet(S \cup {x})
         /\ Cardinality(S \cup {x}) \in Nat
         /\ Cardinality(S \cup {x}) <= Cardinality(S) + 1
<1>1. Cardinality(S) \in Nat
  BY FS_CardinalityType
<1>2. /\ IsFiniteSet(S \cup {x})
      /\ Cardinality(S \cup {x}) =
           IF x \in S THEN Cardinality(S) ELSE Cardinality(S) + 1
  BY FS_AddElement
<1>3. QED BY <1>1, <1>2

LEMMA LimitStep ==
  ASSUME TypeInv, StoryInv, FirmInv, WithinImageLimit, [Next]_vars
  PROVE  WithinImageLimit'
<1> DEFINE Taken == {j \in Jobs : CountsAgainstQuota(j)}
           Counted == {j \in Jobs : CountsAgainstQuota(j) /\ ~ late[j]}
<1>1. /\ IsFiniteSet(Counted) /\ Cardinality(Counted) \in Nat
      /\ Cardinality(Taken) \in Nat /\ Cardinality(Counted) <= Cardinality(Taken)
  <2>1. IsFiniteSet(Taken) /\ Counted \subseteq Taken
    BY MediaAssumption, FS_Subset
  <2>2. QED BY <2>1, FS_Subset, FS_CardinalityType
<1>2. CASE \E i \in Jobs : Reserve(i)
  <2>1. PICK i \in Jobs : Reserve(i)
    BY <1>2
  <2>2. Counted' \subseteq Counted \cup {i}
    BY <2>1 DEF Reserve, CountsAgainstQuota, TypeInv, TypeOK
  <2>3. /\ IsFiniteSet(Counted \cup {i})
        /\ Cardinality(Counted \cup {i}) <= Cardinality(Counted) + 1
        /\ Cardinality(Counted \cup {i}) \in Nat
    BY <1>1, OneAdded
  <2>4. /\ Cardinality(Counted') <= Cardinality(Counted \cup {i})
        /\ Cardinality(Counted') \in Nat
    BY <2>2, <2>3, FS_Subset, FS_CardinalityType
  <2>5. Cardinality(Counted) < ImageLimit
    <3>1. Cardinality(Taken) < ImageLimit
      BY <2>1 DEF Reserve
    <3>2. QED BY <1>1, <3>1, MediaAssumption
  <2>6. QED
    BY <1>1, <2>3, <2>4, <2>5, MediaAssumption DEF WithinImageLimit
<1>3. CASE ~ \E i \in Jobs : Reserve(i)
  <2>1. Counted' \subseteq Counted
    BY <1>3, CountedBefore, LateStays DEF TypeInv, TypeOK
  <2>2. /\ Cardinality(Counted') <= Cardinality(Counted)
        /\ Cardinality(Counted') \in Nat
    BY <1>1, <2>1, FS_Subset, FS_CardinalityType
  <2>3. QED BY <1>1, <2>2, MediaAssumption DEF WithinImageLimit
<1>4. QED BY <1>2, <1>3

\* However reservations, expiries, confirmations, crashes, recoveries and
\* retention runs interleave, the images a component counts are within its
\* limit but for those whose place had expired when they were confirmed, as
\* long as nothing revives a failed upload (reserve_upload, confirm_upload,
\* _component_quota_filter).
THEOREM LimitHolds == Unrevived /\ Spec => []WithinImageLimit
<1>1. SUFFICES ASSUME Unrevived PROVE Spec => []WithinImageLimit
  OBVIOUS
<1>2. Disciplined
  BY <1>1 DEF Unrevived, Disciplined
<1>3. Init => FirmInv
  BY <1>1, DispatchAssumption
  DEF Unrevived, Init, DispatchInit, FirmInv, FirmOf, Held
<1>4. Init => WithinImageLimit
  <2>1. Init => {j \in Jobs : CountsAgainstQuota(j) /\ ~ late[j]} = {}
    BY DEF Init, CountsAgainstQuota
  <2>2. QED BY <2>1, FS_EmptySet, MediaAssumption DEF WithinImageLimit
<1>5. Spec => [](TypeInv /\ MildInv /\ StoryInv)
  BY <1>2, StoryInvariant
<1>6. TypeInv /\ StoryInv /\ FirmInv /\ [Next]_vars => FirmInv'
  BY FirmStep
<1>7. TypeInv /\ StoryInv /\ FirmInv /\ WithinImageLimit /\ [Next]_vars
      => WithinImageLimit'
  BY LimitStep
<1>8. QED BY <1>3, <1>4, <1>5, <1>6, <1>7, PTL DEF Spec
-----------------------------------------------------------------------------
(* MediaJobs implements MediaPromise.  The mapping reads the end of a      *)
(* rejected upload off three rows, so one more invariant is needed: the    *)
(* delivery is never given up behind the back of an unfinished upload.     *)

GivenUpInv ==
  \A j \in Jobs :
    dispatchStatus[j] = "failed" => assetStatus[j] \in {"ready", "rejected"}

\* mark_delivery_failed and the recovery fail the dispatch, the job and the
\* asset in one transaction (_fail_media).
LEMMA GivenUpTogether ==
  ASSUME TypeInv, NEW r \in Reconcilers, Reconcile(r) \/ Send(r) \/ Restart(r),
         NEW j \in Jobs
  PROVE  \/ /\ UNCHANGED <<assetStatus[j], jobStatus[j]>>
            /\ dispatchStatus'[j] = "failed" <=> dispatchStatus[j] = "failed"
         \/ /\ jobStatus[j] \in Active /\ dispatchStatus[j] # "failed"
            /\ dispatchStatus'[j] = "failed" /\ jobStatus'[j] = "failed"
            /\ assetStatus'[j] = "rejected"
<1> USE DEF TypeInv, TypeOK, DispatchTypeOK
<1>1. CASE Reconcile(r)
  <2>1. PICK lost \in SUBSET {i \in Jobs : Recoverable(i)} :
          \E due : /\ RecoverAndClaim(r, lost, due)
                   /\ FailDispatchExhausted({i \in lost : Exhausted(i)})
    BY <1>1 DEF Reconcile
  <2>2. /\ dispatchStatus' = [i \in Jobs |->
             IF i \in lost THEN IF Exhausted(i) THEN "failed" ELSE "pending"
             ELSE dispatchStatus[i]]
        /\ FailDispatchExhausted({i \in lost : Exhausted(i)})
    BY <2>1 DEF RecoverAndClaim
  <2>3. j \in lost => jobStatus[j] \in Active /\ dispatchStatus[j] # "failed"
    BY <2>1 DEF Recoverable, Active
  <2>4. CASE j \in lost /\ Exhausted(j)
    BY <2>2, <2>3, <2>4 DEF FailDispatchExhausted
  <2>5. CASE ~ (j \in lost /\ Exhausted(j))
    BY <2>2, <2>3, <2>5 DEF FailDispatchExhausted
  <2>6. QED BY <2>4, <2>5
<1>2. CASE Publish(r) \/ BrokerRefuses(r) \/ Restart(r)
  BY <1>2
  DEF Publish, PublishIntent, BrokerRefuses, RefuseIntent, Restart,
      RestartReconciler
<1>3. CASE RecordDelivered(r)
  BY <1>3 DEF RecordDelivered, MarkDelivered
<1>4. CASE RecordRefused(r)
  <2> DEFINE i == refused[r]
             active == jobStatus[i] \in Active
  <2>1. /\ i \in Jobs /\ MarkDeliveryFailed(r, active)
        /\ FailDispatchExhausted({k \in {i} : GivesUp(k, active)})
    BY <1>4 DEF RecordRefused
  <2>2. CASE j = i /\ GivesUp(i, active)
    BY <2>1, <2>2 DEF MarkDeliveryFailed, FailDispatchExhausted, GivesUp
  <2>3. CASE ~ (j = i /\ GivesUp(i, active))
    <3>1. UNCHANGED <<assetStatus[j], jobStatus[j]>>
      BY <2>1, <2>3 DEF FailDispatchExhausted
    <3>2. dispatchStatus'[j] = "failed" <=> dispatchStatus[j] = "failed"
      BY <2>1, <2>3 DEF MarkDeliveryFailed
    <3>3. QED BY <3>1, <3>2
  <2>4. QED BY <2>2, <2>3
<1>5. QED BY <1>1, <1>2, <1>3, <1>4 DEF Send

LEMMA GivenUpStep ==
  ASSUME TypeInv, GivenUpInv, [Next]_vars
  PROVE  GivenUpInv'
<1> USE DEF TypeInv, TypeOK, DispatchTypeOK, GivenUpInv
<1>1. ASSUME NEW j \in Jobs, User(j) PROVE GivenUpInv'
  <2>1. ASSUME NEW i \in Jobs, i # j, dispatchStatus'[i] = "failed"
        PROVE  assetStatus'[i] \in {"ready", "rejected"}
    <3>1. LeavesAlone(i)
      BY <1>1, <2>1, UserAlone
    <3>2. QED BY <2>1, <3>1 DEF LeavesAlone
  <2>2. ASSUME dispatchStatus'[j] = "failed"
        PROVE  assetStatus'[j] \in {"ready", "rejected"}
    BY <1>1, <2>2
    DEF User, Reserve, Expire, ManualRetry, Put, OpenConfirm, TakeTime,
        Confirm, RejectUpload, ConfirmFails, ResetDispatch
  <2>3. QED BY <2>1, <2>2
<1>2. ASSUME NEW w \in Workers, NEW j \in Jobs, Deliver(w, j)
      PROVE  GivenUpInv'
  BY <1>2 DEF Deliver, IgnoreDelivery, FailExhausted, FailJob, Claim
<1>3. ASSUME NEW w \in Workers, Work(w) \/ WorkerCrash(w) PROVE GivenUpInv'
  <2>1. UNCHANGED dispatchStatus
    BY <1>3
    DEF Work, Process, RejectOriginal, UploadVariants, FailTransient, Complete,
        CompleteRefused, WorkerCrash
  <2>2. ASSUME NEW i \in Jobs
        PROVE  assetStatus'[i] \in {assetStatus[i], "ready", "rejected"}
    BY <1>3
    DEF Work, Process, RejectOriginal, UploadVariants, FailTransient, FailJob,
        Complete, CompleteRefused, WorkerCrash
  <2>3. QED BY <2>1, <2>2
<1>4. ASSUME NEW r \in Reconcilers, Reconcile(r) \/ Send(r) \/ Restart(r)
      PROVE  GivenUpInv'
  BY <1>4, GivenUpTogether
<1>5. ASSUME NEW j \in Jobs, Weather(j) PROVE UNCHANGED <<dispatchStatus, assetStatus>>
  BY <1>5 DEF Weather, LeaseExpires, LoseMessage, Age
<1>6. ASSUME Retention PROVE GivenUpInv'
  <2>1. UNCHANGED dispatchStatus
    BY <1>6 DEF Retention, EndSweep, SweepAssets, SweepList, SweepCommit,
                SweepAbort
  <2>2. ASSUME NEW i \in Jobs
        PROVE  assetStatus'[i] \in {assetStatus[i], "rejected"}
    BY <1>6 DEF Retention, EndSweep, SweepAssets, SweepList, SweepCommit,
                SweepAbort
  <2>3. QED BY <2>1, <2>2
<1>7. CASE UNCHANGED vars
  BY <1>7 DEF vars
<1>8. QED
  BY <1>1, <1>2, <1>3, <1>4, <1>5, <1>6, <1>7, WhoSteps

LEMMA GivenUpInvariant == Spec => []GivenUpInv
<1>1. Init => GivenUpInv
  BY DEF Init, DispatchInit, GivenUpInv
<1>2. QED BY <1>1, GivenUpStep, TypeInvariant, PTL DEF Spec
PromiseStep == [Promise!Next]_(Promise!vars)

LEMMA AloneKeepsState ==
  ASSUME NEW j, LeavesAlone(j)
  PROVE  StateOf(j)' = StateOf(j)
BY DEF LeavesAlone, StateOf, EndOf

LEMMA Moves ==
  ASSUME NEW j \in Jobs, NEW from, NEW to, StateOf(j) \in from,
         StateOf(j)' = to,
         \A i \in Jobs : i # j => StateOf(i)' = StateOf(i)
  PROVE  Promise!Move(j, from, to)
<1> DEFINE state == [i \in Jobs |-> StateOf(i)]
<1>1. state[j] \in from /\ state' = [state EXCEPT ![j] = to]
  OBVIOUS
<1>2. QED BY <1>1 DEF Promise!Move

LEMMA SameBusy ==
  ASSUME UNCHANGED holds
  PROVE  {j \in Jobs : Held(j)}' = {j \in Jobs : Held(j)}
BY DEF Held

LEMMA Stutters ==
  ASSUME UNCHANGED holds, \A j \in Jobs : StateOf(j)' = StateOf(j)
  PROVE  PromiseStep
BY SameBusy DEF PromiseStep, Promise!vars

\* The machinery gives up on uploads, or retention cleans them.
LEMMA MovesAll ==
  ASSUME NEW S \in SUBSET Jobs, NEW from, NEW to, UNCHANGED holds,
         \A j \in S : StateOf(j) \in from,
         \A j \in Jobs : StateOf(j)' = IF j \in S THEN to ELSE StateOf(j)
  PROVE  Promise!MoveAll(S, from, to)
BY SameBusy DEF Promise!MoveAll

LEMMA UserKeeps ==
  ASSUME TypeInv, MildInv, StoryInv, GivenUpInv, NEW j \in Jobs, User(j)
  PROVE  PromiseStep
<1> USE DEF TypeInv, TypeOK, DispatchTypeOK
<1>1. \A i \in Jobs : i # j => StateOf(i)' = StateOf(i)
  BY UserAlone, AloneKeepsState
<1>2. UNCHANGED holds /\ {i \in Jobs : Held(i)}' = {i \in Jobs : Held(i)}
  BY OthersLeaveWorkers, SameBusy
<1>3. StoryOf(j)
  BY DEF StoryInv
<1>4. CASE Reserve(j)
  <2>1. StateOf(j) = "none" /\ StateOf(j)' = "pending"
    BY <1>4 DEF Reserve, StateOf
  <2>2. Promise!Reserve(j)
    BY <1>1, <1>2, <2>1, Moves DEF Promise!Reserve
  <2>3. QED BY <2>2 DEF PromiseStep, Promise!Next
<1>5. CASE Confirm(j)
  <2>1. assetStatus[j] = "pending"
    <3>1. confirming[j] > 0 /\ original[j] # "absent"
      BY <1>5 DEF Confirm, EndInTime, EndConfirm
    <3>2. QED BY <1>3, <3>1 DEF StoryOf, UploadOf, RetentionOf, MaxConfirming
  <2>2. StateOf(j) = "pending" /\ StateOf(j)' = "processing"
    BY <1>5, <2>1 DEF Confirm, StateOf
  <2>3. Promise!Confirm(j)
    BY <1>1, <1>2, <2>2, Moves DEF Promise!Confirm
  <2>4. QED BY <2>3 DEF PromiseStep, Promise!Next
<1>6. CASE RejectUpload(j)
  <2>1. jobStatus[j] = "none" /\ assetStatus[j] \in {"pending", "rejected"}
    <3>1. confirming[j] > 0
      BY <1>6 DEF RejectUpload, EndInTime, EndConfirm
    <3>2. QED BY <1>3, <3>1 DEF StoryOf, UploadOf, RetentionOf, MaxConfirming
  <2>2. /\ assetStatus'[j] = "rejected"
        /\ UNCHANGED <<cleaned, jobStatus, dispatchStatus>>
    BY <1>6 DEF RejectUpload
  <2>3. CASE assetStatus[j] = "pending"
    <3>1. ~ cleaned[j]
      BY <1>3, <2>3 DEF StoryOf, RetentionOf
    <3>2. StateOf(j) = "pending" /\ StateOf(j)' = "refused"
      BY <2>1, <2>2, <2>3, <3>1 DEF StateOf, EndOf
    <3>3. Promise!Refuse(j)
      BY <1>1, <1>2, <3>2, Moves DEF Promise!Refuse
    <3>4. QED BY <3>3 DEF PromiseStep, Promise!Next
  <2>4. CASE assetStatus[j] = "rejected"
    <3>1. StateOf(j)' = StateOf(j)
      BY <2>2, <2>4 DEF StateOf, EndOf
    <3>2. QED BY <1>1, <1>2, <3>1, Stutters
  <2>5. QED BY <2>1, <2>3, <2>4
<1>7. CASE ManualRetry(j)
  <2>1. left["retry"] > 0
    BY <1>7 DEF ManualRetry, Disturb
  <2>2. Agree(j)
    BY <1>3, <2>1 DEF StoryOf, RowsOf
  <2>3. CASE jobStatus[j] = "queued"
    <3>1. assetStatus[j] = "processing" /\ assetStatus'[j] = "processing"
      BY <1>7, <2>2, <2>3 DEF ManualRetry, Agree, Active
    <3>2. StateOf(j)' = StateOf(j)
      BY <3>1 DEF StateOf
    <3>3. QED BY <1>1, <1>2, <3>2, Stutters
  <2>4. CASE jobStatus[j] = "failed" /\ ~ cleaned[j]
    <3>1. assetStatus[j] = "rejected" /\ assetStatus'[j] = "processing"
      BY <1>7, <2>2, <2>4 DEF ManualRetry, Agree, Active
    <3>2. /\ StateOf(j) \in {"rejected", "abandoned"}
          /\ StateOf(j)' = "processing"
      BY <2>4, <3>1 DEF StateOf, EndOf
    <3>3. j \notin {i \in Jobs : Held(i)}
      BY <1>3, <2>1, <2>4 DEF StoryOf, WorkerOf
    <3>4. Promise!Retry(j)
      BY <1>1, <1>2, <3>2, <3>3, Moves DEF Promise!Retry
    <3>5. QED BY <3>4 DEF PromiseStep, Promise!Next
  <2>5. QED BY <1>7, <2>3, <2>4 DEF ManualRetry
<1>8. ASSUME UNCHANGED <<assetStatus, cleaned, jobStatus, dispatchStatus>>
      PROVE  PromiseStep
  <2>1. StateOf(j)' = StateOf(j)
    BY <1>8 DEF StateOf, EndOf
  <2>2. QED BY <1>1, <1>2, <2>1, Stutters
<1>9. QED
  BY <1>4, <1>5, <1>6, <1>7, <1>8
  DEF User, Expire, Put, OpenConfirm, TakeTime, ConfirmFails

\* A delivery is turned away, uses the upload up, or takes it up; a second
\* worker is never let in.
LEMMA DeliverKeeps ==
  ASSUME TypeInv, StoryInv, GivenUpInv,
         NEW w \in Workers, NEW j \in Jobs, Deliver(w, j)
  PROVE  PromiseStep
<1> USE DEF TypeInv, TypeOK, DispatchTypeOK
<1>1. \A i \in Jobs : i # j => StateOf(i)' = StateOf(i)
  BY DeliverAlone, AloneKeepsState
<1>2. StoryOf(j)
  BY DEF StoryInv
<1>3. ASSUME jobStatus[j] \in Active, ~ LeasedToAnother(j)
      PROVE  /\ j \notin {i \in Jobs : Held(i)}
             /\ assetStatus[j] \in {"processing", "rejected"}
             /\ assetStatus[j] = "rejected" => dispatchStatus[j] = "failed"
  <2>1. ~ Held(j)
    BY <1>2, <1>3 DEF StoryOf, WorkerOf, LeasedToAnother, Active
  <2>2. assetStatus[j] \notin {"none", "pending", "ready"}
    BY <1>2, <1>3 DEF StoryOf, UploadOf, PictureOf, Active
  <2>3. assetStatus[j] \in {"processing", "rejected"}
    BY <2>2 DEF AssetStatus
  <2>4. dispatchStatus[j] = "failed" \/ assetStatus[j] = "processing"
    BY <1>2, <1>3 DEF StoryOf, RowsOf, Agree
  <2>5. QED BY <2>1, <2>3, <2>4
<1>4. CASE IgnoreDelivery(w, j)
  <2>1. StateOf(j)' = StateOf(j)
    BY <1>4 DEF IgnoreDelivery, StateOf, EndOf
  <2>2. QED BY <1>1, <1>4, <2>1, Stutters DEF IgnoreDelivery
<1>5. CASE FailExhausted(w, j)
  <2>1. /\ UNCHANGED <<cleaned, dispatchStatus, holds>>
        /\ jobStatus[j] \in Active /\ ~ LeasedToAnother(j)
        /\ jobStatus'[j] = "failed" /\ assetStatus'[j] = "rejected"
    BY <1>5 DEF FailExhausted, FailJob
  <2>2. {i \in Jobs : Held(i)}' = {i \in Jobs : Held(i)}
    BY <2>1, SameBusy
  <2>3. CASE assetStatus[j] = "rejected"
    <3>1. StateOf(j)' = StateOf(j)
      BY <2>1, <2>3 DEF StateOf, EndOf, Active
    <3>2. QED BY <1>1, <2>1, <3>1, Stutters
  <2>4. CASE assetStatus[j] = "processing"
    <3>1. ~ cleaned[j]
      BY <1>2, <2>4 DEF StoryOf, RetentionOf
    <3>2. dispatchStatus[j] # "failed"
      BY <2>4 DEF GivenUpInv
    <3>3. StateOf(j) = "processing" /\ StateOf(j)' = "rejected"
      BY <2>1, <2>4, <3>1, <3>2 DEF StateOf, EndOf
    <3>4. Promise!Lapse(j)
      BY <1>1, <1>3, <2>1, <2>2, <3>3, Moves DEF Promise!Lapse
    <3>5. QED BY <3>4 DEF PromiseStep, Promise!Next
  <2>5. QED BY <1>3, <2>1, <2>3, <2>4
<1>6. CASE Claim(w, j)
  <2>1. /\ jobStatus[j] \in Active /\ ~ LeasedToAnother(j)
        /\ jobStatus'[j] = "running"
        /\ UNCHANGED <<assetStatus, cleaned, dispatchStatus>>
        /\ holds[w] = NoJob /\ holds' = [holds EXCEPT ![w] = j]
    BY <1>6 DEF Claim, Deliverable, BusyHolds
  <2>2. StateOf(j)' = StateOf(j)
    BY <2>1 DEF StateOf, EndOf, Active
  <2>3. [i \in Jobs |-> StateOf(i)]' = [i \in Jobs |-> StateOf(i)]
    BY <1>1, <2>2
  <2>4. StateOf(j) \in {"processing", "abandoned", "gone"}
    BY <1>3, <2>1 DEF StateOf, EndOf, Active
  <2>5. {i \in Jobs : Held(i)}' = {i \in Jobs : Held(i)} \cup {j}
    BY <2>1, DispatchAssumption DEF Held
  <2>6. Promise!TakeUp(j)
    BY <1>3, <2>1, <2>3, <2>4, <2>5 DEF Promise!TakeUp
  <2>7. QED BY <2>6 DEF PromiseStep, Promise!Next
<1>7. QED BY <1>4, <1>5, <1>6 DEF Deliver
\* A worker that is done leaves its upload to nobody.
LEMMA Leaves ==
  ASSUME TypeInv, NEW w \in Workers, NEW h \in Jobs, holds[w] = h, Finish(w),
         WorkerOf(h)
  PROVE  Promise!Leave(h)
<1>1. \A v \in Workers : v # w => holds'[v] = holds[v] /\ holds[v] # h
  BY DEF TypeInv, TypeOK, WorkerOf, Finish
<1>2. holds'[w] = NoJob
  BY DEF TypeInv, TypeOK, Finish
<1>3. h \in {j \in Jobs : Held(j)}
  BY DEF Held
<1>4. {j \in Jobs : Held(j)}' = {j \in Jobs : Held(j)} \ {h}
  BY <1>1, <1>2, DispatchAssumption DEF Held
<1>5. QED BY <1>3, <1>4 DEF Promise!Leave

\* The worker of an upload has the last word on it, and only a worker makes it
\* ready.
LEMMA WorkKeeps ==
  ASSUME TypeInv, StoryInv, GivenUpInv, NEW w \in Workers,
         Work(w) \/ WorkerCrash(w)
  PROVE  PromiseStep
<1> USE DEF TypeInv, TypeOK, DispatchTypeOK
<1>1. PICK h \in Jobs : holds[w] = h
  BY WorkerHolds
<1>2. \A i \in Jobs : i # h => StateOf(i)' = StateOf(i)
  BY <1>1, WorkAlone, AloneKeepsState
<1>3. StoryOf(h)
  BY DEF StoryInv
<1>4. /\ assetStatus[h] \in {"processing", "rejected"}
      /\ jobStatus[h] # "none"
      /\ assetStatus[h] = "rejected" => dispatchStatus[h] = "failed"
      /\ assetStatus[h] = "processing" =>
           ~ cleaned[h] /\ dispatchStatus[h] # "failed"
  <2>1. Held(h)
    BY <1>1 DEF Held
  <2>2. \/ jobStatus[h] = "running"
        \/ jobStatus[h] = "failed" /\ dispatchStatus[h] = "failed"
    BY <1>3, <2>1 DEF StoryOf, WorkerOf
  <2>3. assetStatus[h] \notin {"none", "pending", "ready"}
    BY <1>3, <2>2 DEF StoryOf, UploadOf, PictureOf
  <2>4. assetStatus[h] = "rejected" => dispatchStatus[h] = "failed"
    BY <1>3, <2>2 DEF StoryOf, RowsOf, Agree, Active
  <2>5. assetStatus[h] = "processing" => ~ cleaned[h] /\ dispatchStatus[h] # "failed"
    BY <1>3 DEF StoryOf, RetentionOf, GivenUpInv
  <2>6. QED BY <2>2, <2>3, <2>4, <2>5 DEF AssetStatus
<1>5. UNCHANGED dispatchStatus
  BY DEF Work, Process, RejectOriginal, UploadVariants, FailTransient, Complete,
         CompleteRefused, WorkerCrash
<1>6. Finish(w) => Promise!Leave(h)
  BY <1>1, <1>3, Leaves DEF StoryOf
<1>7. ASSUME Finish(w), StateOf(h)' = StateOf(h) PROVE PromiseStep
  <2>1. Promise!Drop(h)
    BY <1>2, <1>6, <1>7 DEF Promise!Drop
  <2>2. QED BY <2>1 DEF PromiseStep, Promise!Next
<1>8. ASSUME Finish(w), UNCHANGED cleaned,
             jobStatus'[h] = "failed", assetStatus'[h] = "rejected"
      PROVE  PromiseStep
  <2>1. CASE assetStatus[h] = "rejected"
    <3>1. StateOf(h)' = StateOf(h)
      BY <1>4, <1>5, <1>8, <2>1 DEF StateOf, EndOf
    <3>2. QED BY <1>7, <1>8, <3>1
  <2>2. CASE assetStatus[h] = "processing"
    <3>1. StateOf(h) = "processing" /\ StateOf(h)' = "rejected"
      BY <1>4, <1>5, <1>8, <2>2 DEF StateOf, EndOf
    <3>2. Promise!Reject(h)
      BY <1>2, <1>6, <1>8, <3>1, Moves DEF Promise!Reject
    <3>3. QED BY <3>2 DEF PromiseStep, Promise!Next
  <2>3. QED BY <1>4, <2>1, <2>2
<1>9. CASE RejectOriginal(w)
  BY <1>1, <1>8, <1>9 DEF RejectOriginal, FailJob
<1>10. CASE FailTransient(w)
  <2>1. Finish(w) /\ UNCHANGED cleaned
    BY <1>10 DEF FailTransient, FailJob
  <2>2. CASE jobStatus'[h] = "failed" /\ assetStatus'[h] = "rejected"
    BY <1>8, <2>1, <2>2
  <2>3. CASE jobStatus'[h] = "retrying" /\ UNCHANGED assetStatus
    <3>1. StateOf(h)' = StateOf(h)
      BY <1>4, <1>5, <2>1, <2>3 DEF StateOf, EndOf
    <3>2. QED BY <1>7, <2>1, <3>1
  <2>4. QED BY <1>1, <1>10, <2>2, <2>3 DEF FailTransient, FailJob
<1>11. CASE Complete(w)
  <2>1. Finish(w) /\ ~ cleaned[h] /\ assetStatus'[h] = "ready"
    BY <1>1, <1>11 DEF Complete, ConstraintsAllow
  <2>2. StateOf(h) \in {"processing", "abandoned"} /\ StateOf(h)' = "ready"
    BY <1>4, <2>1 DEF StateOf, EndOf
  <2>3. Promise!Finish(h)
    BY <1>2, <1>6, <2>1, <2>2, Moves DEF Promise!Finish
  <2>4. QED BY <2>3 DEF PromiseStep, Promise!Next
<1>12. CASE CompleteRefused(w) \/ WorkerCrash(w)
  <2>1. /\ Finish(w)
        /\ UNCHANGED <<assetStatus, cleaned, jobStatus, dispatchStatus>>
    BY <1>12 DEF CompleteRefused, WorkerCrash
  <2>2. StateOf(h)' = StateOf(h)
    BY <2>1 DEF StateOf, EndOf
  <2>3. QED BY <1>7, <2>1, <2>2
<1>13. CASE Process(w) \/ UploadVariants(w)
  <2>1. UNCHANGED <<holds, assetStatus, cleaned, jobStatus, dispatchStatus>>
    BY <1>13 DEF Process, UploadVariants, Step
  <2>2. \A i \in Jobs : StateOf(i)' = StateOf(i)
    BY <2>1 DEF StateOf, EndOf
  <2>3. QED BY <2>1, <2>2, Stutters
<1>14. QED BY <1>9, <1>10, <1>11, <1>12, <1>13 DEF Work

\* The reconciler gives up uploads, whether or not a worker is on them, and
\* does nothing else that shows.
LEMMA ReconcilerKeeps ==
  ASSUME TypeInv, StoryInv, GivenUpInv, NEW r \in Reconcilers,
         Reconcile(r) \/ Send(r) \/ Restart(r)
  PROVE  PromiseStep
<1> DEFINE S == {j \in Jobs : StateOf(j)' # StateOf(j)}
<1>1. UNCHANGED <<holds, cleaned>>
  BY DEF Reconcile, Send, Publish, BrokerRefuses, RecordDelivered,
         RecordRefused, Restart, FailDispatchExhausted
<1>2. ASSUME NEW j \in Jobs, StateOf(j)' # StateOf(j)
      PROVE  StateOf(j) = "processing" /\ StateOf(j)' = "abandoned"
  <2>1. /\ jobStatus[j] \in Active /\ dispatchStatus[j] # "failed"
        /\ dispatchStatus'[j] = "failed" /\ jobStatus'[j] = "failed"
        /\ assetStatus'[j] = "rejected"
    <3>1. CASE /\ UNCHANGED <<assetStatus[j], jobStatus[j]>>
               /\ dispatchStatus'[j] = "failed" <=> dispatchStatus[j] = "failed"
      BY <1>1, <1>2, <3>1 DEF StateOf, EndOf
    <3>2. QED BY <3>1, GivenUpTogether
  <2>2. assetStatus[j] = "processing" /\ ~ cleaned[j]
    BY <2>1 DEF StoryInv, StoryOf, RowsOf, Agree, RetentionOf
  <2>3. QED BY <1>1, <2>1, <2>2 DEF StateOf, EndOf
<1>3. Promise!MoveAll(S, {"processing"}, "abandoned")
  <2>1. \A j \in S : StateOf(j) \in {"processing"}
    BY <1>2
  <2>2. \A j \in Jobs :
          StateOf(j)' = IF j \in S THEN "abandoned" ELSE StateOf(j)
    BY <1>2
  <2>3. S \in SUBSET Jobs
    OBVIOUS
  <2> HIDE DEF S
  <2>4. QED BY <1>1, <2>1, <2>2, <2>3, MovesAll
<1>4. Promise!GiveUp(S)
  BY <1>3 DEF Promise!GiveUp
<1>5. QED BY <1>4 DEF PromiseStep, Promise!Next

\* What retention cleans never became ready and nobody accepts any more.
LEMMA RetentionKeeps ==
  ASSUME TypeInv, StoryInv, GivenUpInv, Retention
  PROVE  PromiseStep
<1> DEFINE S == {j \in Jobs : StateOf(j)' # StateOf(j)}
<1>1. UNCHANGED <<holds, jobStatus, dispatchStatus>>
  BY DEF Retention, EndSweep, SweepAssets, SweepList, SweepCommit, SweepAbort
<1>2. CASE SweepCommit
  <2>1. ASSUME NEW j \in Jobs, StateOf(j)' # StateOf(j)
        PROVE  /\ StateOf(j) \in {"pending", "refused", "rejected", "abandoned"}
               /\ StateOf(j)' = "gone"
    <3>1. /\ cleaned'[j] = (cleaned[j] \/ j \in sweep.locked)
          /\ assetStatus'[j] = IF j \in sweep.locked THEN "rejected"
                               ELSE assetStatus[j]
      BY <1>2 DEF SweepCommit
    <3>2. j \in sweep.locked
      BY <1>1, <2>1, <3>1 DEF StateOf, EndOf
    <3>3. assetStatus[j] \in {"pending", "rejected"}
      BY <3>2 DEF StoryInv, StoryOf, RetentionOf
    <3>4. StateOf(j)' = "gone"
      BY <3>1, <3>2 DEF StateOf, EndOf
    <3>5. QED BY <2>1, <3>3, <3>4 DEF StateOf, EndOf
  <2>2. Promise!MoveAll(S, {"pending", "refused", "rejected", "abandoned"}, "gone")
    <3>1. \A j \in S :
            StateOf(j) \in {"pending", "refused", "rejected", "abandoned"}
      BY <2>1
    <3>2. \A j \in Jobs : StateOf(j)' = IF j \in S THEN "gone" ELSE StateOf(j)
      BY <2>1
    <3>3. S \in SUBSET Jobs
      OBVIOUS
    <3> HIDE DEF S
    <3>4. QED BY <1>1, <3>1, <3>2, <3>3, MovesAll
  <2>3. Promise!Clean(S)
    BY <2>2 DEF Promise!Clean
  <2>4. QED BY <2>3 DEF PromiseStep, Promise!Next
<1>3. CASE ~ SweepCommit
  <2>1. UNCHANGED assetRows
    BY <1>3 DEF Retention, EndSweep, SweepAssets, SweepList, SweepAbort
  <2>2. \A j \in Jobs : StateOf(j)' = StateOf(j)
    BY <1>1, <2>1 DEF StateOf, EndOf
  <2>3. QED BY <1>1, <2>2, Stutters
<1>4. QED BY <1>2, <1>3

LEMMA EveryStepKeeps ==
  ASSUME TypeInv, MildInv, StoryInv, GivenUpInv, [Next]_vars
  PROVE  PromiseStep
<1>1. ASSUME UNCHANGED <<holds, assetStatus, cleaned, jobStatus, dispatchStatus>>
      PROVE  PromiseStep
  <2>1. \A j \in Jobs : StateOf(j)' = StateOf(j)
    BY <1>1 DEF StateOf, EndOf
  <2>2. QED BY <1>1, <2>1, Stutters
<1>2. ASSUME NEW j \in Jobs, Weather(j) PROVE PromiseStep
  BY <1>1, <1>2 DEF Weather, LeaseExpires, LoseMessage, Age
<1>3. CASE UNCHANGED vars
  BY <1>1, <1>3 DEF vars
<1>4. QED
  BY <1>2, <1>3, WhoSteps, UserKeeps, DeliverKeeps, WorkKeeps, ReconcilerKeeps,
     RetentionKeeps

\* Whatever is delivered twice, lost, refused or recovered, wherever a worker
\* dies and whenever retention runs, an upload is processed by one worker at a
\* time, made ready only by its worker and then for good, taken back from a
\* verdict only by hand, and never brought back once it is cleaned.
THEOREM UploadsImplement == Disciplined /\ Spec => UploadsKeepThePromise
<1>1. Init => Promise!Init
  BY DispatchAssumption DEF Init, Promise!Init, StateOf, Held
<1>2. TypeInv /\ MildInv /\ StoryInv /\ GivenUpInv /\ [Next]_vars
      => [Promise!Next]_(Promise!vars)
  BY EveryStepKeeps DEF PromiseStep
<1>3. QED
  BY <1>1, <1>2, StoryInvariant, GivenUpInvariant, PTL
  DEF Spec, UploadsKeepThePromise, Promise!Spec
=============================================================================
