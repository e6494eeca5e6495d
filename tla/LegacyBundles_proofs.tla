------------------------ MODULE LegacyBundles_proofs ------------------------
(***************************************************************************)
(* Theorems about LegacyBundles, for any bundles, workers, reconcilers,    *)
(* attempts and contents of workbooks, and any bound on the disturbances.  *)
(***************************************************************************)
EXTENDS LegacyRefinement, FiniteSetTheorems, TLAPS

USE DEF dispatchRows, reconciler, dispatchVars, bundleRows, catalogue,
        workerVars, rest, worker, legacyOnly, Bundles

-----------------------------------------------------------------------------
(* Types.                                                                  *)

LEMMA Disturbing ==
  ASSUME left \in [Disturbances -> Nat], NEW d \in Disturbances, Disturb(d)
  PROVE  left' \in [Disturbances -> Nat]
BY DEF Disturb

LEMMA Kinds ==
  {"crash", "loss", "lease", "refusal", "backlog", "broken", "edit", "cancel",
   "retry", "bundle"} = Disturbances
BY DEF Disturbances

\* Items, plans and candidates.
LEMMA NothingPlanned == DOMAIN NoPlan = {}
BY DEF NoPlan

LEMMA ItemsAreIdentities ==
  ASSUME NEW b \in Bundles
  PROVE  /\ Items(b) \subseteq Identities
         /\ Len(Contents[b]) \in Nat
         /\ \A k \in 1..Len(Contents[b]) : Contents[b][k] \in Items(b)
         /\ \A i \in Items(b) : \E k \in 1..Len(Contents[b]) : Contents[b][k] = i
<1>1. Contents[b] \in Seq(Identities)
  BY LegacyAssumption
<1>2. DOMAIN Contents[b] = 1..Len(Contents[b]) /\ Len(Contents[b]) \in Nat
  BY <1>1
<1>3. QED BY <1>2 DEF Items, Identities

LEMMA CandidatesType ==
  ASSUME card \in [Cards -> CardRows], NEW i
  PROVE  /\ DOMAIN Candidates(i) \subseteq Cards
         /\ Candidates(i) \in [DOMAIN Candidates(i) -> CardRows]
BY DEF Candidates

LEMMA ProposalType ==
  ASSUME card \in [Cards -> CardRows], NEW i
  PROVE  /\ IsProposal(Proposal(i))
         /\ Proposal(i).decision.kind \in {"skip", "review", "create"}
<1>1. Proposal(i).decision \in Decisions
  BY DEF Proposal, Decision, Decisions
<1>2. QED
  BY <1>1, CandidatesType DEF Proposal, Decision, IsProposal

LEMMA ChoicesType ==
  ASSUME TypeOK, NEW b \in Bundles, NEW i \in Items(b), IsPlan(b, plan[b]),
         NEW d \in Choices(b, i)
  PROVE  d \in Decisions
<1>1. IsProposal(plan[b][i])
  BY DEF IsPlan
<1>2. \A c \in DOMAIN plan[b][i].seen : c \in Cards /\ plan[b][i].seen[c].version \in Nat
  BY <1>1 DEF IsProposal, CardRows
<1>3. QED BY <1>2 DEF Choices, Decision, Decisions

\* What the operations of the outbox do to its types.
LEMMA DispatchTypes ==
  ASSUME DispatchTypeOK
  PROVE  /\ \A b \in Bundles : ResetDispatch(b) /\ UNCHANGED <<queue, reconciler>>
              => DispatchTypeOK'
         /\ \A b \in Bundles :
              (TakeMessage(b) \/ Enqueue(b)) /\ UNCHANGED <<dispatchRows, reconciler>>
              => DispatchTypeOK'
         /\ \A r \in Reconcilers, b \in Bundles :
              PublishIntent(r, b) \/ RefuseIntent(r, b) => DispatchTypeOK'
         /\ \A r \in Reconcilers : MarkDelivered(r) => DispatchTypeOK'
         /\ \A r \in Reconcilers, active \in BOOLEAN :
              MarkDeliveryFailed(r, active) => DispatchTypeOK'
<1> USE DispatchAssumption DEF DispatchTypeOK, DispatchStatus
<1>1. ASSUME NEW b \in Bundles, ResetDispatch(b), UNCHANGED <<queue, reconciler>>
      PROVE  DispatchTypeOK'
  BY <1>1 DEF ResetDispatch
<1>2. ASSUME NEW b \in Bundles, TakeMessage(b) \/ Enqueue(b)
      PROVE  queue' \in [Jobs -> 0..MaxMessages]
  BY <1>2 DEF TakeMessage, Enqueue, OneMore
<1>3. ASSUME NEW r \in Reconcilers, NEW b \in Bundles,
             PublishIntent(r, b) \/ RefuseIntent(r, b)
      PROVE  DispatchTypeOK'
  BY <1>2, <1>3 DEF PublishIntent, RefuseIntent
<1>4. ASSUME NEW r \in Reconcilers, MarkDelivered(r)
      PROVE  DispatchTypeOK'
  BY <1>4 DEF MarkDelivered
<1>5. ASSUME NEW r \in Reconcilers, NEW active \in BOOLEAN,
             MarkDeliveryFailed(r, active)
      PROVE  DispatchTypeOK'
  BY <1>5 DEF MarkDeliveryFailed
<1>6. QED BY <1>1, <1>2, <1>3, <1>4, <1>5

LEMMA ReconcileType ==
  ASSUME DispatchTypeOK, NEW r \in Reconcilers, NEW lost \in SUBSET Bundles,
         NEW due \in SUBSET {b \in Bundles : Claimable(b, lost) /\ DispatchFree(b)},
         RecoverAndClaim(r, lost, due)
  PROVE  DispatchTypeOK'
<1> USE DispatchAssumption DEF DispatchTypeOK, DispatchStatus, RecoverAndClaim
<1>1. dispatchStatus' \in [Jobs -> DispatchStatus]
  OBVIOUS
<1>2. \A b \in due : dispatchAttempts[b] + 1 \in 0..MaxAttempts
  BY DEF Claimable, Exhausted
<1>3. dispatchAttempts' \in [Jobs -> 0..MaxAttempts]
  BY <1>2
<1>4. QED BY <1>1, <1>3

LEMMA TypeInit == Init => TypeOK
BY DispatchAssumption, ProfileAssumption, LegacyAssumption, NothingPlanned
DEF Init, TypeOK, DispatchInit, DispatchTypeOK, DispatchStatus, Statuses,
    CardRows, PC, Disturbances, InProgress, Active

\* What a bundle has gone through: decisions are taken about a plan, a plan
\* is applied once it is confirmed and does not change after.
Told(b) ==
  /\ status[b] \in {"absent", "uploading", "uploaded", "analyzing", "ready"}
       => phase[b] = "analysis"
  /\ status[b] \in {"applying", "completed"} => phase[b] = "apply"
  /\ status[b] = "ready" => IsPlan(b, plan[b])
  /\ phase[b] = "apply" => confirmed[b] = plan[b] /\ IsPlan(b, plan[b])
  /\ phase[b] = "analysis" =>
       \A i \in DOMAIN itemStatus[b] : itemStatus[b][i] # "applied"

LEMMA TypeAdministrator ==
  ASSUME TypeOK, NEW b \in Bundles, Told(b),
         \/ CreateBundle(b) \/ CompleteUpload(b) \/ StartAnalysis(b)
         \/ Decide(b) \/ ApplyBundle(b) \/ CancelBundle(b) \/ RetryBundle(b)
  PROVE  TypeOK'
<1>1. left' \in [Disturbances -> Nat]
  BY Disturbing, Kinds
  DEF TypeOK, CreateBundle, CompleteUpload, StartAnalysis, Decide, ApplyBundle,
      CancelBundle, RetryBundle
<1>2. DispatchTypeOK'
  <2>1. DispatchTypeOK
    BY DEF TypeOK
  <2>2. CASE UNCHANGED dispatchVars
    BY <2>1, <2>2 DEF DispatchTypeOK
  <2>3. CASE ResetDispatch(b) /\ UNCHANGED <<queue, reconciler>>
    BY <2>1, <2>3, DispatchTypes
  <2>4. QED
    BY <2>2, <2>3 DEF CreateBundle, CompleteUpload, StartAnalysis, Decide,
       ApplyBundle, CancelBundle, RetryBundle
<1>3. CASE CreateBundle(b) \/ CompleteUpload(b) \/ CancelBundle(b)
  BY <1>1, <1>2, <1>3
  DEF TypeOK, CreateBundle, CompleteUpload, CancelBundle, Statuses, InProgress,
      Active
<1>4. CASE StartAnalysis(b)
  BY <1>1, <1>2, <1>4
  DEF TypeOK, StartAnalysis, Touch, Statuses, InProgress, Active
<1>5. CASE Decide(b)
  <2>0. PICK i \in Items(b) : \E d \in Choices(b, i) :
          /\ plan' = [plan EXCEPT ![b][i].decision = d]
          /\ itemStatus' = [itemStatus EXCEPT ![b][i] = "planned"]
    BY <1>5 DEF Decide
  <2>1. PICK d \in Choices(b, i) :
          /\ plan' = [plan EXCEPT ![b][i].decision = d]
          /\ itemStatus' = [itemStatus EXCEPT ![b][i] = "planned"]
    BY <2>0
  <2>2. IsPlan(b, plan[b])
    BY <1>5 DEF Decide, Decidable, Told
  <2>3. d \in Decisions
    BY <2>1, <2>2, ChoicesType
  <2>4. DOMAIN plan' = Bundles /\ DOMAIN itemStatus' = Bundles
    BY <2>1 DEF TypeOK
  <2>5. /\ plan'[b] = [plan[b] EXCEPT ![i].decision = d]
        /\ itemStatus'[b] = [itemStatus[b] EXCEPT ![i] = "planned"]
        /\ \A c \in Bundles \ {b} :
             plan'[c] = plan[c] /\ itemStatus'[c] = itemStatus[c]
    BY <2>1 DEF TypeOK
  <2>6. IsPlan(b, plan'[b])
    <3>1. IsProposal([plan[b][i] EXCEPT !.decision = d])
      BY <2>2, <2>3 DEF IsPlan, IsProposal
    <3>2. QED BY <2>2, <2>5, <3>1 DEF IsPlan
  <2>7. itemStatus'[b] \in [DOMAIN plan'[b] -> Settled \cup {"planned"}]
    BY <2>2, <2>5 DEF TypeOK, IsPlan
  <2>8. QED
    BY <1>1, <1>2, <1>5, <2>4, <2>5, <2>6, <2>7 DEF TypeOK, Decide
<1>6. CASE ApplyBundle(b)
  BY <1>1, <1>2, <1>6
  DEF TypeOK, ApplyBundle, Touch, Statuses, InProgress, Active
<1>7. CASE RetryBundle(b)
  <2>1. /\ DOMAIN itemStatus' = Bundles
        /\ \A c \in Bundles \ {b} : itemStatus'[c] = itemStatus[c]
        /\ itemStatus'[b] = [i \in DOMAIN itemStatus[b] |->
              IF phase[b] = "apply" THEN Replanned(itemStatus[b][i])
              ELSE itemStatus[b][i]]
    BY <1>7 DEF TypeOK, RetryBundle
  <2>2. itemStatus'[b] \in [DOMAIN plan[b] -> Settled \cup {"planned"}]
    BY <2>1 DEF TypeOK, Replanned
  <2>3. QED
    BY <1>1, <1>2, <1>7, <2>1, <2>2
    DEF TypeOK, RetryBundle, Touch, Statuses, InProgress, Active
<1>8. QED BY <1>3, <1>4, <1>5, <1>6, <1>7

LEMMA TypeEditors ==
  ASSUME TypeOK, NEW c \in Cards,
         ReviewLicense(c) \/ EditCard(c) \/ PublishCard(c)
  PROVE  TypeOK'
<1>1. left' \in [Disturbances -> Nat]
  BY Disturbing, Kinds DEF TypeOK, ReviewLicense, EditCard, PublishCard
<1>2. card' \in [Cards -> CardRows]
  BY DEF TypeOK, CardRows, ReviewLicense, EditCard, PublishCard
<1>3. reviewed' \in [Identities -> BOOLEAN]
  BY DEF TypeOK, ReviewLicense, EditCard, PublishCard
<1>4. QED
  BY <1>1, <1>2, <1>3
  DEF TypeOK, DispatchTypeOK, ReviewLicense, EditCard, PublishCard

LEMMA TypeDeliver ==
  ASSUME TypeOK, NEW w \in Workers, NEW b \in Bundles, Deliver(w, b)
  PROVE  TypeOK'
<1>1. DispatchTypeOK'
  BY DispatchTypes DEF TypeOK, Deliver, TurnAway, Take
<1>2. CASE TurnAway(w, b)
  BY <1>1, <1>2 DEF TypeOK, TurnAway
<1>3. CASE Take(w, b)
  BY <1>1, <1>3, DispatchAssumption DEF TypeOK, Take, PC
<1>4. QED BY <1>2, <1>3 DEF Deliver

\* A worker applies a plan that has been confirmed; while it has an item, its
\* bundle waits for it and nobody else has one.
Applier(w) ==
  /\ pc[w] \in {"checking", "working", "item"} => phase[on[w]] = "apply"
  /\ pc[w] \in {"working", "item"} => pos[w] >= 1
  /\ pc[w] = "item" =>
       /\ status[on[w]] = "applying"
       /\ pos[w] <= Len(Contents[on[w]])
       /\ itemStatus[on[w]][Item(w)] = "planned"
       /\ \A v \in Workers : pc[v] = "item" => v = w

LEMMA OnBundle ==
  ASSUME TypeOK, NEW w \in Workers, pc[w] # "idle"
  PROVE  on[w] \in Bundles
BY DEF TypeOK

LEMMA ItemType ==
  ASSUME TypeOK, NEW w \in Workers, Told(on[w]), Applier(w), pc[w] = "item"
  PROVE  /\ on[w] \in Bundles
         /\ Item(w) \in Items(on[w])
         /\ Item(w) \in Identities
         /\ IsPlan(on[w], plan[on[w]])
         /\ plan[on[w]][Item(w)].decision \in Decisions
         /\ itemStatus[on[w]] \in [Items(on[w]) -> Settled \cup {"planned"}]
<1>1. on[w] \in Bundles
  BY OnBundle
<1>2. pos[w] \in 1..Len(Contents[on[w]])
  BY <1>1, ItemsAreIdentities DEF TypeOK, Applier
<1>3. Item(w) \in Items(on[w]) /\ Item(w) \in Identities
  BY <1>1, <1>2, ItemsAreIdentities DEF Item
<1>4. IsPlan(on[w], plan[on[w]])
  BY DEF Told, Applier
<1>5. IsProposal(plan[on[w]][Item(w)])
  BY <1>3, <1>4 DEF IsPlan
<1>6. QED
  BY <1>1, <1>3, <1>4, <1>5 DEF TypeOK, IsPlan, IsProposal

LEMMA SettleType ==
  ASSUME TypeOK, NEW w \in Workers, pc[w] # "idle",
         NEW outcome \in Settled, SettleItem(w, outcome)
  PROVE  /\ DOMAIN itemStatus' = Bundles
         /\ \A b \in Bundles \ {on[w]} : itemStatus'[b] = itemStatus[b]
         /\ itemStatus'[on[w]] = [itemStatus[on[w]] EXCEPT ![Item(w)] = outcome]
         /\ \A b \in Bundles :
              itemStatus'[b] \in [DOMAIN plan[b] -> Settled \cup {"planned"}]
         /\ pos' = [pos EXCEPT ![w] = pos[w] + 1]
         /\ pos' \in [Workers -> Nat]
         /\ moved' \in [Workers -> BOOLEAN]
<1>1. on[w] \in Bundles
  BY OnBundle
<1>2. /\ DOMAIN itemStatus' = Bundles
      /\ \A b \in Bundles \ {on[w]} : itemStatus'[b] = itemStatus[b]
      /\ itemStatus'[on[w]] = [itemStatus[on[w]] EXCEPT ![Item(w)] = outcome]
  BY <1>1 DEF TypeOK, SettleItem
<1>3. \A b \in Bundles :
        itemStatus'[b] \in [DOMAIN plan[b] -> Settled \cup {"planned"}]
  BY <1>1, <1>2 DEF TypeOK
<1>4. QED BY <1>1, <1>2, <1>3 DEF TypeOK, SettleItem, Touch

LEMMA LeaveType ==
  ASSUME TypeOK, NEW w \in Workers, Leave(w)
  PROVE  /\ pc' \in [Workers -> PC]
         /\ on' \in [Workers -> Bundles \cup {NoJob}]
         /\ \A v \in Workers : pc'[v] = "idle" <=> on'[v] = NoJob
         /\ pos' \in [Workers -> Nat]
         /\ lease' \in [Bundles -> Workers \cup {NoWorker}]
         /\ moved' \in [Workers -> BOOLEAN]
BY DEF TypeOK, Leave, Freed, PC

\* A worker that goes from one point of its program to another.
LEMMA MovesType ==
  ASSUME TypeOK, NEW w \in Workers, NEW from \in PC \ {"idle"},
         NEW to \in PC \ {"idle"}, Moves(w, from, to)
  PROVE  /\ pc' \in [Workers -> PC]
         /\ \A v \in Workers : pc'[v] = "idle" <=> on'[v] = NoJob
         /\ UNCHANGED <<on, lease>>
BY DEF TypeOK, Moves

LEMMA TypeAnalysis ==
  ASSUME TypeOK, NEW w \in Workers,
         SaveAnalysis(w) \/ AnalysedTwice(w) \/ CheckPlan(w) \/ WorkFails(w)
  PROVE  TypeOK'
<1> USE DEF Goes
<1>1. left' \in [Disturbances -> Nat]
  BY Disturbing, Kinds
  DEF TypeOK, SaveAnalysis, AnalysedTwice, CheckPlan, WorkFails
<1>2. DispatchTypeOK'
  BY DEF TypeOK, DispatchTypeOK, SaveAnalysis, AnalysedTwice, CheckPlan, WorkFails
<1>3. on[w] \in Bundles
  BY OnBundle DEF SaveAnalysis, AnalysedTwice, CheckPlan, WorkFails, Moves
<1>4. /\ pc' \in [Workers -> PC]
      /\ \A v \in Workers : pc'[v] = "idle" <=> on'[v] = NoJob
      /\ UNCHANGED <<on, lease, moved>>
  BY MovesType DEF SaveAnalysis, AnalysedTwice, CheckPlan, WorkFails, PC
<1>5. CASE SaveAnalysis(w)
  <2>1. CASE status[on[w]] # "analyzing"
    BY <1>1, <1>2, <1>4, <1>5, <2>1 DEF TypeOK, SaveAnalysis
  <2>2. CASE status[on[w]] = "analyzing"
    <3> DEFINE b == on[w]
               proposed == [i \in Items(b) |-> Proposal(i)]
    <3>1. IsPlan(b, proposed)
      BY ProposalType DEF IsPlan, TypeOK
    <3>2. /\ DOMAIN plan' = Bundles /\ plan'[b] = proposed
          /\ \A c \in Bundles \ {b} : plan'[c] = plan[c]
      BY <1>3, <1>5, <2>2 DEF TypeOK, SaveAnalysis
    <3>3. /\ DOMAIN itemStatus' = Bundles
          /\ \A c \in Bundles \ {b} : itemStatus'[c] = itemStatus[c]
          /\ itemStatus'[b] \in [Items(b) -> Settled \cup {"planned"}]
      BY <1>3, <1>5, <2>2 DEF TypeOK, SaveAnalysis, Settled
    <3>4. status' \in [Bundles -> Statuses]
      BY <1>5, <2>2 DEF TypeOK, SaveAnalysis, Statuses, InProgress
    <3> HIDE DEF b, proposed
    <3>5. QED
      BY <1>1, <1>2, <1>3, <1>4, <1>5, <3>1, <3>2, <3>3, <3>4
      DEF TypeOK, SaveAnalysis, IsPlan
  <2>3. QED BY <2>1, <2>2
<1>6. CASE AnalysedTwice(w) \/ CheckPlan(w) \/ WorkFails(w)
  <2>1. pos' \in [Workers -> Nat]
    BY <1>6 DEF TypeOK, AnalysedTwice, CheckPlan, WorkFails
  <2>2. QED
    BY <1>1, <1>2, <1>4, <1>6, <2>1
    DEF TypeOK, AnalysedTwice, CheckPlan, WorkFails
<1>7. QED BY <1>5, <1>6

\* A worker passes over items, or stops at one.
LEMMA TypeAtItems ==
  ASSUME TypeOK, NEW w \in Workers,
         \/ Stop(w) \/ PassItem(w) \/ SkipItem(w) \/ CatalogChanged(w)
         \/ StartItem(w) \/ Backpressure(w) \/ CompleteBundle(w)
  PROVE  TypeOK'
<1> USE DEF Goes
<1>1. left' \in [Disturbances -> Nat]
  BY Disturbing, Kinds
  DEF TypeOK, Stop, PassItem, SkipItem, CatalogChanged, StartItem, Backpressure,
      CompleteBundle
<1>2. pc[w] = "working" /\ on[w] \in Bundles
  BY OnBundle
  DEF Stop, PassItem, SkipItem, CatalogChanged, StartItem, Backpressure,
      CompleteBundle, Applicable, AtItem, Moves
<1>3. CASE Stop(w) \/ StartItem(w) \/ CompleteBundle(w)
  <2>1. /\ pc' \in [Workers -> PC]
        /\ \A v \in Workers : pc'[v] = "idle" <=> on'[v] = NoJob
        /\ UNCHANGED <<on, lease, moved>>
    BY <1>3, MovesType DEF Stop, StartItem, CompleteBundle, PC
  <2>2. status' \in [Bundles -> Statuses]
    BY <1>3 DEF TypeOK, Stop, StartItem, CompleteBundle, Statuses
  <2>3. QED
    BY <1>1, <1>3, <2>1, <2>2
    DEF TypeOK, DispatchTypeOK, Stop, StartItem, CompleteBundle
<1>4. CASE PassItem(w)
  BY <1>1, <1>4 DEF TypeOK, DispatchTypeOK, PassItem
<1>5. CASE SkipItem(w) \/ CatalogChanged(w)
  <2>1. \E outcome \in Settled : SettleItem(w, outcome)
    BY <1>5 DEF SkipItem, CatalogChanged, Settled
  <2>2. /\ DOMAIN itemStatus' = Bundles
        /\ \A b \in Bundles :
             itemStatus'[b] \in [DOMAIN plan[b] -> Settled \cup {"planned"}]
        /\ pos' \in [Workers -> Nat]
        /\ moved' \in [Workers -> BOOLEAN]
    BY <1>2, <2>1, SettleType
  <2>3. QED
    BY <1>1, <1>5, <2>2
    DEF TypeOK, DispatchTypeOK, SkipItem, CatalogChanged
<1>6. CASE Backpressure(w)
  <2>1. /\ pc' \in [Workers -> PC]
        /\ \A v \in Workers : pc'[v] = "idle" <=> on'[v] = NoJob
        /\ UNCHANGED <<on, lease>>
    BY <1>6, MovesType DEF Backpressure, PC
  <2>2. DispatchTypeOK'
    BY <1>2, <1>6, DispatchTypes DEF TypeOK, Backpressure
  <2>3. QED
    BY <1>1, <1>6, <2>1, <2>2 DEF TypeOK, Backpressure, Touch
<1>7. QED BY <1>3, <1>4, <1>5, <1>6

\* A worker ends the transaction of an item.
LEMMA TypeCommits ==
  ASSUME TypeOK, NEW w \in Workers, Told(on[w]), Applier(w),
         CommitCreate(w) \/ CommitMerge(w) \/ MergeChanged(w) \/ ItemFails(w)
  PROVE  TypeOK'
<1>1. left' \in [Disturbances -> Nat]
  BY Disturbing, Kinds
  DEF TypeOK, CommitCreate, CommitMerge, MergeChanged, ItemFails
<1>2. pc[w] = "item"
  BY DEF CommitCreate, CommitMerge, MergeChanged, ItemFails, Moves
<1>3. /\ pc' \in [Workers -> PC]
      /\ \A v \in Workers : pc'[v] = "idle" <=> on'[v] = NoJob
      /\ UNCHANGED <<on, lease>>
  BY MovesType DEF CommitCreate, CommitMerge, MergeChanged, ItemFails, PC
<1>4. \E outcome \in Settled : SettleItem(w, outcome)
  BY DEF CommitCreate, CommitMerge, MergeChanged, ItemFails, Settled
<1>5. /\ DOMAIN itemStatus' = Bundles
      /\ \A b \in Bundles :
           itemStatus'[b] \in [DOMAIN plan[b] -> Settled \cup {"planned"}]
      /\ pos' \in [Workers -> Nat]
      /\ moved' \in [Workers -> BOOLEAN]
  BY <1>2, <1>4, SettleType
<1>6. card' \in [Cards -> CardRows]
  <2>1. CASE CommitCreate(w)
    BY <2>1 DEF TypeOK, CardRows, CommitCreate
  <2>2. CASE CommitMerge(w)
    <3>0. PICK t : t = plan[on[w]][Item(w)].decision.target
      OBVIOUS
    <3>1. t \in Cards
      BY <1>2, <2>2, <3>0, ItemType DEF CommitMerge, Decisions
    <3>2. card[t] \in CardRows
      BY <3>1 DEF TypeOK
    <3>3. [card[t] EXCEPT !.version = @ + 1] \in CardRows
      BY <3>2 DEF CardRows
    <3>4. card' = [card EXCEPT ![t] = [card[t] EXCEPT !.version = @ + 1]]
      BY <2>2, <3>0 DEF CommitMerge
    <3>5. QED BY <3>3, <3>4 DEF TypeOK
  <2>3. CASE MergeChanged(w) \/ ItemFails(w)
    BY <2>3 DEF TypeOK, MergeChanged, ItemFails
  <2>4. QED BY <2>1, <2>2, <2>3
<1>7. link' \in [Identities -> Cards \cup {NoCard}]
  <2>1. CASE CommitCreate(w)
    <3>1. <<on[w], Item(w)>> \in Cards
      BY <1>2, ItemType DEF Cards
    <3>2. QED BY <2>1, <3>1 DEF TypeOK, CommitCreate, LinkItem
  <2>2. CASE CommitMerge(w)
    <3>1. plan[on[w]][Item(w)].decision.target \in Cards
      BY <1>2, <2>2, ItemType DEF CommitMerge, Decisions
    <3>2. QED BY <2>2, <3>1 DEF TypeOK, CommitMerge, LinkItem
  <2>3. CASE MergeChanged(w) \/ ItemFails(w)
    BY <2>3 DEF TypeOK, MergeChanged, ItemFails
  <2>4. QED BY <2>1, <2>2, <2>3
<1>8. reviewed' \in [Identities -> BOOLEAN]
  BY DEF TypeOK, CommitCreate, CommitMerge, MergeChanged, ItemFails, LinkItem
<1>9. UNCHANGED <<dispatchVars, status, phase, plan, confirmed, givingUp>>
  BY DEF CommitCreate, CommitMerge, MergeChanged, ItemFails
<1>10. QED
  BY <1>1, <1>3, <1>5, <1>6, <1>7, <1>8, <1>9 DEF TypeOK, DispatchTypeOK

\* A worker leaves its bundle, or loses its lock.
LEMMA TypeLeave ==
  ASSUME TypeOK, NEW w \in Workers,
         Unlock(w) \/ RecordFailure(w) \/ WorkerCrash(w) \/ LoseLease(w)
  PROVE  TypeOK'
<1>1. left' \in [Disturbances -> Nat]
  BY Disturbing, Kinds
  DEF TypeOK, Unlock, RecordFailure, WorkerCrash, LoseLease
<1>2. on[w] \in Bundles
  BY OnBundle DEF Unlock, RecordFailure, WorkerCrash, LoseLease
<1>3. CASE Unlock(w)
  <2>1. CASE Leave(w)
    BY <1>1, <1>3, <2>1, LeaveType DEF TypeOK, DispatchTypeOK, Unlock
  <2>2. CASE Goes(w, "done", "raising") /\ UNCHANGED pos
    <3>1. /\ pc' \in [Workers -> PC]
          /\ \A v \in Workers : pc'[v] = "idle" <=> on'[v] = NoJob
          /\ UNCHANGED <<on, lease, moved>>
      BY <2>2, MovesType DEF Goes, PC
    <3>2. QED BY <1>1, <1>3, <2>2, <3>1 DEF TypeOK, DispatchTypeOK, Unlock
  <2>3. QED BY <1>3, <2>1, <2>2 DEF Unlock
<1>4. CASE RecordFailure(w)
  <2>1. status' \in [Bundles -> Statuses]
    BY <1>4 DEF TypeOK, RecordFailure, Statuses
  <2>2. QED
    BY <1>1, <1>4, <2>1, LeaveType DEF TypeOK, DispatchTypeOK, RecordFailure
<1>5. CASE WorkerCrash(w)
  <2>1. DispatchTypeOK'
    BY <1>2, <1>5, DispatchTypes DEF TypeOK, DispatchTypeOK, WorkerCrash
  <2>2. QED BY <1>1, <1>5, <2>1, LeaveType DEF TypeOK, WorkerCrash
<1>6. CASE LoseLease(w)
  <2>1. lease' \in [Bundles -> Workers \cup {NoWorker}]
    BY <1>6 DEF TypeOK, LoseLease, Freed
  <2>2. QED BY <1>1, <1>6, <2>1 DEF TypeOK, DispatchTypeOK, LoseLease
<1>7. QED BY <1>3, <1>4, <1>5, <1>6

LEMMA TypeReconciler ==
  ASSUME TypeOK, NEW r \in Reconcilers,
         Reconcile(r) \/ Send(r) \/ BrokerRefuses(r)
  PROVE  TypeOK'
<1>1. left' \in [Disturbances -> Nat]
  BY Disturbing, Kinds
  DEF TypeOK, Reconcile, Send, Publish, BrokerRefuses, RecordDelivered,
      RecordRefused, StartGivingUp, GiveUp
<1>2. CASE Reconcile(r)
  <2>1. PICK lost \in SUBSET {b \in Bundles : Recoverable(b)} :
        \E due \in SUBSET {b \in Bundles : Claimable(b, lost) /\ DispatchFree(b)} :
          /\ RecoverAndClaim(r, lost, due)
          /\ status' = [b \in Bundles |->
                IF b \in lost /\ Exhausted(b) THEN "failed" ELSE status[b]]
          /\ Touch(lost)
          /\ UNCHANGED <<phase, plan, itemStatus, confirmed, catalogue, pc, on,
                         pos, lease, givingUp, left>>
    BY <1>2 DEF Reconcile
  <2>2. PICK due \in SUBSET {b \in Bundles : Claimable(b, lost) /\ DispatchFree(b)} :
          RecoverAndClaim(r, lost, due)
    BY <2>1
  <2>3. lost \in SUBSET Bundles
    OBVIOUS
  <2>4. DispatchTypeOK' /\ UNCHANGED refused
    BY <2>2, <2>3, ReconcileType DEF TypeOK, RecoverAndClaim
  <2>5. QED BY <1>1, <2>1, <2>4 DEF TypeOK, Touch, Statuses
<1>3. CASE Publish(r) \/ BrokerRefuses(r)
  <2>1. DispatchTypeOK'
    BY <1>3, DispatchTypes DEF TypeOK, DispatchTypeOK, Publish, BrokerRefuses
  <2>2. \A x \in Reconcilers : givingUp[x] => refused'[x] # NoJob
    BY <1>3, DispatchAssumption
    DEF TypeOK, DispatchTypeOK, Publish, BrokerRefuses, PublishIntent, RefuseIntent
  <2>3. QED BY <1>1, <1>3, <2>1, <2>2 DEF TypeOK, Publish, BrokerRefuses
<1>4. CASE RecordDelivered(r)
  <2>1. DispatchTypeOK' /\ UNCHANGED refused
    BY <1>4, DispatchTypes DEF TypeOK, RecordDelivered, MarkDelivered
  <2>2. QED BY <1>1, <1>4, <2>1 DEF TypeOK, RecordDelivered
<1>5. CASE RecordRefused(r)
  <2>1. DispatchTypeOK'
    BY <1>5
    DEF TypeOK, DispatchTypeOK, DispatchStatus, RecordRefused, MarkDeliveryFailed
  <2>2. ~ givingUp[r]
    BY <1>5 DEF TypeOK, DispatchTypeOK, RecordRefused, DispatchFree
  <2>3. \A x \in Reconcilers : givingUp[x] => refused'[x] # NoJob
    BY <1>5, <2>2 DEF TypeOK, DispatchTypeOK, RecordRefused, MarkDeliveryFailed
  <2>4. QED BY <1>1, <1>5, <2>1, <2>3 DEF TypeOK, RecordRefused
<1>6. CASE StartGivingUp(r)
  BY <1>1, <1>6 DEF TypeOK, DispatchTypeOK, StartGivingUp
<1>7. CASE GiveUp(r)
  <2>1. DispatchTypeOK'
    BY <1>7, DispatchTypes DEF TypeOK, GiveUp
  <2>2. \A x \in Reconcilers : givingUp'[x] => refused'[x] # NoJob
    BY <1>7 DEF TypeOK, DispatchTypeOK, GiveUp, MarkDeliveryFailed
  <2>3. QED BY <1>1, <1>7, <2>1, <2>2 DEF TypeOK, GiveUp, Statuses
<1>8. QED BY <1>2, <1>3, <1>4, <1>5, <1>6, <1>7 DEF Send

-----------------------------------------------------------------------------
(* What bundles and workers have gone through.                             *)

LegacyInv ==
  /\ TypeOK
  /\ \A b \in Bundles : Told(b)
  /\ \A w \in Workers : Applier(w)

\* A step that changes no bundle, unless it ends bundles nobody has locked.
EndsFree ==
  /\ UNCHANGED <<phase, plan, itemStatus, confirmed>>
  /\ \A b \in Bundles :
       \/ status'[b] = status[b]
       \/ status'[b] \in {"failed", "cancelled"} /\ RowFree(b)

\* What other workers see of the step.
Others(w) ==
  \A v \in Workers \ {w} : pc'[v] = pc[v] /\ on'[v] = on[v] /\ pos'[v] = pos[v]

LEMMA EndsFreeTold ==
  ASSUME LegacyInv, EndsFree
  PROVE  \A b \in Bundles : Told(b)'
BY DEF LegacyInv, EndsFree, Told, IsPlan, IsProposal, Items

\* The story of a worker that goes on elsewhere.
LEMMA EndsFreeApplier ==
  ASSUME LegacyInv, EndsFree, NEW v \in Workers,
         pc'[v] = pc[v], on'[v] = on[v], pos'[v] = pos[v],
         \A u \in Workers : pc'[u] = "item" => pc[u] = "item"
  PROVE  Applier(v)'
<1>1. Applier(v) /\ Item(v)' = Item(v)
  BY DEF LegacyInv, Item
<1>2. CASE pc[v] = "idle"
  BY <1>2 DEF Applier
<1>3. CASE pc[v] # "idle"
  <2>1. on[v] \in Bundles
    BY <1>3, OnBundle DEF LegacyInv
  <2>2. phase'[on[v]] = phase[on[v]]
    BY DEF EndsFree
  <2>3. pc[v] = "item" => status'[on[v]] = status[on[v]]
    BY <2>1 DEF EndsFree, RowFree
  <2>4. QED BY <1>1, <2>2, <2>3 DEF Applier, EndsFree
<1>4. QED BY <1>2, <1>3

LEMMA StoryLeftAlone ==
  ASSUME LegacyInv, EndsFree, UNCHANGED <<pc, on, pos>>
  PROVE  (\A b \in Bundles : Told(b)') /\ (\A w \in Workers : Applier(w)')
BY EndsFreeTold, EndsFreeApplier

LEMMA StoryOneWorker ==
  ASSUME LegacyInv, EndsFree, NEW w \in Workers, Others(w), pc'[w] # "item",
         Applier(w)'
  PROVE  (\A b \in Bundles : Told(b)') /\ (\A v \in Workers : Applier(v)')
<1>1. \A u \in Workers : pc'[u] = "item" => pc[u] = "item"
  BY DEF Others
<1>2. \A v \in Workers \ {w} : Applier(v)'
  BY <1>1, EndsFreeApplier DEF Others
<1>3. QED BY <1>2, EndsFreeTold

LEMMA StoryAdministrator ==
  ASSUME LegacyInv, TypeOK', NEW b \in Bundles,
         \/ CreateBundle(b) \/ CompleteUpload(b) \/ StartAnalysis(b)
         \/ Decide(b) \/ ApplyBundle(b) \/ CancelBundle(b) \/ RetryBundle(b)
  PROVE  (\A c \in Bundles : Told(c)') /\ (\A w \in Workers : Applier(w)')
<1>1. CASE CancelBundle(b)
  <2>1. EndsFree
    BY <1>1 DEF LegacyInv, TypeOK, CancelBundle, EndsFree
  <2>2. QED BY <1>1, <2>1, StoryLeftAlone DEF CancelBundle
<1>2. ASSUME ~ CancelBundle(b)
      PROVE  (\A c \in Bundles : Told(c)') /\ (\A w \in Workers : Applier(w)')
  <2>1. UNCHANGED <<pc, on, pos>>
    BY <1>2
    DEF CreateBundle, CompleteUpload, StartAnalysis, Decide, ApplyBundle, RetryBundle
  <2>2. \A c \in Bundles \ {b} :
          /\ status'[c] = status[c] /\ phase'[c] = phase[c]
          /\ plan'[c] = plan[c] /\ confirmed'[c] = confirmed[c]
          /\ itemStatus'[c] = itemStatus[c]
    <3>1. CASE Decide(b)
      BY <3>1 DEF LegacyInv, TypeOK, Decide
    <3>2. CASE RetryBundle(b)
      BY <3>2 DEF LegacyInv, TypeOK, RetryBundle
    <3>3. QED
      BY <1>2, <3>1, <3>2
      DEF LegacyInv, TypeOK, CreateBundle, CompleteUpload, StartAnalysis, ApplyBundle
  <2>3. \A c \in Bundles \ {b} : Told(c)'
    BY <2>2 DEF LegacyInv, Told
  <2>4. Told(b)'
    <3>1. Told(b) /\ TypeOK
      BY DEF LegacyInv
    <3>2. CASE CreateBundle(b) \/ CompleteUpload(b) \/ StartAnalysis(b)
      BY <3>1, <3>2
      DEF TypeOK, Told, CreateBundle, CompleteUpload, StartAnalysis
    <3>3. CASE Decide(b)
      <4>1. status[b] = "ready" /\ phase[b] = "analysis" /\ IsPlan(b, plan[b])
        BY <3>1, <3>3 DEF Decide, Decidable, Told
      <4>2. UNCHANGED <<status, phase>> /\ DOMAIN plan'[b] = DOMAIN plan[b]
        BY <3>1, <3>3 DEF Decide, TypeOK
      <4>3. IsPlan(b, plan'[b])
        <5>1. PICK i \in Items(b) : TRUE
          BY <3>3 DEF Decide
        <5>2. DOMAIN plan'[b] # {}
          BY <4>1, <4>2, <5>1 DEF IsPlan
        <5>3. QED BY <5>2, NothingPlanned DEF TypeOK
      <4>4. \A i \in DOMAIN itemStatus'[b] : itemStatus'[b][i] # "applied"
        <5>1. \A i \in DOMAIN itemStatus[b] : itemStatus[b][i] # "applied"
          BY <3>1, <4>1 DEF Told
        <5>2. PICK i \in Items(b) :
                itemStatus' = [itemStatus EXCEPT ![b][i] = "planned"]
          BY <3>3 DEF Decide
        <5>3. QED BY <3>1, <5>1, <5>2 DEF TypeOK
      <4>5. QED BY <4>1, <4>2, <4>3, <4>4 DEF Told
    <3>4. CASE ApplyBundle(b)
      BY <3>1, <3>4 DEF TypeOK, Told, ApplyBundle
    <3>5. CASE RetryBundle(b)
      <4>1. CASE phase[b] = "apply"
        BY <3>1, <3>5, <4>1 DEF TypeOK, Told, RetryBundle
      <4>2. CASE phase[b] = "analysis"
        <5>1. itemStatus'[b] = [i \in DOMAIN itemStatus[b] |-> itemStatus[b][i]]
          BY <3>1, <3>5, <4>2 DEF TypeOK, RetryBundle
        <5>2. QED BY <3>1, <3>5, <4>2, <5>1 DEF TypeOK, Told, RetryBundle
      <4>3. QED BY <3>1, <4>1, <4>2 DEF TypeOK
    <3>6. QED BY <1>2, <3>2, <3>3, <3>4, <3>5
  <2>5. \A w \in Workers : Applier(w)'
    <3>1. status[b] # "applying" \/ RowFree(b)
      BY <1>2
      DEF CreateBundle, CompleteUpload, StartAnalysis, Decide, ApplyBundle, RetryBundle
    <3>2. phase[b] = "apply" => phase'[b] = "apply"
      BY <1>2
      DEF LegacyInv, TypeOK, CreateBundle, CompleteUpload, StartAnalysis, Decide,
          ApplyBundle, RetryBundle
    <3>3. SUFFICES ASSUME NEW w \in Workers
                   PROVE  Applier(w)'
      OBVIOUS
    <3>4. Applier(w) /\ Item(w)' = Item(w)
      BY <2>1 DEF LegacyInv, Item
    <3>5. pc[w] = "item" => on[w] \in Bundles \ {b}
      BY <3>1, <3>4, OnBundle DEF LegacyInv, Applier, RowFree
    <3>6. pc[w] # "idle" => on[w] \in Bundles
      BY OnBundle DEF LegacyInv
    <3>7. QED BY <2>1, <2>2, <3>2, <3>4, <3>5, <3>6 DEF Applier
  <2>6. QED BY <2>3, <2>4, <2>5
<1>3. QED BY <1>1, <1>2

\* A worker begins, goes on or ends without touching an item.
LEMMA StoryMoves ==
  ASSUME LegacyInv, TypeOK', NEW w \in Workers,
         \/ \E b \in Bundles : Deliver(w, b)
         \/ AnalysedTwice(w) \/ CheckPlan(w) \/ WorkFails(w) \/ Stop(w)
         \/ PassItem(w) \/ Backpressure(w) \/ Unlock(w) \/ RecordFailure(w)
         \/ WorkerCrash(w) \/ LoseLease(w)
  PROVE  (\A b \in Bundles : Told(b)') /\ (\A v \in Workers : Applier(v)')
<1> USE DEF Goes, Moves
<1>1. TypeOK /\ Applier(w)
  BY DEF LegacyInv
<1>2. EndsFree
  <2>1. CASE RecordFailure(w)
    <3>1. on[w] \in Bundles
      BY <1>1, <2>1, OnBundle DEF RecordFailure
    <3>2. QED BY <1>1, <2>1, <3>1 DEF TypeOK, RecordFailure, EndsFree
  <2>2. QED
    BY <2>1
    DEF EndsFree, Deliver, TurnAway, Take, AnalysedTwice, CheckPlan, WorkFails,
        Stop, PassItem, Backpressure, Unlock, WorkerCrash, LoseLease
<1>3. CASE \/ \E b \in Bundles : TurnAway(w, b)
           \/ LoseLease(w)
  BY <1>2, <1>3, StoryLeftAlone DEF TurnAway, LoseLease
<1>4. ASSUME NEW b \in Bundles, Take(w, b)
      PROVE  Others(w) /\ pc'[w] # "item" /\ Applier(w)'
  <2>1. Others(w) /\ on'[w] = b /\ UNCHANGED <<status, phase, pos>>
    BY <1>1, <1>4 DEF TypeOK, Others, Take
  <2>2. pc'[w] = IF phase[b] = "analysis" THEN "analysing" ELSE "checking"
    BY <1>1, <1>4 DEF TypeOK, Take
  <2>3. QED BY <1>1, <2>1, <2>2 DEF TypeOK, Applier
<1>5. CASE AnalysedTwice(w) \/ CheckPlan(w) \/ WorkFails(w) \/ Stop(w)
           \/ Backpressure(w)
  <2>1. Others(w) /\ UNCHANGED <<on, phase>>
    BY <1>1, <1>5
    DEF TypeOK, Others, AnalysedTwice, CheckPlan, WorkFails, Stop, Backpressure
  <2>2. \/ pc'[w] \in {"raising", "done"}
        \/ pc[w] = "checking" /\ pc'[w] = "working" /\ pos'[w] = 1
    BY <1>1, <1>5
    DEF TypeOK, AnalysedTwice, CheckPlan, WorkFails, Stop, Backpressure
  <2>3. pc'[w] # "item" /\ Applier(w)'
    BY <1>1, <2>1, <2>2 DEF Applier
  <2>4. QED BY <1>2, <2>1, <2>3, StoryOneWorker
<1>6. CASE PassItem(w)
  <2>1. Others(w) /\ pc[w] = "working" /\ UNCHANGED <<pc, on, phase>>
    BY <1>1, <1>6 DEF TypeOK, Others, PassItem, AtItem
  <2>2. pos'[w] = pos[w] + 1 /\ pos[w] \in Nat
    BY <1>1, <1>6 DEF TypeOK, PassItem
  <2>3. pc'[w] # "item" /\ Applier(w)'
    BY <1>1, <2>1, <2>2 DEF Applier
  <2>4. QED BY <1>2, <2>1, <2>3, StoryOneWorker
<1>7. CASE Unlock(w) \/ RecordFailure(w) \/ WorkerCrash(w)
  <2>1. Others(w) /\ pc'[w] \in {"idle", "raising"}
    BY <1>1, <1>7 DEF TypeOK, Others, Unlock, RecordFailure, WorkerCrash, Leave
  <2>2. pc'[w] # "item" /\ Applier(w)'
    BY <2>1 DEF Applier
  <2>3. QED BY <1>2, <2>1, <2>2, StoryOneWorker
<1>8. QED
  BY <1>2, <1>3, <1>4, <1>5, <1>6, <1>7, StoryOneWorker DEF Deliver

LEMMA StoryAnalysis ==
  ASSUME LegacyInv, TypeOK', NEW w \in Workers, SaveAnalysis(w)
  PROVE  (\A b \in Bundles : Told(b)') /\ (\A v \in Workers : Applier(v)')
<1>1. TypeOK /\ on[w] \in Bundles
  BY OnBundle DEF LegacyInv, SaveAnalysis, Goes, Moves
<1>2. Others(w) /\ pc'[w] = "done" /\ UNCHANGED <<on, pos, phase, confirmed>>
  BY <1>1 DEF TypeOK, Others, SaveAnalysis, Goes, Moves
<1>3. Applier(w)'
  BY <1>2 DEF Applier
<1>4. CASE status[on[w]] # "analyzing"
  <2>1. EndsFree
    BY <1>4 DEF EndsFree, SaveAnalysis
  <2>2. QED BY <1>2, <1>3, <2>1, StoryOneWorker
<1>5. CASE status[on[w]] = "analyzing"
  <2>0. PICK b \in Bundles : b = on[w]
    BY <1>1
  <2>1. \A c \in Bundles \ {b} :
          status'[c] = status[c] /\ plan'[c] = plan[c] /\ itemStatus'[c] = itemStatus[c]
    BY <1>1, <1>5, <2>0 DEF TypeOK, SaveAnalysis
  <2>2. \A c \in Bundles \ {b} : Told(c)'
    BY <1>2, <2>1 DEF LegacyInv, Told
  <2>3. /\ status'[b] = "ready" /\ phase[b] = "analysis"
        /\ plan'[b] = [i \in Items(b) |-> Proposal(i)]
        /\ \A i \in DOMAIN itemStatus'[b] : itemStatus'[b][i] # "applied"
    <3>1. Told(b)
      BY DEF LegacyInv
    <3>2. status'[b] = "ready" /\ plan'[b] = [i \in Items(b) |-> Proposal(i)]
      BY <1>1, <1>5, <2>0 DEF TypeOK, SaveAnalysis
    <3>3. itemStatus'[b] =
            [i \in Items(b) |->
               IF [j \in Items(b) |-> Proposal(j)][i].decision.kind = "review"
               THEN "needs_review" ELSE "planned"]
      BY <1>1, <1>5, <2>0 DEF TypeOK, SaveAnalysis
    <3>4. QED BY <1>5, <2>0, <3>1, <3>2, <3>3 DEF Told
  <2>4. IsPlan(b, plan'[b])
    BY <1>1, <2>3, ProposalType DEF IsPlan, TypeOK
  <2>5. Told(b)'
    BY <1>2, <2>3, <2>4 DEF Told
  <2>6. ASSUME NEW v \in Workers \ {w}
        PROVE  Applier(v)'
    <3>1. Applier(v) /\ Item(v)' = Item(v) /\ pc'[v] = pc[v]
      BY <1>2 DEF LegacyInv, Others, Item
    <3>2. pc[v] # "idle" => on[v] \in Bundles
      BY OnBundle DEF LegacyInv
    <3>3. pc[v] = "item" => on[v] # b
      BY <3>1, <1>5, <2>0 DEF Applier
    <3>4. pc[v] = "item" => /\ status'[on[v]] = status[on[v]]
                             /\ itemStatus'[on[v]] = itemStatus[on[v]]
      BY <2>1, <3>2, <3>3
    <3>5. on'[v] = on[v] /\ pos'[v] = pos[v]
          /\ \A u \in Workers : pc'[u] = "item" => pc[u] = "item"
      BY <1>2 DEF Others
    <3>6. QED BY <1>2, <3>1, <3>4, <3>5 DEF Applier
  <2>7. QED BY <1>3, <2>2, <2>5, <2>6
<1>6. QED BY <1>4, <1>5

\* One bundle is completed.
LEMMA StoryCompletes ==
  ASSUME LegacyInv, TypeOK', NEW w \in Workers, CompleteBundle(w)
  PROVE  (\A b \in Bundles : Told(b)') /\ (\A v \in Workers : Applier(v)')
<1>1. TypeOK /\ on[w] \in Bundles /\ pc[w] = "working"
  BY OnBundle DEF LegacyInv, CompleteBundle, Goes, Moves
<1>2. Others(w) /\ pc'[w] = "done" /\ UNCHANGED <<on, pos, phase, confirmed>>
  BY <1>1 DEF TypeOK, Others, CompleteBundle, Goes, Moves
<1>3. /\ UNCHANGED <<plan, itemStatus>>
      /\ \A c \in Bundles \ {on[w]} : status'[c] = status[c]
      /\ status'[on[w]] = (IF status[on[w]] = "applying" THEN "completed"
                           ELSE status[on[w]])
      /\ RowFree(on[w])
  BY <1>1 DEF TypeOK, CompleteBundle
<1>4. phase[on[w]] = "apply"
  BY <1>1 DEF LegacyInv, Applier
<1>5. \A c \in Bundles : Told(c)'
  BY <1>2, <1>3, <1>4 DEF LegacyInv, Told, IsPlan, IsProposal, Items
<1>6. ASSUME NEW v \in Workers \ {w}
      PROVE  Applier(v)'
  <2>1. Applier(v) /\ Item(v)' = Item(v) /\ pc'[v] = pc[v]
    BY <1>2 DEF LegacyInv, Others, Item
  <2>2. pc[v] # "idle" => on[v] \in Bundles
    BY OnBundle DEF LegacyInv
  <2>3. pc[v] = "item" => on[v] # on[w]
    BY <1>3 DEF RowFree
  <2>4. QED BY <1>2, <1>3, <2>1, <2>2, <2>3 DEF Applier, Others
<1>7. Applier(w)'
  BY <1>2 DEF Applier
<1>8. QED BY <1>5, <1>6, <1>7

\* A worker that settles the item it has come to.
LEMMA StorySettles ==
  ASSUME LegacyInv, TypeOK', NEW w \in Workers,
         NEW outcome \in Settled, SettleItem(w, outcome),
         pc[w] = "item" \/ (pc[w] = "working" /\ NobodyApplies),
         pc' = [pc EXCEPT ![w] = "working"],
         UNCHANGED <<on, status, phase, plan, confirmed>>
  PROVE  (\A b \in Bundles : Told(b)') /\ (\A v \in Workers : Applier(v)')
<1>1. TypeOK /\ on[w] \in Bundles /\ Applier(w)
  BY OnBundle DEF LegacyInv
<1>2. /\ \A b \in Bundles \ {on[w]} : itemStatus'[b] = itemStatus[b]
      /\ pos' = [pos EXCEPT ![w] = pos[w] + 1]
  BY <1>1, SettleType
<1>3. phase[on[w]] = "apply"
  BY <1>1 DEF Applier
<1>4. \A b \in Bundles : Told(b)'
  BY <1>2, <1>3 DEF LegacyInv, Told, IsPlan, IsProposal, Items
<1>5. pos[w] \in Nat /\ pos'[w] = pos[w] + 1 /\ pc'[w] = "working"
  BY <1>1, <1>2 DEF TypeOK
<1>6. Applier(w)'
  BY <1>1, <1>3, <1>5 DEF Applier
<1>7. ASSUME NEW v \in Workers \ {w}
      PROVE  Applier(v)'
  <2>1. pc[v] # "item"
    BY <1>1 DEF Applier, NobodyApplies
  <2>2. pc'[v] = pc[v] /\ on'[v] = on[v] /\ pos'[v] = pos[v]
    BY <1>1, <1>2 DEF TypeOK
  <2>3. Applier(v)
    BY DEF LegacyInv
  <2>4. QED BY <2>1, <2>2, <2>3 DEF Applier
<1>8. QED BY <1>4, <1>6, <1>7

LEMMA StoryItems ==
  ASSUME LegacyInv, TypeOK', NEW w \in Workers,
         \/ SkipItem(w) \/ CatalogChanged(w) \/ StartItem(w)
         \/ CommitCreate(w) \/ CommitMerge(w) \/ MergeChanged(w) \/ ItemFails(w)
  PROVE  (\A b \in Bundles : Told(b)') /\ (\A v \in Workers : Applier(v)')
<1>1. TypeOK /\ Applier(w)
  BY DEF LegacyInv
<1>2. CASE SkipItem(w) \/ CatalogChanged(w)
  <2>1. \E outcome \in Settled : SettleItem(w, outcome)
    BY <1>2 DEF SkipItem, CatalogChanged, Settled
  <2>2. pc[w] = "working" /\ NobodyApplies
        /\ UNCHANGED <<pc, on, status, phase, plan, confirmed>>
    BY <1>2 DEF SkipItem, CatalogChanged, Applicable, AtItem
  <2>3. pc' = [pc EXCEPT ![w] = "working"]
    BY <1>1, <2>2 DEF TypeOK
  <2>4. QED BY <2>1, <2>2, <2>3, StorySettles
<1>3. CASE CommitCreate(w) \/ CommitMerge(w) \/ MergeChanged(w) \/ ItemFails(w)
  <2>1. \E outcome \in Settled : SettleItem(w, outcome)
    BY <1>3 DEF CommitCreate, CommitMerge, MergeChanged, ItemFails, Settled
  <2>2. /\ pc[w] = "item" /\ pc' = [pc EXCEPT ![w] = "working"]
        /\ UNCHANGED <<on, status, phase, plan, confirmed>>
    BY <1>3 DEF CommitCreate, CommitMerge, MergeChanged, ItemFails, Moves
  <2>3. QED BY <2>1, <2>2, StorySettles
<1>4. CASE StartItem(w)
  <2>1. Others(w) /\ pc'[w] = "item" /\ UNCHANGED <<on, pos, bundleRows>>
    BY <1>1, <1>4 DEF TypeOK, Others, StartItem, Goes, Moves
  <2>2. EndsFree
    BY <2>1 DEF EndsFree
  <2>3. Applier(w)'
    <3>1. Item(w)' = Item(w)
      BY <2>1 DEF Item
    <3>2. /\ pc[w] = "working" /\ status[on[w]] = "applying"
          /\ pos[w] <= Len(Contents[on[w]])
          /\ itemStatus[on[w]][Item(w)] = "planned"
          /\ \A v \in Workers : pc[v] # "item"
      BY <1>4 DEF StartItem, Applicable, AtItem, NobodyApplies
    <3>3. \A v \in Workers : pc'[v] = "item" => v = w
      BY <2>1, <3>2 DEF Others
    <3>4. QED BY <1>1, <2>1, <3>1, <3>2, <3>3 DEF Applier
  <2>4. ASSUME NEW v \in Workers \ {w}
        PROVE  Applier(v)'
    <3>1. pc[v] # "item"
      BY <1>4 DEF StartItem, NobodyApplies
    <3>2. pc'[v] = pc[v] /\ on'[v] = on[v] /\ pos'[v] = pos[v] /\ Applier(v)
      BY <2>1 DEF Others, LegacyInv
    <3>3. QED BY <2>1, <3>1, <3>2 DEF Applier
  <2>5. QED BY <2>2, <2>3, <2>4, EndsFreeTold
<1>5. QED BY <1>2, <1>3, <1>4

LEMMA StoryReconciler ==
  ASSUME LegacyInv, NEW r \in Reconcilers,
         Reconcile(r) \/ Send(r) \/ BrokerRefuses(r)
  PROVE  (\A b \in Bundles : Told(b)') /\ (\A w \in Workers : Applier(w)')
<1>1. UNCHANGED <<pc, on, pos>>
  BY DEF Reconcile, Send, Publish, BrokerRefuses, RecordDelivered, RecordRefused,
         StartGivingUp, GiveUp
<1>2. EndsFree
  <2>1. CASE Reconcile(r)
    <3>1. PICK lost \in SUBSET {b \in Bundles : Recoverable(b)} :
            /\ status' = [b \in Bundles |->
                  IF b \in lost /\ Exhausted(b) THEN "failed" ELSE status[b]]
            /\ UNCHANGED <<phase, plan, itemStatus, confirmed>>
      BY <2>1 DEF Reconcile
    <3>2. \A b \in lost : RowFree(b)
      BY DEF Recoverable
    <3>3. QED BY <3>1, <3>2 DEF EndsFree
  <2>2. CASE GiveUp(r)
    BY <2>2 DEF LegacyInv, TypeOK, GiveUp, EndsFree
  <2>3. QED
    BY <2>1, <2>2
    DEF EndsFree, Send, Publish, BrokerRefuses, RecordDelivered, RecordRefused,
        StartGivingUp
<1>3. QED BY <1>1, <1>2, StoryLeftAlone

LEMMA LegacyInit == Init => LegacyInv
BY TypeInit, NothingPlanned DEF Init, LegacyInv, Told, Applier

LEMMA LegacyStep ==
  ASSUME LegacyInv, [Next]_vars
  PROVE  LegacyInv'
<1> USE DEF LegacyInv
<1>1. CASE UNCHANGED vars
  <2>1. TypeOK'
    BY <1>1 DEF vars, TypeOK, DispatchTypeOK
  <2>2. EndsFree /\ UNCHANGED <<pc, on, pos>>
    BY <1>1 DEF vars, EndsFree
  <2>3. QED BY <2>1, <2>2, StoryLeftAlone
<1>2. ASSUME NEW b \in Bundles,
             \/ CreateBundle(b) \/ CompleteUpload(b) \/ StartAnalysis(b)
             \/ Decide(b) \/ ApplyBundle(b) \/ CancelBundle(b) \/ RetryBundle(b)
      PROVE  LegacyInv'
  BY <1>2, TypeAdministrator, StoryAdministrator
<1>3. ASSUME NEW c \in Cards, ReviewLicense(c) \/ EditCard(c) \/ PublishCard(c)
      PROVE  LegacyInv'
  <2>1. EndsFree /\ UNCHANGED <<pc, on, pos>>
    BY <1>3 DEF EndsFree, ReviewLicense, EditCard, PublishCard
  <2>2. QED BY <1>3, <2>1, TypeEditors, StoryLeftAlone
<1>4. ASSUME NEW w \in Workers, Work(w) \/ Misfortune(w)
      PROVE  LegacyInv'
  <2>1. pc[w] = "item" => Told(on[w])
    BY OnBundle
  <2>2. CASE SaveAnalysis(w)
    BY <2>2, TypeAnalysis, StoryAnalysis
  <2>3. CASE AnalysedTwice(w) \/ CheckPlan(w) \/ WorkFails(w)
    BY <2>3, TypeAnalysis, StoryMoves
  <2>4. CASE Stop(w) \/ PassItem(w) \/ Backpressure(w)
    BY <2>4, TypeAtItems, StoryMoves
  <2>5. CASE SkipItem(w) \/ CatalogChanged(w) \/ StartItem(w)
    BY <2>5, TypeAtItems, StoryItems
  <2>6. CASE CommitCreate(w) \/ CommitMerge(w) \/ MergeChanged(w) \/ ItemFails(w)
    <3>1. pc[w] = "item"
      BY <2>6 DEF CommitCreate, CommitMerge, MergeChanged, ItemFails, Moves
    <3>2. QED BY <2>1, <2>6, <3>1, TypeCommits, StoryItems
  <2>7. CASE CompleteBundle(w)
    BY <2>7, TypeAtItems, StoryCompletes
  <2>8. CASE Unlock(w) \/ RecordFailure(w) \/ WorkerCrash(w) \/ LoseLease(w)
    BY <2>8, TypeLeave, StoryMoves
  <2>9. QED
    BY <1>4, <2>2, <2>3, <2>4, <2>5, <2>6, <2>7, <2>8 DEF Work, Apply, Misfortune
<1>5. ASSUME NEW w \in Workers, NEW b \in Bundles, Deliver(w, b)
      PROVE  LegacyInv'
  BY <1>5, TypeDeliver, StoryMoves
<1>6. ASSUME NEW r \in Reconcilers, Reconcile(r) \/ Send(r) \/ BrokerRefuses(r)
      PROVE  LegacyInv'
  BY <1>6, TypeReconciler, StoryReconciler
<1>7. ASSUME NEW b \in Bundles, LoseMessage(b)
      PROVE  LegacyInv'
  <2>1. EndsFree /\ UNCHANGED <<pc, on, pos>>
    BY <1>7 DEF EndsFree, LoseMessage
  <2>2. left' \in [Disturbances -> Nat]
    BY <1>7, Disturbing, Kinds DEF TypeOK, LoseMessage
  <2>3. DispatchTypeOK'
    BY <1>7, DispatchTypes DEF TypeOK, LoseMessage
  <2>4. TypeOK'
    BY <1>7, <2>2, <2>3 DEF TypeOK, LoseMessage
  <2>5. QED BY <2>1, <2>4, StoryLeftAlone
<1>8. QED
  BY <1>1, <1>2, <1>3, <1>4, <1>5, <1>6, <1>7 DEF Next, Administrator

LEMMA LegacyAlways == Spec => []LegacyInv
BY LegacyInit, LegacyStep, PTL DEF Spec

\* Types of the rows and of the workers, whatever goes wrong (TypeOK of the
\* variables that stand for legacy_bundles, legacy_items and the workers).
THEOREM Types == Spec => []TypeOK
BY LegacyAlways, PTL DEF LegacyInv

-----------------------------------------------------------------------------
(* What a step does to items, links and cards.                             *)

Commits(w) == CommitCreate(w) \/ CommitMerge(w)

\* A plan being applied stays as it is.
PlansStay ==
  \A b \in Bundles :
    phase[b] = "apply" => phase'[b] = "apply" /\ plan'[b] = plan[b]

\* An applied item stays applied; a commit is what applies one.
AppliedStays ==
  \A b \in Bundles : \A i \in DOMAIN itemStatus[b] :
    itemStatus[b][i] = "applied" =>
      i \in DOMAIN itemStatus'[b] /\ itemStatus'[b][i] = "applied"

CommitsApply ==
  \A b \in Bundles : \A i \in DOMAIN itemStatus'[b] :
    itemStatus'[b][i] = "applied" =>
      \/ i \in DOMAIN itemStatus[b] /\ itemStatus[b][i] = "applied"
      \/ \E w \in Workers : Commits(w) /\ on[w] = b /\ Item(w) = i

\* A link is never turned to another card; a commit is what makes the card of
\* an item.
LinksStay ==
  \A i \in Identities : link[i] # NoCard => link'[i] = link[i]

CommitsMake ==
  \A b \in Bundles, i \in Identities :
    Exists(<<b, i>>)' =>
      \/ Exists(<<b, i>>)
      \/ \E w \in Workers : CommitCreate(w) /\ on[w] = b /\ Item(w) = i

Effects == PlansStay /\ AppliedStays /\ CommitsApply /\ LinksStay /\ CommitsMake

LEMMA QuietEffects ==
  ASSUME UNCHANGED <<plan, itemStatus, card, link>>, PlansStay
  PROVE  Effects
BY DEF Effects, AppliedStays, CommitsApply, LinksStay, CommitsMake, Exists

LEMMA AdministratorEffects ==
  ASSUME LegacyInv, NEW b \in Bundles,
         \/ CreateBundle(b) \/ CompleteUpload(b) \/ StartAnalysis(b)
         \/ Decide(b) \/ ApplyBundle(b) \/ CancelBundle(b) \/ RetryBundle(b)
  PROVE  Effects
<1>1. TypeOK /\ Told(b)
  BY DEF LegacyInv
<1>2. UNCHANGED <<card, link>>
  BY DEF CreateBundle, CompleteUpload, StartAnalysis, Decide, ApplyBundle,
         CancelBundle, RetryBundle
<1>3. LinksStay /\ CommitsMake
  BY <1>2 DEF LinksStay, CommitsMake, Exists
<1>4. CASE \/ CreateBundle(b) \/ CompleteUpload(b) \/ StartAnalysis(b)
           \/ ApplyBundle(b) \/ CancelBundle(b)
  <2>1. UNCHANGED <<plan, itemStatus>>
    BY <1>4
    DEF CreateBundle, CompleteUpload, StartAnalysis, ApplyBundle, CancelBundle
  <2>2. PlansStay
    BY <1>1, <1>4
    DEF TypeOK, PlansStay, CreateBundle, CompleteUpload, StartAnalysis,
        ApplyBundle, CancelBundle
  <2>3. QED BY <1>2, <2>1, <2>2, QuietEffects
<1>5. CASE Decide(b)
  <2>1. phase[b] = "analysis" /\ \A i \in DOMAIN itemStatus[b] : itemStatus[b][i] # "applied"
    BY <1>1, <1>5 DEF Decide, Decidable, Told
  <2>2. \E i \in Items(b) : \E d \in Choices(b, i) :
          /\ plan' = [plan EXCEPT ![b][i].decision = d]
          /\ itemStatus' = [itemStatus EXCEPT ![b][i] = "planned"]
    BY <1>5 DEF Decide
  <2>3. \A c \in Bundles \ {b} : plan'[c] = plan[c] /\ itemStatus'[c] = itemStatus[c]
    BY <1>1, <2>2 DEF TypeOK
  <2>4. PlansStay
    BY <1>5, <2>1, <2>3 DEF PlansStay, Decide
  <2>5. \A j \in DOMAIN itemStatus'[b] : itemStatus'[b][j] # "applied"
    BY <1>1, <2>1, <2>2 DEF TypeOK
  <2>6. AppliedStays /\ CommitsApply
    BY <2>1, <2>3, <2>5 DEF AppliedStays, CommitsApply
  <2>7. QED BY <1>3, <2>4, <2>6 DEF Effects
<1>6. CASE RetryBundle(b)
  <2>1. /\ \A c \in Bundles \ {b} : itemStatus'[c] = itemStatus[c]
        /\ itemStatus'[b] =
             [i \in DOMAIN itemStatus[b] |->
                IF phase[b] = "apply" THEN Replanned(itemStatus[b][i])
                ELSE itemStatus[b][i]]
    BY <1>1, <1>6 DEF TypeOK, RetryBundle
  <2>2. /\ DOMAIN itemStatus'[b] = DOMAIN itemStatus[b]
        /\ \A i \in DOMAIN itemStatus[b] :
             itemStatus'[b][i] = "applied" <=> itemStatus[b][i] = "applied"
    BY <2>1 DEF Replanned
  <2>3. AppliedStays /\ CommitsApply
    BY <2>1, <2>2 DEF AppliedStays, CommitsApply
  <2>4. PlansStay
    BY <1>6 DEF PlansStay, RetryBundle
  <2>5. QED BY <1>3, <2>3, <2>4 DEF Effects
<1>7. QED BY <1>4, <1>5, <1>6

LEMMA EditorEffects ==
  ASSUME LegacyInv, NEW c \in Cards, ReviewLicense(c) \/ EditCard(c) \/ PublishCard(c)
  PROVE  Effects
<1>1. TypeOK
  BY DEF LegacyInv
<1>2. UNCHANGED <<phase, plan, itemStatus, link>>
  BY DEF ReviewLicense, EditCard, PublishCard
<1>3. \A d \in Cards : Exists(d)' => Exists(d) \/ d \in ManualCards
  BY <1>1 DEF TypeOK, Exists, ReviewLicense, EditCard, PublishCard
<1>4. CommitsMake
  BY <1>3, LegacyAssumption DEF CommitsMake, Cards
<1>5. QED
  BY <1>2, <1>4 DEF Effects, PlansStay, AppliedStays, CommitsApply, LinksStay

\* What a worker's steps do to items and cards.
LEMMA SettleEffects ==
  ASSUME LegacyInv, NEW w \in Workers, pc[w] # "idle", NEW outcome \in Settled,
         SettleItem(w, outcome), itemStatus[on[w]][Item(w)] = "planned",
         outcome = "applied" => Commits(w),
         UNCHANGED <<phase, plan>>
  PROVE  PlansStay /\ AppliedStays /\ CommitsApply
<1>1. TypeOK /\ on[w] \in Bundles
  BY OnBundle DEF LegacyInv
<1>2. /\ \A b \in Bundles \ {on[w]} : itemStatus'[b] = itemStatus[b]
      /\ itemStatus'[on[w]] = [itemStatus[on[w]] EXCEPT ![Item(w)] = outcome]
  BY <1>1, SettleType
<1>3. \A i \in DOMAIN itemStatus[on[w]] :
        itemStatus'[on[w]][i] = IF i = Item(w) THEN outcome ELSE itemStatus[on[w]][i]
  BY <1>2
<1>4. AppliedStays
  BY <1>2, <1>3 DEF AppliedStays
<1>5. CommitsApply
  BY <1>1, <1>2, <1>3 DEF CommitsApply
<1>6. QED BY <1>4, <1>5 DEF PlansStay

LEMMA CommitEffects ==
  ASSUME LegacyInv, NEW w \in Workers, Commits(w)
  PROVE  /\ on[w] \in Bundles /\ Item(w) \in Items(on[w]) /\ Item(w) \in Identities
         /\ phase[on[w]] = "apply" /\ IsPlan(on[w], plan[on[w]])
         /\ itemStatus'[on[w]] = [itemStatus[on[w]] EXCEPT ![Item(w)] = "applied"]
         /\ DOMAIN itemStatus[on[w]] = Items(on[w])
         /\ UNCHANGED <<phase, plan>>
         /\ Effects
<1>1. TypeOK /\ Applier(w) /\ pc[w] = "item"
  BY DEF LegacyInv, Commits, CommitCreate, CommitMerge, Moves
<1>2. on[w] \in Bundles /\ Told(on[w])
  BY <1>1, OnBundle DEF LegacyInv
<1>3. /\ Item(w) \in Items(on[w]) /\ Item(w) \in Identities
      /\ IsPlan(on[w], plan[on[w]])
      /\ plan[on[w]][Item(w)].decision \in Decisions
  BY <1>1, <1>2, ItemType
<1>4. SettleItem(w, "applied") /\ UNCHANGED <<phase, plan>>
  BY DEF Commits, CommitCreate, CommitMerge
<1>5. "applied" \in Settled /\ itemStatus[on[w]][Item(w)] = "planned"
  BY <1>1 DEF Settled, Applier
<1>6. PlansStay /\ AppliedStays /\ CommitsApply
  BY <1>1, <1>4, <1>5, SettleEffects
<1>7. LinksStay
  BY <1>1 DEF TypeOK, LinksStay, Commits, CommitCreate, CommitMerge, LinkItem
<1>8. CommitsMake
  <2>1. CASE CommitCreate(w)
    BY <1>1, <2>1 DEF TypeOK, CommitsMake, CommitCreate, Exists, Cards
  <2>2. CASE CommitMerge(w)
    <3>1. PICK t : t = plan[on[w]][Item(w)].decision.target
      OBVIOUS
    <3>2. t \in Cards /\ card[t] \in CardRows
      BY <1>1, <1>3, <2>2, <3>1 DEF CommitMerge, Decisions, TypeOK
    <3>3. card' = [card EXCEPT ![t] = [card[t] EXCEPT !.version = @ + 1]]
      BY <2>2, <3>1 DEF CommitMerge
    <3>4. [card[t] EXCEPT !.version = @ + 1].status = card[t].status
      BY <3>2 DEF CardRows
    <3>5. \A c \in Cards : card'[c].status = card[c].status
      BY <1>1, <3>2, <3>3, <3>4 DEF TypeOK
    <3>6. QED BY <3>5 DEF CommitsMake, Exists, Cards
  <2>3. QED BY <2>1, <2>2 DEF Commits
<1>9. itemStatus'[on[w]] = [itemStatus[on[w]] EXCEPT ![Item(w)] = "applied"]
  BY <1>1, <1>4, <1>5, SettleType
<1>10. phase[on[w]] = "apply" /\ DOMAIN itemStatus[on[w]] = Items(on[w])
  BY <1>1, <1>2, <1>3 DEF Applier, TypeOK, IsPlan
<1>11. QED
  BY <1>2, <1>3, <1>4, <1>6, <1>7, <1>8, <1>9, <1>10 DEF Effects

LEMMA WorkerEffects ==
  ASSUME LegacyInv, NEW w \in Workers, Work(w) \/ Misfortune(w)
  PROVE  Effects
<1>1. TypeOK /\ Applier(w)
  BY DEF LegacyInv
<1>2. CASE CommitCreate(w) \/ CommitMerge(w)
  BY <1>2, CommitEffects DEF Commits
<1>3. CASE SkipItem(w) \/ CatalogChanged(w) \/ MergeChanged(w) \/ ItemFails(w)
  <2>1. \E outcome \in Settled \ {"applied"} : SettleItem(w, outcome)
    BY <1>3 DEF SkipItem, CatalogChanged, MergeChanged, ItemFails, Settled
  <2>2. pc[w] # "idle" /\ itemStatus[on[w]][Item(w)] = "planned"
    BY <1>1, <1>3
    DEF SkipItem, CatalogChanged, MergeChanged, ItemFails, Applicable, AtItem,
        Applier, Moves
  <2>3. UNCHANGED <<phase, plan, card, link>>
    BY <1>3 DEF SkipItem, CatalogChanged, MergeChanged, ItemFails
  <2>4. PlansStay /\ AppliedStays /\ CommitsApply
    BY <2>1, <2>2, <2>3, SettleEffects
  <2>5. QED BY <2>3, <2>4 DEF Effects, LinksStay, CommitsMake, Exists
<1>4. CASE SaveAnalysis(w)
  <2>1. UNCHANGED <<phase, card, link>> /\ on[w] \in Bundles
    BY <1>1, <1>4, OnBundle DEF SaveAnalysis, Goes, Moves
  <2>2. CASE status[on[w]] # "analyzing"
    BY <1>4, <2>1, <2>2, QuietEffects DEF SaveAnalysis, PlansStay
  <2>3. CASE status[on[w]] = "analyzing"
    <3>1. PICK b \in Bundles : b = on[w]
      BY <2>1
    <3>2. Told(b)
      BY DEF LegacyInv
    <3>3. \A c \in Bundles \ {b} : plan'[c] = plan[c] /\ itemStatus'[c] = itemStatus[c]
      BY <1>1, <1>4, <2>3, <3>1 DEF TypeOK, SaveAnalysis
    <3>4. PlansStay
      BY <2>1, <2>3, <3>1, <3>2, <3>3 DEF PlansStay, Told
    <3>5. itemStatus'[b] =
            [i \in Items(b) |->
               IF [j \in Items(b) |-> Proposal(j)][i].decision.kind = "review"
               THEN "needs_review" ELSE "planned"]
      BY <1>1, <1>4, <2>3, <3>1 DEF TypeOK, SaveAnalysis
    <3>6. \A i \in DOMAIN itemStatus'[b] : itemStatus'[b][i] # "applied"
      BY <3>5
    <3>7. \A i \in DOMAIN itemStatus[b] : itemStatus[b][i] # "applied"
      BY <2>3, <3>1, <3>2 DEF Told
    <3>8. AppliedStays /\ CommitsApply
      BY <3>3, <3>6, <3>7 DEF AppliedStays, CommitsApply
    <3>9. QED BY <2>1, <3>4, <3>8 DEF Effects, LinksStay, CommitsMake, Exists
  <2>4. QED BY <2>2, <2>3
<1>5. CASE \/ AnalysedTwice(w) \/ CheckPlan(w) \/ WorkFails(w) \/ Stop(w)
           \/ PassItem(w) \/ StartItem(w) \/ Backpressure(w) \/ CompleteBundle(w)
           \/ Unlock(w) \/ RecordFailure(w) \/ WorkerCrash(w) \/ LoseLease(w)
  <2>1. UNCHANGED <<phase, plan, itemStatus, card, link>>
    BY <1>5
    DEF AnalysedTwice, CheckPlan, WorkFails, Stop, PassItem, StartItem,
        Backpressure, CompleteBundle, Unlock, RecordFailure, WorkerCrash, LoseLease
  <2>2. QED BY <2>1, QuietEffects DEF PlansStay
<1>6. QED BY <1>2, <1>3, <1>4, <1>5 DEF Work, Apply, Misfortune

LEMMA StepEffects ==
  ASSUME LegacyInv, [Next]_vars
  PROVE  Effects
<1>1. CASE \/ UNCHANGED vars
           \/ \E w \in Workers, b \in Bundles : Deliver(w, b)
           \/ \E r \in Reconcilers : Reconcile(r) \/ Send(r) \/ BrokerRefuses(r)
           \/ \E b \in Bundles : LoseMessage(b)
  <2>1. UNCHANGED <<phase, plan, itemStatus, card, link>>
    BY <1>1
    DEF vars, Deliver, TurnAway, Take, Reconcile, Send, Publish, BrokerRefuses,
        RecordDelivered, RecordRefused, StartGivingUp, GiveUp, LoseMessage
  <2>2. QED BY <2>1, QuietEffects DEF PlansStay
<1>2. QED
  BY <1>1, AdministratorEffects, EditorEffects, WorkerEffects DEF Next, Administrator

-----------------------------------------------------------------------------
(* What is applied, and what comes of it.                                  *)

\* An applied item is linked to the card its decision says.
Applied(b) ==
  \A i \in DOMAIN itemStatus[b] : itemStatus[b][i] = "applied" =>
    /\ plan[b][i].decision.kind = "create" => link[i] = <<b, i>>
    /\ plan[b][i].decision.kind = "merge" => link[i] = plan[b][i].decision.target

\* The card of an item was made by applying it, and is the one it is linked to.
Made(b, i) ==
  Exists(<<b, i>>) =>
    /\ i \in DOMAIN itemStatus[b] /\ itemStatus[b][i] = "applied"
    /\ link[i] = <<b, i>>

RecordsInv ==
  /\ LegacyInv
  /\ \A b \in Bundles : Applied(b)
  /\ \A b \in Bundles, i \in Identities : Made(b, i)

\* An applied item belongs to a bundle whose confirmed plan is being applied.
LEMMA AppliedIsConfirmed ==
  ASSUME LegacyInv, NEW b \in Bundles, NEW i \in DOMAIN itemStatus[b],
         itemStatus[b][i] = "applied"
  PROVE  /\ phase[b] = "apply" /\ confirmed[b] = plan[b]
         /\ i \in Items(b) /\ i \in Identities
         /\ plan[b] # NoPlan
         /\ plan[b][i].decision \in Decisions
<1>1. TypeOK /\ Told(b)
  BY DEF LegacyInv
<1>2. phase[b] = "apply"
  BY <1>1 DEF TypeOK, Told
<1>3. confirmed[b] = plan[b] /\ IsPlan(b, plan[b])
  BY <1>1, <1>2 DEF Told
<1>4. DOMAIN itemStatus[b] = Items(b)
  BY <1>1, <1>3 DEF TypeOK, IsPlan
<1>5. IsProposal(plan[b][i]) /\ i \in Items(b) /\ DOMAIN plan[b] = Items(b)
  BY <1>3, <1>4 DEF IsPlan
<1>6. QED
  BY <1>2, <1>3, <1>5, ItemsAreIdentities, NothingPlanned DEF IsProposal

LEMMA AppliedStep ==
  ASSUME RecordsInv, LegacyInv', [Next]_vars, NEW b \in Bundles
  PROVE  Applied(b)'
<1>1. LegacyInv /\ Effects /\ Applied(b)
  BY StepEffects DEF RecordsInv
<1>2. SUFFICES ASSUME NEW i \in DOMAIN itemStatus'[b], itemStatus'[b][i] = "applied"
               PROVE
                 /\ plan'[b][i].decision.kind = "create" => link'[i] = <<b, i>>
                 /\ plan'[b][i].decision.kind = "merge" =>
                      link'[i] = plan'[b][i].decision.target
  BY DEF Applied
<1>3. CASE i \in DOMAIN itemStatus[b] /\ itemStatus[b][i] = "applied"
  <2>1. /\ phase[b] = "apply" /\ i \in Identities
        /\ plan[b][i].decision \in Decisions
    BY <1>1, <1>3, AppliedIsConfirmed
  <2>2. plan'[b] = plan[b]
    BY <1>1, <2>1 DEF Effects, PlansStay
  <2>3. CASE plan[b][i].decision.kind = "create"
    <3>1. link[i] = <<b, i>> /\ <<b, i>> \in Cards
      BY <1>1, <1>3, <2>1, <2>3 DEF Applied, Cards
    <3>2. link'[i] = link[i]
      BY <1>1, <2>1, <3>1, LegacyAssumption DEF Effects, LinksStay
    <3>3. QED BY <2>2, <2>3, <3>1, <3>2
  <2>4. CASE plan[b][i].decision.kind = "merge"
    <3>1. link[i] = plan[b][i].decision.target /\ plan[b][i].decision.target \in Cards
      BY <1>1, <1>3, <2>1, <2>4 DEF Applied, Decisions
    <3>2. link'[i] = link[i]
      BY <1>1, <2>1, <3>1, LegacyAssumption DEF Effects, LinksStay
    <3>3. QED BY <2>2, <2>4, <3>1, <3>2
  <2>5. QED BY <2>2, <2>3, <2>4
<1>4. CASE \E w \in Workers : Commits(w) /\ on[w] = b /\ Item(w) = i
  <2>1. PICK w \in Workers : Commits(w) /\ on[w] = b /\ Item(w) = i
    BY <1>4
  <2>2. i \in Identities /\ UNCHANGED plan
    BY <1>1, <2>1, CommitEffects
  <2>3. TypeOK
    BY <1>1 DEF LegacyInv
  <2>4. CASE CommitCreate(w)
    BY <2>1, <2>2, <2>3, <2>4 DEF TypeOK, CommitCreate, LinkItem
  <2>5. CASE CommitMerge(w)
    BY <2>1, <2>2, <2>3, <2>5 DEF TypeOK, CommitMerge, LinkItem
  <2>6. QED BY <2>1, <2>4, <2>5 DEF Commits
<1>5. QED BY <1>1, <1>2, <1>3, <1>4 DEF Effects, CommitsApply

LEMMA MadeStep ==
  ASSUME RecordsInv, LegacyInv', [Next]_vars, NEW b \in Bundles, NEW i \in Identities
  PROVE  Made(b, i)'
<1>1. LegacyInv /\ Effects /\ Made(b, i)
  BY StepEffects DEF RecordsInv
<1>2. CASE Exists(<<b, i>>)
  <2>1. /\ i \in DOMAIN itemStatus[b] /\ itemStatus[b][i] = "applied"
        /\ link[i] = <<b, i>>
    BY <1>1, <1>2 DEF Made
  <2>2. i \in DOMAIN itemStatus'[b] /\ itemStatus'[b][i] = "applied"
    BY <1>1, <2>1 DEF Effects, AppliedStays
  <2>3. <<b, i>> # NoCard
    BY LegacyAssumption DEF Cards
  <2>4. link'[i] = link[i]
    BY <1>1, <2>1, <2>3 DEF Effects, LinksStay
  <2>5. QED BY <2>1, <2>2, <2>4 DEF Made
<1>3. CASE \E w \in Workers : CommitCreate(w) /\ on[w] = b /\ Item(w) = i
  <2>1. PICK w \in Workers : CommitCreate(w) /\ on[w] = b /\ Item(w) = i
    BY <1>3
  <2>2. /\ i \in Items(b) /\ DOMAIN itemStatus[b] = Items(b)
        /\ itemStatus'[b] = [itemStatus[b] EXCEPT ![i] = "applied"]
    BY <1>1, <2>1, CommitEffects DEF Commits
  <2>3. link'[i] = <<b, i>>
    BY <1>1, <2>1 DEF LegacyInv, TypeOK, CommitCreate, LinkItem
  <2>4. QED BY <2>2, <2>3 DEF Made
<1>4. QED BY <1>1, <1>2, <1>3 DEF Effects, CommitsMake, Made

LEMMA RecordsAlways == Spec => []RecordsInv
<1>1. Init => RecordsInv
  <2>1. Init => \A b \in Bundles : Applied(b)
    BY NothingPlanned DEF Init, Applied
  <2>2. Init => \A b \in Bundles, i \in Identities : Made(b, i)
    BY DEF Init, Made, Exists, Cards
  <2>3. QED BY <2>1, <2>2, LegacyInit DEF RecordsInv
<1>2. RecordsInv /\ [Next]_vars => RecordsInv'
  <2>1. ASSUME RecordsInv, [Next]_vars
        PROVE  LegacyInv'
    BY <2>1, LegacyStep DEF RecordsInv
  <2>2. ASSUME RecordsInv, [Next]_vars
        PROVE  RecordsInv'
    BY <2>1, <2>2, AppliedStep, MadeStep DEF RecordsInv
  <2>3. QED BY <2>2
<1>3. QED BY <1>1, <1>2, PTL DEF Spec

\* What has been applied is what the administrator confirmed, over failures,
\* retries and two workers on one bundle (AppliedAsConfirmed).
THEOREM ConfirmedIsApplied == Spec => []AppliedAsConfirmed
<1>1. RecordsInv => AppliedAsConfirmed
  <2>1. SUFFICES ASSUME RecordsInv, NEW b \in Bundles, NEW i \in DOMAIN itemStatus[b],
                        itemStatus[b][i] = "applied"
                 PROVE
                   /\ confirmed[b] # NoPlan
                   /\ confirmed[b][i] = plan[b][i]
                   /\ plan[b][i].decision.kind = "create" => link[i] = <<b, i>>
                   /\ plan[b][i].decision.kind = "merge" =>
                        link[i] = plan[b][i].decision.target
    BY DEF AppliedAsConfirmed
  <2>2. confirmed[b] = plan[b] /\ plan[b] # NoPlan
    BY <2>1, AppliedIsConfirmed DEF RecordsInv
  <2>3. QED BY <2>1, <2>2 DEF RecordsInv, Applied
<1>2. QED BY <1>1, RecordsAlways, PTL

\* A set without two different elements.
LEMMA AtMostOne ==
  ASSUME NEW S, \A x, y \in S : x = y
  PROVE  Cardinality(S) <= 1
<1>1. CASE S = {}
  <2>1. Cardinality(S) = 0
    BY <1>1, FS_EmptySet
  <2>2. QED BY <2>1
<1>2. CASE S # {}
  <2>1. PICK x \in S : S = {x}
    BY <1>2
  <2>2. Cardinality(S) = 1
    BY <2>1, FS_Singleton
  <2>3. QED BY <2>2
<1>3. QED BY <1>1, <1>2

\* One identity of a workbook becomes at most one card, in however many
\* bundles it is imported (advisory lock 71842102, LegacySourceLink).
THEOREM OneCard == Spec => []OneCardPerIdentity
<1>1. RecordsInv => OneCardPerIdentity
  <2>1. SUFFICES ASSUME RecordsInv, NEW i \in Identities
                 PROVE  LET made == {b \in Bundles : Exists(<<b, i>>)} IN
                        /\ Cardinality(made) <= 1
                        /\ \A b \in made : link[i] = <<b, i>>
                                           /\ itemStatus[b][i] = "applied"
    BY DEF OneCardPerIdentity
  <2> DEFINE made == {b \in Bundles : Exists(<<b, i>>)}
  <2>2. \A b \in made : link[i] = <<b, i>> /\ itemStatus[b][i] = "applied"
    BY <2>1 DEF RecordsInv, Made
  <2>3. \A b, c \in made : b = c
    BY <2>2
  <2>4. Cardinality(made) <= 1
    BY <2>3, AtMostOne
  <2>5. QED BY <2>2, <2>4
<1>2. QED BY <1>1, RecordsAlways, PTL

\* No card is published while the licence of one of its sources is unreviewed,
\* though merges bring sources to drafts while editors publish
\* (NothingPublishedUnreviewed).
THEOREM PublishedIsReviewed == Spec => []NothingPublishedUnreviewed
<1> USE DEF NothingPublishedUnreviewed
<1>1. Init => NothingPublishedUnreviewed
  BY DEF Init
<1>2. LegacyInv /\ NothingPublishedUnreviewed /\ [Next]_vars
      => NothingPublishedUnreviewed'
  <2> SUFFICES ASSUME LegacyInv, NothingPublishedUnreviewed, [Next]_vars
               PROVE  NothingPublishedUnreviewed'
    OBVIOUS
  <2>1. TypeOK
    BY DEF LegacyInv
  <2>2. CASE UNCHANGED <<card, link, reviewed>>
    BY <2>2
  <2>3. ASSUME NEW c \in Cards, ReviewLicense(c)
        PROVE  NothingPublishedUnreviewed'
    BY <2>1, <2>3 DEF TypeOK, ReviewLicense
  <2>4. ASSUME NEW c \in Cards, EditCard(c)
        PROVE  NothingPublishedUnreviewed'
    <3>1. \A d \in Cards : card[d].status = "draft" => card'[d].status = "draft"
      BY <2>1, <2>4 DEF TypeOK, EditCard
    <3>2. QED BY <2>1, <2>4, <3>1 DEF TypeOK, EditCard
  <2>5. ASSUME NEW c \in Cards, PublishCard(c)
        PROVE  NothingPublishedUnreviewed'
    <3>1. \A d \in Cards \ {c} : card'[d] = card[d]
      BY <2>1, <2>5 DEF TypeOK, PublishCard
    <3>2. \A i \in Identities : link[i] = c => reviewed[i]
      BY <2>5 DEF PublishCard, Linked
    <3>3. QED BY <2>1, <2>5, <3>1, <3>2 DEF TypeOK, PublishCard
  <2>6. ASSUME NEW w \in Workers, CommitCreate(w)
        PROVE  NothingPublishedUnreviewed'
    <3>1. \A d \in Cards : card'[d] = card[d] \/ card'[d].status = "draft"
      BY <2>1, <2>6 DEF TypeOK, CommitCreate
    <3>2. Item(w) \in Identities /\ <<on[w], Item(w)>> \in Cards
      BY <2>6, CommitEffects DEF Commits, Cards
    <3>3. card'[<<on[w], Item(w)>>].status = "draft"
      BY <2>1, <2>6, <3>2 DEF TypeOK, CommitCreate
    <3>4. QED BY <2>1, <2>6, <3>1, <3>2, <3>3 DEF TypeOK, CommitCreate, LinkItem
  <2>7. ASSUME NEW w \in Workers, CommitMerge(w)
        PROVE  NothingPublishedUnreviewed'
    <3>1. PICK t : t = plan[on[w]][Item(w)].decision.target
      OBVIOUS
    <3>2. IsPlan(on[w], plan[on[w]]) /\ Item(w) \in Items(on[w]) /\ Item(w) \in Identities
      BY <2>7, CommitEffects DEF Commits
    <3>3. t \in Cards
      <4>1. plan[on[w]][Item(w)].decision \in Decisions
        BY <3>2 DEF IsPlan, IsProposal
      <4>2. QED BY <2>7, <3>1, <4>1 DEF CommitMerge, Decisions
    <3>4. card[t].status = "draft" /\ card[t] \in CardRows
      <4>1. \E v : card[t] = [status |-> "draft", version |-> v]
        BY <2>7, <3>1 DEF CommitMerge, Mergeable
      <4>2. QED BY <2>1, <3>3, <4>1 DEF TypeOK
    <3>5. card' = [card EXCEPT ![t] = [card[t] EXCEPT !.version = @ + 1]]
      BY <2>7, <3>1 DEF CommitMerge
    <3>6. [card[t] EXCEPT !.version = @ + 1].status = "draft"
      BY <3>4 DEF CardRows
    <3>7. /\ \A d \in Cards \ {t} : card'[d] = card[d]
          /\ card'[t].status = "draft"
      BY <2>1, <3>3, <3>5, <3>6 DEF TypeOK
    <3>8. link' = [link EXCEPT ![Item(w)] = t]
          /\ reviewed' = [reviewed EXCEPT ![Item(w)] = FALSE]
      BY <2>7, <3>1 DEF CommitMerge, LinkItem
    <3>9. QED BY <2>1, <3>2, <3>7, <3>8 DEF TypeOK
  <2>8. QED
    <3>1. ASSUME NEW b \in Bundles,
             \/ CreateBundle(b) \/ CompleteUpload(b) \/ StartAnalysis(b)
             \/ Decide(b) \/ ApplyBundle(b) \/ CancelBundle(b) \/ RetryBundle(b)
          PROVE  UNCHANGED <<card, link, reviewed>>
      BY <3>1
      DEF CreateBundle, CompleteUpload, StartAnalysis, Decide, ApplyBundle,
          CancelBundle, RetryBundle
    <3>2. ASSUME NEW w \in Workers, Work(w) \/ Misfortune(w),
                 ~ CommitCreate(w), ~ CommitMerge(w)
          PROVE  UNCHANGED <<card, link, reviewed>>
      BY <3>2
      DEF Work, Apply, Misfortune, SaveAnalysis, AnalysedTwice, CheckPlan, PassItem,
          SkipItem, CatalogChanged, StartItem, MergeChanged, Stop, CompleteBundle,
          Unlock, RecordFailure, WorkFails, ItemFails, Backpressure, WorkerCrash,
          LoseLease
    <3>3. CASE \/ UNCHANGED vars
               \/ \E w \in Workers, b \in Bundles : Deliver(w, b)
               \/ \E r \in Reconcilers : Reconcile(r) \/ Send(r) \/ BrokerRefuses(r)
               \/ \E b \in Bundles : LoseMessage(b)
      BY <2>2, <3>3
      DEF vars, Deliver, TurnAway, Take, Reconcile, Send, Publish, BrokerRefuses,
          RecordDelivered, RecordRefused, StartGivingUp, GiveUp, LoseMessage
    <3>4. QED
      BY <2>2, <2>3, <2>4, <2>5, <2>6, <2>7, <3>1, <3>2, <3>3 DEF Next, Administrator
<1>3. QED BY <1>1, <1>2, LegacyAlways, PTL DEF Spec

-----------------------------------------------------------------------------
(* What is left of a bundle that is completed.                             *)

\* The disturbances do not come back.
LEMMA Spent ==
  ASSUME LegacyInv, [Next]_vars, NEW d \in Disturbances, left[d] = 0
  PROVE  left'[d] = 0
<1>1. left \in [Disturbances -> Nat]
  BY DEF LegacyInv, TypeOK
<1>2. ASSUME NEW e \in Disturbances, Disturb(e)
      PROVE  left'[d] = 0
  BY <1>1, <1>2 DEF Disturb
<1>3. CASE \E b \in Bundles :
             \/ CreateBundle(b) \/ CompleteUpload(b) \/ StartAnalysis(b)
             \/ Decide(b) \/ ApplyBundle(b) \/ CancelBundle(b) \/ RetryBundle(b)
             \/ LoseMessage(b)
  BY <1>2, <1>3, Kinds
  DEF CreateBundle, CompleteUpload, StartAnalysis, Decide, ApplyBundle,
      CancelBundle, RetryBundle, LoseMessage
<1>4. CASE \E c \in Cards : ReviewLicense(c) \/ EditCard(c) \/ PublishCard(c)
  BY <1>2, <1>4, Kinds DEF ReviewLicense, EditCard, PublishCard
<1>5. CASE \E w \in Workers : Work(w)
  BY <1>5
  DEF Work, Apply, SaveAnalysis, AnalysedTwice, CheckPlan, PassItem, SkipItem,
      CatalogChanged, StartItem, CommitCreate, CommitMerge, MergeChanged, Stop,
      CompleteBundle, Unlock, RecordFailure
<1>6. CASE \E w \in Workers : Misfortune(w)
  BY <1>2, <1>6, Kinds
  DEF Misfortune, WorkFails, ItemFails, Backpressure, WorkerCrash, LoseLease
<1>7. CASE \/ UNCHANGED vars
           \/ \E w \in Workers, b \in Bundles : Deliver(w, b)
  BY <1>7 DEF vars, Deliver, TurnAway, Take
<1>8. CASE \E r \in Reconcilers : Reconcile(r) \/ Send(r) \/ BrokerRefuses(r)
  BY <1>2, <1>8, Kinds
  DEF Reconcile, Send, Publish, BrokerRefuses, RecordDelivered, RecordRefused,
      StartGivingUp, GiveUp
<1>9. QED
  BY <1>3, <1>4, <1>5, <1>6, <1>7, <1>8 DEF Next, Administrator

\* The items a worker has been through are settled.
Behind(w) ==
  pc[w] \in {"working", "item"} =>
    \A k \in 1..Len(Contents[on[w]]) :
      k < pos[w] => itemStatus[on[w]][Contents[on[w]][k]] \in Settled

\* A completed bundle has no item left.
Finished(b) ==
  status[b] = "completed" => \A i \in Items(b) : itemStatus[b][i] \in Settled

\* A retry that finds something to do again.
Replans(b) == RetryBundle(b) /\ FailedItems(b) # {}

SettledStays(b) ==
  \A i \in Items(b) :
    itemStatus[b][i] \in Settled => itemStatus'[b][i] \in Settled

LEMMA NothingUnsettled ==
  ASSUME LegacyInv, [Next]_vars, NEW b \in Bundles, phase[b] = "apply", ~ Replans(b)
  PROVE  SettledStays(b)
<1>1. /\ TypeOK /\ Told(b) /\ \A w \in Workers : Applier(w)
      /\ status[b] \notin {"ready", "analyzing"}
      /\ IsPlan(b, plan[b]) /\ itemStatus[b] \in [Items(b) -> Settled \cup {"planned"}]
  BY DEF LegacyInv, Told, TypeOK, IsPlan
<1>2. CASE UNCHANGED itemStatus
  BY <1>2 DEF SettledStays
<1>3. ASSUME NEW c \in Bundles, Decide(c)
      PROVE  SettledStays(b)
  <2>1. c # b
    BY <1>1, <1>3 DEF Decide, Decidable
  <2>2. QED BY <1>1, <1>3, <2>1 DEF TypeOK, Decide, SettledStays
<1>4. ASSUME NEW c \in Bundles, RetryBundle(c)
      PROVE  SettledStays(b)
  <2>1. CASE c # b
    BY <1>1, <1>4, <2>1 DEF TypeOK, RetryBundle, SettledStays
  <2>2. CASE c = b
    <3>1. \A i \in Items(b) : itemStatus[b][i] # "failed"
      BY <1>1, <1>4, <2>2 DEF Replans, FailedItems
    <3>2. itemStatus'[b] = [i \in DOMAIN itemStatus[b] |-> Replanned(itemStatus[b][i])]
      BY <1>1, <1>4, <2>2 DEF TypeOK, RetryBundle
    <3>3. QED BY <1>1, <3>1, <3>2 DEF SettledStays, Replanned
  <2>3. QED BY <2>1, <2>2
<1>5. ASSUME NEW w \in Workers, SaveAnalysis(w)
      PROVE  SettledStays(b)
  <2>1. CASE on[w] = b
    BY <1>1, <1>2, <1>5, <2>1 DEF SaveAnalysis
  <2>2. CASE on[w] # b
    BY <1>1, <1>5, <2>2 DEF TypeOK, SaveAnalysis, SettledStays
  <2>3. QED BY <2>1, <2>2
<1>6. ASSUME NEW w \in Workers, NEW outcome \in Settled, pc[w] # "idle",
             SettleItem(w, outcome)
      PROVE  SettledStays(b)
  <2>1. /\ \A c \in Bundles \ {on[w]} : itemStatus'[c] = itemStatus[c]
        /\ itemStatus'[on[w]] = [itemStatus[on[w]] EXCEPT ![Item(w)] = outcome]
    BY <1>1, <1>6, SettleType
  <2>2. \A i \in Items(b) :
          itemStatus'[b][i] \in {itemStatus[b][i], outcome}
    BY <1>1, <2>1
  <2>3. QED BY <1>6, <2>2 DEF SettledStays
<1>7. ASSUME NEW w \in Workers, Work(w) \/ Misfortune(w), ~ SaveAnalysis(w)
      PROVE  \/ UNCHANGED itemStatus
             \/ pc[w] # "idle" /\ \E outcome \in Settled : SettleItem(w, outcome)
  <2>1. CASE \/ SkipItem(w) \/ CatalogChanged(w) \/ CommitCreate(w)
             \/ CommitMerge(w) \/ MergeChanged(w) \/ ItemFails(w)
    BY <2>1
    DEF SkipItem, CatalogChanged, CommitCreate, CommitMerge, MergeChanged,
        ItemFails, Applicable, AtItem, Moves, Settled
  <2>2. QED
    BY <1>7, <2>1
    DEF Work, Apply, Misfortune, AnalysedTwice, CheckPlan, PassItem, StartItem,
        Stop, CompleteBundle, Unlock, RecordFailure, WorkFails, Backpressure,
        WorkerCrash, LoseLease
<1>8. CASE \/ UNCHANGED vars
           \/ \E c \in Bundles :
                \/ CreateBundle(c) \/ CompleteUpload(c) \/ StartAnalysis(c)
                \/ ApplyBundle(c) \/ CancelBundle(c) \/ LoseMessage(c)
           \/ \E c \in Cards : ReviewLicense(c) \/ EditCard(c) \/ PublishCard(c)
           \/ \E w \in Workers, c \in Bundles : Deliver(w, c)
           \/ \E r \in Reconcilers : Reconcile(r) \/ Send(r) \/ BrokerRefuses(r)
  <2>1. UNCHANGED itemStatus
    BY <1>8
    DEF vars, CreateBundle, CompleteUpload, StartAnalysis, ApplyBundle,
        CancelBundle, LoseMessage, ReviewLicense, EditCard, PublishCard, Deliver,
        TurnAway, Take, Reconcile, Send, Publish, BrokerRefuses, RecordDelivered,
        RecordRefused, StartGivingUp, GiveUp
  <2>2. QED BY <1>2, <2>1
<1>9. QED
  BY <1>2, <1>3, <1>4, <1>5, <1>6, <1>7, <1>8 DEF Next, Administrator

\* What a worker's step does to the other workers ...
LEMMA OtherWorkers ==
  ASSUME TypeOK, NEW w \in Workers, Work(w) \/ Misfortune(w)
  PROVE  Others(w)
<1> USE DEF Others
<1>1. CASE \/ SaveAnalysis(w) \/ AnalysedTwice(w) \/ CheckPlan(w) \/ WorkFails(w)
           \/ Stop(w) \/ CompleteBundle(w) \/ Backpressure(w) \/ StartItem(w)
           \/ PassItem(w)
  BY <1>1
  DEF TypeOK, SaveAnalysis, AnalysedTwice, CheckPlan, WorkFails, Stop,
      CompleteBundle, Backpressure, StartItem, PassItem, Goes, Moves
<1>2. CASE SkipItem(w) \/ CatalogChanged(w)
  BY <1>2 DEF TypeOK, SkipItem, CatalogChanged, SettleItem
<1>3. CASE CommitCreate(w) \/ CommitMerge(w) \/ MergeChanged(w) \/ ItemFails(w)
  <2>1. /\ Moves(w, "item", "working")
        /\ \E outcome \in Settled : SettleItem(w, outcome)
    BY <1>3 DEF CommitCreate, CommitMerge, MergeChanged, ItemFails, Settled
  <2>2. QED BY <2>1 DEF TypeOK, Moves, SettleItem
<1>4. CASE \/ Unlock(w) \/ RecordFailure(w) \/ WorkerCrash(w) \/ LoseLease(w)
  <2>1. CASE Leave(w)
    BY <2>1 DEF TypeOK, Leave
  <2>2. CASE Unlock(w) /\ ~ Leave(w)
    BY <2>2 DEF TypeOK, Unlock, Goes, Moves
  <2>3. CASE LoseLease(w)
    BY <2>3 DEF LoseLease
  <2>4. QED BY <1>4, <2>1, <2>2, <2>3 DEF RecordFailure, WorkerCrash
<1>5. QED BY <1>1, <1>2, <1>3, <1>4 DEF Work, Apply, Misfortune

\* ... and to the bundles.
LEMMA StatusOfWork ==
  ASSUME TypeOK, NEW w \in Workers, Work(w) \/ Misfortune(w)
  PROVE  \/ UNCHANGED status
         \/ /\ status[on[w]] = "analyzing" /\ on[w] \in Bundles
            /\ status' = [status EXCEPT ![on[w]] = "ready"]
         \/ CompleteBundle(w)
         \/ status' = [status EXCEPT ![on[w]] =
                         IF status[on[w]] \in Active THEN "failed" ELSE status[on[w]]]
<1>1. CASE SaveAnalysis(w)
  BY <1>1, OnBundle DEF SaveAnalysis, Goes, Moves
<1>2. CASE RecordFailure(w)
  BY <1>2 DEF RecordFailure
<1>3. ASSUME ~ SaveAnalysis(w), ~ RecordFailure(w), ~ CompleteBundle(w)
      PROVE  UNCHANGED status
  BY <1>3
  DEF Work, Apply, Misfortune, AnalysedTwice, CheckPlan, PassItem, SkipItem,
      CatalogChanged, StartItem, CommitCreate, CommitMerge, MergeChanged, Stop,
      Unlock, WorkFails, ItemFails, Backpressure, WorkerCrash, LoseLease
<1>4. QED BY <1>1, <1>2, <1>3

\* The reconciler only fails bundles.
LEMMA StatusOfReconciler ==
  ASSUME TypeOK, NEW r \in Reconcilers, Reconcile(r) \/ Send(r) \/ BrokerRefuses(r),
         NEW b \in Bundles
  PROVE  status'[b] = status[b] \/ status'[b] = "failed"
<1>1. CASE Reconcile(r)
  BY <1>1 DEF Reconcile
<1>2. CASE GiveUp(r)
  BY <1>2 DEF TypeOK, GiveUp
<1>3. CASE ~ Reconcile(r) /\ ~ GiveUp(r)
  BY <1>3
  DEF Send, Publish, BrokerRefuses, RecordDelivered, RecordRefused, StartGivingUp
<1>4. QED BY <1>1, <1>2, <1>3

\* How far a worker gets in a step.
Advances(w) ==
  \/ UNCHANGED <<pc[w], on[w], pos[w]>>
  \/ pc'[w] \notin {"working", "item"}
  \/ pos'[w] = 1
  \/ pc[w] = "working" /\ UNCHANGED <<on[w], pos[w]>>
  \/ /\ pc[w] \in {"working", "item"} /\ on'[w] = on[w] /\ pos'[w] = pos[w] + 1
     /\ itemStatus'[on[w]][Item(w)] \in Settled

LEMMA Advance ==
  ASSUME LegacyInv, [Next]_vars, NEW w \in Workers
  PROVE  Advances(w)
<1>1. TypeOK
  BY DEF LegacyInv
<1>2. CASE UNCHANGED <<pc, on, pos>>
  BY <1>2 DEF Advances
<1>3. ASSUME NEW v \in Workers, \E b \in Bundles : Deliver(v, b)
      PROVE  Advances(w)
  BY <1>1, <1>3 DEF TypeOK, Deliver, TurnAway, Take, Advances
<1>4. ASSUME NEW v \in Workers, v # w, Work(v) \/ Misfortune(v)
      PROVE  Advances(w)
  BY <1>1, <1>4, OtherWorkers DEF Others, Advances
<1>5. CASE \/ SaveAnalysis(w) \/ AnalysedTwice(w) \/ CheckPlan(w) \/ WorkFails(w)
           \/ Stop(w) \/ CompleteBundle(w) \/ Unlock(w) \/ RecordFailure(w)
           \/ Backpressure(w) \/ WorkerCrash(w) \/ LoseLease(w) \/ StartItem(w)
  BY <1>1, <1>5
  DEF TypeOK, SaveAnalysis, AnalysedTwice, CheckPlan, WorkFails, Stop,
      CompleteBundle, Unlock, RecordFailure, Backpressure, WorkerCrash, LoseLease,
      StartItem, Goes, Moves, Leave, Advances
<1>6. CASE PassItem(w)
  BY <1>1, <1>6 DEF TypeOK, PassItem, AtItem, Advances
<1>7. CASE \/ SkipItem(w) \/ CatalogChanged(w) \/ CommitCreate(w)
           \/ CommitMerge(w) \/ MergeChanged(w) \/ ItemFails(w)
  <2>1. /\ pc[w] \in {"working", "item"} /\ UNCHANGED on
        /\ \E outcome \in Settled : SettleItem(w, outcome)
    BY <1>7
    DEF SkipItem, CatalogChanged, CommitCreate, CommitMerge, MergeChanged,
        ItemFails, Applicable, AtItem, Moves, Settled
  <2>2. itemStatus[on[w]][Item(w)] = "planned"
    BY <1>7
    DEF LegacyInv, Applier, SkipItem, CatalogChanged, CommitCreate, CommitMerge,
        MergeChanged, ItemFails, Applicable, Moves
  <2>3. on[w] \in Bundles
    BY <1>1, <2>1, OnBundle
  <2>4. Item(w) \in DOMAIN itemStatus[on[w]]
    <3>1. phase[on[w]] = "apply" /\ pos[w] >= 1 /\ pos[w] <= Len(Contents[on[w]])
      BY <1>7, <2>1
      DEF LegacyInv, Applier, SkipItem, CatalogChanged, CommitCreate, CommitMerge,
          MergeChanged, ItemFails, Applicable, AtItem, Moves
    <3>2. Item(w) \in Items(on[w])
      BY <1>1, <2>3, <3>1, ItemsAreIdentities DEF TypeOK, Item
    <3>3. DOMAIN itemStatus[on[w]] = Items(on[w])
      BY <1>1, <2>3, <3>1 DEF LegacyInv, Told, TypeOK, IsPlan
    <3>4. QED BY <3>2, <3>3
  <2>5. /\ itemStatus'[on[w]][Item(w)] \in Settled
        /\ pos' = [pos EXCEPT ![w] = pos[w] + 1]
    <3>1. PICK outcome \in Settled : SettleItem(w, outcome)
      BY <2>1
    <3>2. /\ itemStatus'[on[w]] = [itemStatus[on[w]] EXCEPT ![Item(w)] = outcome]
          /\ pos' = [pos EXCEPT ![w] = pos[w] + 1]
      BY <1>1, <2>1, <3>1, SettleType
    <3>3. QED BY <2>4, <3>2
  <2>6. QED BY <1>1, <2>1, <2>5 DEF TypeOK, Advances
<1>8. CASE \/ UNCHANGED vars
           \/ \E b \in Bundles :
                \/ CreateBundle(b) \/ CompleteUpload(b) \/ StartAnalysis(b)
                \/ Decide(b) \/ ApplyBundle(b) \/ CancelBundle(b) \/ RetryBundle(b)
                \/ LoseMessage(b)
           \/ \E c \in Cards : ReviewLicense(c) \/ EditCard(c) \/ PublishCard(c)
           \/ \E r \in Reconcilers : Reconcile(r) \/ Send(r) \/ BrokerRefuses(r)
  <2>1. UNCHANGED <<pc, on, pos>>
    BY <1>8
    DEF vars, CreateBundle, CompleteUpload, StartAnalysis, Decide, ApplyBundle,
        CancelBundle, RetryBundle, LoseMessage, ReviewLicense, EditCard,
        PublishCard, Reconcile, Send, Publish, BrokerRefuses, RecordDelivered,
        RecordRefused, StartGivingUp, GiveUp
  <2>2. QED BY <1>2, <2>1
<1>9. ASSUME Work(w) \/ Misfortune(w)
      PROVE  Advances(w)
  BY <1>5, <1>6, <1>7, <1>9 DEF Work, Apply, Misfortune
<1>10. QED
  BY <1>3, <1>4, <1>8, <1>9 DEF Next, Administrator

\* A worker keeps what it has been through behind it.
LEMMA BehindStep ==
  ASSUME LegacyInv, [Next]_vars, NEW w \in Workers, Behind(w),
         pc[w] \in {"working", "item"} => ~ Replans(on[w])
  PROVE  Behind(w)'
<1>1. TypeOK /\ Applier(w) /\ Advances(w)
  BY Advance DEF LegacyInv
<1>2. SUFFICES ASSUME pc'[w] \in {"working", "item"},
                      NEW k \in 1..Len(Contents[on'[w]]), k < pos'[w]
               PROVE  itemStatus'[on'[w]][Contents[on'[w]][k]] \in Settled
  BY DEF Behind
<1>3. pos'[w] # 1
  BY <1>2
<1>4. pc[w] \in {"working", "item"} /\ on'[w] = on[w]
  BY <1>1, <1>2, <1>3 DEF Advances
<1>5. PICK b \in Bundles : b = on[w]
  BY <1>1, <1>4, OnBundle
<1>6. phase[b] = "apply" /\ pos[w] \in Nat
  BY <1>1, <1>4, <1>5 DEF Applier, TypeOK
<1>7. SettledStays(b)
  BY <1>4, <1>5, <1>6, NothingUnsettled
<1>8. Len(Contents[b]) \in Nat /\ Contents[b][k] \in Items(b)
  BY <1>2, <1>4, <1>5, ItemsAreIdentities
<1>9. CASE k < pos[w]
  BY <1>2, <1>4, <1>5, <1>7, <1>8, <1>9 DEF Behind, SettledStays
<1>10. CASE pos'[w] = pos[w] + 1 /\ itemStatus'[on[w]][Item(w)] \in Settled
  <2>1. k < pos[w] \/ k = pos[w]
    BY <1>2, <1>6, <1>8, <1>10
  <2>2. QED BY <1>4, <1>5, <1>9, <1>10, <2>1 DEF Item
<1>11. QED BY <1>1, <1>2, <1>3, <1>9, <1>10 DEF Advances

\* A bundle is completed by a worker that has been through its items.
LEMMA Completing ==
  ASSUME LegacyInv, [Next]_vars, NEW b \in Bundles, status'[b] = "completed"
  PROVE  \/ status[b] = "completed" /\ ~ Replans(b)
         \/ \E w \in Workers : CompleteBundle(w) /\ on[w] = b
<1>1. TypeOK
  BY DEF LegacyInv
<1>2. CASE \/ UNCHANGED vars
           \/ \E w \in Workers, c \in Bundles : Deliver(w, c)
           \/ \E c \in Cards : ReviewLicense(c) \/ EditCard(c) \/ PublishCard(c)
           \/ \E c \in Bundles : LoseMessage(c) \/ Decide(c)
  <2>1. UNCHANGED status
    BY <1>2
    DEF vars, Deliver, TurnAway, Take, ReviewLicense, EditCard, PublishCard,
        LoseMessage, Decide
  <2>2. ~ Replans(b)
    BY <1>1, <2>1 DEF TypeOK, Replans, RetryBundle
  <2>3. QED BY <2>1, <2>2
<1>3. ASSUME NEW c \in Bundles,
             \/ CreateBundle(c) \/ CompleteUpload(c) \/ StartAnalysis(c)
             \/ ApplyBundle(c) \/ CancelBundle(c) \/ RetryBundle(c)
      PROVE  status[b] = "completed" /\ c # b
  BY <1>1, <1>3
  DEF TypeOK, CreateBundle, CompleteUpload, StartAnalysis, ApplyBundle,
      CancelBundle, RetryBundle
<1>4. RetryBundle(b) => status'[b] # "completed"
  BY <1>1 DEF TypeOK, RetryBundle
<1>5. ASSUME NEW w \in Workers, Work(w) \/ Misfortune(w), ~ CompleteBundle(w)
      PROVE  status[b] = "completed"
  BY <1>1, <1>5, StatusOfWork DEF TypeOK
<1>6. ASSUME NEW w \in Workers, CompleteBundle(w), on[w] # b
      PROVE  status[b] = "completed"
  BY <1>1, <1>6 DEF TypeOK, CompleteBundle
<1>7. ASSUME NEW r \in Reconcilers, Reconcile(r) \/ Send(r) \/ BrokerRefuses(r)
      PROVE  status[b] = "completed"
  BY <1>1, <1>7, StatusOfReconciler
<1>8. QED
  BY <1>2, <1>3, <1>4, <1>5, <1>6, <1>7 DEF Next, Administrator, Replans

LEMMA FinishedStep ==
  ASSUME LegacyInv, [Next]_vars, NEW b \in Bundles, Finished(b),
         \A w \in Workers : Behind(w)
  PROVE  Finished(b)'
<1>1. TypeOK /\ Told(b)
  BY DEF LegacyInv
<1>2. SUFFICES ASSUME status'[b] = "completed", NEW i \in Items(b)
               PROVE  itemStatus'[b][i] \in Settled
  BY DEF Finished, Items
<1>3. CASE status[b] = "completed" /\ ~ Replans(b)
  <2>1. phase[b] = "apply" /\ itemStatus[b][i] \in Settled
    BY <1>1, <1>3 DEF Told, Finished
  <2>2. QED BY <1>3, <2>1, NothingUnsettled DEF SettledStays
<1>4. ASSUME NEW w \in Workers, CompleteBundle(w), on[w] = b
      PROVE  itemStatus'[b][i] \in Settled
  <2>1. /\ pc[w] = "working" /\ pos[w] > Len(Contents[b])
        /\ UNCHANGED itemStatus
    BY <1>4 DEF CompleteBundle, Goes, Moves, AllDone
  <2>2. PICK k \in 1..Len(Contents[b]) : Contents[b][k] = i
    BY ItemsAreIdentities
  <2>3. k < pos[w]
    BY <1>1, <2>1, ItemsAreIdentities DEF TypeOK
  <2>4. QED BY <1>4, <2>1, <2>2, <2>3 DEF Behind
<1>5. QED BY <1>2, <1>3, <1>4, Completing

\* The invariant of the two theorems that follow.
ProgressInv ==
  /\ LegacyInv
  /\ \A w \in Workers : Behind(w)
  /\ \A b \in Bundles : Finished(b)

LEMMA ProgressInit == Init => ProgressInv
BY LegacyInit DEF Init, ProgressInv, Behind, Finished

LEMMA ProgressStep ==
  ASSUME ProgressInv, [Next]_vars,
         \A w \in Workers : pc[w] \in {"working", "item"} => ~ Replans(on[w])
  PROVE  ProgressInv'
BY LegacyStep, BehindStep, FinishedStep DEF ProgressInv

LEMMA ProgressSettles == ProgressInv => CompletedIsSettled
BY DEF ProgressInv, Finished, CompletedIsSettled

\* No profile lets an item fail and a bundle be retried.
NothingFailedIsRetried ==
  \A p \in Profiles : p["retry"] = 0 \/ p["broken"] = 0

\* There is no retry to come, or nothing it would start again.
Calm ==
  \/ left["retry"] = 0
  \/ left["broken"] = 0 /\ \A b \in Bundles : FailedItems(b) = {}

\* Items fail only when something is broken.
LEMMA FailsBroken ==
  ASSUME LegacyInv, [Next]_vars, left["broken"] = 0,
         \A b \in Bundles : FailedItems(b) = {}
  PROVE  \A b \in Bundles : FailedItems(b)' = {}
<1>1. TypeOK
  BY DEF LegacyInv
<1> USE DEF FailedItems
<1>2. CASE UNCHANGED itemStatus
  BY <1>2
<1>3. ASSUME NEW c \in Bundles, Decide(c)
      PROVE  \A b \in Bundles : FailedItems(b)' = {}
  <2>1. \E i \in Items(c) : itemStatus' = [itemStatus EXCEPT ![c][i] = "planned"]
    BY <1>3 DEF Decide
  <2>2. QED BY <1>1, <2>1 DEF TypeOK
<1>4. ASSUME NEW c \in Bundles, RetryBundle(c)
      PROVE  \A b \in Bundles : FailedItems(b)' = {}
  BY <1>1, <1>4 DEF TypeOK, RetryBundle, Replanned
<1>5. ASSUME NEW w \in Workers, SaveAnalysis(w)
      PROVE  \A b \in Bundles : FailedItems(b)' = {}
  <2>1. on[w] \in Bundles
    BY <1>1, <1>5, OnBundle DEF SaveAnalysis, Goes, Moves
  <2>2. \/ UNCHANGED itemStatus
        \/ itemStatus' = [itemStatus EXCEPT ![on[w]] =
             [i \in Items(on[w]) |->
                IF [j \in Items(on[w]) |-> Proposal(j)][i].decision.kind = "review"
                THEN "needs_review" ELSE "planned"]]
    BY <1>5 DEF SaveAnalysis
  <2>3. QED BY <1>1, <1>2, <2>1, <2>2 DEF TypeOK
<1>6. ASSUME NEW w \in Workers,
             \/ SkipItem(w) \/ CatalogChanged(w) \/ CommitCreate(w)
             \/ CommitMerge(w) \/ MergeChanged(w)
      PROVE  \A b \in Bundles : FailedItems(b)' = {}
  <2>1. pc[w] # "idle" /\ \E outcome \in Settled \ {"failed"} : SettleItem(w, outcome)
    BY <1>6
    DEF SkipItem, CatalogChanged, CommitCreate, CommitMerge, MergeChanged,
        Applicable, AtItem, Moves, Settled
  <2>2. PICK outcome \in Settled \ {"failed"} : SettleItem(w, outcome)
    BY <2>1
  <2>3. /\ \A b \in Bundles \ {on[w]} : itemStatus'[b] = itemStatus[b]
        /\ itemStatus'[on[w]] = [itemStatus[on[w]] EXCEPT ![Item(w)] = outcome]
    BY <1>1, <2>1, <2>2, SettleType
  <2>4. \A b \in Bundles : \A i \in DOMAIN itemStatus'[b] :
          itemStatus'[b][i] \in {itemStatus[b][i], outcome}
    BY <2>3
  <2>5. \A b \in Bundles : DOMAIN itemStatus'[b] = DOMAIN itemStatus[b]
    BY <2>3
  <2>6. QED BY <2>2, <2>4, <2>5
<1>7. \A w \in Workers : ~ ItemFails(w)
  BY DEF ItemFails, Disturb
<1>8. CASE \/ UNCHANGED vars
           \/ \E c \in Bundles :
                \/ CreateBundle(c) \/ CompleteUpload(c) \/ StartAnalysis(c)
                \/ ApplyBundle(c) \/ CancelBundle(c) \/ LoseMessage(c)
           \/ \E c \in Cards : ReviewLicense(c) \/ EditCard(c) \/ PublishCard(c)
           \/ \E w \in Workers, c \in Bundles : Deliver(w, c)
           \/ \E r \in Reconcilers : Reconcile(r) \/ Send(r) \/ BrokerRefuses(r)
  <2>1. UNCHANGED itemStatus
    BY <1>8
    DEF vars, CreateBundle, CompleteUpload, StartAnalysis, ApplyBundle,
        CancelBundle, LoseMessage, ReviewLicense, EditCard, PublishCard, Deliver,
        TurnAway, Take, Reconcile, Send, Publish, BrokerRefuses, RecordDelivered,
        RecordRefused, StartGivingUp, GiveUp
  <2>2. QED BY <1>2, <2>1
<1>9. ASSUME NEW w \in Workers, Work(w) \/ Misfortune(w)
      PROVE  \A b \in Bundles : FailedItems(b)' = {}
  BY <1>2, <1>5, <1>6, <1>7, <1>9
  DEF Work, Apply, Misfortune, AnalysedTwice, CheckPlan, PassItem, StartItem,
      Stop, CompleteBundle, Unlock, RecordFailure, WorkFails, Backpressure,
      WorkerCrash, LoseLease
<1>10. QED
  BY <1>3, <1>4, <1>8, <1>9 DEF Next, Administrator

\* A completed bundle has no item left to apply, in every order of crashes,
\* lost locks, cancellations and given-up messages, if no failed item is
\* retried (CompletedIsSettled).
THEOREM CompletedSettled ==
  ASSUME NothingFailedIsRetried
  PROVE  Spec => []CompletedIsSettled
<1>1. Init => ProgressInv /\ Calm
  BY NothingFailedIsRetried, ProgressInit, NothingPlanned
  DEF NothingFailedIsRetried, Init, FailedItems, Calm
<1>2. ProgressInv /\ Calm /\ [Next]_vars => (ProgressInv /\ Calm)'
  <2> SUFFICES ASSUME ProgressInv, Calm, [Next]_vars
               PROVE  (ProgressInv /\ Calm)'
    OBVIOUS
  <2>1. LegacyInv
    BY DEF ProgressInv
  <2>2. \A b \in Bundles : ~ Replans(b)
    BY DEF Calm, Replans, RetryBundle, Disturb
  <2>3. \A w \in Workers : pc[w] \in {"working", "item"} => on[w] \in Bundles
    BY <2>1, OnBundle DEF LegacyInv
  <2>4. ProgressInv'
    BY <2>2, <2>3, ProgressStep
  <2>5. CASE left["retry"] = 0
    <3>1. left'["retry"] = 0
      BY <2>1, <2>5, Spent, Kinds
    <3>2. QED BY <2>4, <3>1 DEF Calm
  <2>6. CASE left["broken"] = 0 /\ \A b \in Bundles : FailedItems(b) = {}
    <3>1. left'["broken"] = 0
      BY <2>1, <2>6, Spent, Kinds
    <3>2. \A b \in Bundles : FailedItems(b)' = {}
      BY <2>1, <2>6, FailsBroken
    <3>3. QED BY <2>4, <3>1, <3>2 DEF Calm
  <2>7. QED BY <2>5, <2>6 DEF Calm
<1>3. QED BY <1>1, <1>2, ProgressSettles, PTL DEF Spec

\* Workers keep the advisory lock of their bundle as long as they are on it.
WorkersKeepLocks == \A p \in Profiles : p["lease"] = 0

\* A bundle does not fail under a worker, unless the worker itself fails: no
\* reconciler gives up a bundle somebody is still at work on.
FailsByItsWorker ==
  \A b \in Bundles : status[b] # "failed" /\ status'[b] = "failed" =>
    \A w \in Workers : on[w] = b => pc[w] = "raising"

\* A worker that applies a plan holds its bundle, which is not failed.
Watches(w) ==
  /\ pc[w] # "idle" => lease[on[w]] = w
  /\ pc[w] \in {"checking", "working", "item"} =>
       status[on[w]] \in {"applying", "cancelled"}

\* Who has a lock keeps it.
LEMMA LockStep ==
  ASSUME LegacyInv, [Next]_vars, left["lease"] = 0,
         \A w \in Workers : pc[w] # "idle" => lease[on[w]] = w
  PROVE  \A w \in Workers : pc'[w] # "idle" => lease'[on'[w]] = w
<1>1. TypeOK
  BY DEF LegacyInv
<1>2. CASE UNCHANGED <<on, lease>>
  BY <1>1, <1>2, LegacyStep DEF LegacyInv, TypeOK
<1>3. ASSUME NEW v \in Workers, NEW b \in Bundles, Take(v, b)
      PROVE  \A w \in Workers : pc'[w] # "idle" => lease'[on'[w]] = w
  <2>1. /\ on' = [on EXCEPT ![v] = b] /\ lease' = [lease EXCEPT ![b] = v]
        /\ lease[b] = NoWorker
        /\ \A w \in Workers \ {v} : pc'[w] = pc[w]
    BY <1>1, <1>3 DEF TypeOK, Take
  <2>2. \A w \in Workers \ {v} : pc[w] # "idle" => on[w] \in Bundles \ {b}
    BY <1>1, <2>1, OnBundle, LegacyAssumption
  <2>3. QED BY <1>1, <2>1, <2>2 DEF TypeOK
<1>4. ASSUME NEW v \in Workers, pc[v] # "idle", Leave(v)
      PROVE  \A w \in Workers : pc'[w] # "idle" => lease'[on'[w]] = w
  <2>1. on[v] \in Bundles
    BY <1>1, <1>4, OnBundle
  <2>2. \A w \in Workers \ {v} :
          pc'[w] = pc[w] /\ on'[w] = on[w] /\ (pc[w] # "idle" => on[w] # on[v])
    BY <1>1, <1>4 DEF TypeOK, Leave
  <2>3. pc'[v] = "idle"
    BY <1>1, <1>4 DEF TypeOK, Leave
  <2>4. \A c \in Bundles \ {on[v]} : lease'[c] = lease[c]
    BY <1>1, <1>4 DEF TypeOK, Leave, Freed
  <2>5. \A w \in Workers : pc[w] # "idle" => on[w] \in Bundles
    BY <1>1, OnBundle
  <2>6. QED BY <2>2, <2>3, <2>4, <2>5
<1>5. ASSUME NEW v \in Workers, Unlock(v) \/ RecordFailure(v) \/ WorkerCrash(v)
      PROVE  pc[v] # "idle" /\ (Leave(v) \/ UNCHANGED <<on, lease>>)
  BY <1>5 DEF Unlock, RecordFailure, WorkerCrash, Goes, Moves
<1>6. ASSUME NEW v \in Workers,
             \/ SaveAnalysis(v) \/ AnalysedTwice(v) \/ CheckPlan(v) \/ Apply(v)
             \/ Stop(v) \/ CompleteBundle(v) \/ WorkFails(v) \/ ItemFails(v)
             \/ Backpressure(v)
      PROVE  UNCHANGED <<on, lease>>
  BY <1>6
  DEF SaveAnalysis, AnalysedTwice, CheckPlan, Apply, PassItem, SkipItem,
      CatalogChanged, StartItem, CommitCreate, CommitMerge, MergeChanged, Stop,
      CompleteBundle, WorkFails, ItemFails, Backpressure, Goes, Moves
<1>7. \A v \in Workers : ~ LoseLease(v)
  BY DEF LoseLease, Disturb
<1>8. ASSUME NEW v \in Workers, Work(v) \/ Misfortune(v)
      PROVE  \A w \in Workers : pc'[w] # "idle" => lease'[on'[w]] = w
  BY <1>2, <1>4, <1>5, <1>6, <1>7, <1>8 DEF Work, Misfortune
<1>9. CASE \/ UNCHANGED vars
           \/ \E b \in Bundles :
                \/ CreateBundle(b) \/ CompleteUpload(b) \/ StartAnalysis(b)
                \/ Decide(b) \/ ApplyBundle(b) \/ CancelBundle(b) \/ RetryBundle(b)
                \/ LoseMessage(b)
           \/ \E c \in Cards : ReviewLicense(c) \/ EditCard(c) \/ PublishCard(c)
           \/ \E r \in Reconcilers : Reconcile(r) \/ Send(r) \/ BrokerRefuses(r)
           \/ \E v \in Workers, b \in Bundles : TurnAway(v, b)
  <2>1. UNCHANGED <<on, lease>>
    BY <1>9
    DEF vars, CreateBundle, CompleteUpload, StartAnalysis, Decide, ApplyBundle,
        CancelBundle, RetryBundle, LoseMessage, ReviewLicense, EditCard,
        PublishCard, Reconcile, Send, Publish, BrokerRefuses, RecordDelivered,
        RecordRefused, StartGivingUp, GiveUp, TurnAway
  <2>2. QED BY <1>2, <2>1
<1>10. QED
  BY <1>3, <1>8, <1>9 DEF Next, Administrator, Deliver

\* What becomes of a bundle that is applied or cancelled.
LEMMA StatusStep ==
  ASSUME LegacyInv, [Next]_vars, NEW b \in Bundles,
         status[b] \in {"applying", "cancelled"}
  PROVE  \/ status'[b] \in {"applying", "cancelled"}
         \/ status[b] # "failed" /\ status'[b] = "failed"
         \/ \E w \in Workers : on[w] = b /\ CompleteBundle(w)
<1>1. TypeOK
  BY DEF LegacyInv
<1>2. CASE \/ UNCHANGED vars
           \/ \E w \in Workers, c \in Bundles : Deliver(w, c)
           \/ \E c \in Cards : ReviewLicense(c) \/ EditCard(c) \/ PublishCard(c)
           \/ \E c \in Bundles : LoseMessage(c) \/ Decide(c)
  BY <1>2
  DEF vars, Deliver, TurnAway, Take, ReviewLicense, EditCard, PublishCard,
      LoseMessage, Decide
<1>3. ASSUME NEW c \in Bundles,
             \/ CreateBundle(c) \/ CompleteUpload(c) \/ StartAnalysis(c)
             \/ ApplyBundle(c) \/ CancelBundle(c) \/ RetryBundle(c)
      PROVE  status'[b] \in {"applying", "cancelled"}
  BY <1>1, <1>3
  DEF TypeOK, CreateBundle, CompleteUpload, StartAnalysis, ApplyBundle,
      CancelBundle, RetryBundle
<1>4. ASSUME NEW w \in Workers, Work(w) \/ Misfortune(w),
             ~ CompleteBundle(w) \/ on[w] # b
      PROVE  status'[b] \in {"applying", "cancelled", "failed"}
  <2>1. CASE CompleteBundle(w)
    BY <1>1, <1>4, <2>1 DEF TypeOK, CompleteBundle
  <2>2. CASE ~ CompleteBundle(w)
    BY <1>1, <1>4, <2>2, StatusOfWork DEF TypeOK
  <2>3. QED BY <2>1, <2>2
<1>5. ASSUME NEW r \in Reconcilers, Reconcile(r) \/ Send(r) \/ BrokerRefuses(r)
      PROVE  status'[b] \in {"applying", "cancelled", "failed"}
  BY <1>1, <1>5, StatusOfReconciler
<1>6. QED
  BY <1>2, <1>3, <1>4, <1>5 DEF Next, Administrator

LEMMA WatchStep ==
  ASSUME LegacyInv, [Next]_vars, FailsByItsWorker, left["lease"] = 0,
         \A w \in Workers : Watches(w), NEW w \in Workers
  PROVE  Watches(w)'
<1>1. TypeOK /\ \A v \in Workers : Applier(v)
  BY DEF LegacyInv
<1>2. pc'[w] # "idle" => lease'[on'[w]] = w
  BY LockStep DEF Watches
<1>3. SUFFICES ASSUME pc'[w] \in {"checking", "working", "item"}
               PROVE  status'[on'[w]] \in {"applying", "cancelled"}
  BY <1>2 DEF Watches
<1>4. CASE pc[w] \in {"checking", "working", "item"} /\ on'[w] = on[w]
  <2>1. PICK b \in Bundles : b = on[w]
    BY <1>1, <1>4, OnBundle
  <2>2. status[b] \in {"applying", "cancelled"}
    BY <1>4, <2>1 DEF Watches
  <2>3. ~ (status[b] # "failed" /\ status'[b] = "failed")
    BY <1>4, <2>1 DEF FailsByItsWorker
  <2>4. ASSUME NEW v \in Workers, on[v] = b, CompleteBundle(v)
        PROVE  FALSE
    <3>1. pc[v] = "working" /\ pc' = [pc EXCEPT ![v] = "done"]
      BY <2>4 DEF CompleteBundle, Goes, Moves
    <3>2. v = w
      BY <1>4, <2>1, <2>4, <3>1 DEF Watches
    <3>3. QED BY <1>1, <1>3, <3>1, <3>2 DEF TypeOK
  <2>5. QED BY <1>4, <2>1, <2>2, <2>3, <2>4, StatusStep
<1>5. CASE \E b \in Bundles : Take(w, b)
  <2>1. PICK b \in Bundles : Take(w, b)
    BY <1>5
  <2>2. on'[w] = b /\ status'[b] = status[b] /\ status[b] \in Active /\ phase[b] # "analysis"
    BY <1>1, <1>3, <2>1 DEF TypeOK, Take
  <2>3. Told(b)
    BY DEF LegacyInv
  <2>4. QED BY <2>2, <2>3 DEF Told, Active
<1>6. (pc[w] \in {"checking", "working", "item"} /\ on'[w] = on[w])
      \/ \E b \in Bundles : Take(w, b)
  <2>1. CASE UNCHANGED <<pc, on>>
    BY <1>3, <2>1
  <2>2. ASSUME NEW v \in Workers, v # w,
               Work(v) \/ Misfortune(v) \/ \E b \in Bundles : Deliver(v, b)
        PROVE  pc'[w] = pc[w] /\ on'[w] = on[w]
    <3>1. CASE Work(v) \/ Misfortune(v)
      BY <1>1, <2>2, <3>1, OtherWorkers DEF Others
    <3>2. CASE \E b \in Bundles : Deliver(v, b)
      BY <1>1, <2>2, <3>2 DEF TypeOK, Deliver, TurnAway, Take
    <3>3. QED BY <2>2, <3>1, <3>2
  <2>3. CASE Work(w) \/ Misfortune(w)
    BY <1>1, <1>3, <2>3
    DEF TypeOK, Work, Apply, Misfortune, SaveAnalysis, AnalysedTwice, CheckPlan,
        PassItem, SkipItem, CatalogChanged, StartItem, CommitCreate, CommitMerge,
        MergeChanged, Stop, CompleteBundle, Unlock, RecordFailure, WorkFails,
        ItemFails, Backpressure, WorkerCrash, LoseLease, Goes, Moves, Leave,
        Applicable, AtItem
  <2>4. CASE \E b \in Bundles : Deliver(w, b)
    BY <2>1, <2>4 DEF Deliver, TurnAway
  <2>5. CASE \/ UNCHANGED vars
             \/ \E b \in Bundles :
                  \/ CreateBundle(b) \/ CompleteUpload(b) \/ StartAnalysis(b)
                  \/ Decide(b) \/ ApplyBundle(b) \/ CancelBundle(b)
                  \/ RetryBundle(b) \/ LoseMessage(b)
             \/ \E c \in Cards : ReviewLicense(c) \/ EditCard(c) \/ PublishCard(c)
             \/ \E r \in Reconcilers : Reconcile(r) \/ Send(r) \/ BrokerRefuses(r)
    <3>1. UNCHANGED <<pc, on>>
      BY <2>5
      DEF vars, CreateBundle, CompleteUpload, StartAnalysis, Decide, ApplyBundle,
          CancelBundle, RetryBundle, LoseMessage, ReviewLicense, EditCard,
          PublishCard, Reconcile, Send, Publish, BrokerRefuses, RecordDelivered,
          RecordRefused, StartGivingUp, GiveUp
    <3>2. QED BY <2>1, <3>1
  <2>6. QED
    BY <1>3, <2>2, <2>3, <2>4, <2>5 DEF Next, Administrator
<1>7. QED BY <1>4, <1>5, <1>6

\* The same with retries of failed items, if workers keep their locks and a
\* bundle does not fail under the worker that is applying it.
THEOREM RetriedSettled ==
  ASSUME WorkersKeepLocks
  PROVE  Spec /\ [][FailsByItsWorker]_vars => []CompletedIsSettled
<1> DEFINE Inv == /\ ProgressInv
                  /\ left["lease"] = 0
                  /\ \A w \in Workers : Watches(w)
<1>1. Init => Inv
  BY WorkersKeepLocks, ProgressInit DEF WorkersKeepLocks, Init, Watches
<1>2. Inv /\ [Next]_vars /\ [FailsByItsWorker]_vars => Inv'
  <2> SUFFICES ASSUME Inv, [Next]_vars, [FailsByItsWorker]_vars
               PROVE  Inv'
    OBVIOUS
  <2>1. LegacyInv
    BY DEF ProgressInv
  <2>2. FailsByItsWorker
    BY DEF FailsByItsWorker, vars
  <2>3. ASSUME NEW w \in Workers, pc[w] \in {"working", "item"}
        PROVE  ~ Replans(on[w])
    BY <2>3 DEF Watches, Replans, RetryBundle
  <2>4. ProgressInv'
    BY <2>3, ProgressStep
  <2>5. left'["lease"] = 0
    BY <2>1, Spent, Kinds
  <2>6. \A w \in Workers : Watches(w)'
    BY <2>1, <2>2, WatchStep
  <2>7. QED BY <2>4, <2>5, <2>6
<1>3. QED BY <1>1, <1>2, ProgressSettles, PTL DEF Spec

-----------------------------------------------------------------------------
(***************************************************************************)
(* LegacyBundles implements LegacyPromise.  The mapping forgets workers,   *)
(* locks, messages and positions, so every step a bundle's row shows must  *)
(* be one the administrator was promised.  Beyond what is proved above it  *)
(* takes: what the rows of a plan that waits for decisions say, that an    *)
(* item in hand is not one to skip, and that a bundle a reconciler gives   *)
(* up exists.                                                              *)
(***************************************************************************)

\* A row of a plan that waits for its confirmation has a decision, or asks.
Proposed(b) ==
  status[b] = "ready" =>
    \A i \in Items(b) : itemStatus[b][i] =
      IF plan[b][i].decision.kind = "review" THEN "needs_review" ELSE "planned"

\* An item that is to be skipped is never taken in hand.
InHand(w) ==
  pc[w] = "item" => plan[on[w]][Item(w)].decision.kind # "skip"

\* A bundle that is given up has been created.
Condemned(r) == givingUp[r] => status[refused[r]] # "absent"

KeepingInv ==
  /\ LegacyInv
  /\ \A b \in Bundles : Proposed(b)
  /\ \A w \in Workers : InHand(w)
  /\ \A r \in Reconcilers : Condemned(r)

LEMMA KeepingInit == Init => KeepingInv
BY LegacyInit DEF Init, KeepingInv, Proposed, InHand, Condemned

\* A bundle that exists goes on existing.
LEMMA StaysCreated ==
  ASSUME TypeOK, [Next]_vars, NEW b \in Bundles, status[b] # "absent"
  PROVE  status'[b] # "absent"
<1>1. CASE \/ UNCHANGED vars
           \/ \E w \in Workers, c \in Bundles : Deliver(w, c)
           \/ \E c \in Cards : ReviewLicense(c) \/ EditCard(c) \/ PublishCard(c)
           \/ \E c \in Bundles : LoseMessage(c) \/ Decide(c)
  BY <1>1
  DEF vars, Deliver, TurnAway, Take, ReviewLicense, EditCard, PublishCard,
      LoseMessage, Decide
<1>2. ASSUME NEW c \in Bundles,
             \/ CreateBundle(c) \/ CompleteUpload(c) \/ StartAnalysis(c)
             \/ ApplyBundle(c) \/ CancelBundle(c) \/ RetryBundle(c)
      PROVE  status'[b] # "absent"
  BY <1>2
  DEF TypeOK, CreateBundle, CompleteUpload, StartAnalysis, ApplyBundle,
      CancelBundle, RetryBundle
<1>3. ASSUME NEW w \in Workers, Work(w) \/ Misfortune(w)
      PROVE  status'[b] # "absent"
  <2>1. CASE CompleteBundle(w)
    BY <2>1 DEF TypeOK, CompleteBundle
  <2>2. CASE ~ CompleteBundle(w)
    BY <1>3, <2>2, StatusOfWork DEF TypeOK
  <2>3. QED BY <2>1, <2>2
<1>4. ASSUME NEW r \in Reconcilers, Reconcile(r) \/ Send(r) \/ BrokerRefuses(r)
      PROVE  status'[b] # "absent"
  BY <1>4, StatusOfReconciler
<1>5. QED BY <1>1, <1>2, <1>3, <1>4 DEF Next, Administrator

LEMMA CondemnedStep ==
  ASSUME LegacyInv, [Next]_vars, NEW r \in Reconcilers, Condemned(r)
  PROVE  Condemned(r)'
<1>1. TypeOK /\ \A b \in Bundles : status[b] # "absent" => status'[b] # "absent"
  BY StaysCreated DEF LegacyInv
<1>2. CASE UNCHANGED <<givingUp, refused>>
  BY <1>1, <1>2 DEF TypeOK, DispatchTypeOK, Condemned
<1>3. ASSUME NEW q \in Reconcilers, Reconcile(q) \/ Send(q) \/ BrokerRefuses(q)
      PROVE  Condemned(r)'
  <2>1. CASE StartGivingUp(q)
    <3>1. /\ refused[q] \in Bundles /\ status[refused[q]] \in Active
          /\ givingUp' = [givingUp EXCEPT ![q] = TRUE]
          /\ UNCHANGED <<status, refused>>
      BY <1>1, <2>1 DEF TypeOK, DispatchTypeOK, StartGivingUp, GivesUp
    <3>2. CASE r = q
      BY <3>1, <3>2 DEF Condemned, Active
    <3>3. CASE r # q
      BY <1>1, <3>1, <3>3 DEF TypeOK, Condemned
    <3>4. QED BY <3>2, <3>3
  <2>2. CASE GiveUp(q)
    <3>1. /\ givingUp' = [givingUp EXCEPT ![q] = FALSE]
          /\ refused' = [refused EXCEPT ![q] = NoJob]
      BY <2>2 DEF GiveUp, MarkDeliveryFailed
    <3>2. QED
      BY <1>1, <3>1 DEF TypeOK, DispatchTypeOK, Condemned
  <2>3. CASE RecordRefused(q)
    <3>1. /\ refused' = [refused EXCEPT ![q] = NoJob] /\ refused[q] \in Bundles
          /\ DispatchFree(refused[q]) /\ UNCHANGED <<givingUp, status>>
      BY <1>1, <2>3
      DEF TypeOK, DispatchTypeOK, RecordRefused, MarkDeliveryFailed
    <3>2. ~ givingUp[q]
      BY <3>1 DEF DispatchFree
    <3>3. QED
      BY <1>1, <3>1, <3>2 DEF TypeOK, DispatchTypeOK, Condemned
  <2>4. CASE BrokerRefuses(q)
    <3>1. PICK b \in batch[q] : RefuseIntent(q, b)
      BY <2>4 DEF BrokerRefuses
    <3>2. /\ refused[q] = NoJob /\ refused' = [refused EXCEPT ![q] = b]
          /\ UNCHANGED <<givingUp, status>>
      BY <2>4, <3>1 DEF BrokerRefuses, RefuseIntent
    <3>3. ~ givingUp[q]
      BY <1>1, <3>2 DEF TypeOK
    <3>4. QED
      BY <1>1, <3>2, <3>3 DEF TypeOK, DispatchTypeOK, Condemned
  <2>5. CASE Reconcile(q) \/ Publish(q) \/ RecordDelivered(q)
    BY <1>2, <2>5
    DEF Reconcile, RecoverAndClaim, Publish, PublishIntent, RecordDelivered,
        MarkDelivered
  <2>6. QED
    BY <1>3, <2>1, <2>2, <2>3, <2>4, <2>5 DEF Send
<1>4. CASE \/ UNCHANGED vars
           \/ \E w \in Workers, b \in Bundles : Deliver(w, b)
           \/ \E c \in Cards : ReviewLicense(c) \/ EditCard(c) \/ PublishCard(c)
           \/ \E b \in Bundles :
                \/ CreateBundle(b) \/ CompleteUpload(b) \/ StartAnalysis(b)
                \/ Decide(b) \/ ApplyBundle(b) \/ CancelBundle(b)
                \/ RetryBundle(b) \/ LoseMessage(b)
  <2>1. UNCHANGED <<givingUp, refused>>
    BY <1>4
    DEF vars, CreateBundle, CompleteUpload, StartAnalysis, Decide, ApplyBundle,
        CancelBundle, RetryBundle, ReviewLicense, EditCard, PublishCard,
        LoseMessage, Deliver, TurnAway, Take
  <2>2. QED BY <1>2, <2>1
<1>5. CASE \E w \in Workers : Work(w)
  <2>1. UNCHANGED <<givingUp, refused>>
    BY <1>5
    DEF Work, Apply, SaveAnalysis, AnalysedTwice, CheckPlan, PassItem, SkipItem,
        CatalogChanged, StartItem, CommitCreate, CommitMerge, MergeChanged, Stop,
        CompleteBundle, Unlock, RecordFailure
  <2>2. QED BY <1>2, <2>1
<1>6. CASE \E w \in Workers : Misfortune(w)
  <2>1. UNCHANGED <<givingUp, refused>>
    BY <1>6
    DEF Misfortune, WorkFails, ItemFails, Backpressure, WorkerCrash, LoseLease
  <2>2. QED BY <1>2, <2>1
<1>7. QED
  BY <1>3, <1>4, <1>5, <1>6 DEF Next, Administrator

LEMMA InHandStep ==
  ASSUME LegacyInv, [Next]_vars, NEW w \in Workers, InHand(w)
  PROVE  InHand(w)'
<1>1. TypeOK /\ Applier(w) /\ PlansStay
  BY StepEffects DEF LegacyInv, Effects
<1>2. CASE pc[w] = "item" /\ UNCHANGED <<pc[w], on[w], pos[w]>>
  <2>1. on[w] \in Bundles /\ phase[on[w]] = "apply"
    BY <1>1, <1>2, OnBundle DEF Applier
  <2>2. plan'[on[w]] = plan[on[w]]
    BY <1>1, <2>1 DEF PlansStay
  <2>3. QED BY <1>2, <2>2 DEF InHand, Item
<1>3. CASE pc'[w] # "item"
  BY <1>3 DEF InHand
<1>4. CASE StartItem(w)
  <2>1. ~ Skips(w) /\ UNCHANGED <<plan, on, pos>>
    BY <1>4 DEF StartItem, Goes, Moves
  <2>2. QED BY <2>1 DEF Skips, InHand, Item
<1>5. CASE \E v \in Workers \ {w} :
             Work(v) \/ Misfortune(v) \/ \E b \in Bundles : Deliver(v, b)
  <2>1. PICK v \in Workers \ {w} :
          Work(v) \/ Misfortune(v) \/ \E b \in Bundles : Deliver(v, b)
    BY <1>5
  <2>2. CASE Work(v) \/ Misfortune(v)
    <3>1. Others(v)
      BY <1>1, <2>2, OtherWorkers
    <3>2. QED BY <1>2, <1>3, <3>1 DEF Others
  <2>3. CASE \E b \in Bundles : Deliver(v, b)
    <3>1. UNCHANGED <<pc[w], on[w], pos[w]>>
      BY <1>1, <2>3 DEF TypeOK, Deliver, TurnAway, Take
    <3>2. QED BY <1>2, <1>3, <3>1
  <2>4. QED BY <2>1, <2>2, <2>3
<1>6. CASE Work(w) \/ Misfortune(w)
  <2>1. CASE LoseLease(w)
    BY <1>2, <1>3, <2>1 DEF LoseLease
  <2>2. CASE ~ LoseLease(w) /\ ~ StartItem(w)
    <3>1. pc'[w] # "item"
      BY <1>1, <1>6, <2>2
      DEF TypeOK, Work, Apply, Misfortune, SaveAnalysis, AnalysedTwice,
          CheckPlan, PassItem, SkipItem, CatalogChanged, CommitCreate,
          CommitMerge, MergeChanged, Stop, CompleteBundle, Unlock,
          RecordFailure, WorkFails, ItemFails, Backpressure, WorkerCrash, Goes,
          Moves, Leave, Applicable, AtItem
    <3>2. QED BY <1>3, <3>1
  <2>3. QED BY <1>4, <2>1, <2>2
<1>7. CASE \E b \in Bundles : Deliver(w, b)
  <2>1. UNCHANGED <<pc, on, pos>> \/ pc'[w] # "item"
    BY <1>1, <1>7 DEF TypeOK, Deliver, TurnAway, Take
  <2>2. QED BY <1>2, <1>3, <2>1
<1>8. CASE \/ UNCHANGED vars
           \/ \E b \in Bundles :
                \/ CreateBundle(b) \/ CompleteUpload(b) \/ StartAnalysis(b)
                \/ Decide(b) \/ ApplyBundle(b) \/ CancelBundle(b)
                \/ RetryBundle(b) \/ LoseMessage(b)
           \/ \E c \in Cards : ReviewLicense(c) \/ EditCard(c) \/ PublishCard(c)
           \/ \E r \in Reconcilers : Reconcile(r) \/ Send(r) \/ BrokerRefuses(r)
  <2>1. UNCHANGED <<pc, on, pos>>
    BY <1>8
    DEF vars, CreateBundle, CompleteUpload, StartAnalysis, Decide, ApplyBundle,
        CancelBundle, RetryBundle, LoseMessage, ReviewLicense, EditCard,
        PublishCard, Reconcile, Send, Publish, BrokerRefuses, RecordDelivered,
        RecordRefused, StartGivingUp, GiveUp
  <2>2. QED BY <1>2, <1>3, <2>1
<1>9. QED
  BY <1>5, <1>6, <1>7, <1>8 DEF Next, Administrator

LEMMA ProposedStep ==
  ASSUME LegacyInv, [Next]_vars, NEW b \in Bundles, Proposed(b)
  PROVE  Proposed(b)'
<1>1. TypeOK /\ \A w \in Workers : Applier(w)
  BY DEF LegacyInv
<1>2. ASSUME UNCHANGED <<plan[b], itemStatus[b]>>, status'[b] = "ready" => status[b] = "ready"
      PROVE  Proposed(b)'
  BY <1>2 DEF Proposed, Items
<1>3. ASSUME status'[b] # "ready"
      PROVE  Proposed(b)'
  BY <1>3 DEF Proposed
<1>4. CASE \/ UNCHANGED vars
           \/ \E c \in Bundles :
                \/ CreateBundle(c) \/ CompleteUpload(c) \/ StartAnalysis(c)
                \/ ApplyBundle(c) \/ CancelBundle(c) \/ LoseMessage(c)
           \/ \E c \in Cards : ReviewLicense(c) \/ EditCard(c) \/ PublishCard(c)
           \/ \E w \in Workers, c \in Bundles : Deliver(w, c)
           \/ \E r \in Reconcilers : Reconcile(r) \/ Send(r) \/ BrokerRefuses(r)
  <2>1. UNCHANGED <<plan, itemStatus>>
    BY <1>4
    DEF vars, CreateBundle, CompleteUpload, StartAnalysis, ApplyBundle,
        CancelBundle, LoseMessage, ReviewLicense, EditCard, PublishCard, Deliver,
        TurnAway, Take, Reconcile, Send, Publish, BrokerRefuses,
        RecordDelivered, RecordRefused, StartGivingUp, GiveUp
  <2>2. status'[b] = "ready" => status[b] = "ready"
    <3>1. CASE \E r \in Reconcilers : Reconcile(r) \/ Send(r) \/ BrokerRefuses(r)
      BY <1>1, <3>1, StatusOfReconciler
    <3>2. CASE \/ UNCHANGED vars
               \/ \E c \in Cards : ReviewLicense(c) \/ EditCard(c) \/ PublishCard(c)
               \/ \E c \in Bundles : LoseMessage(c)
               \/ \E w \in Workers, c \in Bundles : Deliver(w, c)
      BY <3>2
      DEF vars, LoseMessage, ReviewLicense, EditCard, PublishCard, Deliver,
          TurnAway, Take
    <3>3. CASE \E c \in Bundles :
                 \/ CreateBundle(c) \/ CompleteUpload(c) \/ StartAnalysis(c)
                 \/ ApplyBundle(c) \/ CancelBundle(c)
      BY <1>1, <3>3
      DEF TypeOK, CreateBundle, CompleteUpload, StartAnalysis, ApplyBundle,
          CancelBundle
    <3>4. QED BY <1>4, <3>1, <3>2, <3>3
  <2>3. QED BY <1>2, <2>1, <2>2
<1>5. ASSUME NEW c \in Bundles, RetryBundle(c)
      PROVE  Proposed(b)'
  <2>1. CASE b = c
    BY <1>1, <1>3, <1>5, <2>1 DEF TypeOK, RetryBundle
  <2>2. CASE b # c
    BY <1>1, <1>2, <1>5, <2>2 DEF TypeOK, RetryBundle
  <2>3. QED BY <2>1, <2>2
<1>6. ASSUME NEW c \in Bundles, Decide(c)
      PROVE  Proposed(b)'
  <2>1. PICK i \in Items(c) : \E d \in Choices(c, i) :
          /\ plan' = [plan EXCEPT ![c][i].decision = d]
          /\ itemStatus' = [itemStatus EXCEPT ![c][i] = "planned"]
    BY <1>6 DEF Decide
  <2>2. PICK d \in Choices(c, i) :
          /\ plan' = [plan EXCEPT ![c][i].decision = d]
          /\ itemStatus' = [itemStatus EXCEPT ![c][i] = "planned"]
    BY <2>1
  <2>3. status' = status /\ status[c] = "ready"
    BY <1>6 DEF Decide, Decidable
  <2>4. CASE b # c
    BY <1>1, <1>2, <2>2, <2>3, <2>4 DEF TypeOK
  <2>5. CASE b = c
    <3>1. IsPlan(b, plan[b])
      BY <2>3, <2>5 DEF LegacyInv, Told
    <3>2. d.kind # "review"
      BY DEF Choices, Decision
    <3>3. itemStatus[b] \in [Items(b) -> Settled \cup {"planned"}]
      BY <1>1, <3>1 DEF TypeOK, IsPlan
    <3>4. itemStatus'[b] = [itemStatus[b] EXCEPT ![i] = "planned"]
      BY <1>1, <2>2, <2>5 DEF TypeOK
    <3>5. plan'[b] = [plan[b] EXCEPT ![i].decision = d]
      BY <1>1, <2>2, <2>5 DEF TypeOK
    <3>6. \A j \in Items(b) \ {i} :
            plan'[b][j] = plan[b][j] /\ itemStatus'[b][j] = itemStatus[b][j]
      BY <3>1, <3>3, <3>4, <3>5 DEF IsPlan
    <3>7. itemStatus'[b][i] = "planned"
      BY <2>5, <3>3, <3>4
    <3>8. plan'[b][i].decision = d
      <4>1. IsProposal(plan[b][i])
        BY <2>5, <3>1 DEF IsPlan
      <4>2. plan'[b][i] = [plan[b][i] EXCEPT !.decision = d]
        BY <2>5, <3>1, <3>5 DEF IsPlan
      <4>3. QED BY <4>1, <4>2 DEF IsProposal
    <3>9. Items(b)' = Items(b)
      BY DEF Items
    <3>10. \A j \in Items(b) : itemStatus'[b][j] =
             IF plan'[b][j].decision.kind = "review" THEN "needs_review" ELSE "planned"
      BY <2>3, <2>5, <3>2, <3>6, <3>7, <3>8 DEF Proposed
    <3>11. QED BY <3>9, <3>10 DEF Proposed
  <2>6. QED BY <2>4, <2>5
<1>7. ASSUME NEW w \in Workers, Work(w) \/ Misfortune(w)
      PROVE  Proposed(b)'
  <2>1. CASE SaveAnalysis(w)
    <3>1. CASE status[on[w]] = "analyzing" /\ b = on[w]
      <4>1. plan'[b] = [i \in Items(b) |-> Proposal(i)]
        BY <1>1, <2>1, <3>1 DEF TypeOK, SaveAnalysis
      <4>2. itemStatus'[b] = [i \in Items(b) |->
               IF [j \in Items(b) |-> Proposal(j)][i].decision.kind = "review"
               THEN "needs_review" ELSE "planned"]
        BY <1>1, <2>1, <3>1 DEF TypeOK, SaveAnalysis
      <4>3. QED BY <4>1, <4>2 DEF Proposed, Items
    <3>2. CASE status[on[w]] = "analyzing" /\ b # on[w]
      BY <1>1, <1>2, <2>1, <3>2 DEF TypeOK, SaveAnalysis
    <3>3. CASE status[on[w]] # "analyzing"
      BY <1>2, <2>1, <3>3 DEF SaveAnalysis
    <3>4. QED BY <3>1, <3>2, <3>3
  <2>2. CASE \/ SkipItem(w) \/ CatalogChanged(w) \/ CommitCreate(w)
             \/ CommitMerge(w) \/ MergeChanged(w) \/ ItemFails(w)
    <3>1. /\ UNCHANGED <<status, plan>> /\ pc[w] # "idle"
          /\ \E outcome \in Settled : SettleItem(w, outcome)
      BY <2>2
      DEF SkipItem, CatalogChanged, CommitCreate, CommitMerge, MergeChanged,
          ItemFails, Applicable, AtItem, Moves, Settled
    <3>2. status[on[w]] = "applying"
      BY <1>1, <2>2
      DEF SkipItem, CatalogChanged, CommitCreate, CommitMerge, MergeChanged,
          ItemFails, Applicable, AtItem, Moves, Applier
    <3>3. b # on[w] => itemStatus'[b] = itemStatus[b]
      BY <1>1, <3>1, SettleType
    <3>4. QED BY <1>2, <1>3, <3>1, <3>2, <3>3
  <2>3. CASE \/ AnalysedTwice(w) \/ CheckPlan(w) \/ WorkFails(w) \/ Stop(w)
             \/ PassItem(w) \/ StartItem(w) \/ Backpressure(w)
             \/ CompleteBundle(w) \/ Unlock(w) \/ RecordFailure(w)
             \/ WorkerCrash(w) \/ LoseLease(w)
    <3>1. UNCHANGED <<plan, itemStatus>>
      BY <2>3
      DEF AnalysedTwice, CheckPlan, WorkFails, Stop, PassItem, StartItem,
          Backpressure, CompleteBundle, Unlock, RecordFailure, WorkerCrash,
          LoseLease
    <3>2. status'[b] = "ready" => status[b] = "ready"
      <4>1. CASE CompleteBundle(w) \/ RecordFailure(w)
        BY <1>1, <4>1 DEF TypeOK, CompleteBundle, RecordFailure
      <4>2. CASE ~ CompleteBundle(w) /\ ~ RecordFailure(w)
        BY <2>3, <4>2
        DEF AnalysedTwice, CheckPlan, WorkFails, Stop, PassItem, StartItem,
            Backpressure, Unlock, WorkerCrash, LoseLease
      <4>3. QED BY <4>1, <4>2
    <3>3. QED BY <1>2, <3>1, <3>2
  <2>4. QED BY <1>7, <2>1, <2>2, <2>3 DEF Work, Apply, Misfortune
<1>8. QED
  BY <1>4, <1>5, <1>6, <1>7 DEF Next, Administrator

LEMMA KeepingStep == KeepingInv /\ [Next]_vars => KeepingInv'
<1> SUFFICES ASSUME KeepingInv, [Next]_vars PROVE KeepingInv'
  OBVIOUS
<1>1. LegacyInv'
  BY LegacyStep DEF KeepingInv
<1>2. \A b \in Bundles : Proposed(b)'
  BY ProposedStep DEF KeepingInv
<1>3. \A w \in Workers : InHand(w)'
  BY InHandStep DEF KeepingInv
<1>4. \A r \in Reconcilers : Condemned(r)'
  BY CondemnedStep DEF KeepingInv
<1>5. QED BY <1>1, <1>2, <1>3, <1>4 DEF KeepingInv

LegacyPromiseStep == [Promise!Next]_(Promise!vars)

\* A step the administrator does not see.
LEMMA Unseen ==
  ASSUME \A b \in Bundles : StageOf(b)' = StageOf(b),
         UNCHANGED <<phase, plan, itemStatus, link>>
  PROVE  LegacyPromiseStep
<1>1. \A b \in Bundles : DecisionsOf(b)' = DecisionsOf(b)
  BY DEF DecisionsOf
<1>2. {b \in Bundles : phase[b] = "apply"}' = {b \in Bundles : phase[b] = "apply"}
  OBVIOUS
<1>3. QED BY <1>1, <1>2 DEF LegacyPromiseStep, Promise!vars

\* A step that takes one bundle elsewhere and no row.
LEMMA Moved ==
  ASSUME NEW b \in Bundles, NEW from, NEW to,
         StageOf(b) \in from, StageOf(b)' = to,
         \A c \in Bundles \ {b} : StageOf(c)' = StageOf(c),
         UNCHANGED <<phase, plan, itemStatus, link>>
  PROVE  Promise!Moves(b, from, to)
<1>1. \A c \in Bundles : DecisionsOf(c)' = DecisionsOf(c)
  BY DEF DecisionsOf
<1>2. {c \in Bundles : phase[c] = "apply"}' = {c \in Bundles : phase[c] = "apply"}
  OBVIOUS
<1>3. QED BY <1>1, <1>2 DEF Promise!Moves, Promise!Advance

LEMMA KeepsCreating ==
  ASSUME TypeOK, NEW b \in Bundles,
         CreateBundle(b) \/ CompleteUpload(b) \/ StartAnalysis(b) \/ CancelBundle(b)
  PROVE  LegacyPromiseStep
<1>1. UNCHANGED <<phase, plan, itemStatus, link>>
  BY DEF CreateBundle, CompleteUpload, StartAnalysis, CancelBundle
<1>2. \A c \in Bundles \ {b} : StageOf(c)' = StageOf(c)
  BY DEF TypeOK, StageOf, CreateBundle, CompleteUpload, StartAnalysis,
         CancelBundle
<1>3. CASE CreateBundle(b)
  <2>1. StageOf(b) = "none" /\ StageOf(b)' = "draft"
    BY <1>3 DEF TypeOK, StageOf, CreateBundle
  <2>2. Promise!Open(b)
    BY <1>1, <1>2, <2>1, Moved DEF Promise!Open
  <2>3. QED BY <2>2 DEF LegacyPromiseStep, Promise!Next
<1>4. CASE CompleteUpload(b) \/ StartAnalysis(b)
  <2>1. StageOf(b)' = StageOf(b)
    BY <1>4 DEF TypeOK, StageOf, CompleteUpload, StartAnalysis
  <2>2. QED BY <1>1, <1>2, <2>1, Unseen
<1>5. CASE CancelBundle(b)
  <2>1. /\ StageOf(b) \in {"draft", "ready", "applying", "failed"}
        /\ StageOf(b)' = "cancelled"
    BY <1>5
    DEF TypeOK, StageOf, CancelBundle, Statuses, InProgress, Active
  <2>2. Promise!Cancel(b)
    BY <1>1, <1>2, <2>1, Moved DEF Promise!Cancel
  <2>3. QED BY <2>2 DEF LegacyPromiseStep, Promise!Next
<1>6. QED BY <1>3, <1>4, <1>5

LEMMA KeepsDeciding ==
  ASSUME LegacyInv, NEW b \in Bundles, Decide(b)
  PROVE  LegacyPromiseStep
<1>1. TypeOK /\ IsPlan(b, plan[b]) /\ status[b] = "ready"
  BY DEF LegacyInv, Told, Decide, Decidable
<1>2. PICK i \in Items(b) : \E d \in Choices(b, i) :
        /\ plan' = [plan EXCEPT ![b][i].decision = d]
        /\ itemStatus' = [itemStatus EXCEPT ![b][i] = "planned"]
  BY DEF Decide
<1>3. PICK d \in Choices(b, i) :
        /\ plan' = [plan EXCEPT ![b][i].decision = d]
        /\ itemStatus' = [itemStatus EXCEPT ![b][i] = "planned"]
  BY <1>2
<1> DEFINE e == [kind |-> d.kind, target |-> d.target]
<1>4. e \in Promise!Choices
  <2>1. IsProposal(plan[b][i])
    BY <1>1 DEF IsPlan
  <2>2. DOMAIN plan[b][i].seen \subseteq Cards
    BY <2>1 DEF IsProposal
  <2>3. \/ d.kind \in {"skip", "create"} /\ d.target = NoCard
        \/ d.kind = "merge" /\ d.target \in Cards
    BY <2>2 DEF Choices, Decision
  <2>4. QED BY <2>3 DEF Promise!Choices, Promise!Decision
<1>5. UNCHANGED <<status, phase, link>>
  BY DEF Decide
<1>6. \A c \in Bundles : StageOf(c)' = StageOf(c)
  BY <1>5 DEF StageOf
<1>7. \A c \in Bundles \ {b} : DecisionsOf(c)' = DecisionsOf(c)
  BY <1>1, <1>3 DEF TypeOK, DecisionsOf
<1>8. DecisionsOf(b)' = [DecisionsOf(b) EXCEPT ![i] = e]
  <2>1. plan'[b] = [plan[b] EXCEPT ![i].decision = d]
    BY <1>1, <1>3 DEF TypeOK
  <2>2. DOMAIN plan'[b] = Items(b) /\ DOMAIN plan[b] = Items(b)
    BY <1>1, <2>1 DEF IsPlan
  <2>3. plan'[b][i].decision = d
    <3>1. IsProposal(plan[b][i])
      BY <1>1 DEF IsPlan
    <3>2. plan'[b][i] = [plan[b][i] EXCEPT !.decision = d]
      BY <2>1, <2>2
    <3>3. QED BY <3>1, <3>2 DEF IsProposal
  <2>4. \A j \in Items(b) \ {i} : plan'[b][j] = plan[b][j]
    BY <2>1, <2>2
  <2>5. QED BY <2>2, <2>3, <2>4 DEF DecisionsOf
<1> HIDE DEF e
<1>9. [c \in Bundles |-> DecisionsOf(c)]' =
        [[c \in Bundles |-> DecisionsOf(c)] EXCEPT ![b][i] = e]
  BY <1>7, <1>8
<1>10. {c \in Bundles : phase[c] = "apply"}' = {c \in Bundles : phase[c] = "apply"}
  BY <1>5
<1>11. Items(b)' = Items(b) /\ StageOf(b) = "ready"
  BY <1>1 DEF Items, StageOf
<1>12. Promise!Decide(b)
  BY <1>3, <1>4, <1>5, <1>6, <1>9, <1>10, <1>11 DEF Promise!Decide
<1>13. QED BY <1>12 DEF LegacyPromiseStep, Promise!Next

LEMMA KeepsConfirming ==
  ASSUME KeepingInv, NEW b \in Bundles, ApplyBundle(b)
  PROVE  LegacyPromiseStep
<1>1. TypeOK /\ IsPlan(b, plan[b]) /\ status[b] = "ready" /\ Proposed(b)
  BY DEF KeepingInv, LegacyInv, Told, ApplyBundle
<1>2. UNCHANGED <<plan, itemStatus, link>>
  BY DEF ApplyBundle
<1>3. DOMAIN itemStatus[b] = Items(b)
  BY <1>1 DEF TypeOK, IsPlan
<1>4. \A i \in Items(b) : itemStatus[b][i] = "planned"
  BY <1>1 DEF Proposed, ApplyBundle
<1>5. StageOf(b) = "ready" /\ StageOf(b)' = "applying"
  BY <1>1 DEF TypeOK, StageOf, ApplyBundle
<1>6. \A c \in Bundles \ {b} : StageOf(c)' = StageOf(c)
  BY <1>1 DEF TypeOK, StageOf, ApplyBundle
<1>7. {c \in Bundles : phase[c] = "apply"}' =
        {c \in Bundles : phase[c] = "apply"} \cup {b}
  BY <1>1 DEF TypeOK, ApplyBundle
<1>8. \A c \in Bundles : DecisionsOf(c)' = DecisionsOf(c)
  BY <1>2 DEF DecisionsOf
<1>9. Promise!Confirm(b)
  BY <1>2, <1>3, <1>4, <1>5, <1>6, <1>7, <1>8
  DEF Promise!Confirm, Promise!Advance
<1>10. QED BY <1>9 DEF LegacyPromiseStep, Promise!Next

LEMMA KeepsRetrying ==
  ASSUME TypeOK, NEW b \in Bundles, RetryBundle(b)
  PROVE  LegacyPromiseStep
<1>1. UNCHANGED <<phase, plan, link>>
  BY DEF RetryBundle
<1>2. \A c \in Bundles : DecisionsOf(c)' = DecisionsOf(c)
  BY <1>1 DEF DecisionsOf
<1>3. {c \in Bundles : phase[c] = "apply"}' = {c \in Bundles : phase[c] = "apply"}
  BY <1>1
<1>4. \A c \in Bundles \ {b} : StageOf(c)' = StageOf(c)
  BY DEF TypeOK, StageOf, RetryBundle
<1>5. /\ StageOf(b) \in {"failed", "completed"}
      /\ StageOf(b) = "completed" => FailedItems(b) # {}
      /\ StageOf(b)' = IF phase[b] = "apply" THEN "applying" ELSE "draft"
  BY DEF TypeOK, StageOf, RetryBundle
<1>6. itemStatus' = [itemStatus EXCEPT ![b] = [i \in DOMAIN itemStatus[b] |->
        IF phase[b] = "apply" /\ i \in FailedItems(b) THEN "planned"
        ELSE itemStatus[b][i]]]
  BY DEF TypeOK, RetryBundle, Replanned, FailedItems
<1>7. Promise!Retry(b)
  BY <1>1, <1>2, <1>3, <1>4, <1>5, <1>6
  DEF Promise!Retry, Promise!Advance, FailedItems
<1>8. QED BY <1>7 DEF LegacyPromiseStep, Promise!Next

LEMMA KeepsProposing ==
  ASSUME LegacyInv, NEW w \in Workers, SaveAnalysis(w)
  PROVE  LegacyPromiseStep
<1>1. TypeOK /\ on[w] \in Bundles
  BY OnBundle DEF LegacyInv, SaveAnalysis, Goes, Moves
<1>2. UNCHANGED <<phase, link>>
  BY DEF SaveAnalysis
<1>3. CASE status[on[w]] # "analyzing"
  <2>1. UNCHANGED <<status, plan, itemStatus>>
    BY <1>3 DEF SaveAnalysis
  <2>2. QED BY <1>2, <2>1, Unseen DEF StageOf
<1>4. CASE status[on[w]] = "analyzing"
  <2>1. PICK b \in Bundles : b = on[w]
    BY <1>1
  <2> DEFINE proposed == [i \in Items(b) |-> Proposal(i)]
             p == [i \in Items(b) |->
                     [kind |-> proposed[i].decision.kind,
                      target |-> proposed[i].decision.target]]
  <2>2. /\ plan[b] = NoPlan /\ plan' = [plan EXCEPT ![b] = proposed]
        /\ itemStatus' = [itemStatus EXCEPT ![b] = [i \in Items(b) |->
              IF proposed[i].decision.kind = "review"
              THEN "needs_review" ELSE "planned"]]
        /\ status' = [status EXCEPT ![b] = "ready"]
    BY <1>4, <2>1 DEF SaveAnalysis
  <2>3. /\ StageOf(b) = "draft" /\ StageOf(b)' = "ready"
        /\ \A c \in Bundles \ {b} : StageOf(c)' = StageOf(c)
    BY <1>1, <1>4, <2>1, <2>2 DEF TypeOK, StageOf
  <2>4. \A i \in Items(b) :
          /\ p[i].kind \in {"skip", "create", "review"} /\ p[i].target = NoCard
          /\ p[i] = [kind |-> p[i].kind, target |-> p[i].target]
          /\ p[i].kind = "skip" <=> link[i] # NoCard
    BY DEF Proposal, Decision
  <2>5. p \in [Items(b) -> Promise!Proposals]
    BY <2>4 DEF Promise!Proposals, Promise!Decision
  <2>6. DecisionsOf(b) = Promise!NoPlan
    BY <2>2, NothingPlanned DEF DecisionsOf, Promise!NoPlan, NoPlan
  <2>7. [c \in Bundles |-> DecisionsOf(c)]' =
          [[c \in Bundles |-> DecisionsOf(c)] EXCEPT ![b] = p]
    <3>1. \A c \in Bundles \ {b} : DecisionsOf(c)' = DecisionsOf(c)
      BY <1>1, <2>2 DEF TypeOK, DecisionsOf
    <3>2. plan'[b] = proposed
      BY <1>1, <2>2 DEF TypeOK
    <3>3. DecisionsOf(b)' = p
      BY <3>2 DEF DecisionsOf
    <3> HIDE DEF p
    <3>4. QED BY <3>1, <3>3
  <2>8. itemStatus' = [itemStatus EXCEPT ![b] = [i \in Items(b) |->
          IF p[i].kind = "review" THEN "needs_review" ELSE "planned"]]
    BY <2>2
  <2>9. {c \in Bundles : phase[c] = "apply"}' = {c \in Bundles : phase[c] = "apply"}
    BY <1>2
  <2> HIDE DEF p
  <2>10. Promise!Propose(b)
    BY <1>2, <2>3, <2>4, <2>5, <2>6, <2>7, <2>8, <2>9
    DEF Promise!Propose, Promise!Advance
  <2>11. QED BY <2>10 DEF LegacyPromiseStep, Promise!Next
<1>5. QED BY <1>3, <1>4

\* A worker is done with an item of a bundle that is being applied.
LEMMA Settling ==
  ASSUME LegacyInv, NEW w \in Workers, NEW outcome \in Settled,
         SettleItem(w, outcome), UNCHANGED <<status, phase, plan>>,
         pc[w] = "item" \/ Applicable(w)
  PROVE  /\ on[w] \in Bundles /\ Item(w) \in Items(on[w])
         /\ IsPlan(on[w], plan[on[w]])
         /\ Promise!Settle(on[w], Item(w), outcome)
<1>1. TypeOK /\ Applier(w)
  BY DEF LegacyInv
<1>2. pc[w] \in {"working", "item"} /\ on[w] \in Bundles
  BY <1>1, OnBundle DEF Applicable, AtItem
<1>3. /\ status[on[w]] = "applying" /\ pos[w] <= Len(Contents[on[w]])
      /\ itemStatus[on[w]][Item(w)] = "planned"
  BY <1>1 DEF Applier, Applicable, AtItem
<1>4. Item(w) \in Items(on[w])
  <2>1. pos[w] \in 1..Len(Contents[on[w]])
    BY <1>1, <1>2, <1>3, ItemsAreIdentities DEF TypeOK, Applier
  <2>2. QED BY <1>2, <2>1, ItemsAreIdentities DEF Item
<1>5. IsPlan(on[w], plan[on[w]])
  BY <1>1, <1>2 DEF LegacyInv, Applier, Told
<1>6. DOMAIN itemStatus[on[w]] = Items(on[w])
  BY <1>1, <1>2, <1>5 DEF TypeOK, IsPlan
<1>7. \A c \in Bundles : StageOf(c)' = StageOf(c) /\ DecisionsOf(c)' = DecisionsOf(c)
  BY DEF StageOf, DecisionsOf
<1>8. StageOf(on[w]) = "applying"
  BY <1>3 DEF StageOf
<1>9. itemStatus' = [itemStatus EXCEPT ![on[w]][Item(w)] = outcome]
  BY DEF SettleItem
<1>10. {c \in Bundles : phase[c] = "apply"}' = {c \in Bundles : phase[c] = "apply"}
  OBVIOUS
<1>11. Promise!Settle(on[w], Item(w), outcome)
  BY <1>2, <1>3, <1>4, <1>6, <1>7, <1>8, <1>9, <1>10 DEF Promise!Settle
<1>12. QED BY <1>2, <1>4, <1>5, <1>11

LEMMA KeepsApplying ==
  ASSUME KeepingInv, NEW w \in Workers,
         \/ SkipItem(w) \/ CatalogChanged(w) \/ CommitCreate(w)
         \/ CommitMerge(w) \/ MergeChanged(w) \/ ItemFails(w)
  PROVE  LegacyPromiseStep
<1>1. LegacyInv /\ InHand(w)
  BY DEF KeepingInv
<1>2. UNCHANGED <<status, phase, plan>> /\ (pc[w] = "item" \/ Applicable(w))
  BY DEF SkipItem, CatalogChanged, CommitCreate, CommitMerge, MergeChanged,
         ItemFails, Moves
<1>3. PICK outcome \in Settled : SettleItem(w, outcome)
  BY DEF SkipItem, CatalogChanged, CommitCreate, CommitMerge, MergeChanged,
         ItemFails, Settled
<1>0. PICK b \in Bundles : b = on[w]
  BY <1>1, <1>2, <1>3, Settling
<1>4. PICK i \in Items(b) : b = on[w] /\ i = Item(w)
  BY <1>0, <1>1, <1>2, <1>3, Settling
<1>5. IsPlan(b, plan[b])
  BY <1>1, <1>2, <1>3, <1>4, Settling
<1>6. \A result \in Settled : SettleItem(w, result) => Promise!Settle(b, i, result)
  BY <1>1, <1>2, <1>4, Settling
<1>7. /\ DecisionsOf(b)[i].kind = plan[b][i].decision.kind
      /\ DecisionsOf(b)[i].target = plan[b][i].decision.target
  BY <1>5 DEF DecisionsOf, IsPlan
<1>8. ASSUME \/ Promise!Create(b, i) \/ Promise!Merge(b, i)
             \/ Promise!Skip(b, i) \/ Promise!PutAside(b, i)
      PROVE  LegacyPromiseStep
  BY <1>8 DEF LegacyPromiseStep, Promise!Next
<1>9. CASE SkipItem(w)
  <2>1. SettleItem(w, "skipped") /\ UNCHANGED link
    BY <1>9 DEF SkipItem
  <2>2. DecisionsOf(b)[i].kind = "skip" \/ link[i] # NoCard
    BY <1>4, <1>7, <1>9 DEF SkipItem, Skips
  <2>3. Promise!Skip(b, i)
    BY <1>6, <2>1, <2>2 DEF Promise!Skip, Settled
  <2>4. QED BY <1>8, <2>3
<1>10. CASE CatalogChanged(w) \/ MergeChanged(w) \/ ItemFails(w)
  <2>1. /\ SettleItem(w, "needs_review") \/ SettleItem(w, "failed")
        /\ UNCHANGED link
    BY <1>10 DEF CatalogChanged, MergeChanged, ItemFails
  <2>2. DecisionsOf(b)[i].kind # "skip"
    BY <1>1, <1>4, <1>7, <1>10
    DEF CatalogChanged, MergeChanged, ItemFails, Skips, InHand, Moves
  <2>3. Promise!PutAside(b, i)
    BY <1>6, <2>1, <2>2 DEF Promise!PutAside, Settled
  <2>4. QED BY <1>8, <2>3
<1>11. CASE CommitCreate(w)
  <2>1. /\ SettleItem(w, "applied") /\ link[i] = NoCard
        /\ link' = [link EXCEPT ![i] = <<b, i>>]
        /\ DecisionsOf(b)[i].kind = "create"
    BY <1>4, <1>7, <1>11 DEF CommitCreate, LinkItem
  <2>2. Promise!Create(b, i)
    BY <1>6, <2>1 DEF Promise!Create, Settled
  <2>3. QED BY <1>8, <2>2
<1>12. CASE CommitMerge(w)
  <2>1. /\ SettleItem(w, "applied") /\ link[i] = NoCard
        /\ link' = [link EXCEPT ![i] = DecisionsOf(b)[i].target]
        /\ DecisionsOf(b)[i].kind = "merge"
    BY <1>4, <1>7, <1>12 DEF CommitMerge, LinkItem
  <2>2. Promise!Merge(b, i)
    BY <1>6, <2>1 DEF Promise!Merge, Settled
  <2>3. QED BY <1>8, <2>2
<1>13. QED BY <1>9, <1>10, <1>11, <1>12

LEMMA KeepsCompleting ==
  ASSUME LegacyInv, CompletedIsSettled', NEW w \in Workers, CompleteBundle(w)
  PROVE  LegacyPromiseStep
<1>1. TypeOK /\ on[w] \in Bundles
  BY OnBundle DEF LegacyInv, CompleteBundle, Goes, Moves
<1>2. UNCHANGED <<phase, plan, itemStatus, link>>
  BY DEF CompleteBundle
<1>3. CASE status[on[w]] # "applying"
  <2>1. \A c \in Bundles : status'[c] = status[c]
    BY <1>1, <1>3 DEF TypeOK, CompleteBundle
  <2>2. QED BY <1>2, <2>1, Unseen DEF StageOf
<1>4. CASE status[on[w]] = "applying"
  <2>1. PICK b \in Bundles : b = on[w]
    BY <1>1
  <2>2. StageOf(b) = "applying" /\ StageOf(b)' = "completed" /\ status'[b] = "completed"
    BY <1>1, <1>4, <2>1 DEF TypeOK, StageOf, CompleteBundle
  <2>3. \A c \in Bundles \ {b} : StageOf(c)' = StageOf(c)
    BY <1>1, <2>1 DEF TypeOK, StageOf, CompleteBundle
  <2>4. \A i \in Items(b) : itemStatus[b][i] # "planned"
    <3>1. Items(b)' = Items(b)
      BY DEF Items
    <3>2. QED BY <1>2, <2>2, <3>1 DEF CompletedIsSettled, Settled
  <2>5. Promise!Moves(b, {"applying"}, "completed")
    BY <1>2, <2>2, <2>3, Moved
  <2>6. Promise!Complete(b)
    BY <2>4, <2>5 DEF Promise!Complete
  <2>7. QED BY <2>6 DEF LegacyPromiseStep, Promise!Next
<1>5. QED BY <1>3, <1>4

\* Work on bundles that is given up fails them.
LEMMA KeepsFailing ==
  ASSUME NEW S \in SUBSET Bundles, \A b \in S : status[b] \in Active,
         \A b \in Bundles : status'[b] = IF b \in S THEN "failed" ELSE status[b],
         UNCHANGED <<phase, plan, itemStatus, link>>
  PROVE  LegacyPromiseStep
<1>1. \A b \in S : StageOf(b) \in {"draft", "applying"}
  BY DEF StageOf, Active
<1>2. \A b \in Bundles : StageOf(b)' = IF b \in S THEN "failed" ELSE StageOf(b)
  BY DEF StageOf
<1>3. \A b \in Bundles : DecisionsOf(b)' = DecisionsOf(b)
  BY DEF DecisionsOf
<1>4. {c \in Bundles : phase[c] = "apply"}' = {c \in Bundles : phase[c] = "apply"}
  OBVIOUS
<1>5. Promise!Fail(S)
  BY <1>1, <1>2, <1>3, <1>4 DEF Promise!Fail
<1>6. QED BY <1>5 DEF LegacyPromiseStep, Promise!Next

LEMMA KeepsReconciling ==
  ASSUME KeepingInv, NEW r \in Reconcilers, Reconcile(r) \/ GiveUp(r)
  PROVE  LegacyPromiseStep
<1>1. TypeOK /\ Condemned(r)
  BY DEF KeepingInv, LegacyInv
<1>2. UNCHANGED <<phase, plan, itemStatus, link>>
  BY DEF Reconcile, GiveUp
<1>3. CASE Reconcile(r)
  <2>1. PICK lost \in SUBSET {b \in Bundles : Recoverable(b)} :
          status' = [b \in Bundles |->
            IF b \in lost /\ Exhausted(b) THEN "failed" ELSE status[b]]
    BY <1>3 DEF Reconcile
  <2> DEFINE S == {b \in lost : Exhausted(b)}
  <2>2. S \in SUBSET Bundles /\ \A b \in S : status[b] \in Active
    BY DEF Recoverable
  <2>3. \A b \in Bundles : status'[b] = IF b \in S THEN "failed" ELSE status[b]
    BY <2>1
  <2> HIDE DEF S
  <2>4. QED BY <1>2, <2>2, <2>3, KeepsFailing
<1>4. CASE GiveUp(r)
  <2>1. PICK b \in Bundles : b = refused[r]
    BY <1>1, <1>4 DEF TypeOK, DispatchTypeOK, GiveUp, MarkDeliveryFailed
  <2>2. status[b] \in Statuses \ {"absent"}
    BY <1>1, <1>4, <2>1 DEF TypeOK, Condemned, GiveUp
  <2>3. /\ StageOf(b) \in {"draft", "ready", "applying", "completed", "cancelled", "failed"}
        /\ StageOf(b)' = "failed"
    BY <1>1, <1>4, <2>1, <2>2
    DEF TypeOK, StageOf, GiveUp, Statuses, InProgress, Active
  <2>4. \A c \in Bundles \ {b} : StageOf(c)' = StageOf(c)
    BY <1>1, <1>4, <2>1 DEF TypeOK, StageOf, GiveUp
  <2>5. Promise!GiveUp(b)
    BY <1>2, <2>3, <2>4, Moved DEF Promise!GiveUp
  <2>6. QED BY <2>5 DEF LegacyPromiseStep, Promise!Next
<1>5. QED BY <1>3, <1>4

LEMMA KeepsRecording ==
  ASSUME TypeOK, NEW w \in Workers, RecordFailure(w)
  PROVE  LegacyPromiseStep
<1>1. on[w] \in Bundles
  BY OnBundle DEF RecordFailure
<1>2. UNCHANGED <<phase, plan, itemStatus, link>>
  BY DEF RecordFailure
<1> DEFINE S == {b \in {on[w]} : status[b] \in Active}
<1>3. S \in SUBSET Bundles /\ \A b \in S : status[b] \in Active
  BY <1>1
<1>4. \A b \in Bundles : status'[b] = IF b \in S THEN "failed" ELSE status[b]
  BY <1>1 DEF TypeOK, RecordFailure
<1> HIDE DEF S
<1>5. QED BY <1>2, <1>3, <1>4, KeepsFailing

LEMMA EveryStepKeepsThePromise ==
  KeepingInv /\ CompletedIsSettled' /\ [Next]_vars => LegacyPromiseStep
<1> SUFFICES ASSUME KeepingInv, CompletedIsSettled', [Next]_vars
             PROVE  LegacyPromiseStep
  OBVIOUS
<1>1. TypeOK /\ LegacyInv
  BY DEF KeepingInv, LegacyInv
<1>2. CASE UNCHANGED <<status, phase, plan, itemStatus, link>>
  BY <1>2, Unseen DEF StageOf
<1>3. CASE \/ UNCHANGED vars
           \/ \E c \in Cards : ReviewLicense(c) \/ EditCard(c) \/ PublishCard(c)
           \/ \E w \in Workers, b \in Bundles : Deliver(w, b)
           \/ \E b \in Bundles : LoseMessage(b)
  <2>1. UNCHANGED <<status, phase, plan, itemStatus, link>>
    BY <1>3
    DEF vars, ReviewLicense, EditCard, PublishCard, Deliver, TurnAway, Take,
        LoseMessage
  <2>2. QED BY <1>2, <2>1
<1>4. ASSUME NEW w \in Workers, Work(w) \/ Misfortune(w)
      PROVE  LegacyPromiseStep
  <2>1. CASE \/ AnalysedTwice(w) \/ CheckPlan(w) \/ WorkFails(w) \/ Stop(w)
             \/ PassItem(w) \/ StartItem(w) \/ Backpressure(w) \/ Unlock(w)
             \/ WorkerCrash(w) \/ LoseLease(w)
    <3>1. UNCHANGED <<status, phase, plan, itemStatus, link>>
      BY <2>1
      DEF AnalysedTwice, CheckPlan, WorkFails, Stop, PassItem, StartItem,
          Backpressure, Unlock, WorkerCrash, LoseLease
    <3>2. QED BY <1>2, <3>1
  <2>2. QED
    BY <1>1, <1>4, <2>1, KeepsProposing, KeepsApplying, KeepsCompleting,
       KeepsRecording
    DEF Work, Apply, Misfortune
<1>5. ASSUME NEW r \in Reconcilers, Reconcile(r) \/ Send(r) \/ BrokerRefuses(r)
      PROVE  LegacyPromiseStep
  <2>1. CASE Reconcile(r) \/ GiveUp(r)
    BY <2>1, KeepsReconciling
  <2>2. CASE ~ Reconcile(r) /\ ~ GiveUp(r)
    <3>1. UNCHANGED <<status, phase, plan, itemStatus, link>>
      BY <1>5, <2>2
      DEF Send, Publish, BrokerRefuses, RecordDelivered, RecordRefused,
          StartGivingUp
    <3>2. QED BY <1>2, <3>1
  <2>3. QED BY <2>1, <2>2
<1>6. ASSUME NEW b \in Bundles,
             \/ CreateBundle(b) \/ CompleteUpload(b) \/ StartAnalysis(b)
             \/ Decide(b) \/ ApplyBundle(b) \/ CancelBundle(b) \/ RetryBundle(b)
      PROVE  LegacyPromiseStep
  BY <1>1, <1>6, KeepsCreating, KeepsDeciding, KeepsConfirming, KeepsRetrying
<1>7. QED
  BY <1>3, <1>4, <1>5, <1>6 DEF Next, Administrator

\* Whatever its workers, locks, messages and failures do, a bundle that is
\* never completed with an item left to apply keeps the promise.
LEMMA SettledKeeps == Spec /\ []CompletedIsSettled => BundlesKeepThePromise
<1>1. Init => Promise!Init
  BY DEF Init, Promise!Init, StageOf, DecisionsOf, NoPlan, Promise!NoPlan
<1>2. KeepingInv /\ CompletedIsSettled' /\ [Next]_vars
        => [Promise!Next]_(Promise!vars)
  BY EveryStepKeepsThePromise DEF LegacyPromiseStep
<1>3. QED
  BY <1>1, <1>2, KeepingInit, KeepingStep, PTL
  DEF Spec, BundlesKeepThePromise, Promise!Spec

\* LegacyBundles implements LegacyPromise: where no failed item is retried ...
THEOREM BundlesImplement ==
  ASSUME NothingFailedIsRetried
  PROVE  Spec => BundlesKeepThePromise
BY CompletedSettled, SettledKeeps, PTL

\* ... and where failed items are retried, if workers keep their locks and no
\* bundle fails under a worker (BundlesKeepThePromise).
THEOREM RetriedBundlesImplement ==
  ASSUME WorkersKeepLocks
  PROVE  Spec /\ [][FailsByItsWorker]_vars => BundlesKeepThePromise
BY RetriedSettled, SettledKeeps, PTL

=============================================================================
