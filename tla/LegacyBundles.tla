--------------------------- MODULE LegacyBundles ---------------------------
(***************************************************************************)
(* Imports of the old spreadsheet: an administrator uploads a bundle (a    *)
(* workbook and an archive), a worker analyses it into items, the          *)
(* administrator decides about every item and confirms the plan, a worker  *)
(* applies it item by item (api/legacy_imports.py, legacy/processor.py,    *)
(* the legacy half of dispatch/repository.py).                             *)
(*                                                                         *)
(* An item stands for one identity, a row of the workbook.  What the       *)
(* analysis reads and what it makes of it is LegacyPlan's subject: here an *)
(* identity has a topic, and the cards of the same topic are its           *)
(* candidates.  The id of a created card is the item that created it.  A   *)
(* hash is the value it is taken of.                                       *)
(***************************************************************************)
EXTENDS JobDispatch, Sequences

CONSTANTS
  Workers,      \* processes of the legacy queue
  NoWorker,     \* no worker
  Contents,     \* the identities of a bundle, in the order of the workbook
  Topic,        \* what an identity is about
  Doubtful,     \* identities whose folder or size asks for a review
  ManualCards,  \* cards editors make by hand
  ManualTopic,  \* what they are about
  NoCard,       \* no card
  MaxActive,    \* bundles in progress at once: 5 in create_bundle
  Profiles      \* bound: how often each disturbance may happen

Bundles == Jobs
Identities == UNION {{Contents[b][k] : k \in DOMAIN Contents[b]} : b \in Bundles}
Items(b) == {Contents[b][k] : k \in DOMAIN Contents[b]}
Cards == (Bundles \X Identities) \cup ManualCards

\* Rows follow each other in the workbook; nothing goes by two kinds of name.
ASSUME LegacyAssumption ==
  /\ \A b \in Bundles : Contents[b] \in Seq(Identities)
  /\ ManualCards \cap (Bundles \X Identities) = {}
  /\ NoCard \notin Cards
  /\ NoWorker \notin Workers

Disturbances == {"crash", "loss", "lease", "refusal", "backlog", "broken",
                 "edit", "cancel", "retry", "bundle"}

ASSUME ProfileAssumption == Profiles \subseteq [Disturbances -> Nat]

VARIABLES
  status,      \* legacy_bundles.status, "absent" before it is created
  phase,       \* legacy_bundles.phase
  plan,        \* the items of a bundle: their decisions, empty before analysis
  itemStatus,  \* legacy_items.status
  confirmed,   \* legacy_bundles.confirmed_hash: the confirmed plan
  card,        \* components: status and version (revision and edit token)
  link,        \* legacy_source_links: the card of an identity
  reviewed,    \* legacy_source_links.license_status = 'reviewed'
  pc,          \* what a worker is doing
  on,          \* the bundle it is processing
  pos,         \* the item it has come to
  lease,       \* the session that holds a bundle's advisory lock
  moved,       \* the bundle's updated_at is later than the worker's start
  givingUp,    \* a reconciler that has read the bundle it is about to fail
  left         \* bound: disturbances still to come

bundleRows == <<status, phase, plan, itemStatus, confirmed>>
catalogue == <<card, link, reviewed>>
workerVars == <<pc, on, pos, lease, moved>>
vars == <<dispatchVars, bundleRows, catalogue, workerVars, givingUp, left>>

Active == {"analyzing", "applying"}
InProgress == Active \cup {"uploading", "uploaded", "ready"}
Statuses == InProgress \cup {"absent", "completed", "failed", "cancelled"}
Settled == {"applied", "skipped", "needs_review", "failed"}

Disturb(d) == left[d] > 0 /\ left' = [left EXCEPT ![d] = @ - 1]

NoPlan == << >>

Exists(c) == card[c].status # "absent"

TopicOf(c) == IF c \in ManualCards THEN ManualTopic[c] ELSE Topic[c[2]]

\* planning.candidates: the cards that look like i, with the state they are
\* in.  (The five best of them; merge_allowed is for drafts never published.)
Candidates(i) ==
  [c \in {d \in Cards : Exists(d) /\ TopicOf(d) = Topic[i]} |-> card[c]]

Decision(kind, target, version) ==
  [kind |-> kind, target |-> target, version |-> version]

Init ==
  /\ DispatchInit
  /\ status = [b \in Bundles |-> "absent"]
  /\ phase = [b \in Bundles |-> "analysis"]
  /\ plan = [b \in Bundles |-> NoPlan]
  /\ itemStatus = [b \in Bundles |-> NoPlan]
  /\ confirmed = [b \in Bundles |-> NoPlan]
  /\ card = [c \in Cards |-> [status |-> "absent", version |-> 0]]
  /\ link = [i \in Identities |-> NoCard]
  /\ reviewed = [i \in Identities |-> FALSE]
  /\ pc = [w \in Workers |-> "idle"]
  /\ on = [w \in Workers |-> NoJob]
  /\ pos = [w \in Workers |-> 0]
  /\ lease = [b \in Bundles |-> NoWorker]
  /\ moved = [w \in Workers |-> FALSE]
  /\ givingUp = [r \in Reconcilers |-> FALSE]
  /\ left \in Profiles

\* updated_at of the bundles of S is now.
Touch(S) == moved' = [w \in Workers |-> moved[w] \/ on[w] \in S]

\* Nobody holds the row of b in an open transaction: a worker does from the
\* moment it starts on an item to its commit.
RowFree(b) == \A w \in Workers : ~ (pc[w] = "item" /\ on[w] = b)

\* The row of job_dispatches, held by a reconciler that is giving up.
DispatchFree(b) == \A r \in Reconcilers : ~ (givingUp[r] /\ refused[r] = b)

-----------------------------------------------------------------------------
(* The administrator.                                                      *)

rest == <<dispatchVars, catalogue, workerVars, givingUp>>

CreateBundle(b) ==
  /\ Disturb("bundle")
  /\ status[b] = "absent"
  /\ Cardinality({x \in Bundles : status[x] \in InProgress}) < MaxActive
  /\ status' = [status EXCEPT ![b] = "uploading"]
  /\ UNCHANGED <<rest, phase, plan, itemStatus, confirmed>>

CompleteUpload(b) ==
  /\ status[b] = "uploading"
  /\ status' = [status EXCEPT ![b] = "uploaded"]
  /\ UNCHANGED <<rest, phase, plan, itemStatus, confirmed, left>>

StartAnalysis(b) ==
  /\ status[b] = "uploaded"
  /\ status' = [status EXCEPT ![b] = "analyzing"]
  /\ ResetDispatch(b)
  /\ Touch({b})
  /\ UNCHANGED <<queue, reconciler, catalogue, pc, on, pos, lease, givingUp,
                 phase, plan, itemStatus, confirmed, left>>

\* Mutant: decisions are still taken while the plan is being applied.
DecidableUntilSettled(b) == status[b] \in {"ready", "applying"}

Decidable(b) == status[b] = "ready"

\* What an administrator may decide about i: merging into a draft the plan
\* shows, as it was then; creating, unless the item exceeds a draft's limits.
Choices(b, i) ==
  {Decision("skip", NoCard, 0)}
  \cup (IF i \in Doubtful THEN {} ELSE {Decision("create", NoCard, 0)})
  \cup {Decision("merge", c, plan[b][i].seen[c].version) :
          c \in {d \in DOMAIN plan[b][i].seen :
                   i \notin Doubtful /\ plan[b][i].seen[d].status = "draft"}}

Decide(b) ==
  /\ Decidable(b)
  /\ \E i \in Items(b) : \E d \in Choices(b, i) :
       /\ d # plan[b][i].decision
       /\ plan' = [plan EXCEPT ![b][i].decision = d]
       /\ itemStatus' = [itemStatus EXCEPT ![b][i] = "planned"]
  /\ RowFree(b)
  /\ UNCHANGED <<rest, status, phase, confirmed, left>>

\* apply_bundle: the plan is complete, and what is confirmed is recorded.
ApplyBundle(b) ==
  /\ status[b] = "ready"
  /\ \A i \in Items(b) : plan[b][i].decision.kind # "review"
  /\ confirmed' = [confirmed EXCEPT ![b] = plan[b]]
  /\ status' = [status EXCEPT ![b] = "applying"]
  /\ phase' = [phase EXCEPT ![b] = "apply"]
  /\ DispatchFree(b)
  /\ ResetDispatch(b)
  /\ Touch({b})
  /\ UNCHANGED <<queue, reconciler, catalogue, pc, on, pos, lease, givingUp,
                 plan, itemStatus, left>>

CancelBundle(b) ==
  /\ Disturb("cancel")
  /\ status[b] \notin {"absent", "completed", "cancelled"}
  /\ RowFree(b)
  /\ status' = [status EXCEPT ![b] = "cancelled"]
  /\ UNCHANGED <<rest, phase, plan, itemStatus, confirmed>>

FailedItems(b) == {i \in DOMAIN itemStatus[b] : itemStatus[b][i] = "failed"}

\* Mutant: a retry starts all over.
ReplannedWhatever(s) == "planned"

\* What a retry makes of an item.
Replanned(s) == IF s = "failed" THEN "planned" ELSE s

RetryBundle(b) ==
  /\ Disturb("retry")
  /\ \/ status[b] = "failed"
     \/ status[b] = "completed" /\ FailedItems(b) # {}
  /\ phase[b] = "apply" => confirmed[b] = plan[b]
  /\ RowFree(b)
  /\ itemStatus' = [itemStatus EXCEPT ![b] =
        [i \in DOMAIN @ |-> IF phase[b] = "apply" THEN Replanned(@[i]) ELSE @[i]]]
  /\ status' = [status EXCEPT ![b] =
        IF phase[b] = "apply" THEN "applying" ELSE "analyzing"]
  /\ DispatchFree(b)
  /\ ResetDispatch(b)
  /\ Touch({b})
  /\ UNCHANGED <<queue, reconciler, catalogue, pc, on, pos, lease, givingUp,
                 phase, plan, confirmed>>

Linked(c) == {i \in Identities : link[i] = c}

\* review_license: of every link of a card.
ReviewLicense(c) ==
  /\ \E i \in Linked(c) : ~ reviewed[i]
  /\ reviewed' = [i \in Identities |-> reviewed[i] \/ i \in Linked(c)]
  /\ UNCHANGED <<dispatchVars, bundleRows, card, link, workerVars, givingUp,
                 left>>

\* What editors do to the cards meanwhile.
EditCard(c) ==
  /\ Disturb("edit")
  /\ card' = [card EXCEPT ![c] =
        [status |-> IF @.status = "absent" THEN "draft" ELSE @.status,
         version |-> @.version + 1]]
  /\ Exists(c) \/ c \in ManualCards
  /\ UNCHANGED <<dispatchVars, bundleRows, link, reviewed, workerVars,
                 givingUp>>

PublishCard(c) ==
  /\ card[c].status = "draft"
  /\ \A i \in Linked(c) : reviewed[i]
  /\ card' = [card EXCEPT ![c] = [status |-> "published",
                                  version |-> @.version + 1]]
  /\ UNCHANGED <<dispatchVars, bundleRows, link, reviewed, workerVars,
                 givingUp, left>>

-----------------------------------------------------------------------------
(* The worker of the legacy queue.                                         *)

worker == <<workerVars, dispatchRows, reconciler, givingUp>>

\* process_bundle returns at once: another session holds the bundle's lock,
\* or there is nothing to do.
TurnAway(w, b) ==
  /\ pc[w] = "idle"
  /\ TakeMessage(b)
  /\ lease[b] # NoWorker \/ status[b] \notin Active
  /\ UNCHANGED <<worker, bundleRows, catalogue, left>>

\* pg_try_advisory_lock, and run_bundle's unlocked look at the bundle.
Take(w, b) ==
  /\ pc[w] = "idle"
  /\ TakeMessage(b)
  /\ lease[b] = NoWorker /\ status[b] \in Active
  /\ lease' = [lease EXCEPT ![b] = w]
  /\ on' = [on EXCEPT ![w] = b]
  /\ pc' = [pc EXCEPT ![w] =
        IF phase[b] = "analysis" THEN "analysing" ELSE "checking"]
  /\ UNCHANGED <<dispatchRows, reconciler, givingUp, bundleRows, catalogue,
                 pos, moved, left>>

Moves(w, from, to) ==
  /\ pc[w] = from
  /\ pc' = [pc EXCEPT ![w] = to]
  /\ UNCHANGED <<on, lease>>

Goes(w, from, to) == Moves(w, from, to) /\ UNCHANGED moved

\* save_analysis on one identity: what it finds decides what is proposed.
Proposal(i) ==
  [seen |-> Candidates(i),
   decision |-> Decision(IF link[i] # NoCard THEN "skip"
                         ELSE IF Candidates(i) # NoPlan \/ i \in Doubtful
                         THEN "review" ELSE "create", NoCard, 0)]

SaveAnalysis(w) ==
  LET b == on[w]
      proposed == [i \in Items(b) |-> Proposal(i)]
  IN
  /\ Goes(w, "analysing", "done")
  /\ RowFree(b)
  /\ IF status[b] = "analyzing"
     THEN /\ plan[b] = NoPlan
          /\ plan' = [plan EXCEPT ![b] = proposed]
          /\ itemStatus' = [itemStatus EXCEPT ![b] = [i \in Items(b) |->
                IF proposed[i].decision.kind = "review"
                THEN "needs_review" ELSE "planned"]]
          /\ status' = [status EXCEPT ![b] = "ready"]
     ELSE UNCHANGED <<plan, itemStatus, status>>
  /\ UNCHANGED <<dispatchVars, phase, confirmed, catalogue, pos, givingUp,
                 left>>

\* The plan has been saved before: "legacy_plan_already_exists".
AnalysedTwice(w) ==
  /\ Goes(w, "analysing", "raising")
  /\ RowFree(on[w])
  /\ plan[on[w]] # NoPlan /\ status[on[w]] = "analyzing"
  /\ UNCHANGED <<dispatchVars, bundleRows, catalogue, pos, givingUp, left>>

\* Object storage, the parser or a checksum fails.
WorkFails(w) ==
  /\ Disturb("broken")
  /\ Goes(w, "analysing", "raising") \/ Goes(w, "checking", "raising")
  /\ UNCHANGED <<dispatchVars, bundleRows, catalogue, pos, givingUp>>

\* The plan is the one that was analysed and confirmed, or nothing is done.
CheckPlan(w) ==
  /\ Goes(w, "checking",
          IF plan[on[w]] = confirmed[on[w]] THEN "working" ELSE "raising")
  /\ pos' = [pos EXCEPT ![w] = 1]
  /\ UNCHANGED <<dispatchVars, bundleRows, catalogue, givingUp, left>>

Item(w) == Contents[on[w]][pos[w]]

\* Mutant: the worker does not look whether its bundle is still being applied.
AtItemUnlooked(w) ==
  /\ pc[w] = "working"
  /\ pos[w] <= Len(Contents[on[w]])
  /\ RowFree(on[w])

\* The worker gets to an item: it locks the bundle, which must be applying.
AtItem(w) ==
  /\ pc[w] = "working"
  /\ pos[w] <= Len(Contents[on[w]])
  /\ RowFree(on[w])
  /\ status[on[w]] = "applying"

Stops(w) == pc[w] = "working" /\ status[on[w]] # "applying"

\* The bundle has been cancelled or failed: nothing more is applied.
Stop(w) ==
  /\ Stops(w)
  /\ RowFree(on[w])
  /\ Goes(w, "working", "done")
  /\ UNCHANGED <<dispatchVars, bundleRows, catalogue, pos, givingUp, left>>

\* An item settled by an earlier run is passed over.
PassItem(w) ==
  /\ AtItem(w)
  /\ itemStatus[on[w]][Item(w)] \in Settled
  /\ pos' = [pos EXCEPT ![w] = @ + 1]
  /\ UNCHANGED <<dispatchVars, bundleRows, catalogue, pc, on, lease, moved,
                 givingUp, left>>

Applicable(w) == AtItem(w) /\ itemStatus[on[w]][Item(w)] = "planned"

\* Too many media jobs are waiting: the dispatch is put off and the worker
\* leaves the rest to a later message.
Backpressure(w) ==
  /\ Disturb("backlog")
  /\ Applicable(w)
  /\ DispatchFree(on[w])
  /\ ResetDispatch(on[w])
  /\ Moves(w, "working", "done")
  /\ Touch({on[w]})
  /\ UNCHANGED <<queue, reconciler, bundleRows, catalogue, pos, givingUp>>

\* Advisory lock 71842102: one item is applied at a time, in all bundles.
NobodyApplies == \A w \in Workers : pc[w] # "item"

SettleItem(w, outcome) ==
  /\ itemStatus' = [itemStatus EXCEPT ![on[w]][Item(w)] = outcome]
  /\ pos' = [pos EXCEPT ![w] = @ + 1]
  /\ Touch({on[w]})

Skips(w) ==
  \/ link[Item(w)] # NoCard
  \/ plan[on[w]][Item(w)].decision.kind = "skip"

SkipItem(w) ==
  /\ Applicable(w) /\ NobodyApplies
  /\ Skips(w)
  /\ SettleItem(w, "skipped")
  /\ UNCHANGED <<dispatchVars, status, phase, plan, confirmed, catalogue, pc,
                 on, lease, givingUp, left>>

\* The candidates are no longer those of the plan: "legacy_catalog_changed".
CatalogChanged(w) ==
  /\ Applicable(w) /\ NobodyApplies
  /\ ~ Skips(w) /\ Candidates(Item(w)) # plan[on[w]][Item(w)].seen
  /\ SettleItem(w, "needs_review")
  /\ UNCHANGED <<dispatchVars, status, phase, plan, confirmed, catalogue, pc,
                 on, lease, givingUp, left>>

\* The candidates are compared; editors are not kept from the cards after.
StartItem(w) ==
  /\ Applicable(w) /\ NobodyApplies
  /\ ~ Skips(w) /\ Candidates(Item(w)) = plan[on[w]][Item(w)].seen
  /\ Goes(w, "working", "item")
  /\ UNCHANGED <<dispatchVars, bundleRows, catalogue, pos, givingUp, left>>

\* Mutant: only the revision and the edit token are compared.
SameVersion(c, version) == card[c].version >= version

\* The draft the administrator chose, in the state the plan showed.
Mergeable(c, version) == card[c] = [status |-> "draft", version |-> version]

LinkItem(w, c) ==
  /\ link' = [link EXCEPT ![Item(w)] = c]
  /\ reviewed' = [reviewed EXCEPT ![Item(w)] = FALSE]

CommitCreate(w) ==
  LET c == <<on[w], Item(w)>> IN
  /\ Moves(w, "item", "working")
  /\ plan[on[w]][Item(w)].decision.kind = "create"
  /\ link[Item(w)] = NoCard
  /\ card' = [card EXCEPT ![c] = [status |-> "draft", version |-> 1]]
  /\ LinkItem(w, c)
  /\ SettleItem(w, "applied")
  /\ UNCHANGED <<dispatchVars, status, phase, plan, confirmed, givingUp, left>>

\* update, the images and touch_media_attachment: a new version of the draft.
CommitMerge(w) ==
  LET d == plan[on[w]][Item(w)].decision IN
  /\ Moves(w, "item", "working")
  /\ d.kind = "merge" /\ Mergeable(d.target, d.version)
  /\ link[Item(w)] = NoCard
  /\ card' = [card EXCEPT ![d.target].version = @ + 1]
  /\ LinkItem(w, d.target)
  /\ SettleItem(w, "applied")
  /\ UNCHANGED <<dispatchVars, status, phase, plan, confirmed, givingUp, left>>

\* "legacy_merge_changed".
MergeChanged(w) ==
  LET d == plan[on[w]][Item(w)].decision IN
  /\ Moves(w, "item", "working")
  /\ d.kind = "merge" /\ ~ Mergeable(d.target, d.version)
  /\ SettleItem(w, "needs_review")
  /\ UNCHANGED <<dispatchVars, status, phase, plan, confirmed, catalogue,
                 givingUp, left>>

\* Anything fails: the savepoint takes back the card, its link, its images.
ItemFails(w) ==
  /\ Disturb("broken")
  /\ Moves(w, "item", "working")
  /\ SettleItem(w, "failed")
  /\ UNCHANGED <<dispatchVars, status, phase, plan, confirmed, catalogue,
                 givingUp>>

\* Mutant: the last item is left out.
AllDoneButOne(w) == pos[w] >= Len(Contents[on[w]])

AllDone(w) == pos[w] > Len(Contents[on[w]])

CompleteBundle(w) ==
  /\ Goes(w, "working", "done")
  /\ RowFree(on[w])
  /\ AllDone(w)
  /\ status' = [status EXCEPT ![on[w]] =
        IF @ = "applying" THEN "completed" ELSE @]
  /\ UNCHANGED <<dispatchVars, phase, plan, itemStatus, confirmed, catalogue,
                 pos, givingUp, left>>

Freed(w) == [lease EXCEPT ![on[w]] = IF @ = w THEN NoWorker ELSE @]

Leave(w) ==
  /\ pc' = [pc EXCEPT ![w] = "idle"]
  /\ on' = [on EXCEPT ![w] = NoJob]
  /\ pos' = [pos EXCEPT ![w] = 0]
  /\ lease' = Freed(w)
  /\ moved' = [moved EXCEPT ![w] = FALSE]

\* pg_advisory_unlock.  On a connection that was lost it raises.
Unlock(w) ==
  /\ pc[w] = "done"
  /\ IF lease[on[w]] = w THEN Leave(w)
     ELSE Goes(w, "done", "raising") /\ UNCHANGED pos
  /\ UNCHANGED <<dispatchVars, bundleRows, catalogue, givingUp, left>>

\* The handler of process_bundle: the bundle fails if it is still in work.
RecordFailure(w) ==
  /\ pc[w] = "raising"
  /\ RowFree(on[w])
  /\ status' = [status EXCEPT ![on[w]] = IF @ \in Active THEN "failed" ELSE @]
  /\ Leave(w)
  /\ UNCHANGED <<dispatchVars, phase, plan, itemStatus, confirmed, catalogue,
                 givingUp, left>>

\* The process dies, or Dramatiq's time limit ends the actor, which no
\* handler sees: the message comes back in the first case only.
WorkerCrash(w) ==
  /\ pc[w] # "idle"
  /\ Disturb("crash")
  /\ Enqueue(on[w]) \/ UNCHANGED queue
  /\ Leave(w)
  /\ UNCHANGED <<dispatchRows, reconciler, bundleRows, catalogue, givingUp>>

\* The idle connection that holds the lock is dropped; the worker goes on.
LoseLease(w) ==
  /\ pc[w] # "idle" /\ lease[on[w]] = w
  /\ Disturb("lease")
  /\ lease' = Freed(w)
  /\ UNCHANGED <<dispatchVars, bundleRows, catalogue, pc, on, pos, moved,
                 givingUp>>

LoseMessage(b) ==
  /\ Disturb("loss")
  /\ TakeMessage(b)
  /\ UNCHANGED <<worker, bundleRows, catalogue>>

-----------------------------------------------------------------------------
(* The reconciler.                                                         *)

legacyOnly == <<bundleRows, catalogue, workerVars>>

\* Mutant: only a bundle that is being applied is recovered.
RecoverableApplying(b) ==
  /\ dispatchStatus[b] = "delivered" /\ status[b] = "applying"
  /\ RowFree(b) /\ DispatchFree(b)
  /\ \A w \in Workers : on[w] = b => ~ moved[w]

\* Delivered, and updated_at is half an hour old: a worker that has seen it
\* change is no longer there, its time limit being 25 minutes.
Recoverable(b) ==
  /\ dispatchStatus[b] = "delivered" /\ status[b] \in Active
  /\ RowFree(b) /\ DispatchFree(b)
  /\ \A w \in Workers : on[w] = b => ~ moved[w]

Reconcile(r) ==
  \E lost \in SUBSET {b \in Bundles : Recoverable(b)} :
    \E due \in SUBSET {b \in Bundles : Claimable(b, lost) /\ DispatchFree(b)} :
      /\ RecoverAndClaim(r, lost, due)
      /\ status' = [b \in Bundles |->
            IF b \in lost /\ Exhausted(b) THEN "failed" ELSE status[b]]
      /\ Touch(lost)
      /\ UNCHANGED <<phase, plan, itemStatus, confirmed, catalogue, pc, on,
                     pos, lease, givingUp, left>>

Publish(r) ==
  \E b \in batch[r] :
    PublishIntent(r, b) /\ UNCHANGED <<legacyOnly, givingUp, left>>

BrokerRefuses(r) ==
  /\ Disturb("refusal")
  /\ \E b \in batch[r] : RefuseIntent(r, b)
  /\ UNCHANGED <<legacyOnly, givingUp>>

RecordDelivered(r) ==
  /\ \A b \in {published[r]} \cap Bundles : DispatchFree(b)
  /\ MarkDelivered(r)
  /\ UNCHANGED <<legacyOnly, givingUp, left>>

\* mark_delivery_failed, unless it gives the bundle up.
RecordRefused(r) ==
  LET b == refused[r] IN
  /\ b # NoJob /\ DispatchFree(b)
  /\ ~ GivesUp(b, status[b] \in Active)
  /\ MarkDeliveryFailed(r, status[b] \in Active)
  /\ UNCHANGED <<legacyOnly, givingUp, left>>

\* Giving up: the bundle is seen active, without a lock ...
StartGivingUp(r) ==
  LET b == refused[r] IN
  /\ b # NoJob /\ DispatchFree(b)
  /\ GivesUp(b, status[b] \in Active)
  /\ givingUp' = [givingUp EXCEPT ![r] = TRUE]
  /\ UNCHANGED <<dispatchVars, legacyOnly, left>>

\* ... and failed, whatever it has become since.
GiveUp(r) ==
  LET b == refused[r] IN
  /\ givingUp[r] /\ RowFree(b)
  /\ MarkDeliveryFailed(r, TRUE)
  /\ status' = [status EXCEPT ![b] = "failed"]
  /\ givingUp' = [givingUp EXCEPT ![r] = FALSE]
  /\ UNCHANGED <<phase, plan, itemStatus, confirmed, catalogue, workerVars,
                 left>>

-----------------------------------------------------------------------------
Administrator ==
  \/ \E b \in Bundles :
       \/ CreateBundle(b) \/ CompleteUpload(b) \/ StartAnalysis(b)
       \/ Decide(b) \/ ApplyBundle(b) \/ CancelBundle(b) \/ RetryBundle(b)
  \/ \E c \in Cards : ReviewLicense(c) \/ EditCard(c) \/ PublishCard(c)

Deliver(w, b) == TurnAway(w, b) \/ Take(w, b)

Apply(w) ==
  \/ PassItem(w) \/ SkipItem(w) \/ CatalogChanged(w) \/ StartItem(w)
  \/ CommitCreate(w) \/ CommitMerge(w) \/ MergeChanged(w)

Work(w) ==
  \/ SaveAnalysis(w) \/ AnalysedTwice(w) \/ CheckPlan(w)
  \/ Apply(w) \/ Stop(w) \/ CompleteBundle(w)
  \/ Unlock(w) \/ RecordFailure(w)

Misfortune(w) ==
  \/ WorkFails(w) \/ ItemFails(w) \/ Backpressure(w)
  \/ WorkerCrash(w) \/ LoseLease(w)

Send(r) ==
  \/ Publish(r) \/ RecordDelivered(r) \/ RecordRefused(r)
  \/ StartGivingUp(r) \/ GiveUp(r)

Next ==
  \/ Administrator
  \/ \E w \in Workers : Work(w) \/ Misfortune(w)
  \/ \E w \in Workers, b \in Bundles : Deliver(w, b)
  \/ \E r \in Reconcilers : Reconcile(r) \/ Send(r) \/ BrokerRefuses(r)
  \/ \E b \in Bundles : LoseMessage(b)

Spec == Init /\ [][Next]_vars

\* A pass of the reconciler that moves the dispatch of b.
Serve(b) ==
  \E r \in Reconcilers :
    Reconcile(r) /\ (b \in batch'[r] \/ dispatchStatus'[b] # dispatchStatus[b])

(***************************************************************************)
(* Workers and reconciler run in a loop and are restarted when they stop;  *)
(* a waiting message is taken in turn.  Administrators, editors and        *)
(* misfortunes promise nothing.                                            *)
(***************************************************************************)
Fairness ==
  /\ \A w \in Workers : WF_vars(Work(w))
  /\ \A b \in Bundles : SF_vars(\E w \in Workers : Deliver(w, b))
  /\ \A r \in Reconcilers : WF_vars(Send(r))
  /\ \A b \in Bundles : SF_vars(Serve(b))

FairSpec == Spec /\ Fairness

-----------------------------------------------------------------------------
(* Properties.                                                             *)

CardRows == [status : {"absent", "draft", "published"}, version : Nat]
Decisions ==
  [kind : {"skip", "create", "review"}, target : {NoCard}, version : {0}]
  \cup [kind : {"merge"}, target : Cards, version : Nat]
IsProposal(p) ==
  /\ DOMAIN p = {"seen", "decision"}
  /\ DOMAIN p.seen \subseteq Cards
  /\ p.seen \in [DOMAIN p.seen -> CardRows]
  /\ p.decision \in Decisions
IsPlan(b, p) == DOMAIN p = Items(b) /\ \A i \in Items(b) : IsProposal(p[i])
PC == {"idle", "analysing", "checking", "working", "item", "done", "raising"}

\* Every variable has its type: a plan and what has become of it speak of all
\* items of a bundle or of none, a worker that is idle is on no bundle, and a
\* reconciler gives up the bundle whose message was refused.
TypeOK ==
  /\ DispatchTypeOK
  /\ status \in [Bundles -> Statuses]
  /\ phase \in [Bundles -> {"analysis", "apply"}]
  /\ DOMAIN plan = Bundles /\ DOMAIN itemStatus = Bundles
  /\ DOMAIN confirmed = Bundles
  /\ \A b \in Bundles :
       /\ \A p \in {plan[b], confirmed[b]} : p = NoPlan \/ IsPlan(b, p)
       /\ itemStatus[b] \in [DOMAIN plan[b] -> Settled \cup {"planned"}]
  /\ card \in [Cards -> CardRows]
  /\ link \in [Identities -> Cards \cup {NoCard}]
  /\ reviewed \in [Identities -> BOOLEAN]
  /\ pc \in [Workers -> PC]
  /\ on \in [Workers -> Bundles \cup {NoJob}]
  /\ \A w \in Workers : pc[w] = "idle" <=> on[w] = NoJob
  /\ pos \in [Workers -> Nat]
  /\ lease \in [Bundles -> Workers \cup {NoWorker}]
  /\ moved \in [Workers -> BOOLEAN]
  /\ givingUp \in [Reconcilers -> BOOLEAN]
  /\ \A r \in Reconcilers : givingUp[r] => refused[r] # NoJob
  /\ left \in [Disturbances -> Nat]

\* One row of the workbook becomes at most one card, in however many bundles
\* it is imported, however often a bundle is retried and however many workers
\* have come to work on it (advisory lock 71842102 and LegacySourceLink).
OneCardPerIdentity ==
  \A i \in Identities :
    LET made == {b \in Bundles : Exists(<<b, i>>)} IN
    /\ Cardinality(made) <= 1
    /\ \A b \in made : link[i] = <<b, i>> /\ itemStatus[b][i] = "applied"

\* What has been applied is what the administrator confirmed: no decision
\* changes under a plan being applied, over failures and retries.
AppliedAsConfirmed ==
  \A b \in Bundles : \A i \in DOMAIN itemStatus[b] :
    itemStatus[b][i] = "applied" =>
      /\ confirmed[b] # NoPlan
      /\ confirmed[b][i] = plan[b][i]
      /\ plan[b][i].decision.kind = "create" => link[i] = <<b, i>>
      /\ plan[b][i].decision.kind = "merge" =>
           link[i] = plan[b][i].decision.target

\* A published card has no source whose licence nobody has reviewed, though
\* merges bring sources to drafts while editors publish them.
NothingPublishedUnreviewed ==
  \A i \in Identities :
    link[i] # NoCard /\ ~ reviewed[i] => card[link[i]].status = "draft"

\* A completed bundle has no item left to apply: nobody would come back to
\* it, in every order of crashes, lost locks, failed items and cancellations.
\* (Where failed items are retried, if workers keep their locks and no bundle
\* fails under a worker.)
CompletedIsSettled ==
  \A b \in Bundles : status[b] = "completed" =>
    \A i \in Items(b) : itemStatus[b][i] \in Settled

\* A bundle leaves the worker's states: whatever crashes, gets lost or is put
\* off, it is analysed, completed, failed or cancelled in the end.
EveryBundleSettles ==
  \A b \in Bundles : status[b] \in Active ~> status[b] \notin Active
=============================================================================
