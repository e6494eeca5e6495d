--------------------------- MODULE LegacyPromise ---------------------------
(***************************************************************************)
(* What importing an old workbook promises to its administrator, without   *)
(* workers, locks, messages, transactions or positions in a workbook.  He  *)
(* decides about every row and confirms; from then on the plan is fixed    *)
(* and each row is applied at once and whole, just as he decided, or is    *)
(* put aside.  A row that became a card stays with that card.              *)
(*                                                                         *)
(* Nothing is applied unless the bundle is being applied: not before it is *)
(* confirmed, and not after it is cancelled, has failed or is completed.   *)
(***************************************************************************)

CONSTANTS
  Bundles,
  Identities,  \* what a row of a workbook is about
  Rows,        \* the identities of a bundle
  Cards,       \* among them <<b, i>>, the card made of i in b
  NoCard       \* no card

VARIABLES
  stage,       \* where a bundle stands
  confirmed,   \* bundles whose plan was confirmed
  plan,        \* decisions about the rows of a bundle, empty before analysis
  outcome,     \* what has become of the rows
  source       \* the card of an identity

vars == <<stage, confirmed, plan, outcome, source>>

NoPlan == << >>

Decision(kind, target) == [kind |-> kind, target |-> target]

\* What the analysis may propose: nothing is merged unless a person says so.
Proposals == {Decision(k, NoCard) : k \in {"skip", "create", "review"}}

\* What a person may decide.
Choices == {Decision(k, NoCard) : k \in {"skip", "create"}}
           \cup {Decision("merge", c) : c \in Cards}

Init ==
  /\ stage = [b \in Bundles |-> "none"]
  /\ confirmed = {}
  /\ plan = [b \in Bundles |-> NoPlan]
  /\ outcome = [b \in Bundles |-> NoPlan]
  /\ source = [i \in Identities |-> NoCard]

Advance(b, from, to) ==
  /\ stage[b] \in from
  /\ stage' = [stage EXCEPT ![b] = to]

Moves(b, from, to) == Advance(b, from, to) /\ UNCHANGED <<confirmed, plan, outcome, source>>

Open(b) == Moves(b, {"none"}, "draft")

\* The workbook is analysed, once.
Propose(b) ==
  /\ Advance(b, {"draft"}, "ready")
  /\ plan[b] = NoPlan
  /\ \E p \in [Rows[b] -> Proposals] :
       /\ \A i \in Rows[b] : p[i].kind = "skip" <=> source[i] # NoCard
       /\ plan' = [plan EXCEPT ![b] = p]
       /\ outcome' = [outcome EXCEPT ![b] = [i \in Rows[b] |->
             IF p[i].kind = "review" THEN "needs_review" ELSE "planned"]]
  /\ UNCHANGED <<confirmed, source>>

Decide(b) ==
  /\ stage[b] = "ready"
  /\ \E i \in Rows[b], d \in Choices :
       /\ plan' = [plan EXCEPT ![b][i] = d]
       /\ outcome' = [outcome EXCEPT ![b][i] = "planned"]
  /\ UNCHANGED <<stage, confirmed, source>>

\* Every row has been decided about.
Confirm(b) ==
  /\ Advance(b, {"ready"}, "applying")
  /\ DOMAIN outcome[b] = Rows[b]
  /\ \A i \in Rows[b] : outcome[b][i] = "planned"
  /\ confirmed' = confirmed \cup {b}
  /\ UNCHANGED <<plan, outcome, source>>

\* A row of a bundle that is being applied is done with.
Settle(b, i, result) ==
  /\ stage[b] = "applying"
  /\ i \in DOMAIN outcome[b] /\ outcome[b][i] = "planned"
  /\ outcome' = [outcome EXCEPT ![b][i] = result]
  /\ UNCHANGED <<stage, confirmed, plan>>

Create(b, i) ==
  /\ Settle(b, i, "applied")
  /\ plan[b][i].kind = "create" /\ source[i] = NoCard
  /\ source' = [source EXCEPT ![i] = <<b, i>>]

Merge(b, i) ==
  /\ Settle(b, i, "applied")
  /\ plan[b][i].kind = "merge" /\ source[i] = NoCard
  /\ source' = [source EXCEPT ![i] = plan[b][i].target]

Skip(b, i) ==
  /\ Settle(b, i, "skipped")
  /\ plan[b][i].kind = "skip" \/ source[i] # NoCard
  /\ UNCHANGED source

\* The catalogue has changed, or something has failed.
PutAside(b, i) ==
  /\ \E result \in {"needs_review", "failed"} : Settle(b, i, result)
  /\ plan[b][i].kind # "skip"
  /\ UNCHANGED source

\* No row is forgotten.
Complete(b) ==
  /\ Moves(b, {"applying"}, "completed")
  /\ \A i \in Rows[b] : outcome[b][i] # "planned"

Cancel(b) == Moves(b, {"draft", "ready", "applying", "failed"}, "cancelled")

\* Work on bundles is given up.
Fail(S) ==
  /\ \A b \in S : stage[b] \in {"draft", "applying"}
  /\ stage' = [b \in Bundles |-> IF b \in S THEN "failed" ELSE stage[b]]
  /\ UNCHANGED <<confirmed, plan, outcome, source>>

\* The delivery of a bundle is given up, whatever it has become since.
GiveUp(b) == Moves(b, {"draft", "ready", "applying", "completed", "cancelled", "failed"}, "failed")

\* Only rows that failed are tried again.
Retry(b) ==
  LET failed == {i \in DOMAIN outcome[b] : outcome[b][i] = "failed"} IN
  /\ stage[b] = "completed" => failed # {}
  /\ Advance(b, {"failed", "completed"}, IF b \in confirmed THEN "applying" ELSE "draft")
  /\ outcome' = [outcome EXCEPT ![b] = [i \in DOMAIN outcome[b] |->
        IF b \in confirmed /\ i \in failed THEN "planned" ELSE outcome[b][i]]]
  /\ UNCHANGED <<confirmed, plan, source>>

Next ==
  \/ \E b \in Bundles :
       \/ Open(b) \/ Propose(b) \/ Decide(b) \/ Confirm(b)
       \/ Complete(b) \/ Cancel(b) \/ GiveUp(b) \/ Retry(b)
       \/ \E i \in Rows[b] : Create(b, i) \/ Merge(b, i) \/ Skip(b, i) \/ PutAside(b, i)
  \/ \E S \in SUBSET Bundles : Fail(S)

Spec == Init /\ [][Next]_vars
=============================================================================
