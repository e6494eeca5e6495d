---------------------------- MODULE ImportPromise ----------------------------
(***************************************************************************)
(* What importing promises to the people who use it, without messages,     *)
(* leases, locks or attempts: a request is taken up by one worker at a     *)
(* time, who concludes it with a saved component, a failure, or by putting *)
(* it back; and whatever is delivered twice or dies, an entity gets one    *)
(* component.                                                              *)
(*                                                                         *)
(* A request may be cancelled or given up while it is being processed.     *)
(* Then its worker has the last word: this is weaker than what the         *)
(* documentation promises of a cancellation, and it is what the code does. *)
(***************************************************************************)
EXTENDS Naturals

CONSTANTS
  Jobs,       \* requests
  Entities,   \* what they ask for
  EntityOf    \* the entity of a request

VARIABLES
  state,      \* none, open, or how the request was settled
  busy,       \* requests being processed
  component   \* components of an entity

vars == <<state, busy, component>>

Init ==
  /\ state = [j \in Jobs |-> "none"]
  /\ busy = {}
  /\ component = [e \in Entities |-> 0]

Request(j) ==
  /\ state[j] = "none"
  /\ state' = [state EXCEPT ![j] = "open"]
  /\ UNCHANGED <<busy, component>>

Cancel(j) ==
  /\ state[j] = "open"
  /\ state' = [state EXCEPT ![j] = "cancelled"]
  /\ UNCHANGED <<busy, component>>

\* The machinery gives up on the requests of S.
GiveUp(S) ==
  /\ \A j \in S : state[j] = "open"
  /\ state' = [j \in Jobs |-> IF j \in S THEN "failed" ELSE state[j]]
  /\ UNCHANGED <<busy, component>>

TakeUp(j) ==
  /\ state[j] = "open"
  /\ j \notin busy
  /\ busy' = busy \cup {j}
  /\ UNCHANGED <<state, component>>

\* The worker of j has saved a component, the first one of its entity.
Save(j) ==
  /\ j \in busy
  /\ busy' = busy \ {j}
  /\ state' = [state EXCEPT ![j] = "succeeded"]
  /\ component' = [component EXCEPT ![EntityOf[j]] = 1]

\* The worker of j has failed, has put it back, or has disappeared.
Drop(j) ==
  /\ j \in busy
  /\ busy' = busy \ {j}
  /\ \E outcome \in {"failed", "open", state[j]} :
       state' = [state EXCEPT ![j] = outcome]
  /\ UNCHANGED component

Next ==
  \/ \E j \in Jobs : Request(j) \/ Cancel(j) \/ TakeUp(j) \/ Save(j) \/ Drop(j)
  \/ \E S \in SUBSET Jobs : GiveUp(S)

Spec == Init /\ [][Next]_vars
=============================================================================
