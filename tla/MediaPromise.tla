---------------------------- MODULE MediaPromise ----------------------------
(***************************************************************************)
(* What uploading a picture promises to the people who use it, without     *)
(* rows, messages, leases, attempts or objects.  A confirmed upload is     *)
(* processed by one worker at a time and only that worker makes it ready;  *)
(* ready is for good, and so is what retention has cleaned.                *)
(*                                                                         *)
(* A user sees one word for four ends of an upload, "rejected".  They      *)
(* differ in what may still become of it, and are told apart here:         *)
(*                                                                         *)
(*     refused    it was never accepted: no one may retry it               *)
(*     rejected   a verdict of the processing: a retry by hand takes it    *)
(*                back, nothing else does                                  *)
(*     abandoned  its delivery was given up: a worker that is still on it, *)
(*                or gets a late message, may finish it after all          *)
(*     gone       its objects are deleted                                  *)
(***************************************************************************)

CONSTANT Jobs   \* uploads

VARIABLES
  state,   \* where an upload stands
  busy     \* uploads being processed

vars == <<state, busy>>

State == {"none", "pending", "processing", "ready",
          "refused", "rejected", "abandoned", "gone"}

Init ==
  /\ state = [j \in Jobs |-> "none"]
  /\ busy = {}

Move(j, from, to) ==
  /\ state[j] \in from
  /\ state' = [state EXCEPT ![j] = to]

\* The machinery or retention moves the uploads of S.
MoveAll(S, from, to) ==
  /\ \A j \in S : state[j] \in from
  /\ state' = [j \in Jobs |-> IF j \in S THEN to ELSE state[j]]
  /\ UNCHANGED busy

Reserve(j) == Move(j, {"none"}, "pending") /\ UNCHANGED busy

Confirm(j) == Move(j, {"pending"}, "processing") /\ UNCHANGED busy

Refuse(j) == Move(j, {"pending"}, "refused") /\ UNCHANGED busy

\* Someone retries it by hand.
Retry(j) ==
  /\ j \notin busy
  /\ Move(j, {"rejected", "abandoned"}, "processing")
  /\ UNCHANGED busy

\* In vain if it is gone.
TakeUp(j) ==
  /\ j \notin busy
  /\ state[j] \in {"processing", "abandoned", "gone"}
  /\ busy' = busy \cup {j}
  /\ UNCHANGED state

Leave(j) == j \in busy /\ busy' = busy \ {j}

Finish(j) == Leave(j) /\ Move(j, {"processing", "abandoned"}, "ready")

Reject(j) == Leave(j) /\ Move(j, {"processing"}, "rejected")

\* Its worker has failed, has put it back, or has disappeared.
Drop(j) == Leave(j) /\ UNCHANGED state

\* Its attempts are used up and nobody is on it.
Lapse(j) ==
  /\ j \notin busy
  /\ Move(j, {"processing"}, "rejected")
  /\ UNCHANGED busy

GiveUp(S) == MoveAll(S, {"processing"}, "abandoned")

Clean(S) == MoveAll(S, {"pending", "refused", "rejected", "abandoned"}, "gone")

Next ==
  \/ \E j \in Jobs :
       \/ Reserve(j) \/ Confirm(j) \/ Refuse(j) \/ Retry(j) \/ TakeUp(j)
       \/ Finish(j) \/ Reject(j) \/ Drop(j) \/ Lapse(j)
  \/ \E S \in SUBSET Jobs : GiveUp(S) \/ Clean(S)

Spec == Init /\ [][Next]_vars
=============================================================================
