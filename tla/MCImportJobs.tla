---------------------------- MODULE MCImportJobs ----------------------------
(***************************************************************************)
(* Small instances of ImportJobs for TLC.  Each bounds how often every     *)
(* disturbance may happen.                                                 *)
(***************************************************************************)
EXTENDS ImportRefinement, TLC

CONSTANTS e1

SameEntity == [j \in Jobs |-> e1]

Once(S) == [d \in Disturbances |-> IF d \in S THEN 1 ELSE 0]

Undisturbed == {Once({})}
NoRetry == {Once(Disturbances \ {"retry"})}
Survivable == {Once({"retry", "crash", "loss", "cancel"}),
               Once({"crash", "loss", "cancel", "disable"}),
               [Once({"cancel", "disable"}) EXCEPT !["refusal"] = 3]}
Symmetric == Permutations(Jobs) \cup Permutations(Workers)
             \cup Permutations(Reconcilers)
=============================================================================
