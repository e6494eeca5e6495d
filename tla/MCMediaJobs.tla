---------------------------- MODULE MCMediaJobs ----------------------------
(***************************************************************************)
(* Small instances of MediaJobs for TLC.  Each bounds how often every      *)
(* disturbance may happen.                                                 *)
(***************************************************************************)
EXTENDS MediaRefinement, TLC

Once(S) == [d \in Disturbances |-> IF d \in S THEN 1 ELSE 0]

Tended == {Once({"crash", "sweep"}), Once({"restart", "loss"})}
Survivable == {Once({"retry", "crash", "loss", "sweep", "delay"}),
               Once({"crash", "loss", "refusal", "sweep"})}
Symmetric == Permutations(Jobs) \cup Permutations(Workers)
=============================================================================
