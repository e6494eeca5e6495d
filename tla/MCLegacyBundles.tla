-------------------------- MODULE MCLegacyBundles --------------------------
(***************************************************************************)
(* Small instances of LegacyBundles for TLC.  Each profile bounds how      *)
(* often every disturbance may happen.                                     *)
(***************************************************************************)
EXTENDS LegacyRefinement, TLC

CONSTANTS b1, b2, i1, i2, m1

TwoBundles == (b1 :> <<i1>>) @@ (b2 :> <<i1, i2>>)
OneTopic == [i \in {i1, i2} |-> "topic"]
ManualTopics == (m1 :> "topic")

Once(S) == [d \in Disturbances |-> IF d \in S THEN 1 ELSE 0]
One(S) == Once(S \cup {"bundle"})

TwoAtOnce == {[One({}) EXCEPT !["bundle"] = 2]}
Faults ==
  {One({"lease", "crash", "retry"}), One({"edit", "cancel", "backlog"}),
   One({"refusal", "cancel", "retry"}), One({"loss", "broken", "retry"})}
SafeProfiles == Faults \cup TwoAtOnce
LiveProfiles ==
  {One({"lease", "crash"}), One({"broken", "retry"}), One({"loss", "backlog"}),
   One({"refusal", "cancel"})}
Symmetric == Permutations(Workers)
=============================================================================
