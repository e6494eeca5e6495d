--------------------------- MODULE MCImportReview ---------------------------
(***************************************************************************)
(* Instances of ImportReview: two runs of one page or of two, two releases *)
(* of which the first leaves a specification unmapped, three indexes of    *)
(* which one is broken, two publishers, two reviewers.                     *)
(***************************************************************************)
EXTENDS ImportReview, TLC

CONSTANTS
  r1, r2, p1, p2, good, newer, broken, s1, s2, s3, label, b1, b2, a1, a2,
  embedded, equivalent

MCManifest == (good :> [revision |-> 1, digest |-> 1, sound |-> TRUE])
           @@ (newer :> [revision |-> 2, digest |-> 2, sound |-> TRUE])
           @@ (broken :> [revision |-> 1, digest |-> 1, sound |-> FALSE])
MCPins == {[revision |-> 1, digest |-> 1], [revision |-> 2, digest |-> 2]}
MCParsers == {1, 2}
MCUnmapped == <<(p1 :> {label}) @@ (p2 :> {}), [p \in {p1, p2} |-> {}]>>
MCFound == (good :> ((p1 :> <<s1, s2>>) @@ (p2 :> << >>)))
        @@ (newer :> ((p1 :> << >>) @@ (p2 :> <<s3>>)))
        @@ (broken :> ((p1 :> << >>) @@ (p2 :> << >>)))
MCVerdict == (s1 :> [decision |-> "review_required", relation |-> embedded])
          @@ (s2 :> [decision |-> "auto_accepted", relation |-> equivalent])
          @@ (s3 :> [decision |-> "rejected", relation |-> embedded])
MCPublishing == (b1 :> good) @@ (b2 :> newer)

Calm == [d \in Disturbances |-> IF d \in {"publish", "run"} THEN 1 ELSE 0]
MCProfiles == {
  [Calm EXCEPT !["action"] = 4],
  [Calm EXCEPT !["action"] = 3, !["mark"] = 1, !["report"] = 1],
  [Calm EXCEPT !["run"] = 2, !["action"] = 1, !["bridge"] = 1],
  [Calm EXCEPT !["run"] = 2, !["action"] = 2, !["deploy"] = 1],
  [Calm EXCEPT !["run"] = 2, !["failure"] = 1, !["retry"] = 2],
  [Calm EXCEPT !["run"] = 2, !["loss"] = 1],
  [Calm EXCEPT !["publish"] = 2, !["run"] = 2, !["remove"] = 1, !["loss"] = 1]}

Symmetry == Permutations({a1, a2}) \cup Permutations({r1, r2})
=============================================================================
