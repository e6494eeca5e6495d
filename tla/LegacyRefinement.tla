-------------------------- MODULE LegacyRefinement --------------------------
(***************************************************************************)
(* The rows, locks, messages and workers of LegacyBundles implement        *)
(* LegacyPromise.                                                          *)
(***************************************************************************)
EXTENDS LegacyBundles

StageOf(b) ==
  IF status[b] = "absent" THEN "none"
  ELSE IF status[b] \in {"uploading", "uploaded", "analyzing"} THEN "draft"
  ELSE status[b]

\* The decisions of a plan, without what they were taken on.
DecisionsOf(b) ==
  [i \in DOMAIN plan[b] |->
     [kind |-> plan[b][i].decision.kind, target |-> plan[b][i].decision.target]]

Promise == INSTANCE LegacyPromise WITH
  Rows <- [b \in Bundles |-> Items(b)],
  stage <- [b \in Bundles |-> StageOf(b)],
  confirmed <- {b \in Bundles : phase[b] = "apply"},
  plan <- [b \in Bundles |-> DecisionsOf(b)],
  outcome <- itemStatus,
  source <- link

\* However many workers come to a bundle, lose its lock, die or fail, and
\* whoever cancels, retries or gives it up meanwhile, a plan is applied row by
\* row as it was confirmed and only while the bundle is being applied; a row
\* that failed is tried again only by hand, and none is forgotten (run_bundle,
\* _apply_item, decide_item, apply_bundle, retry_bundle; where failed rows are
\* retried, if workers keep their locks and no bundle fails under a worker).
BundlesKeepThePromise == Promise!Spec
=============================================================================
