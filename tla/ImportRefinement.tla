-------------------------- MODULE ImportRefinement --------------------------
(***************************************************************************)
(* The jobs, messages and leases of ImportJobs implement ImportPromise.    *)
(***************************************************************************)
EXTENDS ImportJobs

StateOf(j) == IF jobStatus[j] \in Active THEN "open" ELSE jobStatus[j]

Promise == INSTANCE ImportPromise WITH
  state <- [j \in Jobs |-> StateOf(j)],
  busy <- {j \in Jobs : Held(j)},
  component <- drafts

\* Whatever is delivered twice, lost, refused or restarted, and wherever a
\* worker dies, an import is taken up by one worker at a time and concluded
\* once, by whoever took it up (the claim of process_import_job, its saving
\* transaction, _record_transient and the recovery of the reconciler), as
\* long as processing keeps within the lease and nobody retries by hand.
KeepsThePromise == Promise!Spec
=============================================================================
