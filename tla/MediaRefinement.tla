--------------------------- MODULE MediaRefinement ---------------------------
(***************************************************************************)
(* The rows, messages, leases and retention runs of MediaJobs implement    *)
(* MediaPromise.                                                           *)
(***************************************************************************)
EXTENDS MediaJobs

\* Which of the four ends a rejected asset has come to can be read off the
\* other rows: whether it is cleaned, has a job, and what became of the
\* delivery of that job.
EndOf(j) ==
  IF cleaned[j] THEN "gone"
  ELSE IF jobStatus[j] = "none" THEN "refused"
  ELSE IF dispatchStatus[j] = "failed" THEN "abandoned" ELSE "rejected"

StateOf(j) == IF assetStatus[j] = "rejected" THEN EndOf(j) ELSE assetStatus[j]

Promise == INSTANCE MediaPromise WITH
  state <- [j \in Jobs |-> StateOf(j)],
  busy <- {j \in Jobs : Held(j)}

\* Whatever is delivered twice, lost, refused or recovered, wherever a worker
\* dies and whenever retention runs, an upload is processed by one worker at a
\* time and only by its worker made ready (claim_job, complete_job,
\* record_storage_failure, _recover_media, mark_delivery_failed,
\* MediaRetentionService.run); it is taken back from a verdict only by hand
\* and from retention never, as long as processing keeps within the lease and
\* no request to confirm races another.
UploadsKeepThePromise == Promise!Spec
=============================================================================
