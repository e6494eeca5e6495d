---------------------------- MODULE PipelineRuns ----------------------------
(***************************************************************************)
(* The evidence-first pipeline as the import worker runs it beside the     *)
(* legacy import: it loads the pinned KiCad index, takes a page through    *)
(* eight stages and writes the snapshots of a review draft in a savepoint  *)
(* of the transaction that saves the import (pipeline/runtime.py,          *)
(* worker_shadow.py, persistence/postgresql.py, kicad_distribution.py).    *)
(*                                                                         *)
(* What the stages compute is the subject of FactExtraction and the        *)
(* modules above it; here a page gives a sequence of symbols.  The ids of  *)
(* an identity, an evaluation, a draft and a symbol row are hashes of      *)
(* payloads that hold the time the page was acquired, so they belong to    *)
(* one run; the id of an artifact row is a hash of the page alone.         *)
(***************************************************************************)
EXTENDS Naturals, Sequences

CONSTANTS
  Runs,         \* executions of run_repository_shadow
  NoRun,        \* no run
  Pages,        \* source, revision, path and content of a page
  Contents,     \* what a file of the index may hold
  NoContent,    \* nothing
  Manifest,     \* of a content: its revision, digest and whether it is sound
  Pins,         \* the pairs of revision and digest a deployment may expect
  Parsers,      \* releases of the worker
  Keys,         \* labels of specifications the registry does not know
  Unmapped,     \* the keys a parser leaves unmapped on a page
  Symbols,      \* records of an index
  Found,        \* the symbols an index gives a page, in the matcher's order
  Verdict,      \* the matcher's decision and relation for a symbol
  Publishers,   \* processes that publish an index
  Publishing,   \* the content each of them publishes
  MaxAttempts,  \* import_pipeline_safe_retry_attempts
  Profiles      \* bound: how often each disturbance may happen

Disturbances == {"failure", "retry", "loss", "bridge", "remove", "deploy",
                 "publish", "run", "action", "mark", "report"}

\* What becomes of a symbol the matcher has decided about.
Initially == [auto_accepted |-> "accepted", review_required |-> "suggested",
              rejected |-> "rejected"]

\* An index gives a page symbols of its own, the matcher decides about each,
\* a parser leaves keys unmapped, and NoRun is the writer of no file.
ASSUME PipelineAssumption ==
  /\ MaxAttempts \in 1 .. 5
  /\ NoRun \notin Runs /\ NoContent \notin Contents
  /\ \A c \in Contents, p \in Pages : Found[c][p] \in Seq(Symbols)
  /\ \A s \in Symbols : Verdict[s].decision \in DOMAIN Initially
  /\ \A n \in Parsers, p \in Pages : Unmapped[n][p] \subseteq Keys
  /\ \A p \in Publishers : Publishing[p] \in Contents /\ p # NoRun
  /\ Profiles \subseteq [Disturbances -> Nat]

VARIABLES
  file,       \* the index artifact: its content and whose inode it is
  publisher,  \* what a publisher has come to
  cache,      \* the loader's cache in the worker
  release,    \* the parser and the pin of the worker that is deployed
  run,        \* the shadow runs
  artifact,   \* import_pipeline_artifacts: the run whose facts a row holds
  table,      \* runs with a row among the identities, evaluations, drafts
  symbol,     \* component_enrichments
  left        \* bound: disturbances still to come

index == <<file, publisher>>
worker == <<cache, release, run>>
rows == <<artifact, table, symbol>>
pipelineVars == <<index, worker, rows, left>>

Disturb(d) == left[d] > 0 /\ left' = [left EXCEPT ![d] = @ - 1]

Order == <<"acquisition", "extraction", "normalization", "identity",
           "enrichment", "evaluation", "composition", "persistence">>
Stages == {Order[k] : k \in DOMAIN Order}
RetrySafe == {"acquisition", "enrichment"}
Successor(s) == CHOOSE t \in Stages :
  \E k \in DOMAIN Order : Order[k] = s /\ Order[k + 1] = t

Tables == <<"artifact", "identity", "evaluation", "draft">>
Statuses == {"suggested", "accepted", "rejected", "stale", "conflict"}
NoRow == [status |-> "absent"]
NoFile == [content |-> NoContent, inode |-> NoRun]
NoCache == [file |-> NoFile, pin |-> [revision |-> 0, digest |-> 0]]

NotStarted == [pc |-> "idle", page |-> NoRun, parser |-> 0, attempt |-> 0,
               index |-> NoContent, pin |-> NoCache.pin, written |-> 0,
               report |-> "none"]

\* The job's transaction is open.
Open(r) == run[r].pc \in Stages \cup {"compare", "save"}

PipelineInit ==
  /\ file = NoFile
  /\ publisher = [p \in Publishers |-> "idle"]
  /\ cache = NoCache
  /\ release \in [parser : Parsers, pin : Pins]
  /\ run = [r \in Runs |-> NotStarted]
  /\ artifact = [p \in Pages |-> NoRun]
  /\ table = [t \in {"identity", "evaluation", "draft"} |-> {}]
  /\ symbol = [r \in Runs |-> [s \in Symbols |-> NoRow]]
  /\ left \in Profiles

-----------------------------------------------------------------------------
(* The index on disk.                                                      *)

\* The file a publisher has written: _file_signature tells it from any other.
Temporary(p) == [content |-> Publishing[p], inode |-> p]

LinkedOver(p) == Temporary(p)   \* os.replace in place of os.link

\* A hard link fails where a name exists; identical content is accepted.
Linked(p) == IF file = NoFile THEN Temporary(p) ELSE file

\* publish_kicad_index_artifact up to the temporary file: an index of the
\* same name is left alone, whatever it holds.
StartPublishing(p) ==
  /\ publisher[p] = "idle"
  /\ Disturb("publish")
  /\ publisher' = [publisher EXCEPT ![p] =
                     IF file = NoFile THEN "temporary"
                     ELSE IF file.content = Publishing[p] THEN "done"
                     ELSE "refused"]
  /\ UNCHANGED <<file, worker, rows>>

Link(p) ==
  /\ publisher[p] = "temporary"
  /\ file' = Linked(p)
  /\ publisher' = [publisher EXCEPT ![p] =
                     IF file'.content # Publishing[p] THEN "refused"
                     ELSE IF file = NoFile THEN "linked" ELSE "done"]
  /\ UNCHANGED <<worker, rows, left>>

PublisherDies(p) ==
  /\ publisher[p] = "temporary"
  /\ Disturb("loss")
  /\ publisher' = [publisher EXCEPT ![p] = "dead"]
  /\ UNCHANGED <<file, worker, rows>>

\* An operator removes the file.
Remove ==
  /\ file # NoFile
  /\ Disturb("remove")
  /\ file' = NoFile
  /\ UNCHANGED <<publisher, worker, rows>>

-----------------------------------------------------------------------------
(* The worker.                                                             *)

Lost(r) == [run[r] EXCEPT !.pc = "lost"]

\* A release restarts the worker: it reads its settings once.
Deploy ==
  /\ Disturb("deploy")
  /\ release' \in [parser : Parsers, pin : Pins] \ {release}
  /\ cache' = NoCache
  /\ run' = [r \in Runs |-> IF Open(r) THEN Lost(r) ELSE run[r]]
  /\ UNCHANGED <<index, rows>>

Verified(c, pin) ==
  /\ c # NoContent
  /\ Manifest[c].sound
  /\ [revision |-> Manifest[c].revision, digest |-> Manifest[c].digest] = pin

Read == IF Verified(file.content, release.pin) THEN file.content ELSE NoContent

LoadedByPath ==   \* the signature is not compared
  IF file # NoFile /\ cache.file # NoFile /\ cache.pin = release.pin
  THEN cache.file.content ELSE Read

\* KicadIndexArtifactLoader.load: a file read before, with the same signature
\* and for the same pin, is not read again.
Loaded ==
  IF file # NoFile /\ cache.file.inode = file.inode /\ cache.pin = release.pin
  THEN cache.file.content ELSE Read

\* run_repository_shadow up to the savepoint.  Without an index the import
\* goes on and its metrics say why.
Begin(r, p) ==
  /\ run[r].pc = "idle"
  /\ Disturb("run")
  /\ cache' = IF Loaded = NoContent THEN cache
              ELSE [file |-> file, pin |-> release.pin]
  /\ run' = [run EXCEPT ![r] =
       [pc |-> IF Loaded = NoContent THEN "save" ELSE "acquisition",
        page |-> p, parser |-> release.parser, attempt |-> 1,
        index |-> Loaded, pin |-> release.pin, written |-> 0,
        report |-> IF Loaded = NoContent THEN "unavailable" ELSE "none"]]
  /\ UNCHANGED <<index, release, rows>>

To(r, stage) == [run EXCEPT ![r].pc = stage, ![r].attempt = 1]

StageSucceeds(r) ==
  /\ run[r].pc \in Stages \ {"persistence"}
  /\ run' = To(r, Successor(run[r].pc))
  /\ UNCHANGED <<index, cache, release, rows, left>>

\* The attempts of _invoke.
MayRetry(r) == run[r].attempt < MaxAttempts

\* A timeout, or an error that calls itself retryable, in a stage that only
\* reads.
StageIsRetried(r) ==
  /\ run[r].pc \in RetrySafe
  /\ MayRetry(r)
  /\ Disturb("retry")
  /\ run' = [run EXCEPT ![r].attempt = @ + 1]
  /\ UNCHANGED <<index, cache, release, rows>>

AbandonedAsItIs(r, report) ==   \* without the savepoint
  [run[r] EXCEPT !.pc = "save", !.report = report]

\* The savepoint is rolled back, the import goes on.
Abandoned(r, report) ==
  [run[r] EXCEPT !.pc = "save", !.written = 0, !.report = report]

StageFails(r) ==
  /\ run[r].pc \in Stages
  /\ Disturb("failure")
  /\ run' = [run EXCEPT ![r] = Abandoned(r, "failed")]
  /\ UNCHANGED <<index, cache, release, rows>>

SymbolsOf(r) == Found[run[r].index][run[r].page]
Statements(r) == Len(Tables) + Len(SymbolsOf(r))

\* ON CONFLICT DO NOTHING waits for a transaction that has inserted the row.
Blocked(r) ==
  /\ run[r].written = 0
  /\ artifact[run[r].page] = NoRun
  /\ \E q \in Runs \ {r} :
       Open(q) /\ run[q].written > 0 /\ run[q].page = run[r].page

\* PostgresImportPersistenceGateway.persist, one statement.
WriteRow(r) ==
  /\ run[r].pc = "persistence"
  /\ run[r].written < Statements(r)
  /\ ~ Blocked(r)
  /\ run' = [run EXCEPT ![r].written = @ + 1]
  /\ UNCHANGED <<index, cache, release, rows, left>>

Flush(r) ==
  /\ run[r].pc = "persistence"
  /\ run[r].written = Statements(r)
  /\ run' = [run EXCEPT ![r].pc = "compare", ![r].report = "succeeded"]
  /\ UNCHANGED <<index, cache, release, rows, left>>

\* ShadowImportRunner: the draft is mapped to the legacy fields and compared.
Compare(r) ==
  /\ run[r].pc = "compare"
  /\ run' = To(r, "save")
  /\ UNCHANGED <<index, cache, release, rows, left>>

CompareFails(r) ==
  /\ run[r].pc = "compare"
  /\ Disturb("bridge")
  /\ run' = [run EXCEPT ![r] = Abandoned(r, "unavailable")]
  /\ UNCHANGED <<index, cache, release, rows>>

-----------------------------------------------------------------------------
(* The job's transaction.                                                  *)

NewRow(r, s) ==
  [status |-> Initially[Verdict[s].decision], relation |-> Verdict[s].relation,
   revision |-> Manifest[run[r].index].revision]

Written(r, t) == \E k \in 1 .. run[r].written : k \in DOMAIN Tables /\ Tables[k] = t

WrittenSymbols(r) ==
  {SymbolsOf(r)[k] : k \in 1 .. (IF run[r].written > Len(Tables)
                                 THEN run[r].written - Len(Tables) ELSE 0)}

\* The commit of the import: its own rows, the metrics with the report of
\* the shadow run, and the rows the savepoint kept.
Save(r) ==
  /\ run[r].pc = "save"
  /\ run' = [run EXCEPT ![r].pc = "saved"]
  /\ artifact' = [p \in Pages |->
                    IF p = run[r].page /\ Written(r, "artifact") /\ artifact[p] = NoRun
                    THEN r ELSE artifact[p]]
  /\ table' = [t \in DOMAIN table |->
                 IF Written(r, t) THEN table[t] \cup {r} ELSE table[t]]
  /\ symbol' = [symbol EXCEPT ![r] = [s \in Symbols |->
                  IF run[r].written > 0 /\ s \in WrittenSymbols(r)
                  THEN NewRow(r, s) ELSE @[s]]]
  /\ UNCHANGED <<index, cache, release, left>>

\* The worker dies or the transaction fails on a conflict of its own rows.
Lose(r) ==
  /\ Open(r)
  /\ Disturb("loss")
  /\ run' = [run EXCEPT ![r] = Lost(r)]
  /\ UNCHANGED <<index, cache, release, rows>>

PipelineNext ==
  \/ \E p \in Publishers : StartPublishing(p) \/ Link(p) \/ PublisherDies(p)
  \/ Remove
  \/ Deploy
  \/ \E r \in Runs :
       \/ \E p \in Pages : Begin(r, p)
       \/ StageSucceeds(r) \/ StageIsRetried(r) \/ StageFails(r)
       \/ WriteRow(r) \/ Flush(r) \/ Compare(r) \/ CompareFails(r)
       \/ Save(r) \/ Lose(r)

-----------------------------------------------------------------------------

RunRows ==
  [pc : Stages \cup {"idle", "compare", "save", "saved", "lost"},
   page : Pages \cup {NoRun}, parser : Parsers \cup {0},
   attempt : 0 .. MaxAttempts, index : Contents \cup {NoContent},
   pin : Pins \cup {NoCache.pin}, written : Nat,
   report : {"none", "unavailable", "failed", "succeeded"}]

\* The types of the pipeline's variables; a run that has begun has a page
\* and the parser of its release.
PipelineTypes ==
  /\ file.content \in Contents \cup {NoContent}
  /\ file # NoFile => file.content \in Contents
  /\ publisher \in [Publishers -> {"idle", "temporary", "linked", "done",
                                   "refused", "dead"}]
  /\ release \in [parser : Parsers, pin : Pins]
  /\ run \in [Runs -> RunRows]
  /\ \A r \in Runs : run[r].pc # "idle" =>
       run[r].page \in Pages /\ run[r].parser \in Parsers
  /\ artifact \in [Pages -> Runs \cup {NoRun}]
  /\ table \in [{"identity", "evaluation", "draft"} -> SUBSET Runs]
  /\ left \in [Disturbances -> Nat]

\* The rows of a draft are there together and only if its run succeeded: a
\* failed, abandoned or lost run leaves none, whatever it had written, and
\* the report saved with the import says which it was.  The symbols were
\* taken from a sound index of the revision and digest its release expects.
RowsAreWhole ==
  /\ \A r \in Runs :
       /\ r \in table["draft"] <=> run[r].pc = "saved" /\ run[r].report = "succeeded"
       /\ \A t \in DOMAIN table : r \in table[t] <=> r \in table["draft"]
       /\ \A s \in Symbols : symbol[r][s] # NoRow <=>
            r \in table["draft"] /\ \E k \in DOMAIN SymbolsOf(r) : SymbolsOf(r)[k] = s
       /\ r \in table["draft"] =>
            /\ artifact[run[r].page] # NoRun
            /\ Verified(run[r].index, run[r].pin)
  /\ \A p \in Pages : artifact[p] # NoRun =>
       artifact[p] \in table["draft"] /\ run[artifact[p]].page = p

\* A run begins in this step.
Begins(r) == run[r].pc = "idle" /\ run'[r].pc # "idle"

\* A published index is never replaced by another: two publishers of one
\* path leave the first one's content.  And a run takes what is on the disk
\* when it begins, verified for the pin of its release, whatever the worker
\* has in its cache: after the file was removed and another was published,
\* the index read before is not used again.
PublishedIsKept ==
  [][/\ file # NoFile => file' \in {file, NoFile}
     /\ \A r \in Runs : Begins(r) => run'[r].index = Read]_<<file, run>>
=============================================================================
