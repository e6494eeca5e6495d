------------------------ MODULE ImportReview_proofs ------------------------
(***************************************************************************)
(* Theorems about ImportReview and PipelineRuns, for any runs, pages,      *)
(* indexes, releases, publishers, symbols and reviewers.                   *)
(***************************************************************************)
EXTENDS ImportReview, Integers, SequenceTheorems, TLAPS

USE DEF index, worker, rows, pipelineVars, reviewVars, beside

-----------------------------------------------------------------------------
(* Stages, tables and rows.                                                *)

LEMMA StageNames ==
  Stages = {"acquisition", "extraction", "normalization", "identity",
            "enrichment", "evaluation", "composition", "persistence"}
BY DEF Stages, Order

LEMMA Successors ==
  ASSUME NEW s \in Stages \ {"persistence"}
  PROVE  Successor(s) \in Stages
<1>1. \E t \in Stages : \E k \in DOMAIN Order : Order[k] = s /\ Order[k + 1] = t
  BY StageNames DEF Order
<1>2. QED BY <1>1 DEF Successor

LEMMA TableNames ==
  /\ Len(Tables) = 4 /\ DOMAIN Tables = 1 .. 4
  /\ Tables[1] = "artifact" /\ Tables[2] = "identity"
  /\ Tables[3] = "evaluation" /\ Tables[4] = "draft"
BY DEF Tables

LEMMA RowsAreRows ==
  /\ NoRow \notin SymbolRows
  /\ \A row \in SymbolRows : row # NoRow
BY DEF NoRow, SymbolRows, Statuses

LEMMA AwayIsAway == Away \notin Workspaces /\ Away.pc = "away"
BY DEF Away, Workspaces

LEMMA Kinds ==
  {"failure", "retry", "loss", "bridge", "remove", "deploy", "publish", "run",
   "action", "mark", "report"} = Disturbances
BY DEF Disturbances

LEMMA Disturbing ==
  ASSUME left \in [Disturbances -> Nat], NEW d \in Disturbances, Disturb(d)
  PROVE  left' \in [Disturbances -> Nat]
BY DEF Disturb

LEMMA NewRowType ==
  ASSUME PipelineTypes, NEW r \in Runs, run[r].index \in Contents, NEW s \in Symbols
  PROVE  NewRow(r, s) \in SymbolRows
BY PipelineAssumption, ReviewAssumption
DEF NewRow, SymbolRows, Initially, Statuses

-----------------------------------------------------------------------------
(* The pipeline: types, and how far a run has come.                        *)

\* What a run has written and found, at the point it has come to.
Shadow(r) ==
  /\ run[r].pc \in (Stages \ {"persistence"}) \cup {"idle"} => run[r].written = 0
  /\ run[r].pc \in Stages \cup {"compare"} =>
       Verified(run[r].index, run[r].pin) /\ run[r].index \in Contents
  /\ run[r].pc \in Stages \cup {"idle"} => run[r].report = "none"
  /\ run[r].pc = "persistence" => run[r].written <= Statements(r)
  /\ run[r].pc = "compare" =>
       run[r].report = "succeeded" /\ run[r].written = Statements(r)
  /\ run[r].pc \in {"save", "saved"} =>
       \/ run[r].report # "succeeded" /\ run[r].written = 0
       \/ /\ run[r].report = "succeeded" /\ run[r].written = Statements(r)
          /\ Verified(run[r].index, run[r].pin) /\ run[r].index \in Contents

\* Its inode says who wrote a file, and thereby what it holds.
IsItsPublishers(f) == f # NoFile => f.inode \in Publishers /\ f.content = Publishing[f.inode]

\* A file in the cache was sound when it was read, and a file is what its
\* publisher wrote.
Cached ==
  /\ cache.file # NoFile => Verified(cache.file.content, cache.pin)
  /\ IsItsPublishers(file) /\ IsItsPublishers(cache.file)

\* A step that ends no run well: what is saved stays.
SavedStay ==
  \A r \in Runs :
    /\ run'[r].pc = "saved" => run[r].pc = "saved"
    /\ run[r].pc = "saved" => run'[r] = run[r]

LEMMA InitialRun ==
  /\ NotStarted \in RunRows
  /\ NotStarted.pc = "idle" /\ NotStarted.written = 0 /\ NotStarted.report = "none"
BY PipelineAssumption DEF NotStarted, RunRows, NoCache

\* The index of a run is what is on the disk, cached or not.
LEMMA LoadedIsRead ==
  ASSUME Cached
  PROVE  Loaded = Read
<1>1. CASE file # NoFile /\ cache.file.inode = file.inode /\ cache.pin = release.pin
  <2>1. file.inode \in Publishers /\ file.content = Publishing[file.inode]
    BY <1>1 DEF Cached, IsItsPublishers
  <2>2. cache.file # NoFile
    BY <1>1, <2>1, PipelineAssumption DEF NoFile
  <2>3. /\ cache.file.content = file.content
        /\ Verified(cache.file.content, cache.pin)
    BY <1>1, <2>1, <2>2 DEF Cached, IsItsPublishers
  <2>4. Verified(file.content, release.pin)
    BY <1>1, <2>3
  <2>5. QED BY <1>1, <2>3, <2>4 DEF Loaded, Read
<1>2. CASE ~ (file # NoFile /\ cache.file.inode = file.inode /\ cache.pin = release.pin)
  BY <1>2 DEF Loaded
<1>3. QED BY <1>1, <1>2

LEMMA LoadedType ==
  ASSUME PipelineTypes, Cached, Loaded # NoContent
  PROVE  /\ Loaded = file.content /\ Loaded \in Contents /\ file # NoFile
         /\ Verified(Loaded, release.pin)
<1>1. Loaded = file.content /\ Verified(file.content, release.pin)
  BY LoadedIsRead DEF Read
<1>2. Loaded \in Contents
  BY <1>1 DEF PipelineTypes
<1>3. file # NoFile
  BY <1>1, <1>2, PipelineAssumption DEF NoFile
<1>4. QED BY <1>1, <1>2, <1>3

\* The steps of publishers and operators.
LEMMA PublishStep ==
  ASSUME PipelineTypes, Cached,
         \/ \E p \in Publishers : StartPublishing(p) \/ Link(p) \/ PublisherDies(p)
         \/ Remove
  PROVE  PipelineTypes' /\ Cached' /\ UNCHANGED <<worker, rows>>
<1>1. UNCHANGED <<worker, rows>>
  BY DEF StartPublishing, Link, PublisherDies, Remove
<1>2. left' \in [Disturbances -> Nat]
  BY Disturbing, Kinds DEF PipelineTypes, StartPublishing, Link, PublisherDies, Remove
<1>3. ASSUME NEW p \in Publishers, StartPublishing(p) \/ PublisherDies(p)
      PROVE  PipelineTypes'
  <2>1. UNCHANGED file
    BY <1>3 DEF StartPublishing, PublisherDies
  <2>2. publisher' \in [Publishers -> {"idle", "temporary", "linked", "done",
                                       "refused", "dead"}]
    BY <1>3 DEF PipelineTypes, StartPublishing, PublisherDies
  <2>3. QED BY <1>1, <1>2, <2>1, <2>2 DEF PipelineTypes
<1>4. ASSUME NEW p \in Publishers, Link(p)
      PROVE  PipelineTypes'
  <2>1. file'.content \in Contents
    BY <1>4, PipelineAssumption DEF PipelineTypes, Link, Linked, Temporary
  <2>2. publisher' \in [Publishers -> {"idle", "temporary", "linked", "done",
                                       "refused", "dead"}]
    BY <1>4 DEF PipelineTypes, Link
  <2>3. QED BY <1>1, <1>2, <2>1, <2>2 DEF PipelineTypes
<1>5. ASSUME Remove
      PROVE  PipelineTypes'
  <2>1. file' = NoFile /\ UNCHANGED publisher
    BY <1>5 DEF Remove
  <2>2. QED BY <1>1, <1>2, <2>1 DEF PipelineTypes, NoFile
<1>6. Cached'
  <2>1. ASSUME NEW p \in Publishers, StartPublishing(p) \/ Link(p) \/ PublisherDies(p)
        PROVE  file' = file \/ file' = Temporary(p)
    BY <2>1 DEF StartPublishing, Link, Linked, PublisherDies
  <2>2. \A p \in Publishers : IsItsPublishers(Temporary(p))
    BY DEF IsItsPublishers, Temporary
  <2>3. IsItsPublishers(file')
    BY <2>1, <2>2 DEF Remove, Cached, IsItsPublishers
  <2>4. QED BY <1>1, <2>3 DEF Cached, IsItsPublishers
<1>7. QED BY <1>1, <1>3, <1>4, <1>5, <1>6

\* A step of one run.
LEMMA RunStep ==
  ASSUME PipelineTypes, NEW r \in Runs, NEW row \in RunRows,
         run' = [run EXCEPT ![r] = row],
         row.pc # "idle" => row.page \in Pages /\ row.parser \in Parsers,
         UNCHANGED <<index, release, artifact, table>>,
         left' \in [Disturbances -> Nat]
  PROVE  PipelineTypes' /\ \A q \in Runs : run'[q] = IF q = r THEN row ELSE run[q]
<1>1. /\ run' \in [Runs -> RunRows]
      /\ \A q \in Runs : run'[q] = IF q = r THEN row ELSE run[q]
  BY DEF PipelineTypes
<1>2. QED BY <1>1 DEF PipelineTypes

LEMMA BeginStep ==
  ASSUME PipelineTypes, Cached, NEW r \in Runs, NEW p \in Pages, Begin(r, p),
         \A q \in Runs : Shadow(q)
  PROVE  PipelineTypes' /\ Cached' /\ SavedStay /\ \A q \in Runs : Shadow(q)'
<1> DEFINE row == [pc |-> IF Loaded = NoContent THEN "save" ELSE "acquisition",
                   page |-> p, parser |-> release.parser, attempt |-> 1,
                   index |-> Loaded, pin |-> release.pin, written |-> 0,
                   report |-> IF Loaded = NoContent THEN "unavailable" ELSE "none"]
<1>1. run' = [run EXCEPT ![r] = row] /\ UNCHANGED <<index, release, rows>>
  BY DEF Begin
<1>2. row \in RunRows /\ row.page \in Pages /\ row.parser \in Parsers
  <2>1. /\ Loaded \in Contents \cup {NoContent}
        /\ release.parser \in Parsers /\ release.pin \in Pins
        /\ 1 \in 0 .. MaxAttempts /\ 0 \in Nat
    BY LoadedType, PipelineAssumption DEF PipelineTypes
  <2>2. QED BY <2>1, StageNames DEF RunRows
<1>3. left' \in [Disturbances -> Nat]
  BY Disturbing, Kinds DEF PipelineTypes, Begin
<1> HIDE DEF row
<1>4. PipelineTypes' /\ \A q \in Runs : run'[q] = IF q = r THEN row ELSE run[q]
  BY <1>1, <1>2, <1>3, RunStep
<1>5. Cached'
  <2>1. CASE Loaded = NoContent
    BY <2>1 DEF Begin, Cached
  <2>2. CASE Loaded # NoContent
    BY <2>2, LoadedType DEF Begin, Cached, IsItsPublishers
  <2>3. QED BY <2>1, <2>2
<1>6. SavedStay
  BY <1>4 DEF Begin, SavedStay, row
<1>7. Shadow(r)'
  <2>1. CASE Loaded = NoContent
    <3>1. run'[r].pc = "save" /\ run'[r].written = 0 /\ run'[r].report = "unavailable"
      BY <1>4, <2>1 DEF row
    <3>2. QED BY <3>1, StageNames DEF Shadow
  <2>2. CASE Loaded # NoContent
    <3>1. /\ run'[r].pc = "acquisition" /\ run'[r].written = 0
          /\ run'[r].report = "none"
          /\ run'[r].index = Loaded /\ run'[r].pin = release.pin
      BY <1>4, <2>2 DEF row
    <3>2. QED BY <2>2, <3>1, LoadedType, StageNames DEF Shadow
  <2>3. QED BY <2>1, <2>2
<1>8. ASSUME NEW q \in Runs \ {r}
      PROVE  Shadow(q)'
  <2>1. run'[q] = run[q]
    BY <1>4
  <2>2. QED BY <2>1 DEF Shadow, Statements, SymbolsOf
<1>9. QED BY <1>4, <1>5, <1>6, <1>7, <1>8

\* A run that is not saved takes a step that does not save it.
LEMMA ShadowMoves ==
  ASSUME PipelineTypes, Cached, \A q \in Runs : Shadow(q),
         NEW r \in Runs, NEW row \in RunRows, run' = [run EXCEPT ![r] = row],
         run[r].pc \notin {"idle", "saved"}, row.pc \notin {"idle", "saved"},
         row.page = run[r].page, row.parser = run[r].parser,
         UNCHANGED <<index, cache, release, artifact, table>>,
         left' \in [Disturbances -> Nat],
         run'[r] = row => Shadow(r)'
  PROVE  PipelineTypes' /\ Cached' /\ SavedStay /\ \A q \in Runs : Shadow(q)'
<1>1. row.page \in Pages /\ row.parser \in Parsers
  BY DEF PipelineTypes
<1>2. PipelineTypes' /\ \A q \in Runs : run'[q] = IF q = r THEN row ELSE run[q]
  BY <1>1, RunStep
<1>3. Cached' /\ SavedStay
  BY <1>2 DEF Cached, IsItsPublishers, SavedStay
<1>4. ASSUME NEW q \in Runs \ {r}
      PROVE  Shadow(q)'
  <2>1. run'[q] = run[q]
    BY <1>2
  <2>2. QED BY <2>1 DEF Shadow, Statements, SymbolsOf
<1>5. QED BY <1>2, <1>3, <1>4

LEMMA StageStep ==
  ASSUME PipelineTypes, Cached, \A q \in Runs : Shadow(q), NEW r \in Runs,
         \/ StageSucceeds(r) \/ StageIsRetried(r) \/ StageFails(r)
         \/ WriteRow(r) \/ Flush(r) \/ Compare(r) \/ CompareFails(r) \/ Lose(r)
  PROVE  PipelineTypes' /\ Cached' /\ SavedStay /\ \A q \in Runs : Shadow(q)'
<1>1. run[r] \in RunRows /\ Shadow(r) /\ 1 \in 0 .. MaxAttempts
  BY PipelineAssumption DEF PipelineTypes
<1>2. left' \in [Disturbances -> Nat]
  BY Disturbing, Kinds
  DEF PipelineTypes, StageSucceeds, StageIsRetried, StageFails, WriteRow, Flush,
      Compare, CompareFails, Lose
<1>3. /\ UNCHANGED <<index, cache, release, artifact, table>>
      /\ run[r].pc \notin {"idle", "saved"}
  BY StageNames
  DEF StageSucceeds, StageIsRetried, StageFails, WriteRow, Flush, Compare,
      CompareFails, Lose, Open, RetrySafe
<1>4. CASE StageSucceeds(r)
  <2>1. PICK t \in Stages : t = Successor(run[r].pc)
    BY <1>4, Successors DEF StageSucceeds
  <2> DEFINE row == [run[r] EXCEPT !.pc = t, !.attempt = 1]
  <2>2. run' = [run EXCEPT ![r] = row]
    BY <1>4, <2>1 DEF StageSucceeds, To
  <2>3. /\ row \in RunRows /\ row.pc = t /\ row.page = run[r].page
        /\ row.parser = run[r].parser /\ row.written = run[r].written
        /\ row.report = run[r].report /\ row.index = run[r].index
        /\ row.pin = run[r].pin
    BY <1>1 DEF RunRows
  <2>4. run[r].pc \in Stages \ {"persistence"}
    BY <1>4 DEF StageSucceeds
  <2> HIDE DEF row
  <2>5. run[r].page \in Pages
    BY <1>3 DEF PipelineTypes
  <2>6. ASSUME run'[r] = row
        PROVE  Shadow(r)'
    <3>1. Len(Found[row.index][row.page]) \in Nat /\ Len(Tables) = 4
      BY <1>1, <2>3, <2>4, <2>5, PipelineAssumption, TableNames DEF Shadow
    <3>2. row.written <= Statements(r)'
      BY <1>1, <2>3, <2>4, <2>6, <3>1 DEF Shadow, Statements, SymbolsOf
    <3>3. QED BY <1>1, <2>3, <2>4, <2>6, <3>2, StageNames DEF Shadow
  <2>7. t \notin {"idle", "saved"}
    BY StageNames
  <2>8. QED BY <1>2, <1>3, <2>2, <2>3, <2>6, <2>7, ShadowMoves
<1>5. CASE StageIsRetried(r)
  <2> DEFINE row == [run[r] EXCEPT !.attempt = run[r].attempt + 1]
  <2>1. run' = [run EXCEPT ![r] = row] /\ run[r].pc \in RetrySafe
    BY <1>5 DEF StageIsRetried
  <2>2. run[r].attempt + 1 \in 0 .. MaxAttempts
    BY <1>1, <1>5, PipelineAssumption DEF StageIsRetried, MayRetry, RunRows
  <2>3. /\ row \in RunRows /\ row.pc = run[r].pc /\ row.page = run[r].page
        /\ row.parser = run[r].parser /\ row.written = run[r].written
        /\ row.report = run[r].report /\ row.index = run[r].index
        /\ row.pin = run[r].pin
    BY <1>1, <2>2 DEF RunRows
  <2> HIDE DEF row
  <2>4. run'[r] = row => Shadow(r)'
    BY <1>1, <2>1, <2>3, StageNames DEF Shadow, RetrySafe
  <2>5. QED BY <1>2, <1>3, <2>1, <2>3, <2>4, ShadowMoves
<1>6. CASE StageFails(r) \/ CompareFails(r)
  <2>1. PICK report \in {"failed", "unavailable"} :
          run' = [run EXCEPT ![r] = [run[r] EXCEPT !.pc = "save", !.written = 0,
                                                   !.report = report]]
    BY <1>6 DEF StageFails, CompareFails, Abandoned
  <2> DEFINE row == [run[r] EXCEPT !.pc = "save", !.written = 0, !.report = report]
  <2>2. /\ row \in RunRows /\ row.pc = "save" /\ row.page = run[r].page
        /\ row.parser = run[r].parser /\ row.written = 0 /\ row.report = report
    BY <1>1 DEF RunRows
  <2>3. run' = [run EXCEPT ![r] = row]
    BY <2>1
  <2> HIDE DEF row
  <2>4. run'[r] = row => Shadow(r)'
    BY <2>2, StageNames DEF Shadow
  <2>5. QED BY <1>2, <1>3, <2>2, <2>3, <2>4, ShadowMoves
<1>7. CASE WriteRow(r)
  <2> DEFINE row == [run[r] EXCEPT !.written = run[r].written + 1]
  <2>1. /\ run' = [run EXCEPT ![r] = row] /\ run[r].pc = "persistence"
        /\ run[r].written < Statements(r)
    BY <1>7 DEF WriteRow
  <2>2. /\ row \in RunRows /\ row.pc = "persistence" /\ row.page = run[r].page
        /\ row.parser = run[r].parser /\ row.written = run[r].written + 1
        /\ row.report = run[r].report /\ row.index = run[r].index
        /\ row.pin = run[r].pin /\ run[r].written \in Nat
    BY <1>1, <2>1 DEF RunRows
  <2> HIDE DEF row
  <2>3. run[r].page \in Pages /\ run[r].index \in Contents
    BY <1>1, <1>3, <2>1, StageNames DEF PipelineTypes, Shadow
  <2>4. Len(SymbolsOf(r)) \in Nat /\ Len(Tables) = 4
    <3>1. SymbolsOf(r) \in Seq(Symbols)
      BY <2>3, PipelineAssumption DEF SymbolsOf
    <3>2. QED BY <3>1, TableNames
  <2>5. ASSUME run'[r] = row
        PROVE  Shadow(r)'
    <3>1. Statements(r)' = Statements(r)
      BY <2>2, <2>5 DEF Statements, SymbolsOf
    <3>2. row.written <= Statements(r)'
      BY <2>1, <2>2, <2>4, <3>1 DEF Statements
    <3>3. QED BY <1>1, <2>1, <2>2, <2>5, <3>2, StageNames DEF Shadow
  <2>6. QED BY <1>2, <1>3, <2>1, <2>2, <2>5, ShadowMoves
<1>8. CASE Flush(r)
  <2> DEFINE row == [run[r] EXCEPT !.pc = "compare", !.report = "succeeded"]
  <2>1. /\ run' = [run EXCEPT ![r] = row] /\ run[r].pc = "persistence"
        /\ run[r].written = Statements(r)
    BY <1>8 DEF Flush
  <2>2. /\ row \in RunRows /\ row.pc = "compare" /\ row.page = run[r].page
        /\ row.parser = run[r].parser /\ row.written = run[r].written
        /\ row.report = "succeeded" /\ row.index = run[r].index
        /\ row.pin = run[r].pin
    BY <1>1 DEF RunRows
  <2> HIDE DEF row
  <2>3. ASSUME run'[r] = row
        PROVE  Shadow(r)'
    <3>1. Statements(r)' = Statements(r)
      BY <2>2, <2>3 DEF Statements, SymbolsOf
    <3>2. /\ Verified(run[r].index, run[r].pin) /\ run[r].index \in Contents
          /\ run[r].written = Statements(r)
      BY <1>1, <2>1, StageNames DEF Shadow
    <3>3. QED BY <1>1, <2>1, <2>2, <2>3, <3>1, <3>2, StageNames DEF Shadow
  <2>4. QED BY <1>2, <1>3, <2>1, <2>2, <2>3, ShadowMoves
<1>9. CASE Compare(r)
  <2> DEFINE row == [run[r] EXCEPT !.pc = "save", !.attempt = 1]
  <2>1. run' = [run EXCEPT ![r] = row] /\ run[r].pc = "compare"
    BY <1>9 DEF Compare, To
  <2>2. /\ row \in RunRows /\ row.pc = "save" /\ row.page = run[r].page
        /\ row.parser = run[r].parser /\ row.written = run[r].written
        /\ row.report = run[r].report /\ row.index = run[r].index
        /\ row.pin = run[r].pin
    BY <1>1 DEF RunRows
  <2> HIDE DEF row
  <2>3. ASSUME run'[r] = row
        PROVE  Shadow(r)'
    <3>1. Statements(r)' = Statements(r)
      BY <2>2, <2>3 DEF Statements, SymbolsOf
    <3>2. /\ Verified(run[r].index, run[r].pin) /\ run[r].index \in Contents
          /\ run[r].written = Statements(r)
      BY <1>1, <2>1, StageNames DEF Shadow
    <3>3. QED BY <1>1, <2>1, <2>2, <2>3, <3>1, <3>2, StageNames DEF Shadow
  <2>4. QED BY <1>2, <1>3, <2>1, <2>2, <2>3, ShadowMoves
<1>10. CASE Lose(r)
  <2> DEFINE row == [run[r] EXCEPT !.pc = "lost"]
  <2>1. run' = [run EXCEPT ![r] = row]
    BY <1>10 DEF Lose, Lost
  <2>2. /\ row \in RunRows /\ row.pc = "lost" /\ row.page = run[r].page
        /\ row.parser = run[r].parser
    BY <1>1 DEF RunRows
  <2> HIDE DEF row
  <2>3. run'[r] = row => Shadow(r)'
    BY <2>2, StageNames DEF Shadow
  <2>4. QED BY <1>2, <1>3, <2>1, <2>2, <2>3, ShadowMoves
<1>11. QED BY <1>4, <1>5, <1>6, <1>7, <1>8, <1>9, <1>10

LEMMA DeployStep ==
  ASSUME PipelineTypes, Cached, \A q \in Runs : Shadow(q), Deploy
  PROVE  PipelineTypes' /\ Cached' /\ SavedStay /\ \A q \in Runs : Shadow(q)'
<1>1. left' \in [Disturbances -> Nat]
  BY Disturbing, Kinds DEF PipelineTypes, Deploy
<1>2. \A r \in Runs : run'[r] = IF Open(r) THEN [run[r] EXCEPT !.pc = "lost"] ELSE run[r]
  BY DEF Deploy, Lost
<1>3. ASSUME NEW r \in Runs
      PROVE  /\ run'[r] \in RunRows /\ run'[r].page = run[r].page
             /\ run'[r].parser = run[r].parser
             /\ run'[r] = run[r] \/ (Open(r) /\ run'[r].pc = "lost")
  <2>1. run[r] \in RunRows
    BY DEF PipelineTypes
  <2>2. CASE Open(r)
    <3>1. run'[r] = [run[r] EXCEPT !.pc = "lost"]
      BY <1>2, <2>2
    <3>2. QED BY <2>1, <2>2, <3>1 DEF RunRows
  <2>3. CASE ~ Open(r)
    BY <1>2, <2>1, <2>3
  <2>4. QED BY <2>2, <2>3
<1>4. PipelineTypes'
  <2>1. run' \in [Runs -> RunRows]
    BY <1>3 DEF Deploy
  <2>2. release' \in [parser : Parsers, pin : Pins] /\ UNCHANGED <<index, rows>>
    BY DEF Deploy
  <2>3. \A r \in Runs : Open(r) => run[r].pc # "idle"
    BY StageNames DEF Open
  <2>4. \A r \in Runs : run'[r].pc # "idle" =>
          run'[r].page \in Pages /\ run'[r].parser \in Parsers
    BY <1>3, <2>3 DEF PipelineTypes
  <2>5. QED BY <1>1, <2>1, <2>2, <2>4 DEF PipelineTypes
<1>5. Cached'
  BY DEF Deploy, Cached, IsItsPublishers, NoCache
<1>6. SavedStay
  BY <1>3, StageNames DEF SavedStay, Open
<1>7. ASSUME NEW r \in Runs
      PROVE  Shadow(r)'
  <2>1. CASE run'[r] = run[r]
    BY <2>1 DEF Shadow, Statements, SymbolsOf
  <2>2. CASE run'[r].pc = "lost"
    BY <2>2, StageNames DEF Shadow
  <2>3. QED BY <1>3, <2>1, <2>2
<1>8. QED BY <1>4, <1>5, <1>6, <1>7

-----------------------------------------------------------------------------
(* The rows of a draft.                                                    *)

\* A run that saves its rows.
LEMMA SaveStep ==
  ASSUME PipelineTypes, Cached, \A q \in Runs : Shadow(q), RowsAreWhole,
         NEW r \in Runs, Save(r),
         symbol \in [Runs -> [Symbols -> SymbolRows \cup {NoRow}]]
  PROVE  /\ PipelineTypes' /\ Cached' /\ \A q \in Runs : Shadow(q)'
         /\ symbol' \in [Runs -> [Symbols -> SymbolRows \cup {NoRow}]]
         /\ RowsAreWhole'
         /\ r \notin table["draft"] /\ table["draft"] \subseteq table'["draft"]
         /\ \A q \in Runs \ {r} : run'[q] = run[q] /\ symbol'[q] = symbol[q]
         /\ \A p \in Pages : artifact[p] # NoRun => artifact'[p] = artifact[p]
         /\ \A s \in Symbols : symbol'[r][s] # NoRow =>
              symbol'[r][s] = NewRow(r, s)
<1> DEFINE row == [run[r] EXCEPT !.pc = "saved"]
<1>1. run[r] \in RunRows /\ run[r].pc = "save" /\ Shadow(r) /\ run[r].page \in Pages
  BY DEF PipelineTypes, Save
<1>2. /\ row \in RunRows /\ row.pc = "saved" /\ row.page = run[r].page
      /\ row.parser = run[r].parser /\ row.written = run[r].written
      /\ row.report = run[r].report /\ row.index = run[r].index
      /\ row.pin = run[r].pin
  BY <1>1 DEF RunRows
<1>3. run' = [run EXCEPT ![r] = row]
  BY DEF Save
<1> HIDE DEF row
<1>4. /\ run' \in [Runs -> RunRows] /\ run'[r] = row
      /\ \A q \in Runs \ {r} : run'[q] = run[q]
  BY <1>2, <1>3 DEF PipelineTypes
<1>5. \A q \in Runs : SymbolsOf(q)' = SymbolsOf(q) /\ run'[q].page = run[q].page
                      /\ run'[q].report = run[q].report
                      /\ run'[q].index = run[q].index /\ run'[q].pin = run[q].pin
  BY <1>2, <1>4 DEF SymbolsOf
<1>6. r \notin table["draft"]
  BY <1>1 DEF RowsAreWhole
<1>7. table["identity"] = table["draft"] /\ table["evaluation"] = table["draft"]
  <2>1. /\ DOMAIN table = {"identity", "evaluation", "draft"}
        /\ \A t \in DOMAIN table : table[t] \subseteq Runs
    BY DEF PipelineTypes
  <2>2. \A q \in Runs : \A t \in DOMAIN table : q \in table[t] <=> q \in table["draft"]
    BY DEF RowsAreWhole
  <2>3. \A t \in DOMAIN table : table[t] = table["draft"]
    BY <2>1, <2>2
  <2>4. QED BY <2>1, <2>3
<1>8. \A q \in Runs : Shadow(q)'
  <2>1. Shadow(r)'
    <3>1. /\ run'[r].pc = "saved" /\ run'[r].report = run[r].report
          /\ run'[r].written = run[r].written /\ run'[r].index = run[r].index
          /\ run'[r].pin = run[r].pin /\ Statements(r)' = Statements(r)
      BY <1>2, <1>4, <1>5 DEF Statements
    <3>2. QED BY <1>1, <3>1, StageNames DEF Shadow
  <2>2. ASSUME NEW q \in Runs \ {r}
        PROVE  Shadow(q)'
    <3>1. run'[q] = run[q] /\ Statements(q)' = Statements(q)
      BY <1>4, <1>5 DEF Statements
    <3>2. QED BY <3>1 DEF Shadow
  <2>3. QED BY <2>1, <2>2
<1>9. Cached' /\ UNCHANGED <<file, publisher, release, left>>
  BY DEF Save, Cached
<1>10. CASE run[r].report # "succeeded"
  <2>1. run[r].written = 0
    BY <1>1, <1>10, StageNames DEF Shadow
  <2>2. \A t : ~ Written(r, t)
    BY <2>1 DEF Written
  <2>3. UNCHANGED <<artifact, table>>
    BY <2>2 DEF Save, PipelineTypes
  <2>4. UNCHANGED symbol
    BY <2>1 DEF Save
  <2>5. PipelineTypes'
    BY <1>1, <1>2, <1>4, <1>9, <2>3 DEF PipelineTypes
  <2>6. \A q \in Runs : run'[q].pc = "saved" /\ run'[q].report = "succeeded"
                        <=> run[q].pc = "saved" /\ run[q].report = "succeeded"
    BY <1>1, <1>2, <1>4, <1>10
  <2>7. RowsAreWhole'
    <3>1. \A p \in Pages : artifact[p] # NoRun => artifact[p] \in Runs
      BY DEF PipelineTypes
    <3>2. QED BY <1>5, <2>3, <2>4, <2>6, <3>1 DEF RowsAreWhole
  <2>8. \A s \in Symbols : symbol'[r][s] = NoRow
    BY <1>6, <2>4 DEF RowsAreWhole
  <2>9. QED BY <1>4, <1>6, <1>8, <1>9, <2>3, <2>4, <2>5, <2>7, <2>8
<1>11. CASE run[r].report = "succeeded"
  <2>1. /\ run[r].written = Statements(r) /\ run[r].index \in Contents
        /\ Verified(run[r].index, run[r].pin)
    BY <1>1, <1>11, StageNames DEF Shadow
  <2>2. SymbolsOf(r) \in Seq(Symbols)
    BY <1>1, <2>1, PipelineAssumption DEF SymbolsOf
  <2>3. Len(SymbolsOf(r)) \in Nat /\ run[r].written = 4 + Len(SymbolsOf(r))
        /\ DOMAIN SymbolsOf(r) = 1 .. Len(SymbolsOf(r))
    BY <2>1, <2>2, TableNames DEF Statements
  <2>4. \A t \in {"artifact", "identity", "evaluation", "draft"} : Written(r, t)
    <3>1. \A k \in 1 .. 4 : k \in 1 .. run[r].written
      BY <2>3
    <3>2. QED BY <3>1, TableNames DEF Written
  <2>5. WrittenSymbols(r) = {SymbolsOf(r)[k] : k \in DOMAIN SymbolsOf(r)}
    <3>1. (IF run[r].written > Len(Tables) THEN run[r].written - Len(Tables) ELSE 0)
            = Len(SymbolsOf(r))
      BY <2>3, TableNames
    <3>2. QED BY <2>3, <3>1 DEF WrittenSymbols
  <2>6. table' = [t \in {"identity", "evaluation", "draft"} |-> table[t] \cup {r}]
    BY <2>4 DEF Save, PipelineTypes
  <2>7. artifact' = [p \in Pages |-> IF p = run[r].page /\ artifact[p] = NoRun
                                     THEN r ELSE artifact[p]]
    BY <2>4 DEF Save
  <2>8. /\ symbol'[r] = [s \in Symbols |-> IF s \in WrittenSymbols(r)
                                           THEN NewRow(r, s) ELSE symbol[r][s]]
        /\ \A q \in Runs \ {r} : symbol'[q] = symbol[q]
        /\ DOMAIN symbol' = Runs
    BY <2>3 DEF Save
  <2>9. \A s \in Symbols : NewRow(r, s) \in SymbolRows
    BY <2>1, NewRowType
  <2>10. symbol' \in [Runs -> [Symbols -> SymbolRows \cup {NoRow}]]
    <3>1. symbol'[r] \in [Symbols -> SymbolRows \cup {NoRow}]
      BY <2>8, <2>9
    <3>2. symbol' = [symbol EXCEPT ![r] = symbol'[r]]
      BY <2>8 DEF Save
    <3>3. QED BY <3>1, <3>2
  <2>11. PipelineTypes'
    <3>1. artifact' \in [Pages -> Runs \cup {NoRun}]
      BY <2>7 DEF PipelineTypes
    <3>2. table' \in [{"identity", "evaluation", "draft"} -> SUBSET Runs]
      BY <2>6 DEF PipelineTypes
    <3>3. QED BY <1>1, <1>2, <1>4, <1>9, <3>1, <3>2 DEF PipelineTypes
  <2>12. \A s \in Symbols : symbol[r][s] = NoRow
    BY <1>6 DEF RowsAreWhole
  <2>13. \A s \in Symbols : symbol'[r][s] # NoRow <=> s \in WrittenSymbols(r)
    BY <2>8, <2>9, <2>12, RowsAreRows
  <2>14. artifact'[run[r].page] # NoRun
    BY <1>1, <2>7, PipelineAssumption
  <2>15. \A q \in Runs \ {r} : q \in table'["draft"] =>
           artifact'[run'[q].page] # NoRun
    <3>1. ASSUME NEW q \in Runs \ {r}, q \in table'["draft"]
          PROVE  artifact'[run'[q].page] # NoRun
      <4>1. q \in table["draft"]
        BY <2>6, <3>1
      <4>2. run[q].pc = "saved" /\ artifact[run[q].page] # NoRun
        BY <4>1 DEF RowsAreWhole
      <4>3. run[q].page \in Pages
        BY <4>2 DEF PipelineTypes
      <4>4. QED BY <1>5, <2>7, <4>2, <4>3, PipelineAssumption
    <3>2. QED BY <3>1
  <2>16. ASSUME NEW q \in Runs
         PROVE  /\ q \in table'["draft"] <=>
                     run'[q].pc = "saved" /\ run'[q].report = "succeeded"
                /\ \A t \in DOMAIN table' : q \in table'[t] <=> q \in table'["draft"]
                /\ \A s \in Symbols : symbol'[q][s] # NoRow <=>
                     q \in table'["draft"]
                     /\ \E k \in DOMAIN SymbolsOf(q)' : SymbolsOf(q)'[k] = s
                /\ q \in table'["draft"] =>
                     /\ artifact'[run'[q].page] # NoRun
                     /\ Verified(run'[q].index, run'[q].pin)
    <3>1. CASE q = r
      BY <1>2, <1>4, <1>5, <1>7, <1>11, <2>1, <2>5, <2>6, <2>13, <2>14, <3>1
    <3>2. CASE q # r
      <4>1. q \in table'["draft"] <=> q \in table["draft"]
        BY <2>6, <3>2
      <4>2. \A t \in DOMAIN table' : q \in table'[t] <=> q \in table'["draft"]
        BY <1>7, <2>6, <3>2
      <4>3. QED
        BY <1>4, <1>5, <2>8, <2>15, <3>2, <4>1, <4>2 DEF RowsAreWhole
    <3>3. QED BY <3>1, <3>2
  <2>17. ASSUME NEW p \in Pages, artifact'[p] # NoRun
         PROVE  artifact'[p] \in table'["draft"] /\ run'[artifact'[p]].page = p
    <3>1. CASE artifact[p] # NoRun
      <4>1. /\ artifact'[p] = artifact[p]
            /\ artifact[p] \in table["draft"] /\ run[artifact[p]].page = p
        BY <2>7, <3>1 DEF RowsAreWhole
      <4>2. artifact[p] \in Runs
        BY <3>1 DEF PipelineTypes
      <4>3. QED BY <1>5, <2>6, <4>1, <4>2
    <3>2. CASE artifact[p] = NoRun
      BY <1>5, <2>6, <2>7, <2>17, <3>2
    <3>3. QED BY <3>1, <3>2
  <2>18. RowsAreWhole'
    BY <2>16, <2>17 DEF RowsAreWhole
  <2>19. QED
    BY <1>4, <1>6, <1>8, <1>9, <2>6, <2>7, <2>8, <2>10, <2>11, <2>12, <2>18
<1>12. QED BY <1>10, <1>11

\* A step that saves nothing.
LEMMA RowsKept ==
  ASSUME PipelineTypes, RowsAreWhole, SavedStay, UNCHANGED <<artifact, table>>,
         \A r \in Runs, s \in Symbols : symbol'[r][s] # NoRow <=> symbol[r][s] # NoRow
  PROVE  RowsAreWhole'
<1>1. ASSUME NEW r \in Runs, r \in table["draft"]
      PROVE  run'[r] = run[r]
  BY <1>1 DEF RowsAreWhole, SavedStay
<1>2. \A r \in Runs : r \in table["draft"] <=>
        run'[r].pc = "saved" /\ run'[r].report = "succeeded"
  BY <1>1 DEF RowsAreWhole, SavedStay
<1>3. \A r \in Runs : r \in table["draft"] => SymbolsOf(r)' = SymbolsOf(r)
  BY <1>1 DEF SymbolsOf
<1>4. \A p \in Pages : artifact[p] # NoRun => artifact[p] \in Runs
  BY DEF PipelineTypes
<1>5. QED BY <1>1, <1>2, <1>3, <1>4 DEF RowsAreWhole

\* What the pipeline leaves alone: saved drafts, their rows, their artifacts.
DraftsStay ==
  /\ SavedDrafts \subseteq SavedDrafts'
  /\ \A d \in SavedDrafts : run'[d] = run[d] /\ symbol'[d] = symbol[d]
  /\ \A p \in Pages : artifact[p] # NoRun => artifact'[p] = artifact[p]
  /\ \A d \in Runs \ SavedDrafts, s \in Symbols :
       symbol'[d][s] # NoRow => symbol'[d][s] = NewRow(d, s)

PipelineInv ==
  /\ PipelineTypes
  /\ symbol \in [Runs -> [Symbols -> SymbolRows \cup {NoRow}]]
  /\ Cached
  /\ \A r \in Runs : Shadow(r)
  /\ RowsAreWhole

LEMMA QuietStep ==
  ASSUME PipelineInv, PipelineTypes', Cached', \A r \in Runs : Shadow(r)',
         SavedStay, UNCHANGED rows
  PROVE  PipelineInv' /\ DraftsStay
<1>1. RowsAreWhole'
  BY RowsKept DEF PipelineInv
<1>2. SavedDrafts' = SavedDrafts /\ SavedDrafts \subseteq Runs
  BY DEF PipelineInv, PipelineTypes, SavedDrafts
<1>3. \A d \in SavedDrafts : run'[d] = run[d]
  BY <1>2 DEF PipelineInv, RowsAreWhole, SavedStay, SavedDrafts
<1>4. \A d \in Runs \ SavedDrafts, s \in Symbols : symbol[d][s] = NoRow
  BY DEF PipelineInv, RowsAreWhole, SavedDrafts
<1>5. DraftsStay
  BY <1>2, <1>3, <1>4 DEF DraftsStay
<1>6. QED BY <1>1, <1>5 DEF PipelineInv

LEMMA PipelineAtRest ==
  ASSUME PipelineInv, UNCHANGED pipelineVars
  PROVE  PipelineInv'
<1>1. PipelineTypes' /\ Cached' /\ SavedStay
  BY DEF PipelineInv, PipelineTypes, Cached, IsItsPublishers, SavedStay
<1>2. \A r \in Runs : Shadow(r)'
  BY DEF PipelineInv, Shadow, Statements, SymbolsOf
<1>3. QED BY <1>1, <1>2, QuietStep

LEMMA PipelineStep ==
  ASSUME PipelineInv, PipelineNext
  PROVE  PipelineInv' /\ DraftsStay
<1> USE DEF PipelineInv
<1>1. CASE \/ \E p \in Publishers : StartPublishing(p) \/ Link(p) \/ PublisherDies(p)
           \/ Remove
  <2>1. PipelineTypes' /\ Cached' /\ UNCHANGED <<worker, rows>>
    BY <1>1, PublishStep
  <2>2. SavedStay /\ \A r \in Runs : Shadow(r)'
    BY <2>1 DEF SavedStay, Shadow, Statements, SymbolsOf
  <2>3. QED BY <2>1, <2>2, QuietStep
<1>2. CASE Deploy
  <2>1. UNCHANGED rows
    BY <1>2 DEF Deploy
  <2>2. QED BY <1>2, <2>1, DeployStep, QuietStep
<1>3. ASSUME NEW r \in Runs, NEW p \in Pages, Begin(r, p)
      PROVE  PipelineInv' /\ DraftsStay
  <2>1. UNCHANGED rows
    BY <1>3 DEF Begin
  <2>2. QED BY <1>3, <2>1, BeginStep, QuietStep
<1>4. ASSUME NEW r \in Runs,
             \/ StageSucceeds(r) \/ StageIsRetried(r) \/ StageFails(r)
             \/ WriteRow(r) \/ Flush(r) \/ Compare(r) \/ CompareFails(r) \/ Lose(r)
      PROVE  PipelineInv' /\ DraftsStay
  <2>1. UNCHANGED rows
    BY <1>4
    DEF StageSucceeds, StageIsRetried, StageFails, WriteRow, Flush, Compare,
        CompareFails, Lose
  <2>2. PipelineTypes' /\ Cached' /\ SavedStay /\ \A q \in Runs : Shadow(q)'
    BY <1>4, StageStep
  <2>3. QED BY <2>1, <2>2, QuietStep
<1>5. ASSUME NEW r \in Runs, Save(r)
      PROVE  PipelineInv' /\ DraftsStay
  <2>1. /\ PipelineTypes' /\ Cached' /\ \A q \in Runs : Shadow(q)'
        /\ symbol' \in [Runs -> [Symbols -> SymbolRows \cup {NoRow}]]
        /\ RowsAreWhole'
    BY <1>5, SaveStep
  <2>2. /\ r \notin SavedDrafts /\ SavedDrafts \subseteq SavedDrafts'
        /\ \A q \in Runs \ {r} : run'[q] = run[q] /\ symbol'[q] = symbol[q]
        /\ \A p \in Pages : artifact[p] # NoRun => artifact'[p] = artifact[p]
        /\ \A s \in Symbols : symbol'[r][s] # NoRow => symbol'[r][s] = NewRow(r, s)
    BY <1>5, SaveStep DEF SavedDrafts
  <2>3. \A d \in Runs \ SavedDrafts, s \in Symbols : symbol[d][s] = NoRow
    BY DEF RowsAreWhole, SavedDrafts
  <2>4. SavedDrafts \subseteq Runs
    BY DEF PipelineTypes, SavedDrafts
  <2>5. DraftsStay
    BY <2>2, <2>3, <2>4 DEF DraftsStay
  <2>6. QED BY <2>1, <2>5
<1>6. QED BY <1>1, <1>2, <1>3, <1>4, <1>5 DEF PipelineNext

-----------------------------------------------------------------------------
(* The desk.                                                               *)

\* A reviewer that has loaded a workspace has not seen less of the audit trail
\* than the revision it will send counts.
Seen(a) == desk[a].pc = "ready" => desk[a].revision <= 1 + desk[a].trail

ReviewInv ==
  /\ DeskTypes
  /\ PipelineInv
  /\ \A a \in Reviewers : Seen(a)

\* One more entry in an audit trail.
LEMMA Appended ==
  ASSUME NEW S, NEW trail \in Seq(S), NEW e \in S
  PROVE  /\ Append(trail, e) \in Seq(S)
         /\ Len(Append(trail, e)) = Len(trail) + 1 /\ Len(trail) \in Nat
         /\ DOMAIN trail = 1 .. Len(trail)
         /\ DOMAIN Append(trail, e) = 1 .. Len(trail) + 1
         /\ \A k \in 1 .. Len(trail) : Append(trail, e)[k] = trail[k]
         /\ Append(trail, e)[Len(trail) + 1] = e
         /\ Append(trail, e) # << >>
OBVIOUS

\* An action changes one draft, and its reviewer loads the workspace anew.
LEMMA RecordedStep ==
  ASSUME DeskTypes, NEW a \in Reviewers, NEW d \in Drafts, May(a, d),
         NEW state \in ReviewRows, state.revision = review[d].revision,
         NEW entry \in Entries, Recorded(a, d, state, entry),
         UNCHANGED <<index, worker, artifact, table>>,
         symbol' \in [Drafts -> [Symbols -> SymbolRows \cup {NoRow}]]
  PROVE  /\ DeskTypes'
         /\ log'[d] = Append(log[d], entry)
         /\ review'[d] = [state EXCEPT !.revision = review[d].revision + 1]
         /\ \A e \in Drafts \ {d} : log'[e] = log[e] /\ review'[e] = review[e]
         /\ desk'[a] = Away
         /\ \A b \in Reviewers \ {a} : desk'[b] = desk[b]
<1>1. d \in SavedDrafts /\ log[d] \in Seq(Entries) /\ review[d] \in ReviewRows
  BY AwayIsAway DEF DeskTypes, May, Away
<1>2. /\ review' = [review EXCEPT ![d] = [state EXCEPT !.revision = review[d].revision + 1]]
      /\ log' = [log EXCEPT ![d] = Append(log[d], entry)]
      /\ desk' = [desk EXCEPT ![a] = Away]
  BY DEF Recorded
<1>3. [state EXCEPT !.revision = review[d].revision + 1] \in ReviewRows
  BY <1>1 DEF ReviewRows
<1>4. Append(log[d], entry) \in Seq(Entries) /\ Len(Append(log[d], entry)) = Len(log[d]) + 1
      /\ Len(log[d]) \in Nat
  BY <1>1, Appended
<1>5. /\ review' \in [Drafts -> ReviewRows] /\ log' \in [Drafts -> Seq(Entries)]
      /\ desk' \in [Reviewers -> Workspaces \cup {Away}]
  BY <1>2, <1>3, <1>4 DEF DeskTypes
<1>6. /\ log'[d] = Append(log[d], entry)
      /\ review'[d] = [state EXCEPT !.revision = review[d].revision + 1]
      /\ \A e \in Drafts \ {d} : log'[e] = log[e] /\ review'[e] = review[e]
      /\ desk'[a] = Away
      /\ \A b \in Reviewers \ {a} : desk'[b] = desk[b]
  BY <1>2 DEF DeskTypes
<1>7. review'[d].revision = review[d].revision + 1 /\ review[d].revision \in Nat
  BY <1>1, <1>6 DEF ReviewRows
<1>8. PipelineTypes'
  <2>1. left' \in [Disturbances -> Nat]
    BY Disturbing, Kinds DEF DeskTypes, PipelineTypes, Recorded
  <2>2. QED BY <2>1 DEF DeskTypes, PipelineTypes
<1>9. \A e \in Drafts : /\ review'[e].revision = 1 + Len(log'[e])
                        /\ log'[e] # << >> => e \in SavedDrafts
  <2>1. \A e \in Drafts : /\ review[e].revision = 1 + Len(log[e])
                          /\ log[e] # << >> => e \in SavedDrafts
    BY DEF DeskTypes
  <2>2. review'[d].revision = 1 + Len(log'[d])
    BY <1>4, <1>6, <1>7, <2>1
  <2>3. QED BY <1>1, <1>6, <2>1, <2>2
<1>10. ASSUME NEW b \in Reviewers, desk'[b] # Away
       PROVE  /\ desk'[b].draft \in SavedDrafts
              /\ desk'[b].revision <= review'[desk'[b].draft].revision
              /\ desk'[b].trail <= Len(log'[desk'[b].draft])
  <2>1. desk'[b] = desk[b] /\ desk[b] \in Workspaces
    BY <1>6, <1>10 DEF DeskTypes
  <2>2. PICK e \in Drafts : e = desk[b].draft
    BY <2>1 DEF Workspaces
  <2>3. /\ e \in SavedDrafts /\ desk[b].revision <= review[e].revision
        /\ desk[b].trail <= Len(log[e])
    BY <1>10, <2>1, <2>2 DEF DeskTypes
  <2>4. /\ desk[b].revision \in Nat /\ desk[b].trail \in Nat
        /\ review[e].revision \in Nat /\ Len(log[e]) \in Nat
    BY <2>1 DEF Workspaces, DeskTypes, ReviewRows
  <2>5. CASE e = d
    <3>1. review'[d].revision >= review[d].revision /\ Len(log'[d]) >= Len(log[d])
      BY <1>4, <1>6, <1>7
    <3>2. Len(log'[d]) \in Nat /\ review'[d].revision \in Nat
      BY <1>4, <1>6, <1>7
    <3>3. desk'[b].draft = d /\ desk'[b].revision = desk[b].revision
          /\ desk'[b].trail = desk[b].trail
      BY <2>1, <2>2, <2>5
    <3>4. desk[b].revision <= review[d].revision /\ desk[b].trail <= Len(log[d])
          /\ desk[b].revision \in Nat /\ desk[b].trail \in Nat
          /\ review[d].revision \in Nat /\ Len(log[d]) \in Nat /\ d \in SavedDrafts
      BY <2>3, <2>4, <2>5
    <3>5. desk[b].revision <= review'[d].revision /\ desk[b].trail <= Len(log'[d])
      BY <3>1, <3>2, <3>4
    <3>6. QED BY <3>3, <3>4, <3>5
  <2>6. CASE e # d
    BY <1>6, <2>1, <2>2, <2>3, <2>6
  <2>7. QED BY <2>5, <2>6
<1>11. QED
  BY <1>5, <1>6, <1>8, <1>9, <1>10 DEF DeskTypes, SavedDrafts

\* A reviewer gets another view of the drafts, and nothing else changes.
LEMMA DeskStep ==
  ASSUME ReviewInv, NEW a \in Reviewers, NEW w \in Workspaces \cup {Away},
         desk' = [desk EXCEPT ![a] = w], UNCHANGED <<pipelineVars, review, log>>,
         w # Away => /\ w.draft \in SavedDrafts
                     /\ w.revision <= review[w.draft].revision
                     /\ w.trail <= Len(log[w.draft])
                     /\ w.pc = "ready" => w.revision <= 1 + w.trail
  PROVE  ReviewInv' /\ \A b \in Reviewers \ {a} : desk'[b] = desk[b]
<1>1. /\ desk' \in [Reviewers -> Workspaces \cup {Away}] /\ desk'[a] = w
      /\ \A b \in Reviewers \ {a} : desk'[b] = desk[b]
  BY DEF ReviewInv, DeskTypes
<1>2. SavedDrafts' = SavedDrafts
  BY DEF SavedDrafts
<1>3. \A b \in Reviewers : desk'[b] # Away =>
        /\ desk'[b].draft \in SavedDrafts
        /\ desk'[b].revision <= review[desk'[b].draft].revision
        /\ desk'[b].trail <= Len(log[desk'[b].draft])
  BY <1>1 DEF ReviewInv, DeskTypes
<1>4. DeskTypes'
  BY <1>1, <1>2, <1>3 DEF ReviewInv, DeskTypes, PipelineTypes
<1>5. PipelineInv'
  BY PipelineAtRest DEF ReviewInv
<1>6. \A b \in Reviewers : Seen(b)'
  <2>1. Seen(a)'
    BY <1>1, AwayIsAway DEF Seen
  <2>2. \A b \in Reviewers \ {a} : Seen(b)'
    BY <1>1 DEF ReviewInv, Seen
  <2>3. QED BY <2>1, <2>2
<1>7. QED BY <1>1, <1>4, <1>5, <1>6 DEF ReviewInv

\* What a workspace holds at a point of its loading.
LEMMA LoadedWorkspace ==
  ASSUME ReviewInv, NEW a \in Reviewers, desk[a].pc # "away"
  PROVE  /\ desk[a] \in Workspaces /\ desk[a].draft \in SavedDrafts
         /\ desk[a].draft \in Drafts
         /\ desk[a].revision <= review[desk[a].draft].revision
         /\ desk[a].trail <= Len(log[desk[a].draft])
         /\ review[desk[a].draft].revision = 1 + Len(log[desk[a].draft])
         /\ Len(log[desk[a].draft]) \in Nat
         /\ desk[a].revision \in Nat /\ desk[a].trail \in Nat
<1>1. desk[a] # Away
  BY AwayIsAway
<1>2. desk[a] \in Workspaces /\ desk[a].draft \in Drafts
  BY <1>1 DEF ReviewInv, DeskTypes, Workspaces
<1>3. log[desk[a].draft] \in Seq(Entries)
  BY <1>2 DEF ReviewInv, DeskTypes
<1>4. QED BY <1>1, <1>2, <1>3 DEF ReviewInv, DeskTypes, Workspaces

LEMMA LoadStep ==
  ASSUME ReviewInv, NEW a \in Reviewers,
         \/ \E d \in Drafts : LoadSymbols(a, d)
         \/ LoadState(a) \/ LoadActions(a) \/ Leave(a)
  PROVE  /\ ReviewInv' /\ UNCHANGED <<pipelineVars, review, log>>
         /\ \A b \in Reviewers \ {a} : desk'[b] = desk[b]
<1>1. UNCHANGED <<pipelineVars, review, log>>
  BY DEF LoadSymbols, LoadState, LoadActions, Leave
<1>2. ASSUME NEW d \in Drafts, LoadSymbols(a, d)
      PROVE  ReviewInv' /\ \A b \in Reviewers \ {a} : desk'[b] = desk[b]
  <2> DEFINE w == [pc |-> "state", draft |-> d, symbols |-> symbol[d],
                   revision |-> 0, trail |-> 0]
  <2>1. desk' = [desk EXCEPT ![a] = w] /\ d \in SavedDrafts
    BY <1>2 DEF LoadSymbols
  <2>2. w \in Workspaces
    BY DEF ReviewInv, DeskTypes, Workspaces
  <2>3. w.draft = d /\ w.revision = 0 /\ w.trail = 0 /\ w.pc = "state"
    OBVIOUS
  <2>4. review[d].revision \in Nat /\ Len(log[d]) \in Nat
    BY DEF ReviewInv, DeskTypes, ReviewRows
  <2> HIDE DEF w
  <2>5. /\ w.draft \in SavedDrafts
        /\ w.revision <= review[w.draft].revision
        /\ w.trail <= Len(log[w.draft])
        /\ w.pc = "ready" => w.revision <= 1 + w.trail
    BY <2>1, <2>3, <2>4
  <2>6. QED BY <1>1, <2>1, <2>2, <2>5, DeskStep
<1>3. CASE LoadState(a)
  <2> DEFINE n == review[desk[a].draft].revision
             w == [desk[a] EXCEPT !.pc = "actions", !.revision = n]
  <2>1. desk[a].pc = "state" /\ desk[a].pc # "away"
    BY <1>3 DEF LoadState
  <2>2. desk' = [desk EXCEPT ![a] = w]
    BY <1>3 DEF LoadState
  <2>3. desk[a] \in Workspaces /\ n \in Nat
    BY <2>1, LoadedWorkspace
  <2>4. /\ w \in Workspaces /\ w.pc = "actions" /\ w.draft = desk[a].draft
        /\ w.revision = n /\ w.trail = desk[a].trail
    BY <2>3 DEF Workspaces
  <2> HIDE DEF w
  <2>5. /\ w.draft \in SavedDrafts
        /\ w.revision <= review[w.draft].revision
        /\ w.trail <= Len(log[w.draft])
        /\ w.pc = "ready" => w.revision <= 1 + w.trail
    BY <2>1, <2>3, <2>4, LoadedWorkspace
  <2>6. QED BY <1>1, <2>2, <2>4, <2>5, DeskStep
<1>4. CASE LoadActions(a)
  <2> DEFINE n == Len(log[desk[a].draft])
             w == [desk[a] EXCEPT !.pc = "ready", !.trail = n]
  <2>1. desk[a].pc = "actions" /\ desk[a].pc # "away"
    BY <1>4 DEF LoadActions
  <2>2. desk' = [desk EXCEPT ![a] = w]
    BY <1>4 DEF LoadActions
  <2>3. desk[a] \in Workspaces /\ n \in Nat
    BY <2>1, LoadedWorkspace
  <2>4. /\ w \in Workspaces /\ w.pc = "ready" /\ w.draft = desk[a].draft
        /\ w.revision = desk[a].revision /\ w.trail = n
    BY <2>3 DEF Workspaces
  <2> HIDE DEF w
  <2>5. /\ w.draft \in SavedDrafts
        /\ w.revision <= review[w.draft].revision
        /\ w.trail <= Len(log[w.draft])
        /\ w.pc = "ready" => w.revision <= 1 + w.trail
    BY <2>1, <2>3, <2>4, LoadedWorkspace
  <2>6. QED BY <1>1, <2>2, <2>4, <2>5, DeskStep
<1>5. CASE Leave(a)
  BY <1>1, <1>5, DeskStep DEF Leave
<1>6. QED BY <1>1, <1>2, <1>3, <1>4, <1>5

-----------------------------------------------------------------------------
(* The actions of a reviewer and the marks of the curator.                 *)

SymbolTable == [Drafts -> [Symbols -> SymbolRows \cup {NoRow}]]

\* Rows of symbols change and none comes or goes.
SameRows ==
  /\ UNCHANGED <<index, worker, artifact, table>>
  /\ symbol' \in SymbolTable
  /\ \A d \in Drafts, s \in Symbols : OfDraft(d, s)' <=> OfDraft(d, s)

LEMMA SameRowsStep ==
  ASSUME PipelineInv, SameRows, left' \in [Disturbances -> Nat]
  PROVE  /\ PipelineInv' /\ SavedDrafts' = SavedDrafts
         /\ \A d \in Drafts : UnmappedKeys(d)' = UnmappedKeys(d)
<1>1. PipelineTypes'
  BY DEF PipelineInv, PipelineTypes, SameRows
<1>2. Cached' /\ SavedStay /\ \A r \in Runs : Shadow(r)'
  BY DEF PipelineInv, SameRows, Cached, IsItsPublishers, SavedStay, Shadow, Statements, SymbolsOf
<1>3. RowsAreWhole'
  BY <1>2, RowsKept DEF PipelineInv, SameRows, OfDraft, Drafts
<1>4. SavedDrafts' = SavedDrafts /\ \A d \in Drafts : UnmappedKeys(d)' = UnmappedKeys(d)
  BY DEF SameRows, SavedDrafts, UnmappedKeys
<1>5. QED BY <1>1, <1>2, <1>3, <1>4 DEF PipelineInv, SameRows, SymbolTable, Drafts

\* What any action of a on d does.
Acted(a, d, entry) ==
  /\ May(a, d)
  /\ SameRows
  /\ log'[d] = Append(log[d], entry)
  /\ \A e \in Drafts \ {d} :
       log'[e] = log[e] /\ review'[e] = review[e] /\ symbol'[e] = symbol[e]
  /\ desk'[a] = Away
  /\ \A b \in Reviewers \ {a} : desk'[b] = desk[b]

LEMMA ActedStep ==
  ASSUME ReviewInv, NEW a \in Reviewers, NEW d \in Drafts, May(a, d),
         NEW state \in ReviewRows, state.revision = review[d].revision,
         NEW entry \in Entries, Recorded(a, d, state, entry),
         SameRows, \A e \in Drafts \ {d} : symbol'[e] = symbol[e]
  PROVE  /\ ReviewInv' /\ Acted(a, d, entry)
         /\ review'[d] = [state EXCEPT !.revision = review[d].revision + 1]
<1>1. /\ DeskTypes'
      /\ log'[d] = Append(log[d], entry)
      /\ review'[d] = [state EXCEPT !.revision = review[d].revision + 1]
      /\ \A e \in Drafts \ {d} : log'[e] = log[e] /\ review'[e] = review[e]
      /\ desk'[a] = Away
      /\ \A b \in Reviewers \ {a} : desk'[b] = desk[b]
  BY RecordedStep DEF ReviewInv, SameRows, SymbolTable
<1>2. left' \in [Disturbances -> Nat]
  BY <1>1 DEF DeskTypes, PipelineTypes
<1>3. PipelineInv'
  BY <1>2, SameRowsStep DEF ReviewInv
<1>4. \A b \in Reviewers : Seen(b)'
  BY <1>1, AwayIsAway DEF ReviewInv, Seen
<1>5. QED BY <1>1, <1>3, <1>4 DEF ReviewInv, Acted

LEMMA EntryType ==
  ASSUME NEW action \in Actions, NEW target \in Targets,
         NEW value \in Targets \cup Relations \cup DOMAIN Decision
  PROVE  /\ Entry(action, target, value) \in Entries
         /\ Entry(action, target, value).action = action
         /\ Entry(action, target, value).target = target
         /\ Entry(action, target, value).value = value
BY DEF Entry, Entries

LEMMA ActionNames ==
  /\ DOMAIN Decision = {"accepted", "rejected"}
  /\ Actions = {"enrichment_accepted", "enrichment_rejected",
       "enrichment_relation_changed", "identity_selected", "specification_mapped",
       "parser_issue_marked", "draft_confirmed"}
  /\ \A o \in DOMAIN Decision : Decision[o] \in Actions
BY DEF Decision, Actions

\* The row of one symbol of a draft changes.
LEMMA OneRow ==
  ASSUME ReviewInv, NEW d \in Drafts, NEW s \in Symbols, OfDraft(d, s),
         NEW row \in SymbolRows, symbol' = [symbol EXCEPT ![d][s] = row],
         UNCHANGED <<index, worker, artifact, table>>
  PROVE  /\ SameRows /\ symbol'[d][s] = row
         /\ \A z \in Symbols \ {s} : symbol'[d][z] = symbol[d][z]
         /\ \A e \in Drafts \ {d} : symbol'[e] = symbol[e]
<1>1. symbol \in [Drafts -> [Symbols -> SymbolRows \cup {NoRow}]]
  BY DEF ReviewInv, DeskTypes
<1>2. /\ symbol'[d] = [symbol[d] EXCEPT ![s] = row]
      /\ \A e \in Drafts \ {d} : symbol'[e] = symbol[e]
      /\ symbol' \in SymbolTable
  BY <1>1 DEF SymbolTable
<1>3. symbol'[d][s] = row /\ \A z \in Symbols \ {s} : symbol'[d][z] = symbol[d][z]
  BY <1>1, <1>2
<1>4. \A e \in Drafts, z \in Symbols : OfDraft(e, z)' <=> OfDraft(e, z)
  BY <1>2, <1>3, RowsAreRows DEF OfDraft
<1>5. QED BY <1>2, <1>3, <1>4 DEF SameRows

\* The kinds of action: a decision about a symbol, a relation that changes and
\* undoes the decision, a place for a specification, a confirmation, and the
\* rest, which touches neither symbols nor specifications.
Decides(d, entry, s, o) ==
  /\ OfDraft(d, s) /\ entry = Entry(Decision[o], s, o)
  /\ symbol'[d][s] = [symbol[d][s] EXCEPT !.status = o]
  /\ \A z \in Symbols \ {s} : symbol'[d][z] = symbol[d][z]
  /\ review'[d].status = "pending" /\ review'[d].mapped = review[d].mapped

Reopens(d, entry, s) ==
  /\ OfDraft(d, s) /\ entry.target = s /\ entry.action = "enrichment_relation_changed"
  /\ symbol'[d][s].status = "suggested" /\ symbol'[d][s].relation = entry.value
  /\ \A z \in Symbols \ {s} : symbol'[d][z] = symbol[d][z]
  /\ review'[d].status = "pending" /\ review'[d].mapped = review[d].mapped

Aside(d, entry) ==
  /\ entry.target \notin Symbols /\ symbol'[d] = symbol[d]
  /\ entry.action # "draft_confirmed"
  /\ review'[d].status = "pending" /\ review'[d].mapped = review[d].mapped

Places(d, entry, key) ==
  /\ entry.action = "specification_mapped" /\ entry.target = key
  /\ key \notin Symbols /\ symbol'[d] = symbol[d]
  /\ review'[d].status = "pending" /\ review'[d].mapped = review[d].mapped \cup {key}

Confirms(d, entry) ==
  /\ Unresolved(d) = {} /\ UnmappedKeys(d) \subseteq review[d].mapped
  /\ entry.action = "draft_confirmed" /\ entry.target \notin Symbols
  /\ symbol'[d] = symbol[d] /\ review'[d].mapped = review[d].mapped
  /\ review'[d].status = "confirmed"

Action(a, d, entry) ==
  /\ Acted(a, d, entry)
  /\ \/ \E s \in Symbols, o \in DOMAIN Decision : Decides(d, entry, s, o)
     \/ \E s \in Symbols : Reopens(d, entry, s)
     \/ Aside(d, entry)
     \/ \E key \in Keys : Places(d, entry, key)
     \/ Confirms(d, entry)

LEMMA DecideStep ==
  ASSUME ReviewInv, NEW a \in Reviewers, NEW d \in Drafts, NEW s \in Symbols,
         NEW o \in DOMAIN Decision, DecideSymbol(a, d, s, o)
  PROVE  ReviewInv' /\ \E entry \in Entries : Action(a, d, entry)
<1> DEFINE row == [symbol[d][s] EXCEPT !.status = o]
           entry == Entry(Decision[o], s, o)
<1>1. /\ May(a, d) /\ OfDraft(d, s) /\ Recorded(a, d, review[d], entry)
      /\ UNCHANGED <<index, worker, artifact, table>>
      /\ symbol' = [symbol EXCEPT ![d][s].status = o]
  BY DEF DecideSymbol
<1>2. review[d] \in ReviewRows /\ review[d].status # "confirmed" /\ symbol[d][s] \in SymbolRows
  BY <1>1 DEF ReviewInv, DeskTypes, OfDraft, May, Current
<1>3. row \in SymbolRows
  BY <1>2, ActionNames DEF SymbolRows, Statuses
<1>4. /\ symbol' = [symbol EXCEPT ![d][s] = row] /\ OfDraft(d, s)
      /\ UNCHANGED <<index, worker, artifact, table>>
  BY <1>1
<1>5. entry \in Entries
  BY ActionNames, EntryType DEF Targets
<1> HIDE DEF row, entry
<1>6. /\ SameRows /\ symbol'[d][s] = row
      /\ \A z \in Symbols \ {s} : symbol'[d][z] = symbol[d][z]
      /\ \A e \in Drafts \ {d} : symbol'[e] = symbol[e]
  BY <1>3, <1>4, OneRow
<1>7. /\ ReviewInv' /\ Acted(a, d, entry)
      /\ review'[d] = [review[d] EXCEPT !.revision = review[d].revision + 1]
  BY <1>1, <1>2, <1>5, <1>6, ActedStep
<1>8. review'[d].status = "pending" /\ review'[d].mapped = review[d].mapped
  BY <1>2, <1>7 DEF ReviewRows
<1>9. Decides(d, entry, s, o)
  BY <1>1, <1>6, <1>8 DEF Decides, entry, row
<1>10. QED BY <1>5, <1>7, <1>9 DEF Action

LEMMA ChangeStep ==
  ASSUME ReviewInv, NEW a \in Reviewers, NEW d \in Drafts, NEW s \in Symbols,
         NEW q \in Relations, ChangeRelation(a, d, s, q)
  PROVE  ReviewInv' /\ \E entry \in Entries : Action(a, d, entry)
<1> DEFINE row == [symbol[d][s] EXCEPT !.relation = q, !.status = "suggested"]
           entry == Entry("enrichment_relation_changed", s, q)
<1>1. /\ May(a, d) /\ OfDraft(d, s) /\ Recorded(a, d, review[d], entry)
      /\ UNCHANGED <<index, worker, artifact, table>>
      /\ symbol' = [symbol EXCEPT ![d][s] = row]
  BY DEF ChangeRelation, Changed
<1>2. review[d] \in ReviewRows /\ review[d].status # "confirmed" /\ symbol[d][s] \in SymbolRows
  BY <1>1 DEF ReviewInv, DeskTypes, OfDraft, May, Current
<1>3. row \in SymbolRows /\ row.status = "suggested" /\ row.relation = q
  BY <1>2 DEF SymbolRows, Statuses
<1>4. /\ entry \in Entries /\ entry.target = s /\ entry.value = q
      /\ entry.action = "enrichment_relation_changed"
  BY ActionNames, EntryType DEF Targets
<1> HIDE DEF row, entry
<1>5. /\ SameRows /\ symbol'[d][s] = row
      /\ \A z \in Symbols \ {s} : symbol'[d][z] = symbol[d][z]
      /\ \A e \in Drafts \ {d} : symbol'[e] = symbol[e]
  BY <1>1, <1>3, OneRow
<1>6. /\ ReviewInv' /\ Acted(a, d, entry)
      /\ review'[d] = [review[d] EXCEPT !.revision = review[d].revision + 1]
  BY <1>1, <1>2, <1>4, <1>5, ActedStep
<1>7. review'[d].status = "pending" /\ review'[d].mapped = review[d].mapped
  BY <1>2, <1>6 DEF ReviewRows
<1>8. Reopens(d, entry, s)
  BY <1>1, <1>3, <1>4, <1>5, <1>7 DEF Reopens
<1>9. QED BY <1>4, <1>6, <1>8 DEF Action

\* Actions that leave the symbols alone.
LEMMA StateStep ==
  ASSUME ReviewInv, NEW a \in Reviewers, NEW d \in Drafts, May(a, d),
         NEW state \in ReviewRows, state.revision = review[d].revision,
         NEW entry \in Entries, Recorded(a, d, state, entry),
         UNCHANGED <<beside, symbol>>
  PROVE  /\ ReviewInv' /\ Acted(a, d, entry) /\ symbol'[d] = symbol[d]
         /\ review'[d].status = state.status /\ review'[d].mapped = state.mapped
<1>1. SameRows /\ \A e \in Drafts \ {d} : symbol'[e] = symbol[e]
  BY DEF SameRows, OfDraft, ReviewInv, DeskTypes, SymbolTable
<1>2. /\ ReviewInv' /\ Acted(a, d, entry)
      /\ review'[d] = [state EXCEPT !.revision = review[d].revision + 1]
  BY <1>1, ActedStep
<1>3. review'[d].status = state.status /\ review'[d].mapped = state.mapped
  BY <1>2 DEF ReviewRows
<1>4. QED BY <1>2, <1>3

LEMMA StateActionStep ==
  ASSUME ReviewInv, NEW a \in Reviewers, NEW d \in Drafts,
         \/ \E i \in Runs : SelectIdentity(a, d, i)
         \/ \E key \in Keys : MapSpecification(a, d, key)
         \/ MarkParserIssue(a, d)
         \/ Confirm(a, d)
  PROVE  ReviewInv' /\ \E entry \in Entries : Action(a, d, entry)
<1>1. May(a, d)
  BY DEF SelectIdentity, MapSpecification, MarkParserIssue, Confirm
<1>2. review[d] \in ReviewRows /\ review[d].status = "pending"
  BY <1>1 DEF ReviewInv, DeskTypes, May, Current, ReviewRows
<1>3. \A x \in Runs \cup Keys : x \notin Symbols /\ x \in Targets
  BY ReviewAssumption DEF Targets
<1>4. ASSUME NEW i \in Runs, SelectIdentity(a, d, i)
      PROVE  ReviewInv' /\ \E entry \in Entries : Action(a, d, entry)
  <2> DEFINE state == [review[d] EXCEPT !.identity = i]
             entry == Entry("identity_selected", i, i)
  <2>1. Recorded(a, d, state, entry) /\ UNCHANGED <<beside, symbol>>
    BY <1>4 DEF SelectIdentity
  <2>2. /\ state \in ReviewRows /\ state.revision = review[d].revision
        /\ state.status = "pending" /\ state.mapped = review[d].mapped
    BY <1>2 DEF ReviewRows
  <2>3. /\ entry \in Entries /\ entry.target \notin Symbols
        /\ entry.action # "draft_confirmed"
    BY <1>3, ActionNames, EntryType
  <2> HIDE DEF state, entry
  <2>4. /\ ReviewInv' /\ Acted(a, d, entry) /\ symbol'[d] = symbol[d]
        /\ review'[d].status = state.status /\ review'[d].mapped = state.mapped
    BY <1>1, <2>1, <2>2, <2>3, StateStep
  <2>5. QED BY <2>2, <2>3, <2>4 DEF Action, Aside
<1>5. ASSUME NEW key \in Keys, MapSpecification(a, d, key)
      PROVE  ReviewInv' /\ \E entry \in Entries : Action(a, d, entry)
  <2> DEFINE state == [review[d] EXCEPT !.mapped = @ \cup {key}]
             entry == Entry("specification_mapped", key, key)
  <2>1. Recorded(a, d, state, entry) /\ UNCHANGED <<beside, symbol>>
    BY <1>5 DEF MapSpecification
  <2>2. /\ state \in ReviewRows /\ state.revision = review[d].revision
        /\ state.status = "pending" /\ state.mapped = review[d].mapped \cup {key}
    BY <1>2 DEF ReviewRows
  <2>3. /\ entry \in Entries /\ entry.target = key /\ key \notin Symbols
        /\ entry.action = "specification_mapped"
    BY <1>3, ActionNames, EntryType
  <2> HIDE DEF state, entry
  <2>4. /\ ReviewInv' /\ Acted(a, d, entry) /\ symbol'[d] = symbol[d]
        /\ review'[d].status = state.status /\ review'[d].mapped = state.mapped
    BY <1>1, <2>1, <2>2, <2>3, StateStep
  <2>5. QED BY <2>2, <2>3, <2>4 DEF Action, Places
<1>6. CASE MarkParserIssue(a, d)
  <2> DEFINE state == [review[d] EXCEPT !.issue = TRUE]
             entry == Entry("parser_issue_marked", d, d)
  <2>1. Recorded(a, d, state, entry) /\ UNCHANGED <<beside, symbol>>
    BY <1>6 DEF MarkParserIssue
  <2>2. /\ state \in ReviewRows /\ state.revision = review[d].revision
        /\ state.status = "pending" /\ state.mapped = review[d].mapped
    BY <1>2 DEF ReviewRows
  <2>3. /\ entry \in Entries /\ entry.target \notin Symbols
        /\ entry.action # "draft_confirmed"
    BY <1>3, ActionNames, EntryType DEF Drafts
  <2> HIDE DEF state, entry
  <2>4. /\ ReviewInv' /\ Acted(a, d, entry) /\ symbol'[d] = symbol[d]
        /\ review'[d].status = state.status /\ review'[d].mapped = state.mapped
    BY <1>1, <2>1, <2>2, <2>3, StateStep
  <2>5. QED BY <2>2, <2>3, <2>4 DEF Action, Aside
<1>7. CASE Confirm(a, d)
  <2> DEFINE state == [review[d] EXCEPT !.status = "confirmed"]
             entry == Entry("draft_confirmed", d, d)
  <2>1. /\ Recorded(a, d, state, entry) /\ UNCHANGED <<beside, symbol>>
        /\ Unresolved(d) = {} /\ UnmappedKeys(d) \subseteq review[d].mapped
    BY <1>7 DEF Confirm
  <2>2. /\ state \in ReviewRows /\ state.revision = review[d].revision
        /\ state.mapped = review[d].mapped /\ state.status = "confirmed"
    BY <1>2 DEF ReviewRows
  <2>3. /\ entry \in Entries /\ entry.target \notin Symbols
        /\ entry.action = "draft_confirmed"
    BY <1>3, ActionNames, EntryType DEF Drafts
  <2> HIDE DEF state, entry
  <2>4. /\ ReviewInv' /\ Acted(a, d, entry) /\ symbol'[d] = symbol[d]
        /\ review'[d].status = state.status /\ review'[d].mapped = state.mapped
    BY <1>1, <2>1, <2>2, <2>3, StateStep
  <2>5. QED BY <2>1, <2>2, <2>3, <2>4 DEF Action, Confirms
<1>8. QED BY <1>4, <1>5, <1>6, <1>7

LEMMA ActStep ==
  ASSUME ReviewInv, NEW a \in Reviewers, NEW d \in Drafts, Act(a, d)
  PROVE  ReviewInv' /\ \E entry \in Entries : Action(a, d, entry)
BY DecideStep, ChangeStep, StateActionStep DEF Act

\* A mark changes rows and decides nothing.
Marked ==
  /\ SameRows /\ UNCHANGED reviewVars
  /\ \A d \in Drafts, s \in Symbols :
       \/ symbol'[d][s] = symbol[d][s]
       \/ /\ symbol'[d][s].status \in {"stale", "conflict"}
          /\ symbol'[d][s].relation = symbol[d][s].relation

\* The types of the desk when no review and no workspace changes.
LEMMA DeskStays ==
  ASSUME ReviewInv, PipelineInv', UNCHANGED reviewVars, SavedDrafts \subseteq SavedDrafts'
  PROVE  ReviewInv'
<1>1. DeskTypes'
  BY DEF ReviewInv, DeskTypes, PipelineInv, Drafts
<1>2. \A b \in Reviewers : Seen(b)'
  BY DEF ReviewInv, Seen
<1>3. QED BY <1>1, <1>2 DEF ReviewInv

LEMMA MarkStep ==
  ASSUME ReviewInv,
         \/ \E c \in Contents : MarkStale(Manifest[c].revision)
         \/ \E d \in Drafts, s \in Symbols : MarkConflict(d, s)
  PROVE  ReviewInv' /\ Marked
<1>1. /\ UNCHANGED <<index, worker, artifact, table>> /\ UNCHANGED reviewVars
      /\ left' \in [Disturbances -> Nat]
  BY Disturbing, Kinds DEF MarkStale, MarkConflict, ReviewInv, DeskTypes, PipelineTypes
<1>2. symbol \in [Drafts -> [Symbols -> SymbolRows \cup {NoRow}]]
  BY DEF ReviewInv, DeskTypes
<1>3. ASSUME NEW row \in SymbolRows, NEW status \in {"stale", "conflict"}
      PROVE  [row EXCEPT !.status = status] \in SymbolRows
             /\ [row EXCEPT !.status = status].status = status
             /\ [row EXCEPT !.status = status].relation = row.relation
  BY DEF SymbolRows, Statuses
<1>4. ASSUME NEW c \in Contents, MarkStale(Manifest[c].revision)
      PROVE  Marked
  <2> DEFINE New(d, s) == IF Outdated(symbol[d][s], Manifest[c].revision)
                          THEN [symbol[d][s] EXCEPT !.status = "stale"]
                          ELSE symbol[d][s]
  <2>1. symbol' = [d \in Drafts |-> [s \in Symbols |-> New(d, s)]]
    BY <1>4 DEF MarkStale
  <2>2. ASSUME NEW d \in Drafts, NEW s \in Symbols
        PROVE  /\ New(d, s) \in SymbolRows \cup {NoRow}
               /\ New(d, s) # NoRow <=> symbol[d][s] # NoRow
               /\ \/ New(d, s) = symbol[d][s]
                  \/ New(d, s).status = "stale" /\ New(d, s).relation = symbol[d][s].relation
    <3>1. CASE Outdated(symbol[d][s], Manifest[c].revision)
      <4>1. symbol[d][s] # NoRow /\ symbol[d][s] \in SymbolRows
        BY <1>2, <3>1 DEF Outdated
      <4>2. New(d, s) = [symbol[d][s] EXCEPT !.status = "stale"]
        BY <3>1
      <4> HIDE DEF New
      <4>3. QED BY <1>3, <4>1, <4>2, RowsAreRows
    <3>2. CASE ~ Outdated(symbol[d][s], Manifest[c].revision)
      BY <1>2, <3>2
    <3>3. QED BY <3>1, <3>2
  <2> HIDE DEF New
  <2>3. \A d \in Drafts, s \in Symbols : symbol'[d][s] = New(d, s)
    BY <2>1
  <2>4. symbol' \in SymbolTable
    BY <2>1, <2>2 DEF SymbolTable
  <2>5. QED BY <1>1, <2>2, <2>3, <2>4 DEF Marked, SameRows, OfDraft
<1>5. ASSUME NEW d \in Drafts, NEW s \in Symbols, MarkConflict(d, s)
      PROVE  Marked
  <2> DEFINE row == [symbol[d][s] EXCEPT !.status = "conflict"]
  <2>1. OfDraft(d, s) /\ symbol' = [symbol EXCEPT ![d][s] = row]
    BY <1>5 DEF MarkConflict
  <2>2. /\ row \in SymbolRows /\ row.status = "conflict"
        /\ row.relation = symbol[d][s].relation
    <3>1. symbol[d][s] \in SymbolRows
      BY <1>2, <2>1 DEF OfDraft
    <3>2. QED BY <1>3, <3>1
  <2> HIDE DEF row
  <2>3. /\ SameRows /\ symbol'[d][s] = row
        /\ \A z \in Symbols \ {s} : symbol'[d][z] = symbol[d][z]
        /\ \A e \in Drafts \ {d} : symbol'[e] = symbol[e]
    BY <1>1, <2>1, <2>2, OneRow
  <2>4. QED BY <1>1, <2>2, <2>3 DEF Marked
<1>6. Marked
  BY <1>4, <1>5
<1>7. PipelineInv' /\ SavedDrafts' = SavedDrafts
  BY <1>1, <1>6, SameRowsStep DEF ReviewInv, Marked
<1>8. QED BY <1>1, <1>6, <1>7, DeskStays

LEMMA PipelineReviewStep ==
  ASSUME ReviewInv, PipelineNext, UNCHANGED reviewVars
  PROVE  ReviewInv' /\ DraftsStay
<1>1. PipelineInv' /\ DraftsStay
  BY PipelineStep DEF ReviewInv
<1>2. QED BY <1>1, DeskStays DEF DraftsStay

\* A report reads and changes nothing but the bounds.
Watched == UNCHANGED <<index, worker, rows, reviewVars>>

LEMMA ReportStep ==
  ASSUME ReviewInv, ReadTrails \/ ReadRows \/ UNCHANGED vars
  PROVE  ReviewInv' /\ Watched
<1>1. Watched
  BY DEF Watched, ReadTrails, ReadRows, vars
<1>2. left' \in [Disturbances -> Nat]
  <2>1. left \in [Disturbances -> Nat]
    BY DEF ReviewInv, DeskTypes, PipelineTypes
  <2>2. CASE ReadTrails
    BY <2>1, <2>2, Disturbing, Kinds DEF ReadTrails
  <2>3. QED BY <2>1, <2>2 DEF ReadRows, vars
<1>3. PipelineTypes' /\ Cached' /\ SavedStay
  BY <1>1, <1>2
  DEF Watched, ReviewInv, PipelineInv, PipelineTypes, Cached, IsItsPublishers, SavedStay
<1>4. \A r \in Runs : Shadow(r)'
  BY <1>1 DEF Watched, ReviewInv, PipelineInv, Shadow, Statements, SymbolsOf
<1>5. PipelineInv'
  BY <1>1, <1>3, <1>4, QuietStep DEF Watched, ReviewInv
<1>6. QED BY <1>1, <1>5, DeskStays DEF Watched, SavedDrafts

LEMMA InitialState ==
  ASSUME Init
  PROVE  ReviewInv
<1> USE DEF Init, PipelineInit
<1>1. /\ file.content = NoContent
      /\ \A r \in Runs : run[r] = NotStarted
      /\ run \in [Runs -> RunRows]
  BY InitialRun DEF NoFile
<1>2. /\ artifact \in [Pages -> Runs \cup {NoRun}]
      /\ table \in [{"identity", "evaluation", "draft"} -> SUBSET Runs]
      /\ left \in [Disturbances -> Nat]
  BY PipelineAssumption
<1>3. PipelineTypes
  BY <1>1, <1>2, InitialRun DEF PipelineTypes, NoFile
<1>4. symbol \in [Drafts -> [Symbols -> SymbolRows \cup {NoRow}]]
  BY DEF Drafts
<1>5. Cached
  BY DEF Cached, IsItsPublishers, NoCache
<1>6. \A r \in Runs : Shadow(r)
  BY <1>1, InitialRun, StageNames DEF Shadow
<1>7. RowsAreWhole
  <2>1. /\ \A t \in DOMAIN table : table[t] = {}
        /\ "draft" \in DOMAIN table /\ \A p \in Pages : artifact[p] = NoRun
        /\ \A r \in Runs, s \in Symbols : symbol[r][s] = NoRow
        /\ \A r \in Runs : run[r].pc = "idle"
    BY <1>1, InitialRun
  <2>2. QED BY <2>1 DEF RowsAreWhole
<1>8. review \in [Drafts -> ReviewRows] /\ log \in [Drafts -> Seq(Entries)]
  <2>1. \A d \in Drafts : Untouched(d) \in ReviewRows
    BY DEF Untouched, NoState, ReviewRows, Drafts
  <2>2. << >> \in Seq(Entries)
    OBVIOUS
  <2>3. QED BY <2>1, <2>2
<1>9. \A d \in Drafts : review[d].revision = 1 + Len(log[d]) /\ log[d] = << >>
  BY DEF Untouched, NoState
<1>10. DeskTypes
  BY <1>3, <1>4, <1>8, <1>9 DEF DeskTypes
<1>11. QED BY <1>3, <1>4, <1>5, <1>6, <1>7, <1>10, AwayIsAway
  DEF ReviewInv, PipelineInv, Seen, Drafts

\* Every step, by what it touches.
LEMMA Steps ==
  ASSUME ReviewInv, [Next]_vars
  PROVE  /\ ReviewInv'
         /\ \/ UNCHANGED reviewVars /\ DraftsStay
            \/ \E a \in Reviewers : /\ UNCHANGED <<pipelineVars, review, log>>
                                    /\ \A b \in Reviewers \ {a} : desk'[b] = desk[b]
            \/ \E a \in Reviewers, d \in Drafts, entry \in Entries : Action(a, d, entry)
            \/ Marked
            \/ Watched
BY PipelineReviewStep, LoadStep, ActStep, MarkStep, ReportStep DEF Next, DeskNext

\* A report has read nothing that is not in the audit trails.
ReportInv ==
  /\ metrics \in [pc : {"idle", "rows"}, seen : [Drafts -> Nat]]
  /\ \A d \in Drafts : metrics.seen[d] <= Len(log[d])

LEMMA TrailsGrow ==
  ASSUME ReviewInv, [Next]_vars, NEW d \in Drafts
  PROVE  Len(log[d]) \in Nat /\ Len(log[d]) <= Len(log'[d])
<1>1. log[d] \in Seq(Entries) /\ Len(log[d]) \in Nat
  BY DEF ReviewInv, DeskTypes
<1>2. \/ log'[d] = log[d]
      \/ \E entry \in Entries : log'[d] = Append(log[d], entry)
  <2>1. ASSUME NEW a \in Reviewers, NEW e \in Drafts, NEW entry \in Entries,
               Action(a, e, entry)
        PROVE  log'[d] = log[d] \/ log'[d] = Append(log[d], entry)
    <3>1. /\ log'[e] = Append(log[e], entry)
          /\ \A x \in Drafts \ {e} : log'[x] = log[x]
      BY <2>1 DEF Action, Acted
    <3>2. QED BY <3>1
  <2>2. QED BY <2>1, Steps DEF Marked, Watched
<1>3. \A entry \in Entries : Len(Append(log[d], entry)) = Len(log[d]) + 1
  BY <1>1, Appended
<1>4. QED BY <1>1, <1>2, <1>3

LEMMA ReportInvStep ==
  ASSUME ReviewInv, ReportInv, [Next]_vars
  PROVE  ReportInv'
<1>1. \A d \in Drafts : Len(log[d]) \in Nat /\ Len(log[d]) <= Len(log'[d])
  BY TrailsGrow
<1>2. CASE UNCHANGED metrics
  <2>1. \A d \in Drafts : metrics.seen[d] \in Nat /\ Len(log'[d]) \in Nat
    <3>1. ReviewInv'
      BY Steps
    <3>2. \A d \in Drafts : log'[d] \in Seq(Entries)
      BY <3>1 DEF ReviewInv, DeskTypes
    <3>3. QED BY <3>2 DEF ReportInv
  <2>2. QED BY <1>1, <1>2, <2>1 DEF ReportInv
<1>3. CASE ReadTrails
  <2>1. /\ metrics' = [pc |-> "rows", seen |-> [d \in Drafts |-> Len(log[d])]]
        /\ log' = log
    BY <1>3 DEF ReadTrails
  <2>2. QED BY <1>1, <2>1 DEF ReportInv
<1>4. CASE ReadRows
  <2>1. metrics' = NoReport /\ log' = log
    BY <1>4 DEF ReadRows
  <2>2. QED BY <1>1, <2>1 DEF ReportInv, NoReport
<1>5. QED BY <1>2, <1>3, <1>4 DEF Next, vars

LEMMA InitialReport ==
  ASSUME Init
  PROVE  ReportInv
<1>1. \A d \in Drafts : Len(log[d]) = 0
  BY DEF Init
<1>2. QED BY <1>1 DEF Init, ReportInv, NoReport

\* The variables of the pipeline and of the desk have their types, a state's
\* revision counts its audit trail, a workspace shows a saved draft as it is or
\* as it was, and a report has read no more than was written.
THEOREM Types == Spec => []TypeOK
<1>1. Init => ReviewInv /\ ReportInv
  BY InitialState, InitialReport
<1>2. (ReviewInv /\ ReportInv) /\ [Next]_vars => (ReviewInv /\ ReportInv)'
  BY Steps, ReportInvStep
<1>3. ReviewInv /\ ReportInv => TypeOK
  BY DEF ReviewInv, ReportInv, TypeOK
<1>4. QED BY <1>1, <1>2, <1>3, PTL DEF Spec

\* The rows of a draft come together, with the run that succeeded: the invariant
\* of the steps of a run is Shadow, what it has written at each stage.
THEOREM WholeRows == Spec => []RowsAreWhole
<1>1. Init => ReviewInv
  BY InitialState
<1>2. ReviewInv /\ [Next]_vars => ReviewInv'
  BY Steps
<1>3. ReviewInv => RowsAreWhole
  BY DEF ReviewInv, PipelineInv
<1>4. QED BY <1>1, <1>2, <1>3, PTL DEF Spec

\* Publishers and operators apart, nothing touches the index on disk.
LEMMA OthersKeepTheFile ==
  ASSUME Next,
         ~ \E p \in Publishers : StartPublishing(p) \/ Link(p) \/ PublisherDies(p),
         ~ Remove
  PROVE  UNCHANGED file
<1>1. ASSUME NEW r \in Runs,
             \/ \E p \in Pages : Begin(r, p)
             \/ StageSucceeds(r) \/ StageIsRetried(r) \/ StageFails(r)
             \/ WriteRow(r) \/ Flush(r) \/ Compare(r) \/ CompareFails(r)
             \/ Save(r) \/ Lose(r)
      PROVE  UNCHANGED file
  BY <1>1 DEF Begin, StageSucceeds, StageIsRetried, StageFails, WriteRow, Flush,
              Compare, CompareFails, Save, Lose
<1>2. CASE Deploy
  BY <1>2 DEF Deploy
<1>3. ASSUME NEW a \in Reviewers,
             \/ \E d \in Drafts : LoadSymbols(a, d) \/ Act(a, d)
             \/ LoadState(a) \/ LoadActions(a) \/ Leave(a)
      PROVE  UNCHANGED file
  <2>1. CASE \/ \E d \in Drafts : LoadSymbols(a, d)
             \/ LoadState(a) \/ LoadActions(a) \/ Leave(a)
    BY <2>1 DEF LoadSymbols, LoadState, LoadActions, Leave
  <2>2. ASSUME NEW d \in Drafts, Act(a, d)
        PROVE  UNCHANGED beside
    <3>1. ASSUME NEW s \in Symbols,
                 \/ \E o \in DOMAIN Decision : DecideSymbol(a, d, s, o)
                 \/ \E q \in Relations : ChangeRelation(a, d, s, q)
          PROVE  UNCHANGED beside
      BY <3>1 DEF DecideSymbol, ChangeRelation
    <3>2. CASE \/ \E i \in Runs : SelectIdentity(a, d, i)
               \/ \E key \in Keys : MapSpecification(a, d, key)
               \/ MarkParserIssue(a, d)
               \/ Confirm(a, d)
      BY <3>2 DEF SelectIdentity, MapSpecification, MarkParserIssue, Confirm
    <3>3. QED BY <2>2, <3>1, <3>2 DEF Act
  <2>3. QED BY <1>3, <2>1, <2>2
<1>4. CASE \/ \E c \in Contents : MarkStale(Manifest[c].revision)
           \/ \E d \in Drafts, s \in Symbols : MarkConflict(d, s)
  BY <1>4 DEF MarkStale, MarkConflict
<1>5. CASE ReadTrails \/ ReadRows
  BY <1>5 DEF ReadTrails, ReadRows
<1>6. QED BY <1>1, <1>2, <1>3, <1>4, <1>5 DEF Next, DeskNext, PipelineNext

\* A run begins by Begin and takes the index on the disk.
LEMMA RunsTakeTheFile ==
  ASSUME ReviewInv, [Next]_vars, NEW r \in Runs, Begins(r)
  PROVE  run'[r].index = Read
<1>1. run[r].pc = "idle" /\ run'[r].pc # "idle" /\ run \in [Runs -> RunRows] /\ Cached
  BY DEF Begins, ReviewInv, PipelineInv, PipelineTypes
<1>2. ASSUME NEW q \in Runs, NEW p \in Pages, Begin(q, p)
      PROVE  run'[r].index = Read
  <2>1. /\ run'[q].index = Loaded
        /\ \A x \in Runs \ {q} : run'[x] = run[x]
    BY <1>1, <1>2 DEF Begin
  <2>2. q = r
    BY <1>1, <2>1
  <2>3. QED BY <1>1, <2>1, <2>2, LoadedIsRead
<1>3. ASSUME NEW q \in Runs,
             \/ StageSucceeds(q) \/ StageIsRetried(q) \/ StageFails(q)
             \/ WriteRow(q) \/ Flush(q) \/ Compare(q) \/ CompareFails(q)
             \/ Save(q) \/ Lose(q)
      PROVE  FALSE
  <2>1. run[q].pc # "idle"
    BY <1>3, StageNames
    DEF StageSucceeds, StageIsRetried, StageFails, WriteRow, Flush, Compare,
        CompareFails, Save, Lose, Open, RetrySafe
  <2>2. run'[r] = run[r]
    BY <1>1, <1>3, <2>1
    DEF StageSucceeds, StageIsRetried, StageFails, WriteRow, Flush, Compare,
        CompareFails, Save, Lose, To
  <2>3. QED BY <1>1, <2>2
<1>4. CASE Deploy
  BY <1>1, <1>4, StageNames DEF Deploy, Open
<1>5. CASE UNCHANGED run
  BY <1>1, <1>5
<1>6. CASE PipelineNext
  <2>1. CASE \/ \E p \in Publishers : StartPublishing(p) \/ Link(p) \/ PublisherDies(p)
             \/ Remove
    BY <1>5, <2>1 DEF StartPublishing, Link, PublisherDies, Remove
  <2>2. QED BY <1>2, <1>3, <1>4, <1>6, <2>1 DEF PipelineNext
<1>7. CASE ~ PipelineNext
  <2>1. CASE \E a \in Reviewers :
               \/ \E d \in Drafts : LoadSymbols(a, d)
               \/ LoadState(a) \/ LoadActions(a) \/ Leave(a)
    BY <1>5, <2>1 DEF LoadSymbols, LoadState, LoadActions, Leave
  <2>2. ASSUME NEW a \in Reviewers, NEW d \in Drafts, Act(a, d)
        PROVE  UNCHANGED run
    <3>1. PICK entry \in Entries : Action(a, d, entry)
      BY <2>2, ActStep
    <3>2. QED BY <3>1 DEF Action, Acted, SameRows
  <2>3. CASE \/ \E c \in Contents : MarkStale(Manifest[c].revision)
             \/ \E d \in Drafts, s \in Symbols : MarkConflict(d, s)
    BY <1>5, <2>3 DEF MarkStale, MarkConflict
  <2>4. CASE ReadTrails \/ ReadRows \/ UNCHANGED vars
    BY <1>5, <2>4 DEF ReadTrails, ReadRows, vars
  <2>5. QED BY <1>5, <1>7, <2>1, <2>2, <2>3, <2>4 DEF Next, DeskNext
<1>8. QED BY <1>6, <1>7

\* Two publishers of one path leave the first one's index: a hard link fails
\* where the name exists.  And a run takes what is on the disk: a file in the
\* cache with the inode of the file on the disk was written by the same
\* publisher, so it holds the same index, and that was verified for the pin.
THEOREM IndexIsKept == Spec => PublishedIsKept
<1>1. Init => ReviewInv
  BY InitialState
<1>2. ReviewInv /\ [Next]_vars => ReviewInv'
  BY Steps
<1>3. ASSUME [Next]_vars
      PROVE  file # NoFile => file' \in {file, NoFile}
  <2>1. ASSUME NEW p \in Publishers,
               StartPublishing(p) \/ Link(p) \/ PublisherDies(p)
        PROVE  file # NoFile => file' \in {file, NoFile}
    BY <2>1 DEF StartPublishing, Link, Linked, PublisherDies
  <2>2. CASE Remove
    BY <2>2 DEF Remove
  <2>3. CASE UNCHANGED vars
    BY <2>3 DEF vars
  <2>4. QED BY <1>3, <2>1, <2>2, <2>3, OthersKeepTheFile
<1>4. ReviewInv /\ [Next]_vars =>
        [/\ file # NoFile => file' \in {file, NoFile}
         /\ \A r \in Runs : Begins(r) => run'[r].index = Read]_<<file, run>>
  BY <1>3, RunsTakeTheFile
<1>5. QED BY <1>1, <1>2, <1>4, PTL DEF Spec, PublishedIsKept

\* An action with the revision of the workspace is an action with its whole
\* audit trail: the state is read before the actions, so the trail a workspace
\* shows is at least as long as its revision counts.
THEOREM WholeTrail == Spec => ActsOnWholeTrail
<1>1. Init => ReviewInv
  BY InitialState
<1>2. ReviewInv /\ [Next]_vars => ReviewInv'
  BY Steps
<1>3. ASSUME ReviewInv, [Next]_vars, NEW a \in Reviewers, NEW d \in Drafts, Acts(a, d)
      PROVE  desk[a].trail = Len(log[d])
  <2>1. log'[d] # log[d] /\ desk[a].pc = "ready" /\ desk'[a] # desk[a] /\ desk[a].draft = d
    BY <1>3, AwayIsAway DEF Acts
  <2>2. PICK b \in Reviewers, e \in Drafts, entry \in Entries : Action(b, e, entry)
    BY <1>3, <2>1, Steps DEF Marked, Watched
  <2>3. Acted(b, e, entry)
    BY <2>2 DEF Action
  <2>4. e = d /\ b = a
    BY <2>1, <2>3 DEF Acted
  <2>5. review[d].revision = desk[a].revision
    BY <2>3, <2>4 DEF Acted, May, Current
  <2>6. desk[a].revision <= 1 + desk[a].trail
    BY <1>3, <2>1 DEF ReviewInv, Seen
  <2>7. /\ desk[a].trail <= Len(log[d]) /\ review[d].revision = 1 + Len(log[d])
        /\ Len(log[d]) \in Nat /\ desk[a].trail \in Nat
    BY <1>3, <2>1, LoadedWorkspace
  <2>8. QED BY <2>5, <2>6, <2>7
<1>4. ReviewInv /\ [Next]_vars =>
        [\A a \in Reviewers, d \in Drafts : Acts(a, d) => desk[a].trail = Len(log[d])]_vars
  BY <1>3
<1>5. QED BY <1>1, <1>2, <1>4, PTL DEF Spec, ActsOnWholeTrail

-----------------------------------------------------------------------------
(* What the audit trail says of a confirmed draft.                         *)

\* The matcher did not ask about s and nobody spoke of it, or the last entry
\* that speaks of it is a decision.
Decided(d, s) ==
  \/ Verdict[s].decision # "review_required" /\ PlacesOf(d, s) = {}
  \/ \E k \in PlacesOf(d, s), o \in DOMAIN Decision :
       /\ log[d][k] = Entry(Decision[o], s, o)
       /\ \A j \in PlacesOf(d, s) : j <= k

Placed(d, key) == \E k \in DOMAIN log[d] :
  log[d][k].action = "specification_mapped" /\ log[d][k].target = key

\* The invariant of a draft, confirmed or not: the rows that are accepted or
\* rejected were decided, and the specifications of its state have an entry.
DraftDecided(d) ==
  /\ \A s \in Symbols :
       OfDraft(d, s) /\ symbol[d][s].status \in {"accepted", "rejected"} => Decided(d, s)
  /\ \A key \in review[d].mapped : Placed(d, key)

\* A confirmed draft: its trail ends with the confirmation.
Settled(d) ==
  /\ log[d] # << >>
  /\ \A s \in Symbols : OfDraft(d, s) => Decided(d, s)
  /\ \A key \in UnmappedKeys(d) : Placed(d, key)
  /\ log[d][Len(log[d])].action = "draft_confirmed"

DecidedInv == \A d \in Drafts :
  DraftDecided(d) /\ (review[d].status = "confirmed" => Settled(d))

LEMMA PlacesAreNumbers ==
  ASSUME ReviewInv, NEW d \in Drafts
  PROVE  /\ DOMAIN log[d] = 1 .. Len(log[d]) /\ Len(log[d]) \in Nat
         /\ \A s : PlacesOf(d, s) \subseteq 1 .. Len(log[d])
BY DEF ReviewInv, DeskTypes, PlacesOf

\* An entry that does not speak of a symbol leaves its places alone.
LEMMA OtherEntry ==
  ASSUME ReviewInv, NEW d \in Drafts, NEW entry \in Entries,
         log'[d] = Append(log[d], entry)
  PROVE  /\ DOMAIN log'[d] = 1 .. Len(log[d]) + 1 /\ Len(log'[d]) = Len(log[d]) + 1
         /\ log'[d][Len(log[d]) + 1] = entry /\ log'[d] # << >>
         /\ \A k \in DOMAIN log[d] : k \in DOMAIN log'[d] /\ log'[d][k] = log[d][k]
         /\ \A s \in Symbols : entry.target # s =>
              PlacesOf(d, s)' = PlacesOf(d, s) /\ (Decided(d, s) => Decided(d, s)')
         /\ \A key : Placed(d, key) => Placed(d, key)'
<1>1. log[d] \in Seq(Entries)
  BY DEF ReviewInv, DeskTypes
<1>2. /\ DOMAIN log[d] = 1 .. Len(log[d]) /\ Len(log[d]) \in Nat
      /\ DOMAIN log'[d] = 1 .. Len(log[d]) + 1 /\ Len(log'[d]) = Len(log[d]) + 1
      /\ \A k \in 1 .. Len(log[d]) : log'[d][k] = log[d][k]
      /\ log'[d][Len(log[d]) + 1] = entry /\ log'[d] # << >>
  BY <1>1, Appended
<1>3. \A k \in DOMAIN log[d] : k \in DOMAIN log'[d] /\ log'[d][k] = log[d][k]
  BY <1>2
<1>4. ASSUME NEW s \in Symbols, entry.target # s
      PROVE  PlacesOf(d, s)' = PlacesOf(d, s) /\ (Decided(d, s) => Decided(d, s)')
  <2>1. PlacesOf(d, s)' = PlacesOf(d, s)
    <3>1. \A k \in DOMAIN log'[d] : k \in DOMAIN log[d] \/ k = Len(log[d]) + 1
      BY <1>2
    <3>2. QED BY <1>2, <1>3, <1>4, <3>1 DEF PlacesOf
  <2>2. \A k \in PlacesOf(d, s) : log'[d][k] = log[d][k]
    BY <1>3 DEF PlacesOf
  <2>3. QED BY <2>1, <2>2 DEF Decided
<1>5. \A key : Placed(d, key) => Placed(d, key)'
  BY <1>3 DEF Placed
<1>6. QED BY <1>2, <1>3, <1>4, <1>5

\* A draft whose rows, trail and facts stay where they were.
LEMMA SameDraft ==
  ASSUME NEW d \in Drafts, log'[d] = log[d], review'[d].mapped = review[d].mapped,
         UnmappedKeys(d)' = UnmappedKeys(d),
         \A s \in Symbols : OfDraft(d, s)' <=> OfDraft(d, s),
         \A s \in Symbols : symbol'[d][s] = symbol[d][s]
                            \/ symbol'[d][s].status \in {"stale", "conflict"},
         DraftDecided(d)
  PROVE  DraftDecided(d)' /\ (Settled(d) => Settled(d)')
<1>1. \A s \in Symbols : Decided(d, s)' <=> Decided(d, s)
  BY DEF Decided, PlacesOf
<1>2. \A key : Placed(d, key)' <=> Placed(d, key)
  BY DEF Placed
<1>3. DraftDecided(d)'
  BY <1>1, <1>2 DEF DraftDecided
<1>4. Settled(d) => Settled(d)'
  BY <1>1, <1>2 DEF Settled
<1>5. QED BY <1>3, <1>4

\* The facts of a saved draft: its artifact row is that of a saved run.
LEMMA FactsStay ==
  ASSUME ReviewInv, DraftsStay, NEW d \in SavedDrafts
  PROVE  UnmappedKeys(d)' = UnmappedKeys(d)
<1>1. d \in Runs /\ d \in table["draft"]
  BY DEF ReviewInv, PipelineInv, PipelineTypes, SavedDrafts
<1>2. run[d].pc = "saved" /\ artifact[run[d].page] # NoRun
  BY <1>1 DEF ReviewInv, PipelineInv, RowsAreWhole
<1>3. run[d].page \in Pages
  BY <1>1, <1>2 DEF ReviewInv, PipelineInv, PipelineTypes
<1>4. artifact[run[d].page] \in SavedDrafts
  BY <1>2, <1>3 DEF ReviewInv, PipelineInv, RowsAreWhole, SavedDrafts
<1>5. /\ run'[d] = run[d] /\ artifact'[run[d].page] = artifact[run[d].page]
      /\ run'[artifact[run[d].page]] = run[artifact[run[d].page]]
  BY <1>2, <1>3, <1>4 DEF DraftsStay
<1>6. QED BY <1>5 DEF UnmappedKeys

LEMMA DecidedAtRest ==
  ASSUME ReviewInv, DecidedInv, UNCHANGED reviewVars, DraftsStay
  PROVE  DecidedInv'
<1>1. ASSUME NEW d \in Drafts, d \in SavedDrafts
      PROVE  DraftDecided(d)' /\ (review'[d].status = "confirmed" => Settled(d)')
  <2>1. symbol'[d] = symbol[d] /\ UnmappedKeys(d)' = UnmappedKeys(d)
    BY <1>1, FactsStay DEF DraftsStay
  <2>2. \A s \in Symbols : OfDraft(d, s)' <=> OfDraft(d, s)
    BY <2>1 DEF OfDraft
  <2>3. DraftDecided(d)' /\ (Settled(d) => Settled(d)')
    BY <2>1, <2>2, SameDraft DEF DecidedInv
  <2>4. QED BY <2>3 DEF DecidedInv
<1>2. ASSUME NEW d \in Drafts, d \notin SavedDrafts
      PROVE  DraftDecided(d)' /\ (review'[d].status = "confirmed" => Settled(d)')
  <2>1. log[d] = << >> /\ log'[d] = << >>
    BY <1>2 DEF ReviewInv, DeskTypes
  <2>2. review'[d].status # "confirmed"
    BY <2>1 DEF DecidedInv, Settled
  <2>3. \A key \in review'[d].mapped : Placed(d, key)'
    BY DEF DecidedInv, DraftDecided, Placed
  <2>4. ASSUME NEW s \in Symbols, OfDraft(d, s)',
               symbol'[d][s].status \in {"accepted", "rejected"}
        PROVE  Decided(d, s)'
    <3>1. symbol'[d][s] = NewRow(d, s)
      BY <1>2, <2>4 DEF DraftsStay, OfDraft, Drafts
    <3>2. Initially[Verdict[s].decision] \in {"accepted", "rejected"}
      BY <2>4, <3>1 DEF NewRow
    <3>3. Verdict[s].decision # "review_required"
      BY <3>2 DEF Initially
    <3>4. PlacesOf(d, s)' = {}
      BY <2>1 DEF PlacesOf
    <3>5. QED BY <3>3, <3>4 DEF Decided
  <2>5. QED BY <2>2, <2>3, <2>4 DEF DraftDecided
<1>3. QED BY <1>1, <1>2 DEF DecidedInv

\* A decision is the last word on its symbol.
LEMMA DecisionIsLast ==
  ASSUME ReviewInv, NEW d \in Drafts, NEW s \in Symbols, NEW o \in DOMAIN Decision,
         log'[d] = Append(log[d], Entry(Decision[o], s, o)),
         Entry(Decision[o], s, o) \in Entries
  PROVE  Decided(d, s)'
<1> DEFINE last == Len(log[d]) + 1
<1>1. /\ DOMAIN log'[d] = 1 .. last /\ log'[d][last] = Entry(Decision[o], s, o)
      /\ Len(log[d]) \in Nat
  BY OtherEntry, PlacesAreNumbers
<1>2. last \in PlacesOf(d, s)' /\ \A j \in PlacesOf(d, s)' : j <= last
  <2>1. last \in 1 .. last /\ \A j \in 1 .. last : j <= last
    BY <1>1
  <2>2. Entry(Decision[o], s, o).target = s
    BY DEF Entry
  <2>3. QED BY <1>1, <2>1, <2>2 DEF PlacesOf
<1>3. QED BY <1>1, <1>2 DEF Decided

\* The draft an action is about.
LEMMA DecidedByAction ==
  ASSUME ReviewInv, DecidedInv, ReviewInv', NEW a \in Reviewers, NEW d \in Drafts,
         NEW entry \in Entries, Action(a, d, entry)
  PROVE  DraftDecided(d)' /\ (review'[d].status = "confirmed" => Settled(d)')
<1>1. /\ Acted(a, d, entry) /\ SameRows /\ log'[d] = Append(log[d], entry)
      /\ \A s \in Symbols : OfDraft(d, s)' <=> OfDraft(d, s)
  BY DEF Action, Acted, SameRows
<1>2. UnmappedKeys(d)' = UnmappedKeys(d)
  <2>1. left' \in [Disturbances -> Nat]
    BY DEF ReviewInv, DeskTypes, PipelineTypes
  <2>2. QED BY <1>1, <2>1, SameRowsStep DEF ReviewInv
<1>3. /\ log'[d] # << >> /\ log'[d][Len(log'[d])] = entry
      /\ Len(log[d]) + 1 \in DOMAIN log'[d] /\ log'[d][Len(log[d]) + 1] = entry
      /\ \A s \in Symbols : entry.target # s /\ Decided(d, s) => Decided(d, s)'
      /\ \A key : Placed(d, key) => Placed(d, key)'
  <2>1. log'[d] = Append(log[d], entry)
    BY <1>1
  <2>2. /\ DOMAIN log'[d] = 1 .. Len(log[d]) + 1 /\ Len(log'[d]) = Len(log[d]) + 1
        /\ log'[d][Len(log[d]) + 1] = entry /\ log'[d] # << >>
        /\ \A s \in Symbols : entry.target # s /\ Decided(d, s) => Decided(d, s)'
        /\ \A key : Placed(d, key) => Placed(d, key)'
    BY <2>1, OtherEntry
  <2>3. Len(log[d]) + 1 \in DOMAIN log'[d]
    BY <2>2, PlacesAreNumbers
  <2>4. QED BY <2>2, <2>3
<1>4. DraftDecided(d)
  BY DEF DecidedInv
<1>5. ASSUME NEW s \in Symbols, NEW o \in DOMAIN Decision, Decides(d, entry, s, o)
      PROVE  DraftDecided(d)' /\ review'[d].status = "pending"
  <2>1. Decided(d, s)'
    BY <1>1, <1>5, DecisionIsLast DEF Decides
  <2>2. entry.target = s
    BY <1>5 DEF Decides, Entry
  <2>3. \A z \in Symbols \ {s} : symbol'[d][z] = symbol[d][z] /\ entry.target # z
    BY <1>5, <2>2 DEF Decides
  <2>4. review'[d].mapped = review[d].mapped /\ review'[d].status = "pending"
    BY <1>5 DEF Decides
  <2>5. QED BY <1>1, <1>3, <1>4, <2>1, <2>3, <2>4 DEF DraftDecided
<1>6. ASSUME NEW s \in Symbols, Reopens(d, entry, s)
      PROVE  DraftDecided(d)' /\ review'[d].status = "pending"
  <2>1. symbol'[d][s].status = "suggested"
    BY <1>6 DEF Reopens
  <2>2. \A z \in Symbols \ {s} : symbol'[d][z] = symbol[d][z] /\ entry.target # z
    BY <1>6 DEF Reopens
  <2>3. review'[d].mapped = review[d].mapped /\ review'[d].status = "pending"
    BY <1>6 DEF Reopens
  <2>4. QED BY <1>1, <1>3, <1>4, <2>1, <2>2, <2>3 DEF DraftDecided
<1>7. CASE Aside(d, entry)
  <2>1. /\ symbol'[d] = symbol[d] /\ \A s \in Symbols : entry.target # s
        /\ review'[d].mapped = review[d].mapped /\ review'[d].status = "pending"
    BY <1>7 DEF Aside
  <2>2. QED BY <1>1, <1>3, <1>4, <2>1 DEF DraftDecided
<1>8. ASSUME NEW key \in Keys, Places(d, entry, key)
      PROVE  DraftDecided(d)' /\ review'[d].status = "pending"
  <2>1. /\ symbol'[d] = symbol[d] /\ \A s \in Symbols : entry.target # s
        /\ review'[d].mapped = review[d].mapped \cup {key}
        /\ review'[d].status = "pending"
    BY <1>8 DEF Places
  <2>2. Placed(d, key)'
    BY <1>3, <1>8 DEF Places, Placed
  <2>3. QED BY <1>1, <1>3, <1>4, <2>1, <2>2 DEF DraftDecided
<1>9. CASE Confirms(d, entry)
  <2>1. /\ symbol'[d] = symbol[d] /\ \A s \in Symbols : entry.target # s
        /\ review'[d].mapped = review[d].mapped
        /\ entry.action = "draft_confirmed"
        /\ UnmappedKeys(d) \subseteq review[d].mapped
    BY <1>9 DEF Confirms
  <2>2. DraftDecided(d)'
    BY <1>1, <1>3, <1>4, <2>1 DEF DraftDecided
  <2>3. ASSUME NEW s \in Symbols, OfDraft(d, s)
        PROVE  Decided(d, s)'
    <3>1. symbol[d][s].status \notin {"suggested", "stale", "conflict"}
      BY <1>9, <2>3 DEF Confirms, Unresolved
    <3>2. symbol[d][s].status \in Statuses
      BY <2>3 DEF ReviewInv, DeskTypes, OfDraft, SymbolRows
    <3>3. Decided(d, s)
      BY <1>4, <2>3, <3>1, <3>2 DEF DraftDecided, Statuses
    <3>4. QED BY <1>3, <2>1, <3>3
  <2>4. \A key \in UnmappedKeys(d) : Placed(d, key)'
    BY <1>3, <1>4, <2>1 DEF DraftDecided
  <2>5. Settled(d)'
    BY <1>1, <1>2, <1>3, <2>1, <2>3, <2>4 DEF Settled
  <2>6. QED BY <2>2, <2>5
<1>10. \/ \E s \in Symbols, o \in DOMAIN Decision : Decides(d, entry, s, o)
       \/ \E s \in Symbols : Reopens(d, entry, s)
       \/ Aside(d, entry)
       \/ \E key \in Keys : Places(d, entry, key)
       \/ Confirms(d, entry)
  BY DEF Action
<1>11. QED BY <1>5, <1>6, <1>7, <1>8, <1>9, <1>10

LEMMA DecidedStep ==
  ASSUME ReviewInv, DecidedInv, [Next]_vars
  PROVE  ReviewInv' /\ DecidedInv'
<1>1. ReviewInv'
  BY Steps
<1>2. CASE UNCHANGED reviewVars /\ DraftsStay
  BY <1>1, <1>2, DecidedAtRest
<1>3. CASE \/ \E a \in Reviewers : UNCHANGED <<pipelineVars, review, log>>
           \/ Watched
  <2>1. UNCHANGED <<run, artifact, symbol, review, log>>
    BY <1>3 DEF Watched
  <2>2. ASSUME NEW d \in Drafts
        PROVE  DraftDecided(d)' /\ (review'[d].status = "confirmed" => Settled(d)')
    <3>1. UnmappedKeys(d)' = UnmappedKeys(d)
      BY <2>1 DEF UnmappedKeys
    <3>2. \A s \in Symbols : OfDraft(d, s)' <=> OfDraft(d, s)
      BY <2>1 DEF OfDraft
    <3>3. DraftDecided(d)' /\ (Settled(d) => Settled(d)')
      BY <2>1, <3>1, <3>2, SameDraft DEF DecidedInv
    <3>4. QED BY <2>1, <3>3 DEF DecidedInv
  <2>3. QED BY <1>1, <2>2 DEF DecidedInv
<1>4. CASE Marked
  <2>1. /\ SameRows /\ UNCHANGED <<review, log>>
        /\ \A d \in Drafts, s \in Symbols :
             symbol'[d][s] = symbol[d][s] \/ symbol'[d][s].status \in {"stale", "conflict"}
    BY <1>4 DEF Marked
  <2>2. \A d \in Drafts : UnmappedKeys(d)' = UnmappedKeys(d)
    <3>1. left' \in [Disturbances -> Nat]
      BY <1>1 DEF ReviewInv, DeskTypes, PipelineTypes
    <3>2. QED BY <2>1, <3>1, SameRowsStep DEF ReviewInv
  <2>3. ASSUME NEW d \in Drafts
        PROVE  DraftDecided(d)' /\ (review'[d].status = "confirmed" => Settled(d)')
    <3>1. \A s \in Symbols : OfDraft(d, s)' <=> OfDraft(d, s)
      BY <2>1 DEF SameRows
    <3>2. DraftDecided(d)' /\ (Settled(d) => Settled(d)')
      BY <2>1, <2>2, <3>1, SameDraft DEF DecidedInv
    <3>3. QED BY <2>1, <3>2 DEF DecidedInv
  <2>4. QED BY <1>1, <2>3 DEF DecidedInv
<1>5. ASSUME NEW a \in Reviewers, NEW d \in Drafts, NEW entry \in Entries,
             Action(a, d, entry)
      PROVE  DecidedInv'
  <2>1. DraftDecided(d)' /\ (review'[d].status = "confirmed" => Settled(d)')
    BY <1>1, <1>5, DecidedByAction
  <2>2. /\ SameRows
        /\ \A e \in Drafts \ {d} :
             log'[e] = log[e] /\ review'[e] = review[e] /\ symbol'[e] = symbol[e]
    BY <1>5 DEF Action, Acted
  <2>3. \A e \in Drafts : UnmappedKeys(e)' = UnmappedKeys(e)
    <3>1. left' \in [Disturbances -> Nat]
      BY <1>1 DEF ReviewInv, DeskTypes, PipelineTypes
    <3>2. QED BY <2>2, <3>1, SameRowsStep DEF ReviewInv
  <2>4. ASSUME NEW e \in Drafts \ {d}
        PROVE  DraftDecided(e)' /\ (review'[e].status = "confirmed" => Settled(e)')
    <3>1. \A s \in Symbols : OfDraft(e, s)' <=> OfDraft(e, s)
      BY <2>2 DEF SameRows
    <3>2. DraftDecided(e)' /\ (Settled(e) => Settled(e)')
      BY <2>2, <2>3, <3>1, SameDraft DEF DecidedInv
    <3>3. QED BY <2>2, <3>2 DEF DecidedInv
  <2>5. QED BY <2>1, <2>4 DEF DecidedInv
<1>6. QED BY <1>1, <1>2, <1>3, <1>4, <1>5, Steps

\* A confirmed draft was decided by people where the matcher asked for it, its
\* unmapped specifications have places, and nothing follows the confirmation:
\* the rows that are accepted or rejected have their decision in the trail all
\* along, and a confirmation finds no others.
THEOREM PeopleDecided == Spec => []ConfirmedIsDecided
<1>1. Init => ReviewInv /\ DecidedInv
  <2> SUFFICES ASSUME Init
               PROVE  ReviewInv /\ DecidedInv
    OBVIOUS
  <2>1. ReviewInv
    BY InitialState
  <2>2. \A d \in Drafts : /\ review[d].status = "pending" /\ review[d].mapped = {}
                          /\ \A s \in Symbols : symbol[d][s] = NoRow
    BY DEF Init, PipelineInit, Untouched, NoState, Drafts
  <2>3. QED BY <2>1, <2>2 DEF DecidedInv, DraftDecided, OfDraft
<1>2. (ReviewInv /\ DecidedInv) /\ [Next]_vars => (ReviewInv /\ DecidedInv)'
  BY DecidedStep
<1>3. ReviewInv /\ DecidedInv => ConfirmedIsDecided
  BY DEF DecidedInv, Settled, Decided, Placed, ConfirmedIsDecided
<1>4. QED BY <1>1, <1>2, <1>3, PTL DEF Spec

-----------------------------------------------------------------------------
(* What the metrics read out of the audit trail.                           *)

\* The theory of folds knows of the last of a set of places.
Plus(m, n) == m + n
Adding == INSTANCE FoldTheorems WITH Op <- Plus

LEMMA LastPlace ==
  ASSUME NEW n \in Nat, NEW S \in SUBSET (1 .. n), S # {}
  PROVE  Max(S) \in S /\ \A x \in S : x <= Max(S)
<1>1. Max(S) \in S /\ \A x \in S : Max(S) >= x
  BY Adding!HasLast DEF Max
<1>2. \A x \in S : x \in Nat
  <2>1. \A x \in 1 .. n : x \in Nat
    OBVIOUS
  <2>2. QED BY <2>1, Zenon
<1>3. QED BY <1>1, <1>2

LEMMA LastIs ==
  ASSUME NEW n \in Nat, NEW S \in SUBSET (1 .. n), n \in S
  PROVE  Max(S) = n
<1>1. Max(S) \in S /\ n <= Max(S)
  BY LastPlace
<1>2. \A k \in 1 .. n : k <= n
  OBVIOUS
<1>3. Max(S) \in 1 .. n
  BY <1>1
<1>4. QED BY <1>1, <1>2, <1>3

\* The row of a symbol says what the trail says: the relation last agreed to
\* and, where somebody decided, the last decision.
Labelled(d, s) ==
  OfDraft(d, s) =>
    /\ symbol[d][s].relation = Agreed(d, s)
    /\ symbol[d][s].status \in {"accepted", "rejected"} /\ Decisions(d, s) # {} =>
         LastWord(d, s) = symbol[d][s].status

\* A draft was confirmed with no suggestion left.
NoneSuggested(d) ==
  review[d].status = "confirmed" =>
    \A s \in Symbols : OfDraft(d, s) => symbol[d][s].status # "suggested"

LabelInv == \A d \in Drafts :
  NoneSuggested(d) /\ \A s \in Symbols : Labelled(d, s)

LEMMA LastOfTrail ==
  ASSUME ReviewInv, NEW d \in Drafts, NEW s \in Symbols
  PROVE  /\ Decisions(d, s) # {} => Max(Decisions(d, s)) \in PlacesOf(d, s)
         /\ Changes(d, s) # {} => Max(Changes(d, s)) \in PlacesOf(d, s)
<1>1. Decisions(d, s) \subseteq PlacesOf(d, s) /\ Changes(d, s) \subseteq PlacesOf(d, s)
  BY DEF Decisions, Changes
<1>2. Len(log[d]) \in Nat /\ PlacesOf(d, s) \subseteq 1 .. Len(log[d])
  BY PlacesAreNumbers
<1>3. QED BY <1>1, <1>2, LastPlace

\* What the trail says of a symbol whose entries stay as they are.
LEMMA SameWords ==
  ASSUME ReviewInv, NEW d \in Drafts, NEW s \in Symbols,
         PlacesOf(d, s)' = PlacesOf(d, s),
         \A k \in PlacesOf(d, s) : log'[d][k] = log[d][k]
  PROVE  /\ Decisions(d, s)' = Decisions(d, s) /\ Agreed(d, s)' = Agreed(d, s)
         /\ Decisions(d, s) # {} => LastWord(d, s)' = LastWord(d, s)
<1>1. Decisions(d, s)' = Decisions(d, s) /\ Changes(d, s)' = Changes(d, s)
  BY DEF Decisions, Changes
<1>2. Decisions(d, s) # {} => LastWord(d, s)' = LastWord(d, s)
  BY <1>1, LastOfTrail DEF LastWord
<1>3. Agreed(d, s)' = Agreed(d, s)
  BY <1>1, LastOfTrail DEF Agreed
<1>4. QED BY <1>1, <1>2, <1>3

\* A symbol whose entries stay, and its row or at least its relation.
LEMMA LabelStays ==
  ASSUME ReviewInv, NEW d \in Drafts, NEW s \in Symbols, Labelled(d, s),
         PlacesOf(d, s)' = PlacesOf(d, s),
         \A k \in PlacesOf(d, s) : log'[d][k] = log[d][k],
         OfDraft(d, s)' => OfDraft(d, s),
         \/ symbol'[d][s] = symbol[d][s]
         \/ /\ symbol'[d][s].status \in {"stale", "conflict"}
            /\ symbol'[d][s].relation = symbol[d][s].relation
  PROVE  Labelled(d, s)'
<1>1. /\ Decisions(d, s)' = Decisions(d, s) /\ Agreed(d, s)' = Agreed(d, s)
      /\ Decisions(d, s) # {} => LastWord(d, s)' = LastWord(d, s)
  BY SameWords
<1>2. QED BY <1>1 DEF Labelled

\* Rows and trails of all drafts but for marks.
LEMMA LabelsStay ==
  ASSUME ReviewInv, LabelInv, NEW d \in Drafts,
         log'[d] = log[d], review'[d] = review[d],
         \A s \in Symbols : OfDraft(d, s)' <=> OfDraft(d, s),
         \A s \in Symbols : \/ symbol'[d][s] = symbol[d][s]
                            \/ /\ symbol'[d][s].status \in {"stale", "conflict"}
                               /\ symbol'[d][s].relation = symbol[d][s].relation
  PROVE  NoneSuggested(d)' /\ \A s \in Symbols : Labelled(d, s)'
<1>1. \A s \in Symbols : PlacesOf(d, s)' = PlacesOf(d, s)
  BY DEF PlacesOf
<1>2. \A s \in Symbols : Labelled(d, s)'
  BY <1>1, LabelStays DEF LabelInv
<1>3. NoneSuggested(d)'
  BY DEF LabelInv, NoneSuggested
<1>4. QED BY <1>2, <1>3

LEMMA LabelAtRest ==
  ASSUME ReviewInv, DecidedInv, LabelInv, UNCHANGED reviewVars, DraftsStay
  PROVE  LabelInv'
<1>1. ASSUME NEW d \in Drafts, d \in SavedDrafts
      PROVE  NoneSuggested(d)' /\ \A s \in Symbols : Labelled(d, s)'
  <2>1. symbol'[d] = symbol[d] /\ log'[d] = log[d] /\ review'[d] = review[d]
    BY <1>1 DEF DraftsStay, reviewVars
  <2>2. \A s \in Symbols : OfDraft(d, s)' <=> OfDraft(d, s)
    BY <2>1 DEF OfDraft
  <2>3. QED BY <2>1, <2>2, LabelsStay
<1>2. ASSUME NEW d \in Drafts, d \notin SavedDrafts
      PROVE  NoneSuggested(d)' /\ \A s \in Symbols : Labelled(d, s)'
  <2>1. log[d] = << >> /\ log'[d] = << >> /\ review'[d] = review[d]
    BY <1>2 DEF ReviewInv, DeskTypes, reviewVars
  <2>2. review'[d].status # "confirmed"
    BY <2>1 DEF DecidedInv, Settled
  <2>3. ASSUME NEW s \in Symbols, OfDraft(d, s)'
        PROVE  Labelled(d, s)'
    <3>1. symbol'[d][s] = NewRow(d, s)
      BY <1>2, <2>3 DEF DraftsStay, OfDraft, Drafts
    <3>2. symbol'[d][s].relation = Verdict[s].relation
      BY <3>1 DEF NewRow
    <3>3. PlacesOf(d, s)' = {}
      BY <2>1 DEF PlacesOf
    <3>4. Decisions(d, s)' = {} /\ Changes(d, s)' = {}
      BY <3>3 DEF Decisions, Changes
    <3>5. QED BY <3>2, <3>4 DEF Labelled, Agreed
  <2>4. QED BY <2>2, <2>3 DEF NoneSuggested, Labelled
<1>3. QED BY <1>1, <1>2 DEF LabelInv

\* An entry about a symbol has the last of its places.
LEMMA NewPlace ==
  ASSUME ReviewInv, NEW d \in Drafts, NEW s \in Symbols, NEW entry \in Entries,
         log'[d] = Append(log[d], entry), entry.target = s
  PROVE  \E last \in Nat :
           /\ log'[d][last] = entry
           /\ PlacesOf(d, s)' = PlacesOf(d, s) \cup {last}
           /\ PlacesOf(d, s)' \subseteq 1 .. last
           /\ last \notin PlacesOf(d, s)
           /\ \A k \in PlacesOf(d, s) : log'[d][k] = log[d][k]
<1>1. /\ DOMAIN log'[d] = 1 .. Len(log[d]) + 1 /\ log'[d][Len(log[d]) + 1] = entry
      /\ \A k \in DOMAIN log[d] : k \in DOMAIN log'[d] /\ log'[d][k] = log[d][k]
      /\ DOMAIN log[d] = 1 .. Len(log[d]) /\ Len(log[d]) \in Nat
  BY OtherEntry, PlacesAreNumbers
<1>2. PICK last \in Nat : last = Len(log[d]) + 1
  BY <1>1
<1>3. /\ last \in DOMAIN log'[d] /\ last \notin DOMAIN log[d]
      /\ \A k \in DOMAIN log'[d] : k \in DOMAIN log[d] \/ k = last
      /\ DOMAIN log'[d] = 1 .. last /\ log'[d][last] = entry
  BY <1>1, <1>2
<1>4. PlacesOf(d, s)' = PlacesOf(d, s) \cup {last}
  BY <1>1, <1>3 DEF PlacesOf
<1>5. PlacesOf(d, s)' \subseteq DOMAIN log'[d] /\ PlacesOf(d, s) \subseteq DOMAIN log[d]
  BY DEF PlacesOf
<1>6. QED BY <1>1, <1>3, <1>4, <1>5

\* The symbol a decision is about.
LEMMA LabelDecided ==
  ASSUME ReviewInv, LabelInv, NEW d \in Drafts, NEW s \in Symbols,
         NEW o \in DOMAIN Decision, NEW entry \in Entries,
         log'[d] = Append(log[d], entry), Decides(d, entry, s, o)
  PROVE  Labelled(d, s)'
<1>1. /\ OfDraft(d, s) /\ entry.action = Decision[o] /\ entry.target = s /\ entry.value = o
      /\ symbol'[d][s] = [symbol[d][s] EXCEPT !.status = o]
  <2>1. /\ OfDraft(d, s) /\ entry = Entry(Decision[o], s, o)
        /\ symbol'[d][s] = [symbol[d][s] EXCEPT !.status = o]
    BY DEF Decides
  <2>2. entry = [action |-> Decision[o], target |-> s, value |-> o]
    BY <2>1 DEF Entry
  <2>3. QED BY <2>1, <2>2
<1>2. symbol'[d][s].status = o /\ symbol'[d][s].relation = symbol[d][s].relation
  <2>1. symbol[d][s] \in SymbolRows
    BY <1>1 DEF ReviewInv, DeskTypes, OfDraft
  <2>2. QED BY <1>1, <2>1 DEF SymbolRows
<1>3. PICK last \in Nat :
        /\ log'[d][last] = entry
        /\ PlacesOf(d, s)' = PlacesOf(d, s) \cup {last}
        /\ PlacesOf(d, s)' \subseteq 1 .. last
        /\ last \notin PlacesOf(d, s)
        /\ \A k \in PlacesOf(d, s) : log'[d][k] = log[d][k]
  <2>1. entry.target = s
    BY <1>1
  <2>2. QED BY <2>1, NewPlace
<1>4. last \in Decisions(d, s)' /\ Decisions(d, s)' \subseteq 1 .. last
  BY <1>1, <1>3 DEF Decisions
<1>5. LastWord(d, s)' = entry.value
  <2>1. Max(Decisions(d, s)') = last
    BY <1>4, LastIs
  <2>2. QED BY <1>3, <2>1 DEF LastWord
<1>6. Changes(d, s)' = Changes(d, s)
  <2>1. entry.action # "enrichment_relation_changed"
    BY <1>1, ActionNames DEF Decision
  <2>2. QED BY <1>3, <2>1 DEF Changes
<1>7. Agreed(d, s)' = Agreed(d, s)
  <2>1. Changes(d, s) # {} => Max(Changes(d, s)) \in PlacesOf(d, s)
    BY LastOfTrail
  <2>2. QED BY <1>3, <1>6, <2>1 DEF Agreed
<1>8. symbol[d][s].relation = Agreed(d, s)
  BY <1>1 DEF LabelInv, Labelled
<1>9. QED BY <1>1, <1>2, <1>5, <1>7, <1>8 DEF Labelled

\* The symbol whose relation is changed.
LEMMA LabelReopened ==
  ASSUME ReviewInv, LabelInv, NEW d \in Drafts, NEW s \in Symbols,
         NEW entry \in Entries,
         log'[d] = Append(log[d], entry), Reopens(d, entry, s)
  PROVE  Labelled(d, s)'
<1>1. /\ entry.action = "enrichment_relation_changed" /\ entry.target = s
      /\ symbol'[d][s].status = "suggested" /\ symbol'[d][s].relation = entry.value
  BY DEF Reopens
<1>2. PICK last \in Nat :
        /\ log'[d][last] = entry
        /\ PlacesOf(d, s)' = PlacesOf(d, s) \cup {last}
        /\ PlacesOf(d, s)' \subseteq 1 .. last
        /\ last \notin PlacesOf(d, s)
        /\ \A k \in PlacesOf(d, s) : log'[d][k] = log[d][k]
  BY <1>1, NewPlace
<1>3. last \in Changes(d, s)' /\ Changes(d, s)' \subseteq 1 .. last
  BY <1>1, <1>2 DEF Changes
<1>4. Max(Changes(d, s)') = last
  BY <1>3, LastIs
<1>5. Agreed(d, s)' = entry.value
  BY <1>2, <1>3, <1>4 DEF Agreed
<1>6. QED BY <1>1, <1>5 DEF Labelled

LEMMA LabelByAction ==
  ASSUME ReviewInv, LabelInv, NEW a \in Reviewers, NEW d \in Drafts,
         NEW entry \in Entries, Action(a, d, entry)
  PROVE  NoneSuggested(d)' /\ \A s \in Symbols : Labelled(d, s)'
<1>1. /\ log'[d] = Append(log[d], entry)
      /\ \A s \in Symbols : OfDraft(d, s)' <=> OfDraft(d, s)
  BY DEF Action, Acted, SameRows
<1>2. ASSUME NEW z \in Symbols, entry.target # z, symbol'[d][z] = symbol[d][z]
      PROVE  Labelled(d, z)'
  <2>1. PlacesOf(d, z)' = PlacesOf(d, z) /\ \A k \in DOMAIN log[d] : log'[d][k] = log[d][k]
    BY <1>1, <1>2, OtherEntry
  <2>2. \A k \in PlacesOf(d, z) : log'[d][k] = log[d][k]
    BY <2>1 DEF PlacesOf
  <2>3. Labelled(d, z)
    BY DEF LabelInv
  <2>4. QED BY <1>1, <1>2, <2>1, <2>2, <2>3, LabelStays
<1>3. ASSUME NEW s \in Symbols, NEW o \in DOMAIN Decision, Decides(d, entry, s, o)
      PROVE  NoneSuggested(d)' /\ \A z \in Symbols : Labelled(d, z)'
  <2>1. /\ entry.target = s /\ review'[d].status = "pending"
        /\ \A z \in Symbols \ {s} : symbol'[d][z] = symbol[d][z]
    BY <1>3 DEF Decides, Entry
  <2>2. Labelled(d, s)'
    BY <1>1, <1>3, LabelDecided
  <2>3. QED BY <1>2, <2>1, <2>2 DEF NoneSuggested
<1>4. ASSUME NEW s \in Symbols, Reopens(d, entry, s)
      PROVE  NoneSuggested(d)' /\ \A z \in Symbols : Labelled(d, z)'
  <2>1. /\ entry.target = s /\ review'[d].status = "pending"
        /\ \A z \in Symbols \ {s} : symbol'[d][z] = symbol[d][z]
    BY <1>4 DEF Reopens
  <2>2. Labelled(d, s)'
    BY <1>1, <1>4, LabelReopened
  <2>3. QED BY <1>2, <2>1, <2>2 DEF NoneSuggested
<1>5. CASE Aside(d, entry) \/ \E key \in Keys : Places(d, entry, key)
  <2>1. /\ review'[d].status = "pending" /\ symbol'[d] = symbol[d]
        /\ \A z \in Symbols : entry.target # z
    BY <1>5 DEF Aside, Places
  <2>2. QED BY <1>2, <2>1 DEF NoneSuggested
<1>6. CASE Confirms(d, entry)
  <2>1. /\ symbol'[d] = symbol[d] /\ Unresolved(d) = {}
        /\ \A z \in Symbols : entry.target # z
    BY <1>6 DEF Confirms
  <2>2. \A s \in Symbols : OfDraft(d, s) => symbol[d][s].status # "suggested"
    BY <2>1 DEF Unresolved
  <2>3. NoneSuggested(d)'
    BY <1>1, <2>1, <2>2 DEF NoneSuggested
  <2>4. QED BY <1>2, <2>1, <2>3
<1>7. QED BY <1>3, <1>4, <1>5, <1>6 DEF Action

LEMMA LabelStep ==
  ASSUME ReviewInv, DecidedInv, LabelInv, [Next]_vars
  PROVE  LabelInv'
<1>1. CASE UNCHANGED reviewVars /\ DraftsStay
  BY <1>1, LabelAtRest
<1>2. CASE \/ \E a \in Reviewers : UNCHANGED <<pipelineVars, review, log>>
           \/ Watched
  <2>1. UNCHANGED <<symbol, review, log>>
    BY <1>2 DEF Watched
  <2>2. \A d \in Drafts, s \in Symbols : OfDraft(d, s)' <=> OfDraft(d, s)
    BY <2>1 DEF OfDraft
  <2>3. QED BY <2>1, <2>2, LabelsStay DEF LabelInv
<1>3. CASE Marked
  <2>1. /\ UNCHANGED <<review, log>>
        /\ \A d \in Drafts, s \in Symbols : OfDraft(d, s)' <=> OfDraft(d, s)
        /\ \A d \in Drafts, s \in Symbols :
             \/ symbol'[d][s] = symbol[d][s]
             \/ /\ symbol'[d][s].status \in {"stale", "conflict"}
                /\ symbol'[d][s].relation = symbol[d][s].relation
    BY <1>3 DEF Marked, SameRows, reviewVars
  <2>2. QED BY <2>1, LabelsStay DEF LabelInv
<1>4. ASSUME NEW a \in Reviewers, NEW d \in Drafts, NEW entry \in Entries,
             Action(a, d, entry)
      PROVE  LabelInv'
  <2>1. NoneSuggested(d)' /\ \A s \in Symbols : Labelled(d, s)'
    BY <1>4, LabelByAction
  <2>2. /\ \A e \in Drafts, s \in Symbols : OfDraft(e, s)' <=> OfDraft(e, s)
        /\ \A e \in Drafts \ {d} :
             log'[e] = log[e] /\ review'[e] = review[e] /\ symbol'[e] = symbol[e]
    BY <1>4 DEF Action, Acted, SameRows
  <2>3. \A e \in Drafts \ {d} : NoneSuggested(e)' /\ \A s \in Symbols : Labelled(e, s)'
    BY <2>2, LabelsStay
  <2>4. QED BY <2>1, <2>3 DEF LabelInv
<1>5. QED BY <1>1, <1>2, <1>3, <1>4, Steps

-----------------------------------------------------------------------------
(* What a report makes of the trails and the rows it has read.             *)

\* A confirmation ends an audit trail.
Ended(d) == \A k \in DOMAIN log[d] : log[d][k].action = "draft_confirmed" =>
              k = Len(log[d]) /\ review[d].status = "confirmed"
EndInv == \A d \in Drafts : Ended(d)

LEMMA EndByAction ==
  ASSUME ReviewInv, EndInv, NEW a \in Reviewers, NEW d \in Drafts,
         NEW entry \in Entries, Action(a, d, entry)
  PROVE  Ended(d)'
<1>1. /\ DOMAIN log'[d] = 1 .. Len(log[d]) + 1 /\ Len(log'[d]) = Len(log[d]) + 1
      /\ log'[d][Len(log[d]) + 1] = entry /\ Len(log[d]) \in Nat
      /\ DOMAIN log[d] = 1 .. Len(log[d])
      /\ \A k \in 1 .. Len(log[d]) : log'[d][k] = log[d][k]
  BY Appended DEF Action, Acted, ReviewInv, DeskTypes
<1>2. review[d].status # "confirmed"
  BY DEF Action, Acted, May, Current
<1>3. \A k \in 1 .. Len(log[d]) : log'[d][k].action # "draft_confirmed"
  BY <1>1, <1>2 DEF EndInv, Ended
<1>4. entry.action = "draft_confirmed" => review'[d].status = "confirmed"
  <2>1. ASSUME NEW s \in Symbols, NEW o \in DOMAIN Decision, Decides(d, entry, s, o)
        PROVE  entry.action # "draft_confirmed"
    BY <2>1, ActionNames DEF Decides, Entry, Decision
  <2>2. QED BY <2>1 DEF Action, Reopens, Aside, Places, Confirms
<1>5. \A k \in 1 .. Len(log[d]) + 1 : k \in 1 .. Len(log[d]) \/ k = Len(log[d]) + 1
  BY <1>1
<1>6. QED BY <1>1, <1>3, <1>4, <1>5 DEF Ended

LEMMA EndStep ==
  ASSUME ReviewInv, EndInv, [Next]_vars
  PROVE  EndInv'
<1>1. ASSUME NEW a \in Reviewers, NEW d \in Drafts, NEW entry \in Entries,
             Action(a, d, entry)
      PROVE  EndInv'
  <2>1. Ended(d)'
    BY <1>1, EndByAction
  <2>2. \A e \in Drafts \ {d} : log'[e] = log[e] /\ review'[e] = review[e]
    BY <1>1 DEF Action, Acted
  <2>3. QED BY <2>1, <2>2 DEF EndInv, Ended
<1>2. CASE UNCHANGED <<review, log>>
  BY <1>2 DEF EndInv, Ended
<1>3. QED BY <1>1, <1>2, Steps DEF Marked, Watched

LEMMA DecisionsArePlaces ==
  ASSUME ReviewInv, NEW d \in Drafts, NEW s \in Symbols
  PROVE  /\ DecisionsRead(d, s) \subseteq Decisions(d, s)
         /\ Decisions(d, s) \subseteq DOMAIN log[d]
         /\ DOMAIN log[d] = 1 .. Len(log[d]) /\ Len(log[d]) \in Nat
BY PlacesAreNumbers DEF DecisionsRead, WasRead, Decisions, PlacesOf

\* The status of a candidate that is neither suggested nor marked.
LEMMA StatusOf ==
  ASSUME ReviewInv, NEW d \in Drafts, NEW s \in Symbols, OfDraft(d, s),
         symbol[d][s].status \notin {"suggested", "stale", "conflict"}
  PROVE  symbol[d][s].status \in {"accepted", "rejected"}
<1>1. symbol[d][s] \in SymbolRows
  BY DEF ReviewInv, DeskTypes, OfDraft
<1>2. QED BY <1>1 DEF SymbolRows, Statuses

\* A sample says what the whole trail says, though the report may have read
\* less of it: the row was read later and says the same.
LEMMA SampleIsDecided ==
  ASSUME ReviewInv, LabelInv, NEW c \in Samples
  PROVE  LET d == c[1]
             s == c[2]
         IN /\ Decisions(d, s) # {}
            /\ Sample(d, s).outcome = LastWord(d, s)
            /\ Sample(d, s).actual
                 = (IF LastWord(d, s) = "accepted" THEN Agreed(d, s) ELSE NoMatch)
            /\ Sample(d, s).changed => Changes(d, s) # {}
<1> DEFINE d == c[1]
           s == c[2]
<1>1. d \in Drafts /\ s \in Symbols /\ OfDraft(d, s) /\ Exclusion(d, s) = "none"
  BY DEF Samples, Candidates
<1> HIDE DEF d, s
<1>2. /\ symbol[d][s].status \notin {"suggested", "stale", "conflict"}
      /\ DecisionsRead(d, s) # {} /\ FinalDecision(d, s).value = symbol[d][s].status
  BY <1>1 DEF Exclusion
<1>3. symbol[d][s].status \in {"accepted", "rejected"}
  BY <1>1, <1>2, StatusOf
<1>4. Decisions(d, s) # {}
  BY <1>1, <1>2, DecisionsArePlaces
<1>5. LastWord(d, s) = symbol[d][s].status /\ symbol[d][s].relation = Agreed(d, s)
  BY <1>1, <1>3, <1>4 DEF LabelInv, Labelled
<1>6. Sample(d, s).outcome = LastWord(d, s)
  BY <1>2, <1>5 DEF Sample
<1>7. Sample(d, s).actual
        = (IF LastWord(d, s) = "accepted" THEN Agreed(d, s) ELSE NoMatch)
  BY <1>2, <1>5 DEF Sample
<1>8. ASSUME Sample(d, s).changed
      PROVE  Changes(d, s) # {}
  <2>1. WasRead(d, Changes(d, s)) # {} \/ symbol[d][s].relation # Verdict[s].relation
    BY <1>8 DEF Sample
  <2>2. QED BY <1>5, <2>1 DEF WasRead, Agreed
<1>9. QED BY <1>4, <1>6, <1>7, <1>8 DEF d, s

\* A confirmation that was read is the last entry, so all of the trail was.
LEMMA ConfirmedIsComplete ==
  ASSUME ReviewInv, LabelInv, EndInv, ReportInv, NEW c \in Candidates,
         ConfirmationRead(c[1]), Decisions(c[1], c[2]) # {},
         symbol[c[1]][c[2]].status \notin {"stale", "conflict"}
  PROVE  c \in Samples
<1> DEFINE d == c[1]
           s == c[2]
<1>1. d \in Drafts /\ s \in Symbols /\ OfDraft(d, s)
  BY DEF Candidates
<1>2. /\ ConfirmationRead(d) /\ Decisions(d, s) # {}
      /\ symbol[d][s].status \notin {"stale", "conflict"}
  OBVIOUS
<1>3. Exclusion(d, s) = "none" => c \in Samples
  BY DEF Samples
<1> HIDE DEF d, s
<1>4. /\ review[d].status = "confirmed" /\ Len(log[d]) <= metrics.seen[d]
      /\ metrics.seen[d] \in Nat
  BY <1>1, <1>2 DEF ConfirmationRead, EndInv, Ended, ReportInv
<1>5. DecisionsRead(d, s) = Decisions(d, s)
  <2>1. \A k \in 1 .. Len(log[d]) : k <= metrics.seen[d]
    BY <1>1, <1>4, DecisionsArePlaces
  <2>2. \A k \in Decisions(d, s) : k <= metrics.seen[d]
    BY <1>1, <2>1, DecisionsArePlaces
  <2>3. QED BY <2>2 DEF DecisionsRead, WasRead
<1>6. symbol[d][s].status \in {"accepted", "rejected"}
  BY <1>1, <1>2, <1>4, StatusOf DEF LabelInv, NoneSuggested
<1>7. FinalDecision(d, s).value = symbol[d][s].status
  BY <1>1, <1>2, <1>5, <1>6 DEF FinalDecision, LastWord, LabelInv, Labelled
<1>8. QED BY <1>2, <1>3, <1>4, <1>5, <1>6, <1>7 DEF Exclusion

\* The metrics count what people decided, though the trails and the rows are
\* read apart: the row of a confirmed draft says what its whole trail says
\* (LabelInv), and nothing follows a confirmation (EndInv).
THEOREM MetricsCount == Spec => []MetricsCountDecisions
<1> DEFINE Inv == ReviewInv /\ DecidedInv /\ LabelInv /\ EndInv /\ ReportInv
<1>1. Init => Inv
  <2> SUFFICES ASSUME Init
               PROVE  Inv
    OBVIOUS
  <2>1. ReviewInv /\ ReportInv
    BY InitialState, InitialReport
  <2>2. \A d \in Drafts : /\ review[d].status = "pending" /\ review[d].mapped = {}
                          /\ log[d] = << >>
                          /\ \A s \in Symbols : symbol[d][s] = NoRow
    BY DEF Init, PipelineInit, Untouched, NoState, Drafts
  <2>3. DecidedInv
    BY <2>2 DEF DecidedInv, DraftDecided, OfDraft
  <2>4. LabelInv
    BY <2>2 DEF LabelInv, NoneSuggested, Labelled, OfDraft
  <2>5. EndInv
    BY <2>2 DEF EndInv, Ended
  <2>6. QED BY <2>1, <2>3, <2>4, <2>5
<1>2. Inv /\ [Next]_vars => Inv'
  BY DecidedStep, LabelStep, EndStep, ReportInvStep
<1>3. Inv => MetricsCountDecisions
  <2> SUFFICES ASSUME Inv, NEW c \in Candidates
               PROVE  LET d == c[1]
                          s == c[2]
                      IN /\ c \in Samples =>
                              /\ Decisions(d, s) # {}
                              /\ Sample(d, s).outcome = LastWord(d, s)
                              /\ Sample(d, s).actual
                                   = (IF LastWord(d, s) = "accepted"
                                      THEN Agreed(d, s) ELSE NoMatch)
                              /\ Sample(d, s).changed => Changes(d, s) # {}
                         /\ ConfirmationRead(d) /\ Decisions(d, s) # {}
                              /\ symbol[d][s].status \notin {"stale", "conflict"}
                            => c \in Samples
    BY DEF MetricsCountDecisions
  <2>1. QED BY SampleIsDecided, ConfirmedIsComplete
<1>4. QED BY <1>1, <1>2, <1>3, PTL DEF Spec
=============================================================================
