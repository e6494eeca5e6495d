---------------------------- MODULE ImportReview ----------------------------
(***************************************************************************)
(* The desk where administrators review the drafts the pipeline saved      *)
(* (imports/review.py, api/import_reviews.py), and the metrics computed    *)
(* from their decisions (imports/review_metrics.py).                       *)
(*                                                                         *)
(* A reviewer loads a workspace, looks at it and sends one action with the *)
(* revision the workspace showed.  Loading takes several statements, and a *)
(* statement sees what is committed when it starts.                        *)
(***************************************************************************)
EXTENDS PipelineRuns, FiniteSetsExt

CONSTANTS
  Reviewers,    \* administrators at the desk
  Relations,    \* the kinds of relation of a component and a symbol
  NoMatch       \* the label of a symbol that is not one of the component's

Drafts == Runs

\* The matcher proposes a relation for a symbol; a symbol has neither the id
\* of a run nor the label of a specification.
ASSUME ReviewAssumption ==
  /\ \A s \in Symbols : Verdict[s].relation \in Relations
  /\ Symbols \cap (Runs \cup Keys) = {}

VARIABLES
  review,   \* import_review_states
  log,      \* import_review_actions of a draft, in the order of revisions
  desk,     \* what a reviewer has loaded
  metrics   \* a report on the way, with what it has read of the audit trails

reviewVars == <<review, log, desk>>
vars == <<pipelineVars, reviewVars, metrics>>

\* A draft nobody has touched has no row: it counts as pending, revision 1.
NoState == [status |-> "pending", revision |-> 1, identity |-> NoRun,
            mapped |-> {}, issue |-> FALSE]
Untouched(d) == [NoState EXCEPT !.identity = d]
Away == [pc |-> "away"]
NoReport == [pc |-> "idle", seen |-> [d \in Drafts |-> 0]]

Init ==
  /\ PipelineInit
  /\ review = [d \in Drafts |-> Untouched(d)]
  /\ log = [d \in Drafts |-> << >>]
  /\ desk = [a \in Reviewers |-> Away]
  /\ metrics = NoReport

SavedDrafts == table["draft"]

\* The facts of a draft's artifact row: those of the first run that saved
\* the page.
UnmappedKeys(d) ==
  LET first == run[artifact[run[d].page]] IN Unmapped[first.parser][first.page]

Offered(d) == {i \in table["identity"] : run[i].page = run[d].page}

-----------------------------------------------------------------------------
(* ImportReviewRepository.get: symbols, then the state, then the actions.  *)

LoadSymbols(a, d) ==
  /\ d \in SavedDrafts
  /\ desk[a].pc = "away"
  /\ left["action"] > 0
  /\ desk' = [desk EXCEPT ![a] =
                [pc |-> "state", draft |-> d, symbols |-> symbol[d],
                 revision |-> 0, trail |-> 0]]
  /\ UNCHANGED <<pipelineVars, review, log>>

LoadState(a) ==
  /\ desk[a].pc = "state"
  /\ desk' = [desk EXCEPT ![a].pc = "actions",
                          ![a].revision = review[desk[a].draft].revision]
  /\ UNCHANGED <<pipelineVars, review, log>>

LoadActions(a) ==
  /\ desk[a].pc = "actions"
  /\ desk' = [desk EXCEPT ![a].pc = "ready", ![a].trail = Len(log[desk[a].draft])]
  /\ UNCHANGED <<pipelineVars, review, log>>

\* The reviewer leaves, or is refused and loads the workspace anew.
Leave(a) ==
  /\ desk[a].pc = "ready"
  /\ desk' = [desk EXCEPT ![a] = Away]
  /\ UNCHANGED <<pipelineVars, review, log>>

-----------------------------------------------------------------------------
(* The mutations: _lock_state, a change, _record.                          *)

OnlyPending(a, d) == review[d].status # "confirmed"   \* no revision check

\* The state is locked; the revision must be the one the reviewer saw.
Current(a, d) ==
  /\ review[d].revision = desk[a].revision
  /\ review[d].status # "confirmed"

May(a, d) ==
  /\ desk[a].pc = "ready"
  /\ desk[a].draft = d
  /\ Current(a, d)

Entry(action, target, value) ==
  [action |-> action, target |-> target, value |-> value]

\* The change of the state and its entry in the audit trail, and then the
\* page reloads the workspace.
Recorded(a, d, state, entry) ==
  /\ Disturb("action")
  /\ review' = [review EXCEPT ![d] = [state EXCEPT !.revision = @ + 1]]
  /\ log' = [log EXCEPT ![d] = Append(@, entry)]
  /\ desk' = [desk EXCEPT ![a] = Away]

OfDraft(d, s) == symbol[d][s] # NoRow
beside == <<index, worker, artifact, table>>

Decision == [accepted |-> "enrichment_accepted", rejected |-> "enrichment_rejected"]

\* A stale row is refused with an error the handler does not expect.
DecideSymbol(a, d, s, outcome) ==
  /\ May(a, d)
  /\ OfDraft(d, s)
  /\ symbol[d][s].status # "stale"
  /\ symbol' = [symbol EXCEPT ![d][s].status = outcome]
  /\ Recorded(a, d, review[d], Entry(Decision[outcome], s, outcome))
  /\ UNCHANGED beside

ChangedOnly(row, relation) == [row EXCEPT !.relation = relation]   \* still decided

Changed(row, relation) == [row EXCEPT !.relation = relation, !.status = "suggested"]

\* The relation is part of the row's key with the symbol and the revision.
ChangeRelation(a, d, s, relation) ==
  /\ May(a, d)
  /\ OfDraft(d, s)
  /\ symbol[d][s].status # "stale"
  /\ symbol[d][s].relation # relation
  /\ symbol' = [symbol EXCEPT ![d][s] = Changed(@, relation)]
  /\ Recorded(a, d, review[d], Entry("enrichment_relation_changed", s, relation))
  /\ UNCHANGED beside

SelectIdentity(a, d, i) ==
  /\ May(a, d)
  /\ i \in Offered(d) \ {review[d].identity}
  /\ Recorded(a, d, [review[d] EXCEPT !.identity = i], Entry("identity_selected", i, i))
  /\ UNCHANGED <<beside, symbol>>

MapSpecification(a, d, key) ==
  /\ May(a, d)
  /\ key \in UnmappedKeys(d)
  /\ Recorded(a, d, [review[d] EXCEPT !.mapped = @ \cup {key}],
              Entry("specification_mapped", key, key))
  /\ UNCHANGED <<beside, symbol>>

MarkParserIssue(a, d) ==
  /\ May(a, d)
  /\ Recorded(a, d, [review[d] EXCEPT !.issue = TRUE], Entry("parser_issue_marked", d, d))
  /\ UNCHANGED <<beside, symbol>>

Unresolved(d) ==
  {s \in Symbols : OfDraft(d, s) /\ symbol[d][s].status \in {"suggested", "stale", "conflict"}}

Confirm(a, d) ==
  /\ May(a, d)
  /\ Unresolved(d) = {}
  /\ UnmappedKeys(d) \subseteq review[d].mapped
  /\ Recorded(a, d, [review[d] EXCEPT !.status = "confirmed"],
              Entry("draft_confirmed", d, d))
  /\ UNCHANGED <<beside, symbol>>

-----------------------------------------------------------------------------
(* EnrichmentLifecycleRepository: marks that touch neither the state nor   *)
(* the audit trail.  The tests call it; nothing in the package does yet.   *)

Outdated(row, revision) ==
  row # NoRow /\ row.revision # revision /\ row.status \in {"suggested", "accepted", "conflict"}

MarkStale(revision) ==
  /\ Disturb("mark")
  /\ symbol' = [d \in Drafts |-> [s \in Symbols |->
                  IF Outdated(symbol[d][s], revision)
                  THEN [symbol[d][s] EXCEPT !.status = "stale"] ELSE symbol[d][s]]]
  /\ symbol' # symbol
  /\ UNCHANGED <<index, worker, artifact, table, reviewVars>>

MarkConflict(d, s) ==
  /\ Disturb("mark")
  /\ OfDraft(d, s)
  /\ symbol' = [symbol EXCEPT ![d][s].status = "conflict"]
  /\ UNCHANGED <<index, worker, artifact, table, reviewVars>>

Act(a, d) ==
  \/ \E s \in Symbols : \/ \E o \in DOMAIN Decision : DecideSymbol(a, d, s, o)
                        \/ \E q \in Relations : ChangeRelation(a, d, s, q)
  \/ \E i \in Runs : SelectIdentity(a, d, i)
  \/ \E key \in Keys : MapSpecification(a, d, key)
  \/ MarkParserIssue(a, d)
  \/ Confirm(a, d)

DeskNext ==
  \/ PipelineNext /\ UNCHANGED reviewVars
  \/ \E a \in Reviewers :
       \/ \E d \in Drafts : LoadSymbols(a, d) \/ Act(a, d)
       \/ LoadState(a) \/ LoadActions(a) \/ Leave(a)
  \/ \E c \in Contents : MarkStale(Manifest[c].revision)
  \/ \E d \in Drafts, s \in Symbols : MarkConflict(d, s)

-----------------------------------------------------------------------------
(* Human-labelled metrics: ReviewMetricsRepository.snapshot reads the      *)
(* audit trails, then the rows with the status of their drafts, and        *)
(* build_human_labelled_report works on what the two statements returned.  *)

ReadTrails ==
  /\ metrics = NoReport
  /\ Disturb("report")
  /\ metrics' = [pc |-> "rows", seen |-> [d \in Drafts |-> Len(log[d])]]
  /\ UNCHANGED <<index, worker, rows, reviewVars>>

\* The report is written from the rows as they are when they are read.
ReadRows ==
  /\ metrics.pc = "rows"
  /\ metrics' = NoReport
  /\ UNCHANGED <<pipelineVars, reviewVars>>

Next ==
  \/ DeskNext /\ UNCHANGED metrics
  \/ ReadTrails \/ ReadRows

Spec == Init /\ [][Next]_vars

\* Where the audit trail of a draft speaks of a symbol, and where it decides.
PlacesOf(d, s) == {k \in DOMAIN log[d] : log[d][k].target = s}
Decisions(d, s) ==
  {k \in PlacesOf(d, s) : log[d][k].action \in {Decision[o] : o \in DOMAIN Decision}}
Changes(d, s) ==
  {k \in PlacesOf(d, s) : log[d][k].action = "enrichment_relation_changed"}

\* What the report has read of it.
WasRead(d, places) == {k \in places : k <= metrics.seen[d]}
DecisionsRead(d, s) == WasRead(d, Decisions(d, s))
FirstDecision(d, s) == log[d][Min(DecisionsRead(d, s))]   \* decisions[0]
FinalDecision(d, s) == log[d][Max(DecisionsRead(d, s))]

Candidates == {c \in Drafts \X Symbols : OfDraft(c[1], c[2])}

\* The reason a candidate is left out of the sample, in the report's order.
Exclusion(d, s) ==
  LET status == symbol[d][s].status IN
  CASE review[d].status # "confirmed" -> "pending_or_missing_confirmation"
    [] status \in {"stale", "conflict"} -> status
    [] status = "suggested" -> "unresolved"
    [] DecisionsRead(d, s) = {} -> "unreviewed"
    [] FinalDecision(d, s).value # status -> "lifecycle_mismatch"
    [] OTHER -> "none"

Samples == {c \in Candidates : Exclusion(c[1], c[2]) = "none"}

\* HumanLabelledSample, without the ids and the versions.
Sample(d, s) ==
  LET outcome == FinalDecision(d, s).value IN
  [outcome |-> outcome,
   actual |-> IF outcome = "accepted" THEN symbol[d][s].relation ELSE NoMatch,
   changed |-> \/ WasRead(d, Changes(d, s)) # {}
               \/ symbol[d][s].relation # Verdict[s].relation]

-----------------------------------------------------------------------------

SymbolRows ==
  [status : Statuses, relation : Relations,
   revision : {Manifest[c].revision : c \in Contents}]
ReviewRows ==
  [status : {"pending", "confirmed"}, revision : Nat, identity : Runs,
   mapped : SUBSET Keys, issue : BOOLEAN]
Targets == Symbols \cup Runs \cup Keys
Actions == {Decision[o] : o \in DOMAIN Decision} \cup
  {"enrichment_relation_changed", "identity_selected", "specification_mapped",
   "parser_issue_marked", "draft_confirmed"}
Entries == [action : Actions, target : Targets,
            value : Targets \cup Relations \cup DOMAIN Decision]
Workspaces ==
  [pc : {"state", "actions", "ready"}, draft : Drafts,
   symbols : [Symbols -> SymbolRows \cup {NoRow}], revision : Nat, trail : Nat]

\* The types of the pipeline and of the desk.
DeskTypes ==
  /\ PipelineTypes
  /\ symbol \in [Drafts -> [Symbols -> SymbolRows \cup {NoRow}]]
  /\ review \in [Drafts -> ReviewRows]
  /\ log \in [Drafts -> Seq(Entries)]
  /\ \A d \in Drafts :
       /\ review[d].revision = 1 + Len(log[d])
       /\ log[d] # << >> => d \in SavedDrafts
  /\ desk \in [Reviewers -> Workspaces \cup {Away}]
  /\ \A a \in Reviewers : desk[a] # Away =>
       LET d == desk[a].draft IN
       /\ d \in SavedDrafts
       /\ desk[a].revision <= review[d].revision
       /\ desk[a].trail <= Len(log[d])

\* Type invariant: rows have their columns, a state's revision counts the
\* entries of its audit trail, a workspace shows a saved draft as it is or
\* as it was, and a report has read nothing that was not written.
TypeOK ==
  /\ DeskTypes
  /\ metrics \in [pc : {"idle", "rows"}, seen : [Drafts -> Nat]]
  /\ \A d \in Drafts : metrics.seen[d] <= Len(log[d])

\* A confirmed draft was decided by people where the matcher asked for it:
\* a symbol it proposed, or whose relation a reviewer changed, has a later
\* decision in the audit trail, and every specification the artifact leaves
\* unmapped has been given a place.  No action follows a confirmation.
ConfirmedIsDecided ==
  \A d \in Drafts : review[d].status = "confirmed" =>
    /\ \A s \in Symbols : OfDraft(d, s) =>
         \/ Verdict[s].decision # "review_required" /\ PlacesOf(d, s) = {}
         \/ \E k \in PlacesOf(d, s), o \in DOMAIN Decision :
              /\ log[d][k] = Entry(Decision[o], s, o)
              /\ \A j \in PlacesOf(d, s) : j <= k
    /\ \A key \in UnmappedKeys(d) : \E k \in DOMAIN log[d] :
         log[d][k].action = "specification_mapped" /\ log[d][k].target = key
    /\ log[d][Len(log[d])].action = "draft_confirmed"

\* The step is an action of a on d.
Acts(a, d) ==
  /\ log'[d] # log[d]
  /\ desk[a].pc = "ready" /\ desk'[a] = Away
  /\ desk[a].draft = d

\* A reviewer acts with the whole audit trail in view: nobody's action comes
\* between the last one a workspace shows and the action sent from it.
ActsOnWholeTrail ==
  [][\A a \in Reviewers, d \in Drafts :
       Acts(a, d) => desk[a].trail = Len(log[d])]_vars

\* Optimistic locking as the roadmap has it: an action is taken only on the
\* symbols the workspace showed.  (Marks of the curator apart.)
DecidedAsShown ==
  [][\A a \in Reviewers, d \in Drafts :
       Acts(a, d) =>
         \A s \in Symbols : OfDraft(d, s) =>
           \/ desk[a].symbols[s] = symbol[d][s]
           \/ symbol[d][s].status \in {"stale", "conflict"}]_vars

\* The relation the reviewers last agreed to, and their last decision.
Agreed(d, s) ==
  IF Changes(d, s) = {} THEN Verdict[s].relation ELSE log[d][Max(Changes(d, s))].value
LastWord(d, s) == log[d][Max(Decisions(d, s))].value

ConfirmationRead(d) ==
  \E k \in DOMAIN log[d] : k <= metrics.seen[d] /\ log[d][k].action = "draft_confirmed"

\* A report counts what people decided, whatever commits between its two
\* statements.  A sample carries the last decision of its whole audit trail
\* and the relation the reviewers last agreed to, and is called changed only
\* if they did change it.  And a draft whose confirmation the report has read
\* is complete: every symbol somebody decided about is a sample, unless the
\* curator has marked it.
MetricsCountDecisions ==
  metrics.pc = "rows" => \A c \in Candidates :
    LET d == c[1]
        s == c[2]
    IN /\ c \in Samples =>
            /\ Decisions(d, s) # {}
            /\ Sample(d, s).outcome = LastWord(d, s)
            /\ Sample(d, s).actual
                 = (IF LastWord(d, s) = "accepted" THEN Agreed(d, s) ELSE NoMatch)
            /\ Sample(d, s).changed => Changes(d, s) # {}
       /\ ConfirmationRead(d) /\ Decisions(d, s) # {}
            /\ symbol[d][s].status \notin {"stale", "conflict"}
          => c \in Samples
=============================================================================
