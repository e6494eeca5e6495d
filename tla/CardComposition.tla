--------------------------- MODULE CardComposition ---------------------------
(***************************************************************************)
(* The judgement of an imported page and the draft composed from it:       *)
(* imports/pipeline/evaluation/quality.py, composition/composer.py and     *)
(* composition/legacy.py, with the checks of models/quality.py and         *)
(* models/composition.py.                                                  *)
(*                                                                         *)
(* Scores are basis points, as in the code.  An issue has a code, a        *)
(* severity and the evidence it cites.  A case is everything the earlier   *)
(* stages say of one page.                                                 *)
(***************************************************************************)
EXTENDS KicadMatching

CONSTANTS
  HintWords,    \* per missing item, the words that hint at it in a page
  PathKinds,    \* what a taxonomy path is about: "power", "range", ...
  RejectBelow,  \* quality_reject_threshold, 500 by default
  ReadyFrom     \* quality_ready_threshold, 800 by default

ASSUME ThresholdAssumption ==
  /\ RejectBelow \in 300..700
  /\ ReadyFrom \in 700..950
  /\ RejectBelow < ReadyFrom

CandidateEvidence(m) == EvidenceIn(m.breakdown)
MatchedEvidence(ms) == UNION {ToSet(CandidateEvidence(m)) : m \in ms}

\* The headings of sections that were not mapped; their warnings cite them.
UnknownHeadings(doc) ==
  [i \in DOMAIN Unmapped(doc) |->
     [lines |-> <<doc.over[Unmapped(doc)[i].evidence[1].lines[1]]>>,
      method |-> "unknown-heading"]]

\* _all_evidence, _all_primary_evidence.  ms is the set of scored symbols.
AllEvidence(doc, facts, norm, identity, ms) ==
  ToSet(SourceEvidence(facts, norm, identity) \o UnknownHeadings(doc))
  \cup UNION {ToSet(EvidenceIn(facts[k])) :
                k \in {"titles", "model", "part_number", "manufacturers", "interfaces",
                       "primary_ics", "images"}}
  \cup MatchedEvidence(ms)

Accepted(c) == {m \in c.matched : m.decision = "auto_accepted"}
Proposed(c) == {m \in c.matched : m.decision = "review_required"}

-----------------------------------------------------------------------------
(* quality.py                                                              *)

Issue(code, severity, evidence) ==
  [code |-> code, severity |-> severity, evidence |-> evidence]

\* _dimension
Scale(score, issues) == [score |-> Max({0, Min({1000, score})}), issues |-> issues]

\* _matching_evidence
Hinted(c, item) ==
  {e \in c.evidence : RawWords(c.doc, e) \cap HintWords[item] # {}}

\* Something missing is a warning when the page hints at it, so that the
\* extractor missed it, and a suggestion when the source does not have it.
Missing(c, item) ==
  LET hints == Hinted(c, item) IN
  Issue(<<"missing", item>>, IF hints # {} THEN "warning" ELSE "suggestion", hints)

Hints(c, item) == Hinted(c, item) # {}

Confident(c) ==
  LET cited == ToSet(c.identity.name.evidence) IN
  CASE c.identity.status = "auto_resolved" -> Scale(1000, {})
    [] c.identity.status = "review_required" ->
         Scale(650, {Issue(<<"identity_review_required">>, "warning", cited)})
    [] OTHER -> Scale(200, {Issue(<<"identity_unresolved">>, "blocking", cited)})

Described(c) ==
  LET summary == c.facts.summaries # << >>
      details == c.facts.descriptions # << >>
  IN
  IF summary /\ details THEN Scale(1000, {})
  ELSE Scale(IF summary \/ details THEN 750
             ELSE IF Hints(c, "description") THEN 250 ELSE 550,
             {Missing(c, "description")})

\* _profile_expectations
Expectations(c) ==
  LET about(kind) == \E s \in ToSet(c.norm.specifications) : kind \in PathKinds[s.path]
      bus == c.norm.interfaces # << >>
      item(name, met) == [name |-> name, met |-> met]
  IN
  CASE c.norm.profile = "display" ->
         <<item("display.interface", bus), item("display.resolution", about("resolution"))>>
    [] c.norm.profile = "sensor" ->
         <<item("sensor.quantity", about("quantity")), item("sensor.range", about("range"))>>
    [] c.norm.profile = "board" ->
         <<item("board.mcu", c.norm.primary_ics # << >>),
           item("board.power", about("power")), item("board.interface", bus)>>
    [] c.norm.profile = "actuator" ->
         <<item("actuator.power", about("power")), item("actuator.control", bus)>>
    [] c.norm.profile = "communication" ->
         <<item("communication.interface", bus),
           item("communication.frequency", about("frequency"))>>
    [] OTHER -> << >>

Mean(scores) == FoldLeft(LAMBDA n, s : n + s, 0, scores) \div Len(scores)

\* _specifications
Covered(c) ==
  LET expected == Expectations(c)
      known == Len(c.norm.specifications)
      unmapped == c.norm.unmapped
      general == CASE known >= 2 -> 1000 [] known = 1 -> 850 [] OTHER -> 700
      unmet == {x.name : x \in {y \in ToSet(expected) : ~ y.met}}
  IN
  Scale(
    Mean((IF expected = << >> THEN <<general>>
          ELSE [i \in DOMAIN expected |->
                  IF expected[i].met THEN 1000
                  ELSE IF Hints(c, expected[i].name) THEN 250 ELSE 700])
         \o If(unmapped # << >>, Max({300, 1000 - 150 * Len(unmapped)}))),
    {Missing(c, x) : x \in unmet}
    \cup (IF expected = << >> /\ known = 0
            THEN {Issue(<<"specifications_source_missing">>, "suggestion", {})} ELSE {})
    \cup (IF unmapped # << >>
            THEN {Issue(<<"unmapped_specifications">>, "warning", ToSet(EvidenceIn(unmapped)))} ELSE {}))

PinsShown(c) ==
  IF c.identity.kind \notin {"module", "development_board", "connector"} \/ c.facts.pins # << >>
    THEN Scale(1000, {})
    ELSE Scale(IF Hints(c, "pinout") THEN 200 ELSE 750, {Missing(c, "pinout")})

\* _provenance: the evidence is of the page by construction of the extractor.
Sourced(c) ==
  Scale((IF c.evidence = {} THEN 0 ELSE IF c.revised THEN 1000 ELSE 750),
        (IF c.revised THEN {} ELSE {Issue(<<"source_revision_missing">>, "warning", {})})
        \cup (IF c.evidence # {} THEN {}
              ELSE {Issue(<<"provenance_missing">>, "blocking", {})}))

\* _conflicts
Doubts(c) ==
  LET extraction == ExtractWarnings(c.doc, c.facts)
      resolution == IdentityWarnings(c.norm, c.identity)
      many == Cardinality(Accepted(c)) > 1
      against == UNION {{<<m, n>> : n \in DOMAIN Negative(m.breakdown)} : m \in Proposed(c)}
      part(p) == Negative(p[1].breakdown)[p[2]]
      penalty(p) == Min({150, (0 - part(p).weight) \div 2})
  IN
  Scale(
    1000 - 350 * Cardinality(c.norm.conflicts) - 100 * Cardinality(extraction)
         - 120 * Cardinality(resolution) - (IF many THEN 500 ELSE 0)
         - MapThenSumSet(penalty, against),
    {Issue(<<"conflict", x.path>>, "blocking", ToSet(x.evidence)) : x \in c.norm.conflicts}
    \cup {Issue(<<"extraction", w>>, "warning", {}) : w \in extraction}
    \cup {Issue(<<"identity", w>>, "warning", ToSet(c.identity.name.evidence)) : w \in resolution}
    \cup (IF many THEN {Issue(<<"multiple_accepted">>, "blocking",
                              MatchedEvidence(Accepted(c)))} ELSE {})
    \cup {Issue(<<"enrichment", p[1].record.id, p[1].relation, part(p).rule>>, "warning",
                ToSet(part(p).evidence)) : p \in against})

\* _enrichment
Enriched(c) ==
  LET best(ms) == Max({m.confidence : m \in ms}) IN
  IF Accepted(c) # {} THEN Scale(best(Accepted(c)), {})
  ELSE IF Proposed(c) # {}
    THEN Scale(Min({850, best(Proposed(c))}),
               {Issue(<<"enrichment_review_required">>, "warning",
                      MatchedEvidence(Proposed(c)))})
  ELSE IF c.norm.primary_ics # << >>
    THEN Scale(400, {Issue(<<"expected_enrichment_missing">>, "warning",
                           ToSet(EvidenceIn(c.norm.primary_ics)))})
  ELSE Scale(1000, {})

\* _educational
Teaching(c) ==
  LET worth(present, weight) == IF present # << >> THEN weight ELSE 0
      score == worth(c.facts.summaries \o c.facts.descriptions, 250)
               + worth(c.facts.features, 200) + worth(c.facts.applications, 200)
               + worth(c.facts.usage, 200) + worth(c.facts.resources, 150)
  IN Scale(score, IF score >= 600 THEN {}
                  ELSE {Issue(<<"educational_content_limited">>, "suggestion", {})})

OfSeverity(issues, s) == {i \in issues : i.severity = s}

\* _publication
Publishable(c, issues) ==
  LET worth(test, n) == IF test THEN n ELSE 0 IN
  Scale(200 + (CASE c.identity.status = "auto_resolved" -> 300
                 [] c.identity.status = "review_required" -> 150 [] OTHER -> 0)
            + worth(c.facts.summaries \o c.facts.descriptions # << >>, 250)
            + worth(c.norm.specifications \o c.norm.unmapped # << >>, 150)
            + worth(c.revised, 100)
            - 400 * Cardinality(OfSeverity(issues, "blocking"))
            - 75 * Cardinality(OfSeverity(issues, "warning")), {})

\* A mutant of Route: warnings are not looked at.
RouteByScore(overall, issues) ==
  IF overall < RejectBelow \/ OfSeverity(issues, "blocking") # {} THEN "reject"
  ELSE IF overall < ReadyFrom THEN "manual_review"
  ELSE "ready_to_compose"

\* _route
Route(overall, issues) ==
  IF overall < RejectBelow \/ OfSeverity(issues, "blocking") # {} THEN "reject"
  ELSE IF overall < ReadyFrom \/ OfSeverity(issues, "warning") # {} THEN "manual_review"
  ELSE "ready_to_compose"

\* The dimensions but for the last, which counts the issues of the others.
Dimensions(c) ==
  <<[part |-> Confident(c), weight |-> 150], [part |-> Described(c), weight |-> 120],
    [part |-> Covered(c), weight |-> 150], [part |-> PinsShown(c), weight |-> 80],
    [part |-> Sourced(c), weight |-> 150], [part |-> Doubts(c), weight |-> 120],
    [part |-> Enriched(c), weight |-> 80], [part |-> Teaching(c), weight |-> 80]>>

IssuesIn(parts) == UNION {parts[i].part.issues : i \in DOMAIN parts}

\* The weighted mean of all of them.
Overall(parts, publication) ==
  FoldLeft(LAMBDA n, p : n + p.part.score * p.weight, 70 * publication, parts) \div 1000

\* _evaluate: a score that is too low is itself a reason to reject.
Report(c) ==
  LET parts == Dimensions(c)
      found == IssuesIn(parts)
      overall == Overall(parts, Publishable(c, found).score)
      low == overall < RejectBelow /\ OfSeverity(found, "blocking") = {}
      issues == found \cup (IF low THEN {Issue(<<"overall_below_reject">>, "blocking", {})}
                            ELSE {})
  IN [overall |-> overall, issues |-> issues, route |-> Route(overall, issues)]

\* What QualityReport refuses: two issues under one code, thresholds in the
\* wrong order, and a route that the score and the issues do not lead to.
ReportRefused(report) ==
  LET severities == {i.severity : i \in report.issues} IN
  \/ report.overall \notin 0 .. 1000
  \/ \E i, j \in report.issues : i # j /\ i.code = j.code
  \/ ~ (RejectBelow < ReadyFrom /\ ReadyFrom <= 1000)
  \/ (report.route = "reject")
       # ("blocking" \in severities \/ report.overall < RejectBelow)
  \/ report.route = "ready_to_compose"
       /\ ("warning" \in severities \/ report.overall < ReadyFrom)

-----------------------------------------------------------------------------
(* composer.py                                                             *)

Text(field, review) == [value |-> field.value, evidence |-> field.evidence, review |-> review]
Texts(fields, review) == [i \in DOMAIN fields |-> Text(fields[i], review)]

\* A value that no rule understood is kept as a text and marked for review, and
\* so is a specification outside the taxonomy (_normalization_review).
DraftSpecifications(norm) ==
  [i \in DOMAIN norm.specifications |->
     LET s == norm.specifications[i] IN
     [path |-> s.path, value |-> s.value, evidence |-> s.evidence,
      review |-> s.value.rule = "text"]]
  \o [i \in DOMAIN norm.unmapped |->
        [path |-> "none", value |-> norm.unmapped[i].value,
         evidence |-> norm.unmapped[i].evidence, review |-> TRUE]]

\* _symbol, _internal
Symbol(m) ==
  [id |-> m.record.id, relation |-> m.relation, confidence |-> m.confidence,
   status |-> IF m.decision = "auto_accepted" THEN "accepted" ELSE "proposed",
   evidence |-> CandidateEvidence(m)]

\* _compose
Draft(c, report) ==
  LET identityReview == c.identity.status # "auto_resolved"
      included == {Symbol(m) : m \in Accepted(c) \cup Proposed(c)}
  IN
  [title |-> Text(c.identity.name, identityReview),
   aliases |-> Texts(c.identity.aliases, identityReview),
   manufacturer |-> Texts(c.identity.manufacturer, identityReview),
   category |-> c.identity.category,
   summary |-> Texts(SubSeq(c.facts.summaries, 1, Min({1, Len(c.facts.summaries)})), FALSE),
   description |-> Texts(c.facts.descriptions, FALSE),
   features |-> Texts(c.facts.features, FALSE),
   applications |-> Texts(c.facts.applications, FALSE),
   specifications |-> DraftSpecifications(c.norm),
   usage |-> Texts(c.facts.usage, FALSE),
   pins |-> c.facts.pins,
   symbols |-> included,
   internal |-> {s \in included : s.relation # "exact_component"},
   resources |-> c.facts.resources,
   provenance |-> c.evidence,
   warnings |-> {i.code : i \in report.issues},
   route |-> report.route, overall |-> report.overall]

TextFields == {"aliases", "manufacturer", "summary", "description", "features",
               "applications", "specifications", "usage", "pins", "resources"}

\* _review_draft_field_evidence
FieldEvidence(d) ==
  ToSet(d.title.evidence)
  \cup UNION {ToSet(EvidenceIn(d[k])) : k \in TextFields}
  \cup UNION {ToSet(s.evidence) : s \in d.symbols}

\* What ReviewDraft refuses, beyond what compose has turned away.
DraftRefused(d) ==
  \/ ~ FieldEvidence(d) \subseteq d.provenance
  \/ \E s, t \in d.symbols : s # t /\ s.id = t.id

\* What a draft that is ready leaves nobody to decide: one title, every
\* specification in the taxonomy and, if it shows symbols, just one that is
\* accepted (_route, _compose).
ReadyIsSettled(c, draft) ==
  draft.route = "ready_to_compose" =>
    /\ ~ draft.title.review
    /\ Cardinality({Casefold[t.value] : t \in ToSet(c.facts.titles)}) = 1
    /\ "none" \notin {f.path : f \in ToSet(draft.specifications)}
    /\ Cardinality({s \in draft.symbols : s.status = "accepted"})
         = (IF draft.symbols = {} THEN 0 ELSE 1)

-----------------------------------------------------------------------------
(* legacy.py: the draft as fields of a repository component, each with its *)
(* provenance.                                                             *)

Symbols(S) == UNION {ToSet(s.evidence) : s \in S}

\* The fields that are present, with what they cite (_add).
Cited(d) ==
  [k \in {f \in TextFields : d[f] # << >>} |-> ToSet(EvidenceIn(d[k]))]
  @@ [k \in {"title"} \cup (IF d.category = "none" THEN {} ELSE {"category_hint"}) |->
        ToSet(d.title.evidence)]
  @@ [k \in IF d.symbols = {} THEN {} ELSE {"kicad_symbols"} |-> Symbols(d.symbols)]
  @@ [k \in IF d.internal = {} THEN {} ELSE {"internal_components"} |-> Symbols(d.internal)]

\* map
Mapped(d) ==
  [status |-> IF d.warnings = {} THEN "parsed" ELSE "parsed_with_warnings",
   provenance |-> Cited(d)]

MappingError(d, revised) ==
  IF ~ revised THEN "source_revision_missing"
  ELSE IF \E k \in DOMAIN Cited(d) : Cited(d)[k] = {}
    THEN "field_provenance_missing"
  ELSE "none"

-----------------------------------------------------------------------------
(* runtime.py: the stages on one page.  A run under way names its next     *)
(* stage and keeps what the earlier ones said; an error ends it.           *)

UnderWay(stage, c) == [error |-> "under way", stage |-> stage, case |-> c]
Failed(error) == [error |-> error]

\* revised: the source has a revision.
Read(page, revised) ==
  LET doc == Document(page) IN
  IF ExtractError(doc) # "none" THEN Failed(ExtractError(doc))
  ELSE UnderWay("extraction", [doc |-> doc, revised |-> revised])

ExtractStage(c) == UnderWay("normalization", c @@ [facts |-> Facts(c.doc)])

NormalizeStage(c) == UnderWay("identity", c @@ [norm |-> Normalize(c.doc, c.facts)])

ResolveStage(c) ==
  LET identity == Identity(c.norm, c.facts) IN
  IF IdentityRefused(c.norm, identity) THEN Failed("identity_alias_forbidden")
  ELSE UnderWay("enrichment", c @@ [identity |-> identity])

EnrichStage(c, records) ==
  UnderWay("input",
    c @@ [matched |-> Matched(c.doc, c.facts, c.norm, c.identity, records)])

\* The input of the evaluation, with all the evidence there is.
InputStage(c) ==
  UnderWay("evaluation",
    c @@ [evidence |-> AllEvidence(c.doc, c.facts, c.norm, c.identity, c.matched)])

EvaluateStage(c) ==
  LET report == Report(c) IN
  IF ReportRefused(report) THEN Failed("invalid_report")
  ELSE UnderWay("composition", c) @@ [report |-> report]

ComposeStage(c, report) ==
  LET draft == Draft(c, report) IN
  IF report.route = "reject" THEN Failed("composition_quality_rejected")
  ELSE IF DraftRefused(draft) THEN Failed("invalid_draft")
  ELSE [error |-> "none", case |-> c, report |-> report, draft |-> draft]
=============================================================================
