---------------------------- MODULE KicadMatching ----------------------------
(***************************************************************************)
(* The symbols of the KiCad libraries that an imported page is about:      *)
(* imports/pipeline/enrichment (kicad_provider.py, matcher.py, the index of *)
(* KicadIndex) with the checks of models/kicad.py and models/enrichment.py.*)
(*                                                                         *)
(* A record has the parts of a symbol that the code compares:              *)
(*   id, name, aliases, keywords (tokens of description and keywords),     *)
(*   makers, sheet, pins (their number), packages, buses, generic,         *)
(*   connector                                                             *)
(***************************************************************************)
EXTENDS CardIdentity

CONSTANTS
  ExactKey,      \* the form of a text in the exact and alias indexes
  SheetOf,       \* a link as a datasheet: [url, tokens, host], or NoText
  NumberIn,      \* the number a text states, 0 without one
  OnboardWords   \* "based on", "contains", "onboard", ...

-----------------------------------------------------------------------------
(* The maps of KicadSymbolIndex: whether a record is found under a value.  *)

FindsByPart(record, value) == ExactKey[value] = ExactKey[record.name]
FindsByAlias(record, value) == ExactKey[value] \in {ExactKey[a] : a \in ToSet(record.aliases)}
RecordKeys(record) == {Key[n] : n \in {record.name} \cup ToSet(record.aliases)}
FindsByName(record, value) == Key[value] \in RecordKeys(record)

\* A token in common suffices; the model has fewer records than the limit.
FindsByWords(record, value) == Words[value] \cap record.keywords # {}
FindsByMaker(record, value) == Key[value] \in {Key[h] : h \in ToSet(record.makers)}

-----------------------------------------------------------------------------
(* kicad_provider.py                                                       *)

Bases == <<"exact_part_number", "alias", "normalized_name", "description",
           "manufacturer_hint">>
BasisRank(b) == CHOOSE i \in DOMAIN Bases : Bases[i] = b

ValuesOf(items) == {i.value : i \in ToSet(items)}

\* find_candidates for one record: the terms that find it.
MatchedTerms(norm, identity, record) ==
  LET parts == ValuesOf(norm.part_number) \cup ValuesOf(norm.primary_ics)
      others == ValuesOf(norm.model) \cup ValuesOf(identity.aliases)
      name == identity.name.value
      found(basis, queries, Finds(_, _)) ==
        [basis : {basis}, query : {q \in queries : Finds(record, q)}]
      terms == found("exact_part_number", parts, FindsByPart)
               \cup found("alias", parts \cup others, FindsByAlias)
               \cup found("normalized_name", others \cup {name}, FindsByName)
               \cup found("description", {name}, FindsByWords)
      hints == found("manufacturer_hint", ValuesOf(identity.manufacturer), FindsByMaker)
  IN IF terms = {} THEN {} ELSE terms \cup hints

HasExact(terms) == \E t \in terms : t.basis = "exact_part_number"

\* A generic symbol is found by its part number only.
Hits(norm, identity, records) ==
  {r \in records :
     LET terms == MatchedTerms(norm, identity, r) IN
     terms # {} /\ (r.generic => HasExact(terms))}

-----------------------------------------------------------------------------
(* matcher.py                                                              *)

Review == 450          \* REVIEW_THRESHOLD_BASIS_POINTS
AutoAccept == 950      \* DEFAULT_AUTO_ACCEPT_THRESHOLD
Severe == {"manufacturer-conflict", "package-conflict", "pin-count-conflict"}

\* A mutant of BasisWeight: a part number counts for more.
BasisWeightHeavy ==
  [exact_part_number |-> 800, alias |-> 520, normalized_name |-> 100, description |-> 40]

BasisWeight ==
  [exact_part_number |-> 700, alias |-> 520, normalized_name |-> 100, description |-> 40]

Scored(rule, weight, evidence) ==
  [rule |-> rule, weight |-> weight, evidence |-> evidence]
If(test, contribution) == IF test THEN <<contribution>> ELSE << >>

\* _identity_term_evidence
TermEvidence(norm, identity, query) ==
  LET same(items) == EvidenceIn(SelectSeq(items, LAMBDA i : Key[i.value] = Key[query])) IN
  Once(same(norm.part_number) \o same(norm.primary_ics) \o same(norm.model)
       \o same(identity.aliases) \o same(<<identity.name>>))

\* _all_source_evidence
SourceEvidence(facts, norm, identity) ==
  Once(IdentityEvidence(norm, identity) \o EvidenceIn(facts.summaries)
       \o EvidenceIn(facts.descriptions) \o EvidenceIn(facts.features)
       \o EvidenceIn(facts.applications) \o EvidenceIn(facts.usage)
       \o EvidenceIn(facts.pins) \o EvidenceIn(facts.specifications)
       \o EvidenceIn(facts.resources) \o EvidenceIn(facts.unmapped))

LineTexts(line) ==
  ({line.text, line.label, line.part, line.link} \cup ToSet(line.cells)) \ {NoText}

RawWords(doc, e) ==
  UNION {UNION {Words[t] : t \in LineTexts(doc.lines[n])} : n \in ToSet(e.lines)}

\* _record_mention_evidence, _onboard_mention_evidence
Mentions(doc, evidence, record) ==
  SelectSeq(evidence, LAMBDA e : RawWords(doc, e) \cap RecordKeys(record) # {})
OnboardMentions(doc, evidence, record) ==
  SelectSeq(Mentions(doc, evidence, record), LAMBDA e :
    RawWords(doc, e) \cap OnboardWords # {})

\* _manufacturer_contribution
MakerScore(identity, record) ==
  IF identity.manufacturer = << >> \/ record.makers = << >> THEN << >>
  ELSE LET maker == identity.manufacturer[1]
           agrees == Key[maker.value] \in {Key[h] : h \in ToSet(record.makers)}
       IN <<IF agrees THEN Scored("manufacturer-match", 50, maker.evidence)
            ELSE Scored("manufacturer-conflict", -500, maker.evidence)>>

\* _datasheet_contribution: the best agreement with any datasheet of the page.
SheetScore(facts, record) ==
  LET sheets == SelectSeq(facts.resources, LAMBDA f : SheetOf[f.value] # NoText)
      target == SheetOf[record.sheet]
      first(Agrees(_)) == SelectSeq(sheets, LAMBDA f : Agrees(SheetOf[f.value]))
      same == first(LAMBDA s : s.url = target.url)
      named == first(LAMBDA s : s.tokens \cap target.tokens # {})
      hosted == first(LAMBDA s : s.host = target.host)
      tokens == UNION {SheetOf[f.value].tokens : f \in ToSet(sheets)}
  IN
  IF record.sheet = NoText \/ sheets = << >> THEN << >>
  ELSE IF same # << >> THEN <<Scored("datasheet-exact", 80, same[1].evidence)>>
  ELSE IF named # << >> THEN <<Scored("datasheet-identity", 60, named[1].evidence)>>
  ELSE IF hosted # << >> THEN <<Scored("datasheet-domain", 30, hosted[1].evidence)>>
  ELSE If(tokens # {} /\ target.tokens # {},
          Scored("datasheet-conflict", -120, sheets[1].evidence))

\* _interface_contribution
BusScore(norm, record) ==
  LET buses == ValuesOf(norm.interfaces)
      evidence == EvidenceIn(norm.interfaces)
  IN
  IF buses = {} \/ record.buses = {} THEN << >>
  ELSE IF buses \cap record.buses # {}
    THEN <<Scored("interface-compatible", 40, evidence)>>
    ELSE <<Scored("interface-conflict", -180, evidence)>>

\* _package_contribution, _pin_count_contribution: what the page states first.
PackageScore(facts, record) ==
  LET stated == SelectSeq(facts.specifications, LAMBDA f :
                  KindOfLabel[f.value.label] = "package")
  IN
  IF stated = << >> \/ record.packages = {} THEN << >>
  ELSE IF Words[stated[1].value.value] \cap record.packages # {}
    THEN <<Scored("package-compatible", 50, stated[1].evidence)>>
    ELSE <<Scored("package-conflict", -250, stated[1].evidence)>>

PinScore(facts, record) ==
  LET stated == SelectSeq(facts.specifications, LAMBDA f :
                  KindOfLabel[f.value.label] = "pin-count" /\ NumberIn[f.value.value] # 0)
  IN
  IF stated = << >> \/ record.pins = 0 THEN << >>
  ELSE IF NumberIn[stated[1].value.value] = record.pins
    THEN <<Scored("pin-count-compatible", 50, stated[1].evidence)>>
    ELSE <<Scored("pin-count-conflict", -250, stated[1].evidence)>>

\* The term of the best basis; the first in alphabetical order of several.
PrimaryTerm(terms) ==
  LET best == {t \in terms : \A u \in terms : BasisRank(t.basis) <= BasisRank(u.basis)}
      rank(t) == CHOOSE i \in DOMAIN Alphabet : Alphabet[i] = t.query
  IN CHOOSE t \in best : \A u \in best : rank(t) <= rank(u)

TermScore(norm, identity, terms) ==
  LET term == PrimaryTerm(terms)
      evidence == TermEvidence(norm, identity, term.query)
  IN
  IF term.basis = "manufacturer_hint" THEN << >>
  ELSE IF evidence = << >> THEN <<Scored("match-term-unproven", -1000, << >>)>>
  ELSE <<Scored(term.basis, BasisWeight[term.basis], evidence)>>

\* _score
Breakdown(doc, facts, norm, identity, record, terms) ==
  LET mentions == Mentions(doc, SourceEvidence(facts, norm, identity), record) IN
  TermScore(norm, identity, terms)
  \o If(mentions # << >>, Scored("source-explicit-mention", 150, mentions))
  \o If(Key[identity.name.value] \in RecordKeys(record),
        Scored("canonical-name-exact", 100, identity.name.evidence))
  \o MakerScore(identity, record) \o SheetScore(facts, record)
  \o BusScore(norm, record) \o PackageScore(facts, record) \o PinScore(facts, record)
  \o If(record.generic /\ ~ HasExact(terms),
        Scored("generic-without-explicit-id", -1000, mentions))

\* _relation_type
Relation(doc, facts, norm, identity, record) ==
  LET keys == RecordKeys(record)
      evidence == SourceEvidence(facts, norm, identity)
      isPart == keys \cap {Key[v] : v \in ValuesOf(norm.part_number)} # {}
      isIc == keys \cap {Key[v] : v \in ValuesOf(norm.primary_ics)} # {}
  IN
  IF identity.kind = "connector" /\ record.connector THEN "connector"
  ELSE IF isPart THEN "exact_component"
  ELSE IF isIc THEN
    IF identity.kind \in {"module", "development_board"} THEN "main_integrated_circuit"
    ELSE "exact_component"
  ELSE IF Key[identity.name.value] \in keys
          /\ identity.kind \in {"discrete_component", "integrated_circuit"}
    THEN "exact_component"
  ELSE IF record.connector /\ Mentions(doc, evidence, record) # << >> THEN "connector"
  ELSE IF OnboardMentions(doc, evidence, record) # << >> THEN "onboard_component"
  ELSE "functional_equivalent"

Negative(breakdown) == SelectSeq(breakdown, LAMBDA c : c.weight < 0)
Positive(breakdown) == SelectSeq(breakdown, LAMBDA c : c.weight > 0)

Confidence(breakdown) == Max({0, Min({1000, Total(breakdown)})})

\* _decision
Decision(relation, breakdown, terms, record) ==
  LET negative == {c.rule : c \in ToSet(Negative(breakdown))}
      confidence == Confidence(breakdown)
  IN
  IF negative \cap Severe # {} THEN "rejected"
  ELSE IF /\ relation = "exact_component" /\ HasExact(terms)
          /\ negative = {} /\ ~ record.generic
          /\ Len(EvidenceIn(Positive(breakdown))) >= 2
          /\ confidence >= AutoAccept
    THEN "auto_accepted"
  ELSE IF confidence < Review THEN "rejected"
  ELSE "review_required"

\* score_hit
Scoring(doc, facts, norm, identity, record) ==
  LET terms == MatchedTerms(norm, identity, record)
      breakdown == Breakdown(doc, facts, norm, identity, record, terms)
      relation == Relation(doc, facts, norm, identity, record)
  IN
  [record |-> record, relation |-> relation, breakdown |-> breakdown,
   confidence |-> Confidence(breakdown),
   decision |-> Decision(relation, breakdown, terms, record)]

\* match
Matched(doc, facts, norm, identity, records) ==
  {Scoring(doc, facts, norm, identity, r) : r \in Hits(norm, identity, records)}
=============================================================================
