---------------------------- MODULE CardIdentity ----------------------------
(***************************************************************************)
(* Normalization and identity resolution of the import pipeline:           *)
(* imports/pipeline/normalization (semantic.py, registry.py, values.py)    *)
(* and imports/pipeline/identity (resolver.py, rules.py), with the checks  *)
(* of models/normalized_facts.py and models/component_identity.py.         *)
(*                                                                         *)
(* The versioned tables of the code are constants, so that an instance may *)
(* take the entries it needs.  The scores are those of the code.           *)
(***************************************************************************)
EXTENDS FactExtraction, Integers

CONSTANTS
  Registry,        \* SPECIFICATION_REGISTRY: [path, labels, kind, profiles]
  ProfileTokens,   \* _PROFILE_TOKENS: [profile, tokens], the first match wins
  CategoryRules,   \* CATEGORY_RULES: [key, tokens, paths, profile, weight]
  KindRules,       \* the rules of _kind_candidates: [kind, tokens, weight]
  Alphabet,        \* the names of categories and kinds in order
  Words,           \* the tokens of a text
  Key,             \* the form of a text in which names are compared
  CanonicalPart,   \* normalize_part_number
  ManufacturerOf,  \* normalize_manufacturer
  InterfacesIn,    \* normalize_interface: the interfaces a text names
  Reading,         \* a value as read: [shape, numbers, words, rest]
  UnitAt           \* per kind, the unit a word starts with and what is left

-----------------------------------------------------------------------------
(* values.py                                                               *)

NoValue == [rule |-> "none"]
Measured(rule, numbers, unit, suffix) ==
  [rule |-> rule, numbers |-> numbers, unit |-> unit, suffix |-> suffix]
AsText(text) == Measured("text", << >>, NoText, <<text>>)

\* _normalize_quantity: a range needs one unit for both ends.  A range of two
\* units is read as its first end, and the rest becomes a suffix.
Quantity(text, kind) ==
  LET r == Reading[text]
      unit(i) == UnitAt[kind][r.words[i]].unit
      first == r.words[1]
      after(i) == SelectSeq(<<UnitAt[kind][r.words[i]].rest, r.rest>>,
                            LAMBDA t : t # NoText)
      closing == IF r.words[2] # NoText THEN 2 ELSE 1
  IN
  CASE r.shape = "range"
         /\ unit(closing) # NoText /\ (first = NoText \/ unit(1) = unit(closing)) ->
           Measured("range", r.numbers, unit(closing), after(closing))
    [] r.shape \in {"range", "scalar"} /\ unit(1) # NoText ->
           Measured("scalar", <<r.numbers[1]>>, unit(1),
                    IF r.shape = "range" THEN <<text>> ELSE after(1))
    [] r.shape = "tolerance" /\ unit(1) # NoText ->
           Measured("tolerance", r.numbers, unit(1), after(1))
    [] OTHER -> NoValue

AutoKinds == <<"voltage", "current", "temperature", "frequency", "percent", "pressure">>

\* normalize_value
NormalizeValue(text, kind) ==
  LET tried == SelectSeq(AutoKinds, LAMBDA k :
        /\ k = kind \/ kind = "auto"
        /\ Quantity(text, k) # NoValue)
  IN
  IF tried # << >> THEN Quantity(text, tried[1])
  ELSE IF kind = "dimensions" /\ Reading[text].shape = "dimensions"
    THEN Measured("dimensions", Reading[text].numbers, Reading[text].words[1], << >>)
  ELSE IF kind = "interface" /\ InterfacesIn[text] # << >>
    THEN Measured("interface", InterfacesIn[text], NoText, << >>)
  ELSE AsText(text)

-----------------------------------------------------------------------------
(* semantic.py                                                             *)

WordsOf(texts) == UNION {Words[t] : t \in ToSet(texts)}

Profile(facts) ==
  LET said == UNION ({Words[f.value] : f \in ToSet(facts.titles)}
                     \cup {WordsOf(f.value) : f \in ToSet(facts.summaries)
                             \cup ToSet(facts.features) \cup ToSet(facts.applications)})
      hits == SelectSeq(ProfileTokens, LAMBDA p : p.tokens \cap said # {})
  IN IF hits = << >> THEN "generic" ELSE hits[1].profile

\* SpecificationRegistry.resolve: the definition of the profile, or the general
\* one.
Resolve(label, profile) ==
  LET named == SelectSeq(Registry, LAMBDA d : label \in d.labels)
      own == SelectSeq(named, LAMBDA d : profile \in d.profiles)
      general == SelectSeq(named, LAMBDA d : d.profiles = {})
  IN own \o general

\* _add_interfaces
NamedInterfaces(f, text) ==
  [i \in DOMAIN InterfacesIn[text] |->
     [value |-> InterfacesIn[text][i], evidence |-> f.evidence]]

\* _conflicts: different values of one path, stated under different headings.
Conflicts(doc, specs) ==
  LET of(path) == SelectSeq(specs, LAMBDA s : s.path = path)
      evidence(path) == Once(FlattenSeq([i \in DOMAIN of(path) |-> of(path)[i].evidence]))
      sections(path) == {doc.lines[doc.over[e.lines[1]]].text : e \in ToSet(evidence(path))}
      values(path) == {s.value : s \in ToSet(of(path))}
  IN
  {[path |-> p, evidence |-> evidence(p)] :
     p \in {q \in {s.path : s \in ToSet(specs)} :
              Cardinality(values(q)) >= 2 /\ Cardinality(sections(q)) >= 2}}

\* _normalize
Normalize(doc, facts) ==
  LET profile == Profile(facts)
      definition(f) == Resolve(f.value.label, profile)
      known == SelectSeq(facts.specifications, LAMBDA f : definition(f) # << >>)
      unknown == SelectSeq(facts.specifications, LAMBDA f : definition(f) = << >>)
      specs == [i \in DOMAIN known |->
                  LET d == definition(known[i])[1] IN
                  [path |-> d.path,
                   value |-> NormalizeValue(known[i].value.value, d.kind),
                   evidence |-> known[i].evidence]]
      busSpecs == SelectSeq(known, LAMBDA f : definition(f)[1].kind = "interface")
      identifiers(fields) ==
        [i \in DOMAIN fields |->
           [value |-> CanonicalPart[fields[i].value], evidence |-> fields[i].evidence]]
  IN
  [profile |-> profile, specifications |-> specs, unmapped |-> unknown,
   interfaces |-> MergeFields(
     FlattenSeq([i \in DOMAIN busSpecs |->
                   NamedInterfaces(busSpecs[i], busSpecs[i].value.value)])
     \o FlattenSeq([i \in DOMAIN facts.interfaces |->
                      NamedInterfaces(facts.interfaces[i], facts.interfaces[i].value)])),
   manufacturers |-> MergeFields([i \in DOMAIN facts.manufacturers |->
     [value |-> ManufacturerOf[facts.manufacturers[i].value],
      evidence |-> facts.manufacturers[i].evidence]]),
   model |-> identifiers(facts.model),
   part_number |-> identifiers(facts.part_number),
   primary_ics |-> identifiers(facts.primary_ics),
   conflicts |-> Conflicts(doc, specs)]

-----------------------------------------------------------------------------
(* resolver.py                                                             *)

AutoResolveScore == 65
AutoResolveMargin == 15
ReviewScore == 35

SignalsOf(fields) ==
  [i \in DOMAIN fields |->
     [words |-> WordsOf(fields[i].value), evidence |-> fields[i].evidence]]

\* _signals: what the titles, the summary and the body say.
Signals(facts) ==
  [title |-> [i \in DOMAIN facts.titles |->
                [words |-> Words[facts.titles[i].value],
                 evidence |-> facts.titles[i].evidence]],
   summary |-> SignalsOf(facts.summaries),
   details |-> SignalsOf(facts.descriptions) \o SignalsOf(facts.features)
               \o SignalsOf(facts.applications) \o SignalsOf(facts.usage)]

\* The contribution of the first signal that names a token, if any.
Contribution(signals, tokens, weight) ==
  LET matched == SelectSeq(signals, LAMBDA s : s.words \cap tokens # {}) IN
  IF matched = << >> THEN << >>
  ELSE <<[weight |-> weight, evidence |-> matched[1].evidence]>>

Support(test, weight, evidence) ==
  IF test THEN <<[weight |-> weight, evidence |-> evidence]>> ELSE << >>

Total(breakdown) == FoldLeft(LAMBDA n, c : n + c.weight, 0, breakdown)

EvidenceIn(items) == Once(FlattenSeq([i \in DOMAIN items |-> items[i].evidence]))

Candidate(name, breakdown) ==
  [name |-> name, score |-> Min({100, Total(breakdown)}),
   evidence |-> EvidenceIn(breakdown)]

\* Candidates with a reason, the highest first, ties in alphabetical order.
Ranked(candidates) ==
  LET rank(c) == CHOOSE i \in DOMAIN Alphabet : Alphabet[i] = c.name
      before(c, d) == c.score > d.score \/ (c.score = d.score /\ rank(c) < rank(d))
  IN SortSeq(SelectSeq(candidates, LAMBDA c : c.evidence # << >>), before)

\* _exact_primary_ic: the title is the part number of the primary IC.
ExactIc(norm, facts) ==
  SelectSeq(norm.primary_ics, LAMBDA i : Key[i.value] = Key[facts.titles[1].value])

ExactIcSupport(norm, facts) ==
  LET ic == ExactIc(norm, facts) IN
  Support(ic # << >>, 85,
          IF ic = << >> THEN << >> ELSE Once(facts.titles[1].evidence \o ic[1].evidence))

FirstSpec(norm, paths) == SelectSeq(norm.specifications, LAMBDA s : s.path \in paths)

SpecSupport(norm, paths, weight, test) ==
  LET found == FirstSpec(norm, paths) IN
  IF found = << >> \/ ~ test THEN << >>
  ELSE <<[weight |-> weight, evidence |-> found[1].evidence]>>

\* _category_candidates.  A connector needs more than its taxonomy.
Categories(norm, facts) ==
  LET said == Signals(facts)
      textual(r) == Contribution(said.title, r.tokens, 55)
                    \o Contribution(said.summary, r.tokens, 20)
                    \o Contribution(said.details, r.tokens, 10)
      breakdown(r) ==
        textual(r)
        \o SpecSupport(norm, r.paths, r.weight, r.key # "connectors" \/ textual(r) # << >>)
        \o Support(r.profile = norm.profile, 15, said.title[1].evidence)
  IN
  Ranked([i \in DOMAIN CategoryRules |->
            Candidate(CategoryRules[i].key, breakdown(CategoryRules[i]))]
         \o <<Candidate("integrated-circuits", ExactIcSupport(norm, facts))>>)

\* _kind_candidates.  The body does not speak for bare components; every page
\* of the source speaks a little for a module.
Kinds(norm, facts) ==
  LET said == Signals(facts)
      exact == ExactIcSupport(norm, facts)
      bare == {"discrete_component", "integrated_circuit"}
      textual(r) ==
        Contribution(said.title, r.tokens, r.weight)
        \o IF r.kind \in bare THEN << >>
           ELSE Contribution(said.summary \o said.details, r.tokens, 20)
      breakdown(r) ==
        IF r.kind = "integrated_circuit" /\ exact # << >> THEN exact
        ELSE textual(r)
             \o SpecSupport(norm, {"mechanical.connector"}, 10,
                            r.kind = "connector" /\ textual(r) # << >>)
             \o Support(r.kind = "module", 15, facts.titles[1].evidence)
  IN
  Ranked([i \in DOMAIN KindRules |-> Candidate(KindRules[i].kind, breakdown(KindRules[i]))])

\* _aliases: other titles and model numbers.  Of those that differ in letter case
\* the first stays; the evidence of the others is not added to it.
Aliases(norm, facts) ==
  LET name == Key[facts.titles[1].value]
      ics == {Key[i.value] : i \in ToSet(norm.primary_ics)}
      others == SelectSeq(Tail(facts.titles), LAMBDA f : Key[f.value] # name)
      models == SelectSeq(norm.model, LAMBDA f : Key[f.value] \notin ics \cup {name})
      Add(kept, f) ==
        IF Casefold[f.value] \in {Casefold[k.value] : k \in ToSet(kept)} THEN kept
        ELSE Append(kept, f)
  IN FoldLeft(Add, << >>, others \o models)

Margin(categories) ==
  categories[1].score - (IF Len(categories) > 1 THEN categories[2].score ELSE 0)

\* _resolution
Resolution(norm, facts, categories, kinds) ==
  IF categories = << >> \/ kinds = << >> THEN "unresolved"
  ELSE IF categories[1].score < ReviewScore THEN "unresolved"
  ELSE IF /\ categories[1].score >= AutoResolveScore
          /\ Margin(categories) > AutoResolveMargin
          /\ kinds[1].score >= 50
          /\ norm.conflicts = {}
          /\ ~ Ambiguous(facts)
    THEN "auto_resolved"
  ELSE "review_required"

\* _resolve.  Without a kind the card is "generic_unknown".
Identity(norm, facts) ==
  LET categories == Categories(norm, facts)
      kinds == Kinds(norm, facts)
      status == Resolution(norm, facts, categories, kinds)
  IN
  [name |-> facts.titles[1],
   manufacturer |-> IF norm.manufacturers = << >> THEN << >> ELSE <<norm.manufacturers[1]>>,
   aliases |-> Aliases(norm, facts),
   kind |-> IF kinds = << >> THEN "generic_unknown" ELSE kinds[1].name,
   kinds |-> kinds, categories |-> categories,
   category |-> IF status = "auto_resolved" THEN categories[1].name ELSE "none",
   status |-> status]

\* _warnings
IdentityWarnings(norm, identity) ==
  LET when(test, code) == IF test THEN {code} ELSE {}
      categories == identity.categories
  IN
  when(identity.status = "unresolved", "identity_unresolved")
  \cup when(identity.status = "review_required", "identity_review_required")
  \cup when(Len(categories) > 1 /\ Margin(categories) <= AutoResolveMargin,
            "category_ambiguous")
  \cup when(norm.conflicts # {}, "normalization_conflict_present")

IdentityEvidence(norm, identity) ==
  Once(identity.name.evidence \o EvidenceIn(identity.aliases)
       \o EvidenceIn(identity.kinds) \o EvidenceIn(identity.categories)
       \o EvidenceIn(norm.model) \o EvidenceIn(norm.part_number)
       \o EvidenceIn(norm.primary_ics) \o EvidenceIn(identity.manufacturer))

\* What ComponentIdentity refuses: a module with the name of its IC among its
\* aliases or in the category of ICs.  An alternate title may be that name.
IdentityRefused(norm, identity) ==
  /\ identity.kind = "module"
  /\ \/ identity.category = "integrated-circuits"
     \/ \E a \in ToSet(identity.aliases), i \in ToSet(norm.primary_ics) :
          Casefold[a.value] = Casefold[i.value]
=============================================================================
