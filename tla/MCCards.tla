------------------------------ MODULE MCCards ------------------------------
(***************************************************************************)
(* The stages of the import pipeline on every page of a small space, and   *)
(* an indexer of small KiCad libraries.  `input` is the input under        *)
(* examination, `outcome` what the pipeline makes of a page.               *)
(*                                                                         *)
(* A page is put together from blocks: front matter, a title, an           *)
(* introduction, two specification sections, identifiers, a code block and *)
(* the other sections.                                                     *)
(***************************************************************************)
EXTENDS CardComposition, KicadIndexer

VARIABLES input, outcome

Vocabulary ==
  {"Sensor", "sensor", "Grove Sensor", "MCP1", "mcp1", "MCP2", "mcp2", "a sensor",
   "based on MCP1", "Seeed", "Seeed Technology", "Seeed Studio",
   "5 V", "3 V", "wide", "I2C", "16", "secret",
   "Voltage", "Range", "Colour", "Part number", "Model", "Manufacturer", "IC", "Interface",
   "Pins", "title", "description", "Pin",
   "Specifications", "Hardware", "Description", "Features", "Applications", "Usage",
   "Pinout", "Resources", "Extras", "sheet", NoText}
Extend(pairs, default) == pairs @@ [t \in Vocabulary |-> default]

HeadingKinds ==
  Extend("Specifications" :> "specifications" @@ "Hardware" :> "hardware"
         @@ "Description" :> "description" @@ "Features" :> "features"
         @@ "Applications" :> "applications" @@ "Usage" :> "usage"
         @@ "Pinout" :> "pinout" @@ "Resources" :> "resources", "none")
LabelKinds ==
  Extend("title" :> "title" @@ "description" :> "description"
         @@ "Part number" :> "part_number" @@ "Model" :> "model"
         @@ "Manufacturer" :> "manufacturer"
         @@ "IC" :> "primary-ic" @@ "Interface" :> "interface"
         @@ "Pins" :> "pin-count" @@ "Pin" :> "number", "none")
WordSets ==
  Extend("Sensor" :> {"sensor"} @@ "sensor" :> {"sensor"}
         @@ "Grove Sensor" :> {"grove", "sensor"} @@ "a sensor" :> {"sensor"}
         @@ "MCP1" :> {"mcp1"} @@ "mcp1" :> {"mcp1"} @@ "MCP2" :> {"mcp2"}
         @@ "mcp2" :> {"mcp2"} @@ "based on MCP1" :> {"based on", "mcp1"}
         @@ "Range" :> {"range"} @@ "Seeed" :> {"seeed"}
         @@ "Seeed Technology" :> {"seeed"} @@ "Seeed Studio" :> {"seeed"}, {})
Spelt(pairs) == pairs @@ [t \in Vocabulary |-> t]
CaseFolds ==
  Spelt("Sensor" :> "sensor" @@ "Grove Sensor" :> "grove sensor" @@ "MCP1" :> "mcp1"
        @@ "MCP2" :> "mcp2" @@ "Seeed Studio" :> "seeed studio")
Keys ==
  Spelt("Sensor" :> "sensor" @@ "Grove Sensor" :> "grovesensor" @@ "MCP1" :> "mcp1"
        @@ "MCP2" :> "mcp2" @@ "Seeed" :> "seeed" @@ "Seeed Technology" :> "seeedtechnology"
        @@ "Seeed Studio" :> "seeedstudio")

\* Part numbers in upper case, and the aliases of a manufacturer under one name.
CanonicalParts == Spelt("mcp1" :> "MCP1" @@ "mcp2" :> "MCP2")
MakerAliases == Spelt("Seeed" :> "Seeed Studio" @@ "Seeed Technology" :> "Seeed Studio")

Definitions ==
  <<[path |-> "electrical.voltage.supply", labels |-> {"Voltage"}, kind |-> "voltage",
     profiles |-> {}],
    [path |-> "sensor.range", labels |-> {"Range"}, kind |-> "auto",
     profiles |-> {"sensor"}],
    [path |-> "interface.bus", labels |-> {"Interface"}, kind |-> "interface",
     profiles |-> {}]>>
Profiles == <<[profile |-> "sensor", tokens |-> {"sensor"}]>>
CategoryTable ==
  <<[key |-> "sensors", tokens |-> {"sensor"}, paths |-> {"sensor.range"},
     profile |-> "sensor", weight |-> 20],
    [key |-> "boards", tokens |-> {"grove"}, paths |-> {}, profile |-> "board",
     weight |-> 20]>>
KindTable ==
  <<[kind |-> "integrated_circuit", tokens |-> {"mcu"}, weight |-> 70],
    [kind |-> "module", tokens |-> {"grove", "sensor"}, weight |-> 35]>>
Letters == <<"boards", "integrated-circuits", "integrated_circuit", "module", "sensors",
             "Grove Sensor", "MCP1", "MCP2", "Seeed Studio", "Sensor", "mcp1", "sensor">>
Unread == [shape |-> "none", numbers |-> << >>, words |-> <<NoText, NoText>>, rest |-> NoText]
Volts(n) == [shape |-> "scalar", numbers |-> <<n>>, words |-> <<"V", NoText>>, rest |-> NoText]
Readings == Extend("5 V" :> Volts(5) @@ "3 V" :> Volts(3), Unread)
Units ==
  [k \in ToSet(AutoKinds) |->
     [w \in {"V", NoText} |->
        [unit |-> IF w = "V" /\ k = "voltage" THEN "V" ELSE NoText, rest |-> NoText]]]
Buses == Extend("I2C" :> <<"I2C">>, << >>)
Sheets == Extend("sheet" :> [url |-> "u", tokens |-> {"mcp1"}, host |-> "h"], NoText)
Numbers == Extend("16" :> 16, 0)
HintTable ==
  [i \in {"display.interface", "display.resolution", "sensor.quantity", "board.mcu",
          "board.power", "board.interface", "actuator.power", "actuator.control",
          "communication.interface", "communication.frequency"} |-> {}]
  @@ "sensor.range" :> {"range"} @@ "description" :> {"sensor"} @@ "pinout" :> {"mcp2"}
PathTable ==
  "electrical.voltage.supply" :> {"power"} @@ "sensor.range" :> {"quantity", "range"}
  @@ "interface.bus" :> {}

-----------------------------------------------------------------------------
(* Pages.                                                                  *)

Plain(form) == Line(form, NoText)
Under2(text) == [Line("heading", text) EXCEPT !.level = 2]
Says(form, label, text) == [Line(form, text) EXCEPT !.label = label]
Row(a, b) == [Plain("row") EXCEPT !.cells = <<a, b>>]
Based == [Line("prose", "based on MCP1") EXCEPT !.part = "MCP1"]
Link == [Line("item", "sheet") EXCEPT !.link = "sheet"]

Framed(lines) == <<Plain("delimiter")>> \o lines \o <<Plain("delimiter")>>
Fronts == {<< >>, Framed(<<Says("entry", "title", "sensor")>>),
           Framed(<<Says("entry", "title", "MCP1"), Says("entry", "description", "a sensor")>>)}
Titled == {"Sensor", "Grove Sensor", "mcp1"}
Intros == {<<Line("prose", "a sensor")>>, <<Based>>}
SpecBlocks == {<<Says("item", "Voltage", "5 V"), Says("item", "Range", "wide")>>,
               <<Row("Voltage", "5 V"), Row("Colour", "wide")>>,
               <<Says("item", "Part number", "MCP1"), Says("item", "Range", "wide")>>}
HardwareBlocks == {<< >>, <<Says("item", "Voltage", "3 V")>>,
                   <<Says("item", "Part number", "mcp1"), Says("item", "Model", "mcp1"),
                     Says("item", "Manufacturer", "Seeed"),
                     Says("item", "Manufacturer", "Seeed Technology")>>,
                   <<Says("item", "Pins", "16"), Says("item", "IC", "MCP2"),
                     Says("item", "Interface", "I2C")>>}
Code == <<Plain("fence"), Says("item", "Part number", "secret"), Line("prose", "secret"),
          Plain("fence")>>
Rest == <<Under2("Description"), Line("prose", "a sensor"), Under2("Features"), Line("item", "wide"),
          Under2("Applications"), Line("item", "wide"), Under2("Usage"), Line("prose", "wide"),
          Under2("Pinout"), Row("Pin", "description"), Row("Voltage", "wide"),
          Under2("Resources"), Link>>
Endings == {Rest, << >>, Rest \o <<Under2("Extras"), Line("prose", "MCP2")>>,
            SubSeq(Rest, 1, 4) \o <<Under2("Pinout"), Row("Pin", NoText)>>}

Section(heading, lines) == IF lines = << >> THEN << >> ELSE <<Under2(heading)>> \o lines
PageOf(b) ==
  b.front \o <<[Line("heading", b.title) EXCEPT !.level = 1]>> \o b.intro
  \o Section("Specifications", b.specs \o b.code) \o Section("Hardware", b.hardware)
  \o b.ending

Symbol1 == [id |-> "MCU:MCP1", name |-> "MCP1", aliases |-> << >>, keywords |-> {"sensor"},
            makers |-> <<"Seeed Studio">>, sheet |-> "sheet", pins |-> 16, packages |-> {},
            buses |-> {"I2C"}, generic |-> FALSE, connector |-> FALSE]
Symbol2 == [Symbol1 EXCEPT !.id = "Old:MCP2", !.name = "MCP2", !.aliases = <<"MCP1">>,
                           !.makers = << >>, !.pins = 0]
Library == {Symbol1, Symbol2}

\* Two files of one library and one that is not indexed.  Of the contents one
\* has a symbol, one has that with another pin and a second one, one has two
\* of its name, and one cannot be parsed.
Directories == "p" :> "sensors" @@ "q" :> "sensors" @@ "x" :> "other"
Named(name, pins) == [name |-> name, pins |-> pins]
SymbolTable ==
  "c1" :> <<Named("s1", 2)>> @@ "c2" :> <<Named("s2", 2), Named("s1", 3)>>
  @@ "twice" :> <<Named("s1", 2), Named("s1", 3)>> @@ "bad" :> << >>

NoOutcome == [error |-> "not a page"]
Init == input = [kind |-> "none"] /\ outcome = NoOutcome /\ IndexerInit

\* Begin a page with its front matter and title.
BeginPage ==
  /\ input.kind = "none"
  /\ \E f \in Fronts, t \in Titled : input' = [kind |-> "begun", front |-> f, title |-> t]
  /\ UNCHANGED outcome

ExaminePage ==
  /\ input.kind = "begun"
  /\ \E intro \in Intros, specs \in SpecBlocks, hardware \in HardwareBlocks,
        code \in {<< >>, Code}, ending \in Endings :
       input' = [kind |-> "page", page |->
                   PageOf([front |-> input.front, title |-> input.title, intro |-> intro,
                           specs |-> specs, hardware |-> hardware, code |-> code,
                           ending |-> ending])]
  /\ UNCHANGED outcome

\* The pipeline runs on the page, one stage a step.
At(stage) == outcome.error = "under way" /\ outcome.stage = stage /\ UNCHANGED input

ReadPage ==
  /\ input.kind = "page" /\ outcome = NoOutcome
  /\ outcome' = Read(input.page, TRUE)
  /\ UNCHANGED input
Extract == At("extraction") /\ outcome' = ExtractStage(outcome.case)
NormalizeFacts == At("normalization") /\ outcome' = NormalizeStage(outcome.case)
ResolveIdentity == At("identity") /\ outcome' = ResolveStage(outcome.case)
Enrich == At("enrichment") /\ outcome' = EnrichStage(outcome.case, Library)
GatherEvidence == At("input") /\ outcome' = InputStage(outcome.case)
Evaluate == At("evaluation") /\ outcome' = EvaluateStage(outcome.case)
Compose == At("composition") /\ outcome' = ComposeStage(outcome.case, outcome.report)

\* An indexer that has begun goes on.
RunIndexer ==
  /\ input.kind \in {"none", "index"}
  /\ IndexerNext
  /\ input' = [kind |-> "index"]
  /\ UNCHANGED outcome

RunPipeline ==
  \/ BeginPage \/ ExaminePage
  \/ ReadPage \/ Extract \/ NormalizeFacts \/ ResolveIdentity
  \/ Enrich \/ GatherEvidence \/ Evaluate \/ Compose

Next == RunIndexer \/ (RunPipeline /\ UNCHANGED indexerVars)

\* A draft says nothing that the page does not say.  The title, a pin and what is
\* outside the taxonomy stand on every line they cite.  A value that was rewritten
\* (a model in upper case, the canonical name of a manufacturer, a measurement) is
\* what the rule makes of a text on each of them: readings of different spellings
\* are merged, but never with a line that says something else.  A symbol is
\* offered only where a cited line names it, and a code block is never cited
\* (_evidence, _merge_fields, _merge_text_facts, _aliases, _safe_lines, _score).
\* And the importer can take it as it is: each field it is given cites lines of
\* the draft (LegacyRepositoryDraftMapper).
EvidenceIsOnThePage ==
  outcome.error = "none" =>
    LET o == outcome
        texts(e) == UNION {LineTexts(input.page[n]) : n \in ToSet(e.lines)}
        stands(values, item) == \A e \in ToSet(item.evidence) : values \subseteq texts(e)
        rewritten(rule, item) ==
          \A e \in ToSet(item.evidence) : \E t \in texts(e) : rule[t] = item.value
        kinds == {d.kind : d \in ToSet(Registry)}
    IN
      /\ \A e \in o.draft.provenance : "secret" \notin texts(e)
      /\ stands({o.draft.title.value}, o.draft.title)
      /\ \A f \in ToSet(o.draft.aliases) : stands({f.value}, f) \/ rewritten(CanonicalPart, f)
      /\ \A f \in ToSet(o.draft.manufacturer) : rewritten(ManufacturerOf, f)
      /\ \A f \in ToSet(o.draft.pins) : stands({f.value.id, f.value.function}, f)
      /\ \A f \in ToSet(o.draft.specifications) :
           IF f.path = "none" THEN stands({f.value.label, f.value.value}, f)
           ELSE \A e \in ToSet(f.evidence) :
                  \E t \in texts(e), k \in kinds : NormalizeValue(t, k) = f.value
      /\ \A s \in o.draft.symbols, r \in Library :
           r.id = s.id => \E e \in ToSet(s.evidence) : RawWords(o.case.doc, e) \cap RecordKeys(r) # {}
      /\ MappingError(o.draft, o.case.revised) = "none"
      /\ LET cited == Mapped(o.draft).provenance IN
         \A k \in DOMAIN cited : cited[k] \subseteq o.draft.provenance

\* A page that contradicts itself is never composed, and a draft that is ready
\* leaves nothing open: one title, a category, every specification in the
\* taxonomy and, among the symbols it shows, just one that is accepted
\* (_conflicts, _enrichment, _route, _compose).  Beside an accepted symbol the
\* code lets proposed ones pass.  The evaluation never refuses its own report.
ReadyNeedsNobody ==
  /\ outcome.error # "invalid_report"
  /\ outcome.error = "none" =>
    LET o == outcome
        heading(f) == o.case.doc.over[f.evidence[1].lines[1]]
    IN
      /\ \A f, g \in ToSet(o.draft.specifications) :
           f.path = g.path /\ f.path # "none" /\ heading(f) # heading(g) => f.value = g.value
      /\ ReadyIsSettled(o.case, o.draft)
      /\ o.draft.route = "ready_to_compose" => o.draft.category # "none"

\* A symbol is accepted unasked only if two lines of the page speak for it:
\* several readings of one line are not enough (_score, _decision).
AcceptedOnTwoLines ==
  outcome.error = "none" =>
    \A m \in Accepted(outcome.case) :
      Cardinality(UNION {ToSet(e.lines) : e \in ToSet(EvidenceIn(Positive(m.breakdown)))}) >= 2
=============================================================================
